------------------------------- MODULE MCRuntime -------------------------------
(* Small instances of the orchestrator's scheduling: the native driver under  *)
(* its loop, and the virtual kernel under the events of thread tasks.  A      *)
(* behaviour is one of one of them; the other has ended.                      *)
EXTENDS NativeDriver, ThreadScheduler

CONSTANTS k1,
          Parts   \* the parts to check

MCEvents == [kind : {"yielded", "syscall", "exited", "completed"}, thread : Threads]
MCThreadIds == 1..2
MCKeys == {k1}

DriverOver == DriverStart("closed", "exited", <<>>)
KernelOver ==
    /\ kernel = NewKernel /\ waits = [t \in ThreadIds |-> 0]
    /\ tasks = {} /\ owed = {} /\ fronted = FALSE /\ status = "failed"

MCInit ==
    \/ "driver" \in Parts /\ DriverInit /\ KernelOver
    \/ "kernel" \in Parts /\ Init /\ DriverOver

MCNext ==
    \/ DriverNext /\ UNCHANGED vars
    \/ Next /\ UNCHANGED driverVars

MCSpec == MCInit /\ [][MCNext]_<<driverVars, vars>>

MCLiveSpec == MCSpec /\ DriverFairness /\ Fairness
================================================================================
