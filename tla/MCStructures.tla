----------------------------- MODULE MCStructures -----------------------------
(* Small instances of the id manager, of the runnable queue and of a VM      *)
(* thread with its heap: a behaviour is one of one of them.                  *)
EXTENDS IdManager, RunnableQueue, VmThread

CONSTANTS t1, t2, t3,
          Parts   \* the structures to check

VARIABLE part

MCThreads == {t1, t2, t3}

Mode(instructions, every, depth) == [instructions |-> instructions, every |-> every, depth |-> depth]

\* Calls and stores that count, of a program that ends before it collects; and
\* the instructions that do not count too, collecting at every second allocation.
Counted == Mode(Counting \ {"NewHandle"}, 500, 2)
Uncounted == Mode({"AllocLocal", "NewHandle", "NewTuple", "StoreField", "LoadNull", "RetNull",
                   "LoadField", "CopyArray", "Copy", "TailCall"}, 2, 1)
MCModes == {Counted, Uncounted}

\* Graphs that share objects, with a collection while they do.
MCSharing == {Mode({"AllocLocal", "StoreField", "Move", "LoadNull", "NewTuple"}, 4, 1)}

MCInit ==
    /\ part \in Parts
    /\ Init /\ QueueInit /\ VmInit
    /\ part # "vm" => mode = CHOOSE m \in Modes : TRUE

MCNext ==
    /\ UNCHANGED part
    /\ \/ part = "ids" /\ Next /\ UNCHANGED <<queueVars, vmVars>>
       \/ part = "queue" /\ QueueNext /\ UNCHANGED <<vars, vmVars>>
       \/ part = "vm" /\ VmNext /\ UNCHANGED <<vars, queueVars>>

MCSpec == MCInit /\ [][MCNext]_<<part, vars, queueVars, vmVars>>
===============================================================================
