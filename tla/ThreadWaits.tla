------------------------------ MODULE ThreadWaits ------------------------------
(***************************************************************************)
(* What a virtual thread can wait for inside the orchestrator: a message   *)
(* of its mailbox, with or without a sender and a timeout, a timer, the    *)
(* exit of another thread, the answer of a host, and several of these at   *)
(* once with await(all) and await(race).                                   *)
(*                                                                         *)
(* The orchestrator handles one event at a time on one thread, so its      *)
(* state is one record, o, the handlers are operators on it, and an action *)
(* is a whole event: process_event and the finish_pending_aggregates that  *)
(* follows it.  Virtual time is kept relative: a deadline holds the        *)
(* milliseconds that are left, and Tick takes one from each.  The any- and *)
(* by-sender queues of a mailbox with their sequence numbers are one list  *)
(* of waits in order of registration.  Thread ids are not reused, and the  *)
(* kernel's queues are those of VirtualKernel: here a thread only runs, is *)
(* blocked, has exited or is gone.                                         *)
(***************************************************************************)
EXTENDS Naturals, FiniteSets, Sequences, SequencesExt

CONSTANTS Threads, FutureIds, Coordinators,
          Ops,              \* the operations and host calls of each thread's program
          RaceOps,          \* those that programs pass to await(race)
          Links,            \* pairs of threads, sender and receiver, that talk
          MaxMailbox,       \* quota: messages in one mailbox
          MaxSends,         \* bound: messages from one thread to another
          MaxGeneration,    \* bound: allocations of one future id
          Anyone, Forever      \* no sender given, no timeout given

VARIABLE o

\* An operation: peer is a sender or a thread to wait for, ms a duration.
Op == [kind : {"receive", "sleep", "wait", "host"}, peer : Threads \cup {Anyone},
       ms : Nat \cup {Forever}]

ASSUME OpsAssumption == Ops \in [Threads -> SUBSET Op] /\ RaceOps \subseteq Op

NoOp == [kind |-> "none", peer |-> Anyone, ms |-> Forever]
Null == [from |-> Anyone, n |-> 0]             \* a result without a message
NoValue == [from |-> Anyone, n |-> 1]

Absent == [state |-> "absent", op |-> NoOp, direct |-> FALSE, waiters |-> {},
           value |-> NoValue]

\* AggregateCoordinator; mode "none" stands for an id that is not in use.
NoCoordinator == [mode |-> "none", thread |-> Anyone, members |-> <<>>,
                  results |-> <<>>, winner |-> 0, armed |-> FALSE]

\* A waiter is the thread itself or a member of an aggregate.
Self == <<0, 0>>

Init ==
    o = [thread |-> [t \in Threads |-> "running"],
         rec |-> [t \in Threads |-> [f \in FutureIds |-> Absent]],
         held |-> [t \in Threads |-> {}],
         gen |-> [f \in FutureIds |-> 0],
         active |-> {},
         mailbox |-> [t \in Threads |-> <<>>],
         used |-> [t \in Threads |-> 0],
         waits |-> [t \in Threads |-> <<>>],
         targets |-> {},
         deadlines |-> {},
         timers |-> {},
         exits |-> [t \in Threads |-> <<>>],
         requests |-> {},
         coord |-> [c \in Coordinators |-> NoCoordinator],
         finish |-> {},
         sent |-> [t \in Threads |-> [s \in Threads |-> 0]],
         got |-> [t \in Threads |-> [s \in Threads |-> 0]],
         left |-> {},       \* waits that a finished race left armed
         astray |-> {}]     \* the first wait to complete another future or to take a message for none

-------------------------------------------------------------------------------
(* Ids, waiters and completion. *)

Lease(s, f) == <<f, s.gen[f]>>

Alive(s, t) == s.thread[t] \in {"running", "blocked"}

\* discard and free_future_id.
Discarded(s, t, f) ==
    [s EXCEPT !.rec[t][f] = Absent, !.active = @ \ {f}]

\* The member's result is stored; the winner of a race is the first event's
\* lowest index.  armed members ask for the coordinator to be finished.
complete_aggregate_member(s, c, i, val) ==
    LET k == s.coord[c]
        first == k.winner = 0 \/ (c \in s.finish /\ i < k.winner)
        kept == CASE k.mode = "all" /\ k.results[i] = NoValue -> [k EXCEPT !.results[i] = val]
                  [] k.mode = "race" /\ first -> [k EXCEPT !.winner = i]
                  [] OTHER -> k
    IN IF k.mode = "none" THEN s
       ELSE [s EXCEPT !.coord[c] = kept,
                      !.finish = IF k.armed THEN @ \cup {c} ELSE @]

\* The kernel unblocks the thread; a thread that a message has woken already
\* goes on with what it does.
resume_pending(s, t, w, val) ==
    IF w # Self THEN complete_aggregate_member(s, w[1], w[2], val)
    ELSE [s EXCEPT !.thread[t] = IF @ = "blocked" THEN "running" ELSE @]

\* complete_future: a record that is absent or resolved ignores the result.
\* by is the generation of the wait that completes it.
complete_future(s, t, f, by, val) ==
    LET r == s.rec[t][f]
        pending == r.state \in {"created", "running"}
        stray == s.astray = {} /\ (IF pending THEN by # s.gen[f] ELSE val.n # 0)
        seen == [s EXCEPT !.astray = IF stray THEN {<<t, <<f, by>>>>} ELSE @]
        resolved == [seen EXCEPT !.rec[t][f] = [r EXCEPT !.state = "resolved", !.waiters = {},
                                                         !.value = val],
                                 !.got[t] = IF val.n = 0 THEN @ ELSE [@ EXCEPT ![val.from] = val.n]]
        resumed == FoldLeft(LAMBDA acc, w : resume_pending(acc, t, w, val),
                            resolved, SetToSeq(r.waiters))
    IN IF ~pending THEN seen
       ELSE IF r.direct THEN Discarded(resumed, t, f) ELSE resumed


\* FutureCompleted: only the current generation of the id is completed.
FutureCompleted(s, t, lease, val) ==
    IF lease[2] = s.gen[lease[1]] THEN complete_future(s, t, lease[1], lease[2], val) ELSE s

Ready(k) ==
    \/ k.mode = "all" /\ \A i \in DOMAIN k.results : k.results[i] # NoValue
    \/ k.mode = "race" /\ k.winner # 0

\* The members of a race that still wait for a timer or a message.
Armed(s, k) ==
    {<<k.thread, Lease(s, f)>> :
        f \in {f \in ToSet(k.members) : /\ s.rec[k.thread][f].state = "running"
                                        /\ s.rec[k.thread][f].op.kind \in {"sleep", "receive"}}}

\* Faulty variant: the losers of a race keep their ids.
finish_aggregate_if_ready_KeepsIds(s, c) ==
    LET k == s.coord[c]
        removed == [s EXCEPT !.coord[c] = NoCoordinator]
        discarded == IF k.mode # "race" THEN removed
                     ELSE [removed EXCEPT
                             !.rec[k.thread] = [f \in FutureIds |->
                                 IF f \in ToSet(k.members) THEN Absent ELSE @[f]],
                             !.held[k.thread] = @ \ ToSet(k.members),
                             !.left = @ \cup Armed(s, k)]
    IN IF Ready(k) THEN resume_pending(discarded, k.thread, Self, Null) ELSE s

\* The coordinator is removed, the members of a race are discarded, with their
\* timers and mailbox waits left in place, and the thread is resumed.
finish_aggregate_if_ready(s, c) ==
    LET k == s.coord[c]
        removed == [s EXCEPT !.coord[c] = NoCoordinator]
        discarded == IF k.mode # "race" THEN removed
                     ELSE [removed EXCEPT
                             !.rec[k.thread] = [f \in FutureIds |->
                                 IF f \in ToSet(k.members) THEN Absent ELSE @[f]],
                             !.held[k.thread] = @ \ ToSet(k.members),
                             !.active = @ \ ToSet(k.members),
                             !.left = @ \cup Armed(s, k)]
    IN IF Ready(k) THEN resume_pending(discarded, k.thread, Self, Null) ELSE s

finish_pending_aggregates(s) ==
    [FoldLeft(LAMBDA acc, c : finish_aggregate_if_ready(acc, c), s, SetToSeq(s.finish))
        EXCEPT !.finish = {}]

-------------------------------------------------------------------------------
(* Mailboxes. *)

Matches(peer, from) == peer = Anyone \/ peer = from

\* Faulty variant: the newest message is taken.
Position_Newest(s, t, peer) ==
    SelectLastInSeq(s.mailbox[t], LAMBDA m : Matches(peer, m.from))

\* The position of the first message that a receive takes, or 0.
Position(s, t, peer) ==
    SelectInSeq(s.mailbox[t], LAMBDA m : Matches(peer, m.from))

\* The message is removed and its place in the mailbox quota released.
Taken(s, t, i) ==
    [s EXCEPT !.mailbox[t] = RemoveAt(@, i),
              !.used[t] = IF @ = 0 THEN 0 ELSE @ - 1]

Delivered(s, t, m) == [s EXCEPT !.got[t][m.from] = m.n]

Registered(s, t, wait) == <<t, wait.lease>> \in s.targets

register_mailbox_future_wait(s, t, f, op) ==
    LET wait == [lease |-> Lease(s, f), peer |-> op.peer] IN
    [s EXCEPT !.targets = {x \in @ : x[1] # t \/ x[2][1] # f} \cup {<<t, wait.lease>>},
              !.waits[t] = Append(@, wait),
              !.deadlines = IF op.ms = Forever THEN @
                            ELSE @ \cup {[left |-> op.ms, thread |-> t, wait |-> wait]}]

remove_mailbox_future_wait(s, t, f) ==
    [s EXCEPT !.targets = {x \in @ : x[1] # t \/ x[2][1] # f}]

\* The oldest wait that accepts this sender, or 0.
next_mailbox_wait(s, t, from) ==
    SelectInSeq(s.waits[t], LAMBDA w : Matches(w.peer, from))

\* Waits that are not registered any more are popped; the first one that is
\* gets the first message it accepts, without a release of the mailbox quota.
RECURSIVE complete_mailbox_future_waits(_, _, _)
complete_mailbox_future_waits(s, t, from) ==
    LET i == next_mailbox_wait(s, t, from)
        w == s.waits[t][i]
        popped == [s EXCEPT !.waits[t] = RemoveAt(@, i)]
        m == Position(s, t, w.peer)
        served == [popped EXCEPT !.mailbox[t] = RemoveAt(@, m),
                                 !.targets = @ \ {<<t, w.lease>>}]
    IN IF i = 0 THEN s
       ELSE IF ~Registered(s, t, w) THEN complete_mailbox_future_waits(popped, t, from)
       ELSE IF m = 0 THEN s
       ELSE complete_mailbox_future_waits(
                complete_future(served, t, w.lease[1], w.lease[2], s.mailbox[t][m]), t, from)

-------------------------------------------------------------------------------
(* Starting an operation. *)

\* start_activation: the operation either completes at once or registers what
\* it waits for.
start_activation(s, t, f) ==
    LET op == s.rec[t][f].op
        started == [s EXCEPT !.rec[t][f].state = "running"]
        m == Position(s, t, op.peer)
        now(acc, val) == complete_future(acc, t, f, s.gen[f], val)
    IN CASE op.kind = "host" -> [started EXCEPT !.requests = @ \cup {<<t, Lease(s, f)>>}]
         [] op.kind = "sleep" ->
              [started EXCEPT !.timers = @ \cup
                  {[left |-> op.ms, thread |-> t, lease |-> Lease(s, f)]}]
         [] op.kind = "wait" ->
              IF Alive(s, op.peer)
                THEN [started EXCEPT !.exits[op.peer] = Append(@, <<t, Lease(s, f)>>)]
                ELSE now(started, Null)
         [] op.kind = "receive" ->
              IF m = 0 THEN register_mailbox_future_wait(started, t, f, op)
                       ELSE now(Taken(started, t, m), s.mailbox[t][m])

\* handle_future_wait for a waiter w of the thread's own future f.
handle_future_wait(s, t, f, w) ==
    LET r == s.rec[t][f]
        waiting == [s EXCEPT !.rec[t][f].waiters = @ \cup {w}]
    IN CASE r.state = "resolved" -> resume_pending(s, t, w, r.value)
         [] r.state = "running" -> waiting
         [] r.state = "created" -> start_activation(waiting, t, f)

Blocked(s, t) == [s EXCEPT !.thread[t] = "blocked"]

\* What an event does, and then the aggregates it completed.
Event(s) == o' = finish_pending_aggregates(s)

Calling(t) == o.thread[t] = "running"

Allocated(s, t, f, op, direct) ==
    [s EXCEPT !.active = @ \cup {f}, !.gen[f] = @ + 1,
              !.rec[t][f] = [Absent EXCEPT !.state = "created", !.op = op, !.direct = direct]]

CanAllocate(f) == f \notin o.active /\ o.gen[f] < MaxGeneration

\* try_complete_internal_await answers without a future: a sleep of zero, a
\* message that is there, a thread that is not.
Immediate(t, op) ==
    \/ op.kind = "sleep" /\ op.ms = 0
    \/ op.kind = "receive" /\ Position(o, t, op.peer) # 0
    \/ op.kind = "wait" /\ ~Alive(o, op.peer)


-------------------------------------------------------------------------------
(* Events. *)

\* handle_create_await_future, answered at once.
AwaitImmediate(t, op) ==
    /\ Calling(t)
    /\ Immediate(t, op)
    /\ LET m == Position(o, t, op.peer) IN
       Event(IF op.kind # "receive" THEN o
             ELSE Delivered(Taken(o, t, m), t, o.mailbox[t][m]))

\* handle_create_await_future that has to wait: the future is never seen by
\* the program.
AwaitDirect(t, op, f) ==
    /\ Calling(t)
    /\ op.kind # "host" /\ ~Immediate(t, op)
    /\ CanAllocate(f)
    /\ Event(handle_future_wait(Blocked(Allocated(o, t, f, op, TRUE), t), t, f, Self))

CreateFuture(t, op, f) ==
    /\ Calling(t)
    /\ CanAllocate(f)
    /\ Event([Allocated(o, t, f, op, FALSE) EXCEPT !.held[t] = @ \cup {f}])

AwaitFuture(t, f) ==
    /\ Calling(t)
    /\ f \in o.held[t]
    /\ Event(handle_future_wait(Blocked(o, t), t, f, Self))

\* handle_future_dropped: a future with waiters is kept.
DropFuture(t, f) ==
    /\ Calling(t)
    /\ f \in o.held[t]
    /\ LET s == [remove_mailbox_future_wait(o, t, f) EXCEPT !.held[t] = @ \ {f}] IN
       Event(IF o.rec[t][f].waiters # {} THEN s ELSE Discarded(s, t, f))

\* begin_aggregate_wait: the members are registered one after the other, the
\* coordinator is armed, the thread blocks, and a coordinator that is ready
\* already finishes.
BeginAggregate(t, c, mode, members) ==
    /\ Calling(t)
    /\ o.coord[c] = NoCoordinator
    /\ ToSet(members) \subseteq o.held[t]
    /\ mode = "race" => \A i \in DOMAIN members : o.rec[t][members[i]].op \in RaceOps
    /\ LET new == [NoCoordinator EXCEPT !.mode = mode, !.thread = t, !.members = members,
                        !.results = [i \in DOMAIN members |-> NoValue]]
           registered == FoldLeft(LAMBDA s, i : handle_future_wait(s, t, members[i], <<c, i>>),
                                  [o EXCEPT !.coord[c] = new],
                                  [i \in DOMAIN members |-> i])
           armed == Blocked([registered EXCEPT !.coord[c].armed = TRUE], t)
       IN Event(finish_aggregate_if_ready(armed, c))

\* Faulty variant: the message only wakes the target.
Send_Unserved(s, t) ==
    /\ Calling(s)
    /\ Alive(o, t)
    /\ o.sent[t][s] < MaxSends
    /\ o.used[t] < MaxMailbox
    /\ Event([o EXCEPT !.sent[t][s] = @ + 1,
                       !.used[t] = @ + 1,
                       !.mailbox[t] = Append(@, [from |-> s, n |-> o.sent[t][s] + 1]),
                       !.thread[t] = "running"])

\* send_internal_thread_message: refused by the quota of the mailbox, or
\* appended; the target is unblocked whatever it waits for, and then the
\* receives that wait for this sender are served.
Send(s, t) ==
    /\ Calling(s)
    /\ Alive(o, t)
    /\ o.sent[t][s] < MaxSends
    /\ o.used[t] < MaxMailbox
    /\ LET accepted == [o EXCEPT !.sent[t][s] = @ + 1,
                                 !.used[t] = @ + 1,
                                 !.mailbox[t] = Append(@, [from |-> s, n |-> o.sent[t][s] + 1]),
                                 !.thread[t] = "running"]
       IN Event(complete_mailbox_future_waits(accepted, t, s))

\* __internal_thread_get_message and try_receive: they never wait.
TryReceive(t, peer) ==
    /\ Calling(t)
    /\ LET m == Position(o, t, peer) IN
       /\ m # 0
       /\ Event(Delivered(Taken(o, t, m), t, o.mailbox[t][m]))

HostAnswers(r) ==
    /\ Event([FutureCompleted(o, r[1], r[2], Null) EXCEPT !.requests = @ \ {r}])

Elapse(S) == {[d EXCEPT !.left = IF @ = 0 THEN 0 ELSE @ - 1] : d \in S}

Due(S) == {d \in S : d.left = 0}

\* Tick: first the deadlines of the mailbox waits, then the timers.  The wait
\* that expires is unregistered, its entry in the list stays behind.
Tick ==
    /\ o.deadlines \cup o.timers # {}
    /\ LET deadlines == Elapse(o.deadlines)
           timers == Elapse(o.timers)
           expired == {d \in Due(deadlines) : Registered(o, d.thread, d.wait)}
           unregistered == [o EXCEPT !.deadlines = deadlines \ Due(deadlines),
                                     !.timers = timers \ Due(timers),
                                     !.targets = @ \ {<<d.thread, d.wait.lease>> : d \in expired}]
           timedOut == FoldLeft(LAMBDA s, d :
                           complete_future(s, d.thread, d.wait.lease[1], d.wait.lease[2], Null),
                           unregistered, SetToSeq(expired))
       IN Event(FoldLeft(LAMBDA s, d :
                    complete_future(s, d.thread, d.lease[1], d.lease[2], Null),
                    timedOut, SetToSeq(Due(timers))))

\* cancel_thread_futures.
WithoutFutures(s, t) ==
    [s EXCEPT !.active = @ \ {f \in FutureIds : s.rec[t][f].state # "absent"},
              !.rec[t] = [f \in FutureIds |-> Absent],
              !.held[t] = {}]

\* Exited: the futures of the thread are discarded, its mailbox is closed and
\* those that wait for it are told.
Exit(t) ==
    /\ Calling(t)
    /\ LET exited == [WithoutFutures(o, t) EXCEPT !.thread[t] = "exited", !.mailbox[t] = <<>>,
                                                  !.exits[t] = <<>>]
       IN Event(FoldLeft(LAMBDA s, w : FutureCompleted(s, w[1], w[2], Null), exited, o.exits[t]))

\* CancelThread: the control block is removed and nobody is told.
CancelThread(t) ==
    /\ Alive(o, t)
    /\ Event([WithoutFutures(o, t) EXCEPT !.thread[t] = "gone", !.mailbox[t] = <<>>])

\* Pairs of distinct futures, in the order they are written.
Pairs(S) == {<<f, g>> : f \in S, g \in S} \ {<<f, f>> : f \in S}

Next ==
    \/ \E t \in Threads : \E op \in Ops[t] : AwaitImmediate(t, op)
    \/ \E t \in Threads : \E op \in Ops[t], f \in FutureIds : AwaitDirect(t, op, f)
    \/ \E t \in Threads : \E op \in Ops[t], f \in FutureIds : CreateFuture(t, op, f)
    \/ \E t \in Threads, f \in FutureIds : AwaitFuture(t, f)
    \/ \E t \in Threads, f \in FutureIds : DropFuture(t, f)
    \/ \E t \in Threads, c \in Coordinators, mode \in {"all", "race"}, fs \in Pairs(FutureIds) :
          BeginAggregate(t, c, mode, fs)
    \/ \E l \in Links : Send(l[1], l[2])
    \/ \E t \in Threads, peer \in Threads \cup {Anyone} : TryReceive(t, peer)
    \/ \E r \in o.requests : HostAnswers(r)
    \/ Tick
    \/ \E t \in Threads : Exit(t)
    \/ \E t \in Threads : CancelThread(t)

Spec == Init /\ [][Next]_o

-------------------------------------------------------------------------------
(* Properties. *)

Numbers(t, s) == SelectSeq(o.mailbox[t], LAMBDA m : m.from = s)

\* Between a sender and a receiver that lives, the messages in the mailbox are
\* those that were accepted and not yet handed to the receiver, in the order
\* they were sent: whatever mixture of blocking, timed and non-blocking
\* receives takes them, no message is lost, duplicated or overtaken
\* (send_internal_thread_message, complete_mailbox_future_waits), as long as no
\* wait left behind by a race has fired.
MessagesInOrder ==
    o.astray = {} => \A t, s \in Threads : Alive(o, t) =>
        LET q == Numbers(t, s) IN
        /\ Len(q) = o.sent[t][s] - o.got[t][s]
        /\ \A i \in DOMAIN q : q[i].n = o.got[t][s] + i

\* A future that runs and that the program can still ask about: a thread that
\* a message woke too early may drop a future it waits for.
Running(t, f, kind) ==
    /\ o.rec[t][f].state = "running" /\ o.rec[t][f].op.kind = kind
    /\ f \in o.held[t] \/ o.rec[t][f].direct

ReceiveIsServed ==
    \A t \in Threads, f \in FutureIds :
        Running(t, f, "receive") =>
            /\ <<t, Lease(o, f)>> \in o.targets
            /\ \E w \in ToSet(o.waits[t]) : w.lease = Lease(o, f) /\ w.peer = o.rec[t][f].op.peer
            /\ Position(o, t, o.rec[t][f].op.peer) = 0

TimersArePending ==
    \A t \in Threads, f \in FutureIds :
        /\ Running(t, f, "sleep") =>
              \E d \in o.timers : d.thread = t /\ d.lease = Lease(o, f) /\ d.left > 0
        /\ Running(t, f, "receive") /\ o.rec[t][f].op.ms # Forever =>
              \E d \in o.deadlines : d.thread = t /\ d.wait.lease = Lease(o, f) /\ d.left > 0


ExitIsTold ==
    \A t \in Threads, f \in FutureIds :
        Running(t, f, "wait") => o.thread[o.rec[t][f].op.peer] # "exited"

AggregateIsServed ==
    \A c \in Coordinators :
        LET k == o.coord[c]
            waiting == {i \in DOMAIN k.members : <<c, i>> \in o.rec[k.thread][k.members[i]].waiters}
        IN k.mode # "none" /\ Alive(o, k.thread) =>
               /\ waiting # {}
               /\ k.mode = "race" => waiting = DOMAIN k.members

\* Whatever waits is served.  A receive that waits is registered, is in the
\* list of waits, and no message that it accepts is in the mailbox: no wakeup
\* is lost between the look at the mailbox and the registration, or when stale
\* waits are popped.  What runs against the time has its own timer or deadline,
\* which is not yet due (expire_mailbox_future_waits, expire_timer_future_waits).
\* Thread::wait on a thread that exits is answered in the same event, and none
\* is registered with a thread that has exited.  A coordinator still waits for
\* something: one of its members, for await(all), or all of them, for
\* await(race), have the coordinator among their waiters (those of a cancelled
\* thread are the exception: nothing removes them).  This holds until a wait
\* left behind by a race fires for another future.
WaitsAreServed ==
    o.astray = {} => ReceiveIsServed /\ TimersArePending /\ ExitIsTold /\ AggregateIsServed

\* A future id is in use exactly as long as one thread has a record for it:
\* completions of direct awaits, races, drops and exits each free it once.
IdsExact ==
    /\ \A f \in FutureIds :
          f \in o.active <=> \E t \in Threads : o.rec[t][f].state # "absent"
    /\ \A f \in FutureIds, t, u \in Threads :
          o.rec[t][f].state # "absent" /\ o.rec[u][f].state # "absent" => t = u

===============================================================================
