----------------------------- MODULE RunnableFifo ------------------------------
(***************************************************************************)
(* What RunnableQueue promises: a line of distinct threads, joined at the  *)
(* back or at the front, left at the front or, on removal, from anywhere.  *)
(* The line is the set of its threads and the relation of who is before    *)
(* whom.                                                                   *)
(***************************************************************************)
CONSTANTS ThreadIds, None

VARIABLES line,     \* the threads that are queued
          before,   \* <<t, u>>: t is ahead of u
          front,    \* those that joined at the front
          result    \* of the last call

fifoVars == <<line, before, front, result>>

FifoInit == line = {} /\ before = {} /\ front = {} /\ result = None

Join(t) ==
    /\ line' = line \cup {t}
    /\ before' = before \cup (IF t \in line THEN {} ELSE line \X {t})
    /\ result' = None
    /\ UNCHANGED front

JoinFront(t) ==
    /\ line' = line \cup {t}
    /\ before' = before \cup (IF t \in line THEN {} ELSE {t} \X line)
    /\ front' = front \cup (IF t \in line THEN {} ELSE {t})
    /\ result' = None

\* t and its place are gone.
Without(t) ==
    /\ line' = line \ {t}
    /\ before' = {p \in before : p[1] # t /\ p[2] # t}
    /\ front' = front \ {t}

Leave ==
    \/ /\ line = {}
       /\ result' = None
       /\ UNCHANGED <<line, before, front>>
    \/ \E t \in line :
         /\ \A u \in line \ {t} : <<t, u>> \in before
         /\ Without(t)
         /\ result' = <<t, t \in front>>

TakeOut(t) ==
    /\ Without(t)
    /\ result' = <<t, t \in line>>

FifoNext ==
    \/ \E t \in ThreadIds : Join(t) \/ JoinFront(t) \/ TakeOut(t)
    \/ Leave

FifoSpec == FifoInit /\ [][FifoNext]_fifoVars

===============================================================================
