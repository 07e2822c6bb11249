------------------------------- MODULE IdManager -------------------------------
(***************************************************************************)
(* LocalIdManager (galfus-core/src/id_manager.rs): the allocator of every  *)
(* id domain of the runtime (threads, futures, requests, coordinators,     *)
(* timers).  An id that was freed is handed out again, the one freed last  *)
(* first; freeing an id that is not active is ignored.                     *)
(*                                                                         *)
(* MaxId stands for u32::MAX, past which next_id is None.                  *)
(***************************************************************************)
EXTENDS Naturals, Sequences

CONSTANT MaxId

ASSUME IdAssumption == MaxId \in Nat \ {0}

VARIABLES next_id,      \* the lowest id never handed out, MaxId + 1 for None
          free_list,    \* freed ids, the next one to reuse last
          active_ids,   \* ids handed out and not freed
          returned      \* what the last call returned: {id} for Some(id), else {}

vars == <<next_id, free_list, active_ids, returned>>

Ids == 1 .. MaxId

Init ==
    /\ next_id = 1
    /\ free_list = <<>>
    /\ active_ids = {}
    /\ returned = {}

\* Faulty variant: the reused id is read off the free list and left there.
Reuse_Kept ==
    /\ free_list # <<>>
    /\ active_ids' = active_ids \cup {free_list[Len(free_list)]}
    /\ returned' = {free_list[Len(free_list)]}
    /\ UNCHANGED <<next_id, free_list>>

\* try_allocate when the free list has an id.
Reuse ==
    /\ free_list # <<>>
    /\ active_ids' = active_ids \cup {free_list[Len(free_list)]}
    /\ returned' = {free_list[Len(free_list)]}
    /\ free_list' = SubSeq(free_list, 1, Len(free_list) - 1)
    /\ UNCHANGED next_id

\* try_allocate when the free list is empty: the next id, if there is one.
Advance ==
    /\ free_list = <<>>
    /\ next_id \in Ids
    /\ active_ids' = active_ids \cup {next_id}
    /\ returned' = {next_id}
    /\ next_id' = next_id + 1
    /\ UNCHANGED free_list

\* try_allocate returns None.
Exhausted ==
    /\ free_list = <<>>
    /\ next_id \notin Ids
    /\ returned' = {}
    /\ UNCHANGED <<next_id, free_list, active_ids>>

\* Faulty variant: the duplicate check is missing.
free_Unchecked(id) ==
    /\ active_ids' = active_ids \ {id}
    /\ free_list' = Append(free_list, id)
    /\ returned' = {}
    /\ Len(free_list) < MaxId
    /\ UNCHANGED next_id

free(id) ==
    /\ active_ids' = active_ids \ {id}
    /\ free_list' = IF id \in active_ids THEN Append(free_list, id) ELSE free_list
    /\ returned' = {}
    /\ UNCHANGED next_id

Next == Reuse \/ Advance \/ Exhausted \/ \E id \in Ids : free(id)

Spec == Init /\ [][Next]_vars

-------------------------------------------------------------------------------

\* Every variable has its type (IdManagerState).
TypeOK ==
    /\ next_id \in 1 .. MaxId + 1
    /\ free_list \in Seq(Ids)
    /\ active_ids \in SUBSET Ids
    /\ returned \in SUBSET Ids

\* An id below next_id is either held or on the free list, never both and on
\* the list only once: the ids on the list are distinct, none is active, and
\* no id is lost.  It takes a stale second free of a reused id to break it,
\* which the duplicate check of `free` prevents.
Partition ==
    /\ \A i \in 1 .. Len(free_list) :
          /\ free_list[i] < next_id
          /\ free_list[i] \notin active_ids
          /\ \A j \in 1 .. Len(free_list) : free_list[i] = free_list[j] => i = j
    /\ \A id \in active_ids : id < next_id
    /\ \A id \in 1 .. next_id - 1 :
          id \notin active_ids => \E i \in 1 .. Len(free_list) : free_list[i] = id

Pool == INSTANCE IdPool

\* The manager does what IdPool promises: an id that try_allocate returns was
\* held by nobody, and None means that every id is held.
ImplementsPool == Pool!Spec

================================================================================
