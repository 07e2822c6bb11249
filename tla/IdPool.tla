--------------------------------- MODULE IdPool ---------------------------------
(***************************************************************************)
(* What an id manager promises its callers: an allocation returns some id  *)
(* that nobody holds, it fails only when every id is held, and an id is    *)
(* held until it is freed.  Which free id comes next is not promised.      *)
(***************************************************************************)
CONSTANT Ids

VARIABLES active_ids,   \* ids that are held
          returned      \* what the last call returned: {id} for Some(id), {} otherwise

Init == active_ids = {} /\ returned = {}

Allocate ==
    \E id \in Ids \ active_ids :
        /\ active_ids' = active_ids \cup {id}
        /\ returned' = {id}

Exhausted ==
    /\ active_ids = Ids
    /\ returned' = {}
    /\ UNCHANGED active_ids

Free ==
    \E id \in Ids :
        /\ active_ids' = active_ids \ {id}
        /\ returned' = {}

Next == Allocate \/ Exhausted \/ Free

Spec == Init /\ [][Next]_<<active_ids, returned>>

================================================================================
