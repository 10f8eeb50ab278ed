---------------------------- MODULE OrderLifecycle ----------------------------
(***************************************************************************)
(* The life of an order as the shop understands it: it is placed once, it  *)
(* may be marked done, and only a done order is ever deleted, for good.    *)
(*                                                                         *)
(* An order that is placed once more begins anew, even after its deletion, *)
(* and from then on may be deleted as new: an administrator may have seen  *)
(* it done before.                                                         *)
(***************************************************************************)
CONSTANT OrderIds

VARIABLES stage,        \* "none", "new", "done" or "deleted" per order
          renewed       \* orders that were placed more than once

Move(o, from, to) == stage[o] = from /\ stage' = [stage EXCEPT ![o] = to]

Place(o)  == Move(o, "none", "new") /\ UNCHANGED renewed
Finish(o) == Move(o, "new", "done") /\ UNCHANGED renewed
Remove(o) == Move(o, "done", "deleted") /\ UNCHANGED renewed

Renew(o) ==
    /\ stage[o] # "none"
    /\ stage' = [stage EXCEPT ![o] = "new"]
    /\ renewed' = renewed \cup {o}

RemoveRenewed(o) == o \in renewed /\ Move(o, "new", "deleted") /\ UNCHANGED renewed

Init == stage = [o \in OrderIds |-> "none"] /\ renewed = {}

Next == \E o \in OrderIds :
            Place(o) \/ Finish(o) \/ Remove(o) \/ Renew(o) \/ RemoveRenewed(o)

Spec == Init /\ [][Next]_<<stage, renewed>>
=============================================================================
