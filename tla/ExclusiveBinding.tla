--------------------------- MODULE ExclusiveBinding ---------------------------
(***************************************************************************)
(* What port translation promises: every client holds at most one slot, a  *)
(* slot is held by at most one client, and a client that holds a slot      *)
(* keeps that slot until it is evicted.  One call of the gateway may evict *)
(* clients whose entries have lapsed and then bind one client to a slot    *)
(* nobody holds any more.                                                  *)
(***************************************************************************)
CONSTANTS Clients, Slots, None      \* None is not one of the Slots

VARIABLE held       \* client -> the slot it holds, or None

Init == held = [c \in Clients |-> None]

Without(R) == [c \in Clients |-> IF c \in R THEN None ELSE held[c]]

Evict(R) == held' = Without(R)

EvictAndBind(R, c, s) ==
  /\ Without(R)[c] = None
  /\ \A d \in Clients : Without(R)[d] # s
  /\ held' = [Without(R) EXCEPT ![c] = s]

Next ==
  \E R \in SUBSET Clients :
    \/ Evict(R)
    \/ \E c \in Clients, s \in Slots : EvictAndBind(R, c, s)

Spec == Init /\ [][Next]_held
===============================================================================
