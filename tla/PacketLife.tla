------------------------------- MODULE PacketLife -------------------------------
(***************************************************************************)
(* What forwarding promises, however it finds its way: a packet that was   *)
(* sent moves from node to node, spends one hop of its allowance on each   *)
(* move, and ends once - delivered to a node that has the address it was   *)
(* sent to, or dropped.                                                    *)
(***************************************************************************)
EXTENDS Naturals

CONSTANTS Places, Ends,   \* nodes and addresses
          Owner,          \* the address of each node
          Allowance       \* hops a packet may make

VARIABLES fate,    \* of the last packet: "none", "moving", "delivered", "dropped"
          place,   \* where it is
          goal,    \* the address it was sent to
          left     \* what is left of its allowance

lifeVars == <<fate, place, goal, left>>

Start ==
  /\ fate # "moving"
  /\ fate' = "moving" /\ left' = Allowance
  /\ place' \in Places /\ goal' \in Ends

Move ==
  /\ fate = "moving" /\ left > 1
  /\ left' = left - 1 /\ place' \in Places
  /\ UNCHANGED <<fate, goal>>

(* The last move may be into the hands of the addressee.                    *)
Deliver ==
  /\ fate = "moving"
  /\ fate' = "delivered"
  /\ place' \in Places /\ Owner[place'] = goal
  /\ UNCHANGED <<goal, left>>

Drop ==
  /\ fate = "moving"
  /\ fate' = "dropped"
  /\ UNCHANGED <<place, goal>> /\ left' \in {left, left - 1}

LifeNext == Start \/ Move \/ Deliver \/ Drop

LifeInit == fate = "none" /\ place \in Places /\ goal \in Ends /\ left = Allowance

LifeSpec == LifeInit /\ [][LifeNext]_lifeVars
================================================================================
