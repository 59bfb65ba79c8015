------------------------------- MODULE MCMultiZone -------------------------------
(* Two zones.  Leases and routes, tokens and keys, and access rules share no *)
(* state, so each behaviour works on one of the three (focus), the last two  *)
(* in one zone, with tokens of one device and rules of the primary's engine. *)
(* A cloud's VPCs, a device's VRFs and the bridges of a segment, which the   *)
(* zones do not touch either, have behaviours of their own.                  *)
EXTENDS MultiZone, Fabric, TLC

CONSTANTS z1, z2, k, s1, s2, dev1, dev2, gateway

VARIABLE focus

MCNetwork == z1 :> [prefix |-> <<127, 1, 0, 0>>, net |-> <<10, 0, 1>>] @@
             z2 :> [prefix |-> <<127, 2, 0, 0>>, net |-> <<10, 0, 1>>]
MCKeyOf == z1 :> k @@ z2 :> k
MCSecretOf == z1 :> s1 @@ z2 :> s2

(* A route for a prefix and a default route.                                *)
MCVrfRoutes == {[dest |-> <<0, 0, 251, 240>>, next |-> "a"], [dest |-> Zero, next |-> "b"]}

MCInit ==
  /\ Init /\ FabricInit
  /\ focus \in {"leases", "tokens", "rules", "vpcs", "vrfs", "bridges"}

Focused ==
  \/ /\ focus = "leases"
     /\ UNCHANGED <<revokedTokens, tokens>>
     /\ zones' = zones => UNCHANGED <<keys, rules>>
  \/ /\ focus = "tokens"
     /\ UNCHANGED <<dhcpVars, links>>
     /\ \A token \in tokens' : token.subject = dev1
     /\ zones' \subseteq {z1}
     /\ zones' = zones => UNCHANGED rules
  \/ /\ focus = "rules"
     /\ UNCHANGED <<dhcpVars, revokedTokens, tokens, now, links>>
     /\ zones' \subseteq {z1}
     /\ zones' = zones => UNCHANGED keys /\ rules'[Secondary(z1)] = << >>

FabricFocused ==
  /\ focus # "vpcs" => UNCHANGED vpcVars
  /\ focus # "vrfs" => UNCHANGED vrfVars
  /\ focus # "bridges" => UNCHANGED bridges

MCNext ==
  /\ \/ Next /\ Focused /\ UNCHANGED fabricVars
     \/ FabricNext /\ FabricFocused /\ UNCHANGED vars
  /\ UNCHANGED focus

MCSpec == MCInit /\ [][MCNext]_<<vars, fabricVars, focus>>
================================================================================
