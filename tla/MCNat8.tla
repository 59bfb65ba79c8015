--------------------------------- MODULE MCNat8 ---------------------------------
(* The translations.  A gateway with four sessions over three ports (ports    *)
(* run out, wrap and come back), three hosts over two pool addresses and one  *)
(* address for static use; a carrier's pool of two addresses and three ports; *)
(* north-south flows under three keys of two devices; two companies that meet;  *)
(* sockets of applications that name what they reach.                        *)
(* They share nothing, so each behaviour works on one of them (focus).        *)
EXTENDS Nat8, Sockets

CONSTANTS s1, s2, s3, s4, a1, h1, h2, h3, p1, p2, e1, d1, d2

VARIABLE focus

MCSessions == {s1, s2, s3, s4}
MCAddrs == {a1}
MCHosts == {h1, h2, h3}
MCExternals == {p1, p2, e1}
MCStaticPairs == {<<h1, e1>>}
MCPoolCandidates == {p1, p2}
MCFlowKeys == {<<d1, 1>>, <<d1, 2>>, <<d2, 1>>}
MCInsiders == {[prefix |-> 0, host |-> 7], [prefix |-> 1, host |-> 7], [prefix |-> 1, host |-> 8]}

allVars == <<roundVars, cgnatVars, flowTableVars, interopVars, socketVars, focus>>

(* A public service, its even host registered for another ASN too.           *)
MCService == [asn |-> 64496, base |-> <<198, 51, 100>>]
MCRecords == {[asn |-> asn8, host |-> <<198, 51, 100, 2>>] : asn8 \in {64496, 65536}}
               \cup {[asn |-> 64496, host |-> <<198, 51, 100, 3>>]}
MCRemote == {[asn |-> 65536, host |-> <<198, 51, 100, 3>>]}

(* What a behaviour does not work on is in one fixed state.                  *)
GatewayIdle == mode = "pat" /\ RoundInit
CgnatIdle == asn = 0 /\ CgnatInit
SocketIdle == strategy = "round_robin" /\ SocketInit

MCInit ==
  \/ focus = "gateway" /\ RoundInit /\ CgnatIdle /\ XlateInit /\ InteropInit /\ SocketIdle
  \/ focus = "cgnat" /\ GatewayIdle /\ CgnatInit /\ XlateInit /\ InteropInit /\ SocketIdle
  \/ /\ focus \in {"flow", "interop", "sockets"} /\ GatewayIdle /\ CgnatIdle /\ XlateInit /\ InteropInit
     /\ IF focus = "sockets" THEN SocketInit ELSE SocketIdle

MCNext ==
  /\ \/ focus = "gateway" /\ RoundNext /\ UNCHANGED <<cgnatVars, flowTableVars, interopVars, socketVars>>
     \/ focus = "cgnat" /\ CgnatNext /\ UNCHANGED <<roundVars, flowTableVars, interopVars, socketVars>>
     \/ focus = "flow" /\ XlateNext /\ UNCHANGED <<roundVars, cgnatVars, interopVars, socketVars>>
     \/ focus = "interop" /\ InteropNext /\ UNCHANGED <<roundVars, cgnatVars, flowTableVars, socketVars>>
     \/ focus = "sockets" /\ SocketNext /\ UNCHANGED <<roundVars, cgnatVars, flowTableVars, interopVars>>
  /\ UNCHANGED focus

MCSafe == MCInit /\ [][MCNext]_allVars

MCSpec ==
  /\ MCSafe
  /\ WF_vars(focus = "gateway" /\ PatTickStep)
  /\ WF_vars(focus = "gateway" /\ PatTrafficStep)
================================================================================
