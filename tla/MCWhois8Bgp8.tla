------------------------------ MODULE MCWhois8Bgp8 ------------------------------
(* The registry with its client, the registry's other queries, path          *)
(* selection, the board of paths, a border router's filters, and the          *)
(* onboarding of devices.  In the code they share no state, so each           *)
(* behaviour works on one of them (focus).  Of two ASNs at the queries, b has *)
(* plain records without a route.                                            *)
EXTENDS Whois8, CfBoard, EndToEnd, Border, WhoisServer

CONSTANTS near, far, b

VARIABLE focus

filterVars == <<rineAlerts, linkTraps, lengthAlerts, accepted, rejected, installed, judged>>

vars == <<whoisVars, bgpVars, e2eVars, filterVars, listed, queryVars, boardVars, focus>>

(* For one prefix: two ways to one origin, another origin, a path through     *)
(* this router (ASN 9) and a prefix too specific.                            *)
Adv(prefix, origin, path, length) ==
  [prefix |-> prefix, origin |-> origin, path |-> path, length |-> length]

MCAdverts ==
  {Adv(near, 1, <<1>>, 8), Adv(near, 1, <<2, 1>>, 8), Adv(near, 2, <<2>>, 8),
   Adv(near, 2, <<9, 2>>, 8), Adv(near, 1, <<1>>, 24), Adv(far, 1, <<1>>, 8)}

MCHopCosts == {<< >>, <<4>>, <<2, 2>>, <<5, 6>>}

MCIntrazoneValues == {-1, 3, 8}

MCBoardIntrazones == {-1, 1, 9}

(* One prefix of every class, the last two next to a reserved one.           *)
OwnPrefix == <<0, 0, 251, 240>>   \* ASN 64496
MCAsPrefixes ==
  {OwnPrefix, ZeroOctets, PeeringAsn, DocumentationAsn, <<127, 1, 0, 0>>, <<127, 127, 0, 0>>,
   <<100, 1, 0, 0>>, <<255, 255, 0, 0>>, <<255, 255, 0, 1>>, <<255, 255, 0, 3>>,
   <<255, 255, 255, 255>>, <<0, 0, 255, 252>>, <<101, 0, 0, 0>>}

MCNet == <<192, 0, 2>>

MCDestinations ==
  [prefix : MCAsPrefixes, host : {<<10, 0, 0, 1>>, <<222, 0, 0, 1>>}]
    \cup [prefix : {OwnPrefix, ZeroOctets}, host : {<<224, 0, 0, 1>>}]
MCSources ==
  {[prefix |-> OwnPrefix, host |-> <<10, 0, 0, 1>>], [prefix |-> ZeroOctets, host |-> <<222, 0, 0, 1>>],
   [prefix |-> <<127, 1, 0, 0>>, host |-> <<10, 0, 0, 1>>]}

(* On the board: a path too fast for its distance, paths of one and of two    *)
(* bad measures, one that is bad in all, one with costs by hop.              *)
AllAt(n) == [m \in Measures |-> n]
OnBoard(parts, hops, distance, rtt) ==
  [parts |-> parts, hops |-> hops, distance |-> distance, rtt |-> rtt]

MCMeasured ==
  {OnBoard(AllAt(0), << >>, 400, 1), OnBoard([AllAt(0) EXCEPT !.rtt = 2], << >>, 400, 4),
   OnBoard([AllAt(0) EXCEPT !.rtt = 2, !.packet_loss = 2], << >>, 0, 0),
   OnBoard(AllAt(2), << >>, 0, 0), OnBoard(AllAt(0), <<3, 1>>, 0, 0)}

MCInit ==
  /\ WhoisInit /\ BgpInit /\ E2eInit /\ BorderInit /\ QueryInit /\ BoardInit
  /\ focus \in {"registry", "queries", "paths", "onboarding", "border", "board"}
  /\ focus = "queries" \/ secret = NoSecret
  /\ focus = "board" \/ internal = 1

MCNext ==
  /\ \/ /\ focus = "registry" /\ WhoisNext
        /\ UNCHANGED <<boardVars, queryVars, bgpVars, e2eVars, filterVars, listed>>
     \/ /\ focus = "queries" /\ QueryNext
        /\ roll'[b] # Unregistered => roll'[b].active /\ ~roll'[b].anycast
        /\ routeRecords'[b] = NoRouteRecord
        /\ UNCHANGED <<boardVars, whoisVars, bgpVars, e2eVars, filterVars, listed>>
     \/ /\ focus = "paths" /\ BgpNext
        /\ UNCHANGED <<boardVars, whoisVars, queryVars, e2eVars, filterVars, listed>>
     \/ /\ focus = "onboarding" /\ E2eNext
        /\ UNCHANGED <<boardVars, whoisVars, queryVars, bgpVars, filterVars, listed>>
     \/ /\ focus = "border" /\ BorderNext
        /\ UNCHANGED <<boardVars, whoisVars, queryVars, bgpVars, e2eVars>>
     \/ /\ focus = "board" /\ BoardNext
        /\ UNCHANGED <<whoisVars, queryVars, bgpVars, e2eVars, filterVars, listed>>
  /\ UNCHANGED focus

MCSpec == MCInit /\ [][MCNext]_vars
================================================================================
