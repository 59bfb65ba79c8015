-------------------------------- MODULE MCDataPath --------------------------------
(* What becomes of a packet: carried by the simulator and the UDP runner,     *)
(* followed by traceroute, put on the wire, cut into fragments and put        *)
(* together, captured and counted in files, sent in the version and to the    *)
(* MAC of the next neighbour; and the testbed that sets up the networks.      *)
(* Each is a program of its own, so each behaviour works on one of them       *)
(* (focus).                                                                   *)
EXTENDS Forwarding, Traceroute8, Arp8, Testbed, Reassembly, Exchange, TraceFiles, TLC

CONSTANTS long, short, df, k1, k2     \* packets that are cut, and their keys

VARIABLE focus

allVars == <<simVars, udpVars, traceVars, arpVars, macVars, testbedVars,
             vars, exchangeVars, captureVars, fileVars, focus>>

Prefix(n) == <<0, 0, 0, n>>
To(prefix, next) == [dest |-> prefix, next |-> next]

(* Two autonomous systems with a host and a router each.                      *)
MCNames == {"h1", "r1", "r2", "h2", "ghost"}
MCAddressOf ==
  [n \in MCNames |->
     CASE n = "h1" -> [prefix |-> Prefix(1), host |-> 1]
       [] n = "r1" -> [prefix |-> Prefix(1), host |-> 9]
       [] n = "h2" -> [prefix |-> Prefix(2), host |-> 1]
       [] OTHER -> [prefix |-> Prefix(2), host |-> 9]]

(* Tables that lead on, back, nowhere, and to what is not there.              *)
MCTables(n) ==
  CASE n = "r1" -> {<< >>, <<To(Prefix(2), "r2")>>, <<To(Zero, "r2"), To(Prefix(2), "h1")>>}
    [] n = "r2" -> {<< >>, <<To(Prefix(2), "h2"), To(Zero, "r1")>>, <<To(Zero, "ghost")>>}
    [] n = "h1" -> {<< >>, <<To(Zero, "r1")>>}
    [] OTHER -> {<< >>}

Cables == <<<<"h1", "r1">>, <<"h2", "r2">>>>
MCLinks == {Cables, Cables \o <<<<"r1", "h1">>, <<"r1", "r2">>, <<"r2", "h2">>>>}

MCConfigs ==
  {[hosts |-> {"h1", "h2"}, routers |-> <<"r1", "r2">>, links |-> l,
    tables |-> [n \in MCNames |->
                  IF n = "r1" THEN t1 ELSE IF n = "r2" THEN t2
                  ELSE IF n = "h1" THEN t3 ELSE << >>]] :
     l \in MCLinks, t1 \in MCTables("r1"), t2 \in MCTables("r2"), t3 \in MCTables("h1")}

MCDestinations == {MCAddressOf[n] : n \in {"h1", "h2", "r2"}}
MCNewLinks == {<<"r1", "r2">>, <<"r2", "ghost">>}
MCNewRoutes == {To(Prefix(2), "r2"), To(Zero, "h2")}

(* Four routers as in the topologies, and a fifth in the autonomous system of  *)
(* the first.                                                                 *)
MCRouterOrder == <<"R0", "R1", "R2", "R3", "R4">>
MCRouterAddress ==
  [r \in {"R0", "R1", "R2", "R3", "R4"} |->
     CASE r = "R0" -> [prefix |-> "p1", host |-> 0]
       [] r = "R1" -> [prefix |-> "p2", host |-> 1]
       [] r = "R2" -> [prefix |-> "p3", host |-> 2]
       [] r = "R3" -> [prefix |-> "p4", host |-> 3]
       [] OTHER -> [prefix |-> "p1", host |-> 4]]
MCNowhere == [prefix |-> "p5", host |-> 5]
MCRouteMaps ==
  {[x \in {} |-> x]} \union {("*" :> r) : r \in {"R1", "R4", "lost"}}
    \union {("p1" :> "R4") @@ ("*" :> r) : r \in {"R0", "R1"}}
MCRouteChoices ==
  {[r \in {"R0", "R1", "R2", "R3", "R4"} |->
      CASE r = "R0" -> m0 [] r = "R1" -> m1 [] r = "R4" -> m4 [] OTHER -> [x \in {} |-> x]] :
     m0 \in MCRouteMaps, m1 \in MCRouteMaps, m4 \in MCRouteMaps}

(* The answer to the second probe comes later.                                 *)
MCAnswerAfter == (8 :> 1) @@ (4 :> 2)

(* Two centres share their spokes.  Systems 64496 and 64752 have one octet in  *)
(* their subnets, that of 64512 is the spokes'.  By hand: a host of a system   *)
(* once more without its gateway, a host whose gateway is linked or is not,    *)
(* a link to it, one to a node that may not be there, and one with the subnet  *)
(* of a spoke.                                                                *)
MCTwoAsnCalls == {<<64496, 64512, 1>>, <<64752, 64497, 1>>}
MCStarCalls == {<<<<"core">>, 64496, 2>>, <<<<"hub">>, 64499, 1>>}
MCMeshCalls == {<<3, 64498>>}
MCNewTestNodes ==
  {<<<<"h", 1, 64496>>, Spec8(64496, <<10, 0, 1, 11>>, "host", NoGateway)>>,
   <<<<"probe">>, Spec8(64496, <<10, 0, 1, 99>>, "host", <<"core">>)>>}
MCNewTestLinks ==
  {TestLink(<<"core">>, <<"probe">>, <<10, 9, 9>>, <<"net-core-probe">>),
   TestLink(<<"probe">>, <<"absent">>, <<10, 0, 1>>, <<"net-probe-absent">>)}

(* Two packets that share a key, one of them cut into up to three fragments,  *)
(* and one with DF on a key of its own; links with room for one or two units  *)
(* of payload.                                                                *)
MCPackets == {long, short, df}
MCLength == long :> 5 @@ short :> 3 @@ df :> 3
MCKey == long :> k1 @@ short :> k1 @@ df :> k2
MCDontFragment == {df}
MCRooms == {2, 5}

(* One unit longer than three offsets can address.                           *)
OversizeLength == long :> 7 @@ short :> 3 @@ df :> 3

(* ASN 64496 and 64497, 192.0.2.1 and 192.0.2.2; a payload word that carries  *)
(* in the sum.                                                               *)
HereAddress == <<0, 64496, 49152, 513>>
ThereAddress == <<0, 64497, 49152, 514>>
MCEchoes ==
  {[identifier |-> 1, sequence |-> 1, payload |-> << >>],
   [identifier |-> 1, sequence |-> 65535, payload |-> <<65535, 7>>]}

MCExcerpts == {<<18176>>}

MCCaptured ==
  [i \in 1 .. 2 |->
     [version |-> 8, identification |-> 65535 * (i - 1), flags |-> 1, offset |-> 8191, ttl |-> 255,
      protocol |-> 253, src |-> HereAddress, dst |-> ThereAddress, payload |-> <<i>>]]

(* A flow that fits, one with addresses at the limits, one of too many octets.*)
MCFlowRecords ==
  {[src |-> <<0, 0, 251, 240, 192, 0, 2, 1>>, dst |-> <<1, 0, 0, 255, 0, 255, 255, 0>>,
    packets |-> 1, octets |-> 1],
   [src |-> <<255, 255, 255, 255, 255, 255, 255, 255>>, dst |-> <<0, 0, 0, 0, 0, 0, 0, 0>>,
    packets |-> 2, octets |-> 2],
   [src |-> <<0, 0, 251, 240, 192, 0, 2, 1>>, dst |-> <<0, 0, 0, 1, 127, 0, 0, 128>>,
    packets |-> 2, octets |-> 3]}

(* What a behaviour does not work on is in one fixed state.  The UDP runner     *)
(* looks at the links of hosts alone.                                         *)
OneConfig == CHOOSE c \in Configs : TRUE
SimIdle == tables = OneConfig.tables /\ links = OneConfig.links /\ SimInit
UdpIdle == config = OneConfig /\ UdpInit
TraceIdle ==
  /\ routesOf = BuildDiamond.routes /\ startTtl = 1
  /\ source = BuildDiamond.source /\ target = BuildDiamond.target
  /\ TraceInit
ArpIdle == speaks = [n \in Neighbours |-> 4] /\ ArpInit

MCInit ==
  /\ \/ focus = "simulator" /\ SimInit /\ UdpIdle /\ TraceIdle /\ ArpIdle
     \/ focus = "udp" /\ SimIdle /\ UdpInit /\ config.links = Cables /\ TraceIdle /\ ArpIdle
     \/ focus = "trace" /\ SimIdle /\ UdpIdle /\ TraceInit /\ ArpIdle
     \/ focus = "neighbours" /\ SimIdle /\ UdpIdle /\ TraceIdle /\ ArpInit
     \/ /\ focus \in {"macs", "testbed", "fragments", "wire", "capture", "flows"}
        /\ SimIdle /\ UdpIdle /\ TraceIdle /\ ArpIdle
  /\ MacInit /\ TestbedInit /\ Init /\ ExchangeInit /\ CaptureInit /\ FileInit

(* What the packets of the simulator, datagrams and fragments are not about.   *)
Beside == <<traceVars, arpVars, macVars, testbedVars, exchangeVars, captureVars, fileVars>>
Carrying == <<simVars, udpVars, vars>>
Around == <<traceVars, arpVars, macVars, testbedVars>>
OnWire == <<exchangeVars, captureVars, fileVars>>

(* Errors are reported with the lowest, a middle and the highest code.         *)
MCNext ==
  /\ \/ focus = "simulator" /\ SimNext /\ UNCHANGED <<udpVars, vars, Beside>>
     \/ focus = "udp" /\ UdpNext /\ UNCHANGED <<simVars, vars, Beside>>
     \/ focus = "fragments" /\ Next /\ UNCHANGED <<simVars, udpVars, Beside>>
     \/ /\ UNCHANGED <<Carrying, OnWire>>
        /\ \/ focus = "trace" /\ TraceNext /\ UNCHANGED <<arpVars, macVars, testbedVars>>
           \/ focus = "neighbours" /\ ArpNext /\ UNCHANGED <<traceVars, macVars, testbedVars>>
           \/ focus = "macs" /\ MacNext /\ UNCHANGED <<traceVars, arpVars, testbedVars>>
           \/ focus = "testbed" /\ TestbedNext /\ UNCHANGED <<traceVars, arpVars, macVars>>
     \/ /\ UNCHANGED <<Carrying, Around>>
        /\ \/ /\ focus = "wire" /\ ExchangeNext /\ UNCHANGED <<captureVars, fileVars>>
              /\ \A report \in reported' : report[1].code \in {0, 1, 6}
           \/ focus = "capture" /\ CaptureNext /\ UNCHANGED <<exchangeVars, fileVars>>
           \/ focus = "flows" /\ FileNext /\ UNCHANGED <<exchangeVars, captureVars>>
  /\ UNCHANGED focus

Carried == focus = "simulator" /\ Forward /\ UNCHANGED <<udpVars, vars, Beside, focus>>

Settled ==
  /\ focus = "udp" /\ UNCHANGED <<simVars, vars, Beside, focus>>
  /\ \E d \in network : OnPacket(d) \/ LoseDatagram(d)

Passing(A) == focus = "fragments" /\ A /\ UNCHANGED <<simVars, udpVars, Beside, focus>>

MCSpec ==
  /\ MCInit /\ [][MCNext]_allVars
  /\ WF_allVars(Carried) /\ WF_allVars(Settled)
  /\ WF_allVars(Passing(Tick)) /\ WF_allVars(Passing(Expire))

(* Every packet ends, whatever the routes: in the simulator, and in the       *)
(* network every datagram and every copy of it, though routes form a loop.    *)
EveryPacketEnds ==
  /\ []<>~Moving
  /\ \A id \in 0 .. MaxUdpSent - 1 :
       []<>(\A d \in network : d.id # id)
================================================================================
