------------------------------ MODULE Forwarding -------------------------------
(***************************************************************************)
(* Two networks set up from the same configuration: the simulator, which   *)
(* hands a packet from node to node itself, and the UDP runner, where      *)
(* every node is a socket.                                                 *)
(***************************************************************************)
EXTENDS RouteTable, Functions

--------------------------------------------------------------------------------
(***************************************************************************)
(* Topologies as the configuration files describe them, for the simulator  *)
(* and for the UDP runner.                                                 *)
(***************************************************************************)
CONSTANTS
  Names,        \* names a node, a link or a route can mention
  AddressOf,    \* the address of each name: [prefix, host]
  Configs,      \* what a file can say: [hosts, routers, links, tables], the
                \* routers and the links in their order
  Ttl,          \* time to live of a packet (64)
  Senders,      \* nodes that send
  Destinations  \* addresses they send to

Addresses == {AddressOf[n] : n \in Names}

Owns(n, address) == AddressOf[n] = address

Loaded(c) == c.hosts \union Range(c.routers)

ASSUME TopologyAssumption ==
  /\ Ttl \in Nat \ {0}
  /\ Senders \subseteq Names /\ Destinations \subseteq Addresses /\ Names # {}
  /\ \A c \in Configs : /\ Loaded(c) \subseteq Names /\ c.hosts \intersect Range(c.routers) = {}
                        /\ c.links \in Seq(Names \X Names)

--------------------------------------------------------------------------------
(***************************************************************************)
(* The in-memory simulator (simulator.py): nodes with route tables, links, *)
(* and one packet at a time that _forward carries on from node to node.    *)
(* Every step of a packet is one call of _forward; the topology changes    *)
(* only between packets, as send returns when the packet has ended.        *)
(***************************************************************************)
CONSTANTS
  NewNodes, NewLinks, NewRoutes,   \* what operators add; a route is [dest, next]
  NoPacket,
  MaxSent,        \* bound: packets
  MaxChanges      \* bound: changes to the topology after it was loaded

ASSUME SimulatorAssumption == NewNodes \subseteq Names /\ NewLinks \subseteq Names \X Names

VARIABLES
  nodes,     \* names of the nodes there are
  links,     \* pairs, in the order they were added
  tables,    \* the route table of each name
  inbox,     \* packets each node has received
  packet,    \* the one being forwarded, or the last one
  simSent,   \* packets sent
  changes    \* topology changes

simVars == <<nodes, links, tables, inbox, packet, simSent, changes>>

Fates == {"moving", "delivered", "expired", "loop", "no route", "unknown node"}

Packet8 ==
  [id : Nat, src : Names, dst : Addresses, ttl : 0 .. Ttl, at : Names, visited : SUBSET Names,
   fate : Fates]

ASSUME NoPacketAssumption == NoPacket \notin Packet8

Moving == packet # NoPacket /\ packet.fate = "moving"

(* ------------------------------------------------------- the topology *)

AddNode(n) ==
  /\ nodes' = nodes \union {n}
  /\ tables' = [tables EXCEPT ![n] = << >>]
  /\ inbox' = [inbox EXCEPT ![n] = {}]
  /\ UNCHANGED links

AddLink(a, b) ==
  /\ links' = Append(links, <<a, b>>)
  /\ UNCHANGED <<nodes, tables, inbox>>

SimAddRoute(n, route) ==
  /\ n \in nodes
  /\ tables' = [tables EXCEPT ![n] = AddRoute(@, route)]
  /\ UNCHANGED <<nodes, links, inbox>>

RemoveRoute(n, dest) ==
  /\ n \in nodes
  /\ tables' = [tables EXCEPT ![n] = RouteRemoved(@, dest)]
  /\ UNCHANGED <<nodes, links, inbox>>

Change ==
  /\ ~Moving /\ changes < MaxChanges
  /\ \/ \E n \in NewNodes : AddNode(n)
     \/ \E l \in NewLinks : AddLink(l[1], l[2])
     \/ \E n \in Names, r \in NewRoutes : SimAddRoute(n, r) \/ RemoveRoute(n, r.dest)
  /\ changes' = changes + 1
  /\ UNCHANGED <<packet, simSent>>

(* --------------------------------------------------------- forwarding *)

SimSend(src, dst) ==
  /\ ~Moving /\ simSent < MaxSent
  /\ src \in nodes
  /\ packet' = [id |-> simSent, src |-> src, dst |-> dst, ttl |-> Ttl, at |-> src,
                visited |-> {}, fate |-> "moving"]
  /\ simSent' = simSent + 1
  /\ UNCHANGED <<nodes, links, tables, inbox, changes>>

(* Indices of the links that lead from a node to one there is.              *)
LinksFrom(n) == {i \in DOMAIN links : links[i][1] = n /\ links[i][2] \in nodes}

Direct(n) == {i \in LinksFrom(n) : Owns(links[i][2], packet.dst)}

Unseen(n) == {i \in LinksFrom(n) : links[i][2] \notin packet.visited \union {n}}

Ended(fate, at, ttl) ==
  [packet EXCEPT !.fate = fate, !.at = at, !.ttl = ttl, !.visited = @ \union {packet.at}]

PutInInbox(n) == inbox' = [inbox EXCEPT ![n] = @ \union {packet.id}]

(* Fault: as HopTo, and the packet goes on with its last hop spent.           *)
HopOverspent(n) ==
  /\ packet' = Ended("moving", n, packet.ttl - 1)
  /\ UNCHANGED inbox

(* Fault: the packet expires with a hop left.                                 *)
HopShort(n) ==
  /\ packet' = Ended(IF packet.ttl - 1 <= 1 THEN "expired" ELSE "moving",
                     IF packet.ttl - 1 <= 1 THEN packet.at ELSE n, packet.ttl - 1)
  /\ UNCHANGED inbox

(* One hop on: the packet expires before it gets there, or goes on.          *)
HopTo(n) ==
  /\ packet' = Ended(IF packet.ttl - 1 <= 0 THEN "expired" ELSE "moving",
                     IF packet.ttl - 1 <= 0 THEN packet.at ELSE n, packet.ttl - 1)
  /\ UNCHANGED inbox

DropAs(fate) == packet' = Ended(fate, packet.at, packet.ttl) /\ UNCHANGED inbox

DeliverAt(n) == packet' = Ended("delivered", n, packet.ttl) /\ PutInInbox(n)

Revisited(n) == n \in packet.visited

(* Without a route the packet takes the first link to a node not passed yet.  *)
OnAnyLink(n) ==
  IF Unseen(n) # {} THEN HopTo(links[Min(Unseen(n))][2]) ELSE DropAs("no route")

OnRoute(route) ==
  IF route.next \in nodes THEN HopTo(route.next) ELSE DropAs("unknown node")

Forward ==
  /\ Moving
  /\ LET here == packet.at
         route == FindRoute(tables[here], packet.dst.prefix)
     IN IF Revisited(here) THEN DropAs("loop")
        ELSE IF Owns(here, packet.dst) THEN DeliverAt(here)
        ELSE IF Direct(here) # {} THEN DeliverAt(links[Min(Direct(here))][2])
        ELSE IF route = NoRoute THEN OnAnyLink(here)
        ELSE OnRoute(route)
  /\ UNCHANGED <<nodes, links, tables, simSent, changes>>

SimInit ==
  /\ \E c \in Configs :
       nodes = Loaded(c) /\ links = c.links /\ tables = c.tables
  /\ inbox = [n \in Names |-> {}]
  /\ packet = NoPacket /\ simSent = 0 /\ changes = 0

SimNext ==
  \/ Change
  \/ \E src \in Senders, dst \in Destinations : SimSend(src, dst)
  \/ Forward

SimSpec == SimInit /\ [][SimNext]_simVars

(* ------------------------------------------------------------------------ *)
(* Reference: where the routes alone lead a packet, hop by hop.               *)
RouteStep(ts, ns, from, dst) ==
  {FindRoute(ts[n], dst.prefix).next :
     n \in {m \in from : FindRoute(ts[m], dst.prefix) # NoRoute}} \intersect ns

RoutedWay(ts, ns, src, dst) ==
  LET way[k \in 0 .. Ttl] ==
        IF k = 0 THEN {src} ELSE RouteStep(ts, ns, way[k - 1], dst)
  IN way

RoutesLead(src, dst) ==
  \E k \in 0 .. Ttl - 1 : \E n \in RoutedWay(tables, nodes, src, dst)[k] : Owns(n, dst)

(* A packet is lost only if the routes do not lead it to its destination      *)
(* within its time to live, and says why: the loop was there, or the routes   *)
(* of the node where it stopped give out.  Neither the links looked at first  *)
(* nor the record of nodes passed may cost a packet its way.                  *)
LostOnlyOffRoute ==
  [][packet' # packet /\ Moving /\ packet'.fate \notin {"moving", "delivered"} =>
       /\ ~RoutesLead(packet.src, packet.dst)
       /\ packet'.fate = "no route" => FindRoute(tables[packet.at], packet.dst.prefix) = NoRoute
       /\ packet'.fate = "unknown node" =>
            FindRoute(tables[packet.at], packet.dst.prefix).next \notin nodes
       /\ packet'.fate = "loop" => packet.ttl < Ttl]_simVars

(* The simulator keeps what PacketLife promises.                              *)
Life == INSTANCE PacketLife WITH
  Places <- Names, Ends <- Addresses, Owner <- AddressOf, Allowance <- Ttl,
  fate <- IF packet = NoPacket THEN "none"
          ELSE IF packet.fate \in {"moving", "delivered"} THEN packet.fate ELSE "dropped",
  place <- IF packet = NoPacket THEN CHOOSE n \in Names : TRUE ELSE packet.at,
  goal <- IF packet = NoPacket THEN CHOOSE a \in Addresses : TRUE ELSE packet.dst,
  left <- IF packet = NoPacket THEN Ttl ELSE packet.ttl

SimulatorKeepsPacketLife == Life!LifeSpec

--------------------------------------------------------------------------------
(***************************************************************************)
(* The UDP runner (udp_runner.py): every node is a socket, routers forward *)
(* by their tables, and the network between them may lose, copy and        *)
(* reorder datagrams.  Only the time to live ends what routes send round.  *)
(***************************************************************************)
CONSTANTS MaxUdpSent,   \* bound: packets sent
          MaxCopies,    \* bound: datagrams the network copies
          MaxStops      \* bound: times the network is stopped

VARIABLES
  config,     \* the configuration that was loaded
  running,    \* whether the sockets are open
  network,    \* datagrams in flight
  received,   \* packets each node has received
  udpSent, copies, stops

udpVars == <<config, running, network, received, udpSent, copies, stops>>

Peers(n) == Loaded(config) \ {n}

IsRouter(n) == n \in Range(config.routers)

(* A host has the routes of the file, then one to each router it is linked to. *)
Uplinks(n) ==
  SelectSeq(config.links,
            LAMBDA l : l[1] = n /\ n \in config.hosts /\ IsRouter(l[2]))

UdpTable(n) ==
  config.tables[n] \o [i \in DOMAIN Uplinks(n) |-> [dest |-> Zero, next |-> Uplinks(n)[i][2]]]

RouteTo(n, dst) == FindRoute(UdpTable(n), dst.prefix)

(* Without a route the first router of the file that is not the sender.      *)
OtherRouters(n) == SelectSeq(config.routers, LAMBDA r : r # n)

FirstHop(src, dst) ==
  IF RouteTo(src, dst) # NoRoute THEN {RouteTo(src, dst).next}
  ELSE IF OtherRouters(src) # << >> THEN {Head(OtherRouters(src))} ELSE {}

SendAndWait(src, dst) ==
  /\ running /\ udpSent < MaxUdpSent
  /\ src \in Loaded(config)
  /\ \E hop \in FirstHop(src, dst) \intersect Peers(src) :
       network' = network \union {[id |-> udpSent, copy |-> 0, dst |-> dst, ttl |-> Ttl, to |-> hop]}
  /\ udpSent' = udpSent + 1
  /\ UNCHANGED <<config, running, received, copies, stops>>

(* Peers that have the destination's address; which comes first is not told  *)
(* apart, as any of them takes the packet.                                   *)
Holders(n, dst) == {p \in Peers(n) : Owns(p, dst)}

NextHops(n, dst) ==
  IF RouteTo(n, dst) # NoRoute THEN {RouteTo(n, dst).next} ELSE Holders(n, dst)

(* Fault: the time to live is read and not written back.                     *)
OnwardTtlKept(d) == d.ttl

OnwardTtl(d) == d.ttl - 1

(* A router drops what expires, what has no route and what has no such peer. *)
Onward(d) ==
  IF IsRouter(d.to) /\ d.ttl - 1 > 0
  THEN {[d EXCEPT !.to = hop, !.ttl = OnwardTtl(d)] : hop \in NextHops(d.to, d.dst) \intersect Peers(d.to)}
  ELSE {}

OnPacket(d) ==
  /\ running /\ d \in network
  /\ IF Owns(d.to, d.dst)
     THEN /\ received' = [received EXCEPT ![d.to] = @ \union {d.id}]
          /\ network' = network \ {d}
     ELSE /\ IF Onward(d) = {} THEN network' = network \ {d}
             ELSE \E e \in Onward(d) : network' = (network \ {d}) \union {e}
          /\ UNCHANGED received
  /\ UNCHANGED <<config, running, udpSent, copies, stops>>

LoseDatagram(d) ==
  /\ d \in network
  /\ network' = network \ {d}
  /\ UNCHANGED <<config, running, received, udpSent, copies, stops>>

Copy(d) ==
  /\ d \in network /\ copies < MaxCopies
  /\ network' = network \union {[d EXCEPT !.copy = copies + 1]}
  /\ copies' = copies + 1
  /\ UNCHANGED <<config, running, received, udpSent, stops>>

(* Sockets close and open again on the ports they were given.                *)
StopAll ==
  /\ running /\ stops < MaxStops
  /\ running' = FALSE /\ stops' = stops + 1
  /\ UNCHANGED <<config, network, received, udpSent, copies>>

StartAll ==
  /\ ~running /\ running' = TRUE
  /\ UNCHANGED <<config, network, received, udpSent, copies, stops>>

UdpInit ==
  /\ config \in Configs
  /\ running = FALSE
  /\ network = {} /\ received = [n \in Names |-> {}]
  /\ udpSent = 0 /\ copies = 0 /\ stops = 0

UdpNext ==
  \/ StartAll \/ StopAll
  \/ \E src \in Senders, dst \in Destinations : SendAndWait(src, dst)
  \/ \E d \in network : OnPacket(d) \/ LoseDatagram(d) \/ Copy(d)
================================================================================
