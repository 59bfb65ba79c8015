--------------------------------- MODULE Testbed ---------------------------------
(***************************************************************************)
(* The container testbed (docker_testbed.py): topologies are built, loaded *)
(* one over the other and added to by hand, and a compose file and a       *)
(* configuration of each node are made from what is there.  Nodes are kept *)
(* by name, links in a list; a name is a tuple, a subnet its octets.       *)
(***************************************************************************)
EXTENDS Integers, Sequences, FiniteSets

CONSTANTS
  TwoAsnCalls,    \* arguments <<asn, asn, hosts each>>
  StarCalls,      \* <<name of the centre, asn, spokes>>
  MeshCalls,      \* <<routers, asn>>
  NewTestNodes,   \* nodes added by hand: <<name, spec>>
  NewTestLinks,   \* links added by hand
  NoGateway,
  MaxTestLinks    \* bound: links

ASSUME TestbedAssumption ==
  /\ TwoAsnCalls \subseteq Nat \X Nat \X Nat
  /\ \A c \in StarCalls : c[3] \in Nat
  /\ \A c \in MeshCalls : c[1] \in Nat
  /\ \A n \in NewTestNodes : n = <<n[1], n[2]>>

VARIABLES
  testNodes,      \* _nodes: name -> [address, role, gateway]
  testLinks       \* _links: [a, b, network, name]

testbedVars == <<testNodes, testLinks>>

Spec8(asn, host, role, gateway) ==
  [address |-> [asn |-> asn, host |-> host], role |-> role, gateway |-> gateway]

TestLink(a, b, network, name) == [a |-> a, b |-> b, network |-> network, name |-> name]

(* A dict after update: those that are new are put over those there.        *)
Updated(nodes, new) ==
  [n \in DOMAIN nodes \cup DOMAIN new |-> IF n \in DOMAIN new THEN new[n] ELSE nodes[n]]

(* link 2i belongs to host i of the first system, 2i + 1 to that of the second. *)
BuildTwoAsn(asnA, asnB, count) ==
  LET asn == <<asnA, asnB>>
      Border(k) == <<"r", k, asn[k]>>
      Of(i, k) == <<"h", i, asn[k]>>
  IN  [nodes |-> Updated(
         [n \in {Border(k) : k \in 1 .. 2} |-> Spec8(n[3], <<10, 0, 1, 1>>, "router", NoGateway)],
         [n \in {Of(i, k) : i \in 1 .. count, k \in 1 .. 2} |->
            Spec8(n[3], <<10, 0, 1, 10 + n[2]>>, "host", Border(IF n[3] = asnB THEN 2 ELSE 1))]),
       links |->
         [l \in 1 .. 2 * count + 1 |->
            LET i == l \div 2  k == (l % 2) + 1
            IN  IF l = 1 THEN TestLink(Border(1), Border(2), <<172, 16, 0, 0>>, <<"backbone">>)
                ELSE TestLink(Border(k), Of(i, k), <<10, asn[k] % 256, i>>, <<"lan", asn[k], i>>)]]

BuildStar(centre, asn, count) ==
  [nodes |-> Updated(
     [n \in {centre} |-> Spec8(asn, <<10, 0, 0, 1>>, "router", NoGateway)],
     [n \in {<<"spoke", i>> : i \in 1 .. count} |-> Spec8(asn, <<10, 0, n[2], 10>>, "host", centre)]),
   links |-> [i \in 1 .. count |-> TestLink(centre, <<"spoke", i>>, <<10, 0, i>>, <<"spoke-net", i>>)]]

(* The links of the mesh in the order of their two routers.                 *)
BuildMesh(count, asn) ==
  LET pairs == {p \in (0 .. count - 1) \X (0 .. count - 1) : p[1] < p[2]}
      Place(p) == Cardinality({q \in pairs : q[1] < p[1] \/ (q[1] = p[1] /\ q[2] <= p[2])})
      At(l) == CHOOSE p \in pairs : Place(p) = l
  IN  [nodes |-> [n \in {<<"mesh", i>> : i \in 1 .. count} |->
                    Spec8(asn, <<10, 0, n[2], 1>>, "router", NoGateway)],
       links |-> [l \in 1 .. Cardinality(pairs) |->
                    LET p == At(l)
                    IN  TestLink(<<"mesh", p[1] + 1>>, <<"mesh", p[2] + 1>>,
                                 <<172, 16, p[1], p[2] * 4>>, <<"mesh-net", p[1] + 1, p[2] + 1>>)]]

(* Nodes known by a name are replaced, links are added to those there.      *)
LoadTopology(topology) ==
  /\ testNodes' = Updated(testNodes, topology.nodes)
  /\ testLinks' = testLinks \o topology.links

AddNode8(name, spec) ==
  /\ testNodes' = Updated(testNodes, [n \in {name} |-> spec])
  /\ UNCHANGED testLinks

(* Neither end is looked up.                                                *)
AddLink8(link) ==
  /\ testLinks' = Append(testLinks, link)
  /\ UNCHANGED testNodes

ClearNodes == testNodes' = << >> /\ UNCHANGED testLinks   \* fault: links stay
ClearTestbed == testNodes' = << >> /\ testLinks' = << >>

(* generate_compose: a network has the subnet of the last link of its name. *)
Networks == {testLinks[l].name : l \in DOMAIN testLinks}

Subnet(name) ==
  LET named == {l \in DOMAIN testLinks : testLinks[l].name = name}
  IN  testLinks[CHOOSE l \in named : \A m \in named : m <= l].network

Attached(node) == {testLinks[l].name : l \in {m \in DOMAIN testLinks : node \in {testLinks[m].a, testLinks[m].b}}}

(* generate_node_config.                                                    *)
PeersOf(node) ==
  {testLinks[l].b : l \in {m \in DOMAIN testLinks : testLinks[m].a = node}}
    \cup {testLinks[l].a : l \in {m \in DOMAIN testLinks : testLinks[m].b = node /\ testLinks[m].a # node}}

TestbedInit == testNodes = << >> /\ testLinks = << >>

Loads ==
  {BuildTwoAsn(c[1], c[2], c[3]) : c \in TwoAsnCalls} \cup {BuildStar(c[1], c[2], c[3]) : c \in StarCalls}
    \cup {BuildMesh(c[1], c[2]) : c \in MeshCalls}

TestbedNext ==
  \/ \E topology \in Loads :
       Len(testLinks) + Len(topology.links) <= MaxTestLinks /\ LoadTopology(topology)
  \/ \E n \in NewTestNodes : AddNode8(n[1], n[2])
  \/ \E link \in NewTestLinks : Len(testLinks) < MaxTestLinks /\ AddLink8(link)
  \/ ClearTestbed

TestbedSpec == TestbedInit /\ [][TestbedNext]_testbedVars

--------------------------------------------------------------------------------
(* Two networks get one subnet for these reasons: the numbers of their systems *)
(* agree in the octet that goes into the subnet, a system's octet is the one   *)
(* the spokes use, or a link was added by hand with the other's subnet.        *)
Systems == {c[1] : c \in TwoAsnCalls} \cup {c[2] : c \in TwoAsnCalls}

BuiltLinks == UNION {{topology.links[l] : l \in DOMAIN topology.links} : topology \in Loads}

ByHand(l) == testLinks[l] \in NewTestLinks

SubnetByHand(name) ==
  \E l \in DOMAIN testLinks :
    ByHand(l) /\ testLinks[l].name = name /\ testLinks[l].network = Subnet(name)

OctetShared(one, other) ==
  /\ one[1] = "lan"
  /\ \/ other[1] = "lan" /\ one[2] % 256 = other[2] % 256 /\ one[3] = other[3]
     \/ other[1] = "spoke-net" /\ one[2] % 256 = 0 /\ one[3] = other[2]

SameSubnet(one, other) ==
  SubnetByHand(one) \/ SubnetByHand(other) \/ OctetShared(one, other) \/ OctetShared(other, one)

(* The compose file and the configurations describe one network, but for what *)
(* can be named, whichever topologies were loaded over each other and in      *)
(* whatever order nodes and links were added by hand.  A node knows its peers *)
(* as they know it and shares a network with each; a peer that is no service  *)
(* is at the end of a link added by hand.  A gateway is a peer, or it was     *)
(* given with a node added by hand.  And networks of different names have     *)
(* different subnets, or it is for one of the reasons of SameSubnet.          *)
ComposeJoinsPeers ==
  /\ \A node \in DOMAIN testNodes :
       /\ \A peer \in PeersOf(node) :
            IF peer \in DOMAIN testNodes
            THEN node \in PeersOf(peer) /\ Attached(node) \cap Attached(peer) # {}
            ELSE \E l \in DOMAIN testLinks :
                   ByHand(l) /\ {testLinks[l].a, testLinks[l].b} = {node, peer}
       /\ \/ testNodes[node].gateway \in PeersOf(node) \cup {NoGateway}
          \/ <<node, testNodes[node]>> \in NewTestNodes
  /\ \A one, other \in Networks :
       Subnet(one) = Subnet(other) => one = other \/ SameSubnet(one, other)
================================================================================
