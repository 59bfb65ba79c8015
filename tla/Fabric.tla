-------------------------------- MODULE Fabric ---------------------------------
(***************************************************************************)
(* What lies under the zones: the VPCs of a cloud, the VRFs of a device and*)
(* the spanning tree roots of a segment.                                   *)
(***************************************************************************)
EXTENDS RouteTable, FiniteSets

--------------------------------------------------------------------------------
(***************************************************************************)
(* Customer VPCs of a cloud provider (cloud_vpc.py, CloudVPCFabric).  Each *)
(* gets a zone prefix 127.z.0.0 of its own; an address is that of a VPC if *)
(* it has its prefix, and two VPCs reach each other if they are peered.    *)
(***************************************************************************)
CONSTANTS
  VpcIds,
  InteropZone,    \* the zone not to be given out; 127 in the code
  MaxOctet,       \* largest zone an address can have; 255 in the code
  MaxZone,        \* bound: the last zone given out
  NoVpc

VARIABLES
  vpcs,           \* _vpcs: id -> zone, or NoVpc
  peerings,       \* _peerings: sets of two ids
  nextZone,       \* _next_zone
  zoneOf,         \* history: zone -> ids it was given to
  joined          \* history: sets of two zones that were peered

vpcVars == <<vpcs, peerings, nextZone, zoneOf, joined>>

ASSUME VpcAssumption ==
  /\ InteropZone \in 1 .. MaxZone /\ MaxZone \in Nat /\ MaxOctet \in Nat
  /\ NoVpc \notin Nat

Vpcs == {v \in VpcIds : vpcs[v] # NoVpc}

(* Past the interop zone the zone after the next is taken, every time.      *)
ZoneTaken == IF nextZone > InteropZone - 1 THEN nextZone + 1 ELSE nextZone

CreateVpc(v) ==
  /\ vpcs[v] = NoVpc
  /\ ZoneTaken <= MaxZone
  /\ vpcs' = [vpcs EXCEPT ![v] = ZoneTaken]
  /\ nextZone' = ZoneTaken + 1
  /\ zoneOf' = [zoneOf EXCEPT ![ZoneTaken] = @ \cup {v}]
  /\ UNCHANGED <<peerings, joined>>

(* An unknown id changes nothing.                                           *)
DeleteVpcOnly(v) ==                              \* fault: its peerings stay
  /\ vpcs' = [vpcs EXCEPT ![v] = NoVpc]
  /\ UNCHANGED <<peerings, nextZone, zoneOf, joined>>
DeleteVpc(v) ==
  /\ vpcs' = [vpcs EXCEPT ![v] = NoVpc]
  /\ peerings' = {p \in peerings : v \notin p}
  /\ UNCHANGED <<nextZone, zoneOf, joined>>

CreatePeering(v, w) ==
  /\ v \in Vpcs /\ w \in Vpcs /\ v # w
  /\ peerings' = peerings \cup {{v, w}}
  /\ joined' = joined \cup {{vpcs[v], vpcs[w]}}
  /\ UNCHANGED <<vpcs, nextZone, zoneOf>>

(* An address stands for its second octet, the first being 127.             *)
ResolveVpc(zone) == {v \in Vpcs : vpcs[v] = zone}

CanCommunicate(src, dst) ==
  \E v \in ResolveVpc(src), w \in ResolveVpc(dst) : v = w \/ {v, w} \in peerings

(* validate_no_overlap: VPCs in whose zone there is an earlier one.          *)
Overlapping == {v \in Vpcs : \E w \in Vpcs \ {v} : vpcs[v] = vpcs[w]}

VpcInit ==
  /\ vpcs = [v \in VpcIds |-> NoVpc]
  /\ peerings = {}
  /\ nextZone = 1
  /\ zoneOf = [z \in 1 .. MaxZone |-> {}]
  /\ joined = {}

VpcNext ==
  \/ \E v \in VpcIds : CreateVpc(v) \/ DeleteVpc(v)
  \/ \E v, w \in VpcIds : CreatePeering(v, w)

--------------------------------------------------------------------------------
(* A zone prefix is given to one VPC once and for all and never is that of  *)
(* the interop; two addresses of different prefixes reach each other only   *)
(* if the very VPCs that hold them were peered - not earlier ones of the    *)
(* same names that were deleted since.                                      *)
PeeredOnly ==
  /\ zoneOf[InteropZone] = {}
  /\ Overlapping = {}
  /\ \A z \in 1 .. MaxZone : Cardinality(zoneOf[z]) <= 1 /\ ResolveVpc(z) \subseteq zoneOf[z]
  /\ \A src, dst \in 1 .. MaxOctet :
       CanCommunicate(src, dst) => src = dst \/ {src, dst} \in joined

--------------------------------------------------------------------------------
(***************************************************************************)
(* Routing and forwarding instances of a device (vrf.py, VRFManager).      *)
(* Callers keep the VRF objects they get, also of one that was deleted or  *)
(* created anew under its name since; an object is a number here.          *)
(***************************************************************************)
CONSTANTS
  VrfNames,
  Mandatory,      \* "management" and "oob"
  DefaultVrf,     \* "default"
  VrfRoutes,      \* routes added
  NoVrf,
  MaxVrfs,        \* bound: VRF objects in all
  MaxVrfRoutes    \* bound: routes in a VRF

VARIABLES
  vrfs,           \* _vrfs: name -> VRF object, or NoVrf
  nameOf,         \* VRF object -> its name
  table,          \* VRF object -> its table
  meant           \* history: name -> routes meant for the VRF it now has

vrfVars == <<vrfs, nameOf, table, meant>>

ASSUME VrfAssumption ==
  /\ \E a, b \in Mandatory : Mandatory = {a, b} /\ a # b
  /\ DefaultVrf \notin Mandatory /\ Mandatory \cup {DefaultVrf} \subseteq VrfNames
  /\ NoVrf \notin Nat /\ MaxVrfs \in Nat /\ MaxVrfRoutes \in Nat

Objects == DOMAIN nameOf

CreateVrf(name) ==
  /\ vrfs[name] = NoVrf /\ Len(nameOf) < MaxVrfs
  /\ vrfs' = [vrfs EXCEPT ![name] = Len(nameOf) + 1]
  /\ nameOf' = Append(nameOf, name)
  /\ table' = Append(table, << >>)
  /\ meant' = [meant EXCEPT ![name] = << >>]

(* Raises for a mandatory or an unknown name.  The default VRF is made with  *)
(* the mandatory ones, yet may be deleted.                                  *)
DeleteVrf(name) ==
  IF name \in Mandatory \/ vrfs[name] = NoVrf
  THEN UNCHANGED vrfVars
  ELSE /\ vrfs' = [vrfs EXCEPT ![name] = NoVrf]
       /\ meant' = [meant EXCEPT ![name] = << >>]
       /\ UNCHANGED <<nameOf, table>>

AddVrfRoute(object, route) ==
  /\ Len(table[object]) < MaxVrfRoutes
  /\ table' = [table EXCEPT ![object] = AddRoute(@, route)]
  /\ meant' = [name \in VrfNames |->
                 IF vrfs[name] = object THEN AddRoute(meant[name], route) ELSE meant[name]]
  /\ UNCHANGED <<vrfs, nameOf>>

VrfLookup(object, prefix) == FindRoute(table[object], prefix)

IsIsolated(one, other) ==
  vrfs[one] = NoVrf \/ vrfs[other] = NoVrf \/ vrfs[one] # vrfs[other]

(* __post_init__ makes three VRFs.                                          *)
VrfInit ==
  /\ nameOf = CHOOSE order \in [1 .. 3 -> Mandatory \cup {DefaultVrf}] :
                \A i, j \in 1 .. 3 : order[i] = order[j] => i = j
  /\ table = [i \in 1 .. 3 |-> << >>]
  /\ vrfs = [name \in VrfNames |->
               IF \E i \in 1 .. 3 : nameOf[i] = name
               THEN CHOOSE i \in 1 .. 3 : nameOf[i] = name ELSE NoVrf]
  /\ meant = [name \in VrfNames |-> << >>]

VrfNext ==
  \/ \E name \in VrfNames : CreateVrf(name) \/ DeleteVrf(name)
  \/ \E object \in Objects, route \in VrfRoutes : AddVrfRoute(object, route)

--------------------------------------------------------------------------------
(* "VRF isolation is a routing table property that cannot be bypassed by    *)
(* software misconfiguration": what a VRF looks up is decided by the routes *)
(* that were given to it since its name was last created, whoever still     *)
(* holds an earlier object of that name; different names are isolated, and  *)
(* the mandatory VRFs are there.                                            *)
VrfsApart ==
  /\ \A name \in Mandatory : vrfs[name] # NoVrf
  /\ \A name \in VrfNames : vrfs[name] # NoVrf =>
       \A route \in VrfRoutes :
         VrfLookup(vrfs[name], route.dest) = FindRoute(meant[name], route.dest)
  /\ \A one, other \in VrfNames : one # other => IsIsolated(one, other)

--------------------------------------------------------------------------------
(***************************************************************************)
(* The spanning tree root of each VLAN (pvrst.py) and what a zone server   *)
(* says of itself about it (zoneserver.py, is_root_for_vlan): two places   *)
(* that must agree.  Bridges come and go, and the root is elected among    *)
(* those that are there.                                                   *)
(***************************************************************************)
CONSTANTS
  BridgeIds,      \* numbers, in the order of the identifiers
  PrimaryId, SecondaryId,
  Priorities,     \* of the other bridges
  Vlans,
  NoBridge

RootPriority == 4096

VARIABLE bridges  \* id -> PVRSTConfig, or NoBridge

ASSUME PvrstAssumption ==
  /\ BridgeIds \subseteq Nat /\ Priorities \subseteq Nat /\ Vlans \subseteq Nat
  /\ PrimaryId \in BridgeIds /\ SecondaryId \in BridgeIds /\ PrimaryId # SecondaryId
  /\ NoBridge \notin [priority : Nat, role : {"PRIMARY", "SECONDARY", "none"}]

MakeServer(role) == [priority |-> RootPriority, role |-> role]

Parity(role) == IF role = "PRIMARY" THEN 0 ELSE 1

IsRootForVlan(config, vlan) ==
  /\ config.role # "none"
  /\ config.priority = RootPriority
  /\ vlan % 2 = Parity(config.role)

(* ZoneServer.is_root_for_vlan.                                             *)
ServerIsRoot(role, vlan) == vlan % 2 = (IF role = "PRIMARY" THEN 0 ELSE 1)

Present == {b \in BridgeIds : bridges[b] # NoBridge}

Ahead(b, c) ==
  \/ bridges[b].priority < bridges[c].priority
  \/ bridges[b].priority = bridges[c].priority /\ b < c

LeastOf(S) == CHOOSE b \in S : \A c \in S \ {b} : Ahead(b, c)

ElectRoot(vlan) ==
  LET designated == {b \in Present : IsRootForVlan(bridges[b], vlan)}
  IN  IF Present = {} THEN NoBridge
      ELSE IF designated = {} THEN LeastOf(Present) ELSE LeastOf(designated)

PvrstInit == bridges = [b \in BridgeIds |-> NoBridge]

ServerUp(id, role) == bridges' = [bridges EXCEPT ![id] = MakeServer(role)]

BridgeUp(id, priority) ==
  /\ id \notin {PrimaryId, SecondaryId}
  /\ bridges' = [bridges EXCEPT ![id] = [priority |-> priority, role |-> "none"]]

BridgeDown(id) == id \in Present /\ bridges' = [bridges EXCEPT ![id] = NoBridge]

PvrstNext ==
  \/ ServerUp(PrimaryId, "PRIMARY")
  \/ ServerUp(SecondaryId, "SECONDARY")
  \/ \E id \in BridgeIds, priority \in Priorities : BridgeUp(id, priority)
  \/ \E id \in BridgeIds : BridgeDown(id)

--------------------------------------------------------------------------------
(* Whatever other bridges are there and with what priorities, the root of a *)
(* VLAN is the zone server that says it is, if that one is up; and while    *)
(* one of the pair is up and nobody else is ahead of it, it stands in.      *)
RootsAgree ==
  \A vlan \in Vlans :
    /\ PrimaryId \in Present /\ ServerIsRoot("PRIMARY", vlan) => ElectRoot(vlan) = PrimaryId
    /\ SecondaryId \in Present /\ ServerIsRoot("SECONDARY", vlan) => ElectRoot(vlan) = SecondaryId
    /\ \A server \in Present \cap {PrimaryId, SecondaryId} :
         (\A b \in Present \ {server} : Ahead(server, b)) =>
           ElectRoot(vlan) \in {PrimaryId, SecondaryId}

--------------------------------------------------------------------------------
(***************************************************************************)
(* The three side by side: none touches what another keeps.                *)
(***************************************************************************)
fabricVars == <<vpcVars, vrfVars, bridges>>

FabricInit == VpcInit /\ VrfInit /\ PvrstInit

FabricNext ==
  \/ VpcNext /\ UNCHANGED <<vrfVars, bridges>>
  \/ VrfNext /\ UNCHANGED <<vpcVars, bridges>>
  \/ PvrstNext /\ UNCHANGED <<vpcVars, vrfVars>>

FabricSpec == FabricInit /\ [][FabricNext]_fabricVars

(* What lies under the zones stays apart and in one hand: VPCs reach each    *)
(* other only if those very VPCs were peered (cloud_vpc.py), VRFs find only  *)
(* routes of their own (vrf.py), and every VLAN has the root that both the   *)
(* election and the zone servers name (pvrst.py, zoneserver.py).             *)
FabricApart == PeeredOnly /\ VrfsApart /\ RootsAgree
================================================================================
