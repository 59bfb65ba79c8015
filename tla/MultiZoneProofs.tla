----------------------------- MODULE MultiZoneProofs -----------------------------
(***************************************************************************)
(* Proofs about zones for every number of zones, devices and addresses:    *)
(* leases first, then routes, tokens and access rules, then the fabric     *)
(* under them.                                                             *)
(***************************************************************************)
EXTENDS MultiZone, Fabric, MinFacts, FiniteSetTheorems, SequenceTheorems, TLAPS

Octet4 == [1 .. 4 -> 0 .. 255]
Octet3 == [1 .. 3 -> 0 .. 255]
LeaseSet == [address : [prefix : Octet4, net : Octet3, octet : Nat], issuedAt : Nat]

LEMMA LeaseTyped ==
  ASSUME NEW s \in Zones, NEW o \in Nat, NEW t \in Nat
  PROVE  /\ Lease(s, o, t) \in LeaseSet
         /\ Lease(s, o, t) # NoLease
         /\ Lease(s, o, t).address.prefix = Network[s].prefix
         /\ Lease(s, o, t).address.net = Network[s].net
         /\ Lease(s, o, t).address.octet = o
         /\ Lease(s, o, t).issuedAt = t
<1>1. Network[s].prefix \in Octet4 /\ Network[s].net \in Octet3
  BY Dhcp8Assumption DEF Octet4, Octet3
<1>2. Lease(s, o, t) \in LeaseSet
  BY <1>1 DEF Lease, LeaseSet
<1>3. Lease(s, o, t) # NoLease
  BY <1>2, Dhcp8Assumption DEF LeaseSet, Octet4, Octet3
<1> QED  BY <1>2, <1>3, SMTT(30) DEF Lease

--------------------------------------------------------------------------------
(* What is known of the leases.  Of a server whose pool was not reset over  *)
(* leases, every lease lies below the pool's pointer and no two are alike.  *)
Given(s, c) == leases[s][c] # NoLease

LeaseTypes ==
  /\ now \in Nat
  /\ nextHost \in [Zones -> PoolStart .. PoolEnd + 1]
  /\ leases \in [Zones -> [ClientIds -> LeaseSet \cup {NoLease}]]
  /\ recycled \subseteq Zones
  /\ \A s \in Zones, c \in ClientIds :
       Given(s, c) =>
         /\ leases[s][c].address.prefix = Network[s].prefix
         /\ leases[s][c].address.net = Network[s].net
         /\ leases[s][c].address.octet \in PoolStart .. PoolEnd

Ledger ==
  \A s \in Zones \ recycled :
    /\ \A c \in ClientIds : Given(s, c) => leases[s][c].address.octet < nextHost[s]
    /\ \A c, d \in ClientIds :
         Given(s, c) /\ Given(s, d)
           /\ leases[s][c].address.octet = leases[s][d].address.octet => c = d

ZonesKnown == zones \subseteq Zones

LeaseIInv == LeaseTypes /\ Ledger

(* The steps that leave leases and pools alone.                             *)
LEMMA OtherSteps ==
  ASSUME LeaseIInv, UNCHANGED dhcpVars, now' \in Nat
  PROVE  LeaseIInv'
BY DEF LeaseIInv, LeaseTypes, Ledger, Given, dhcpVars

LEMMA LeaseInit == Init => LeaseIInv
<1> SUFFICES ASSUME Init PROVE LeaseIInv
  OBVIOUS
<1>1. LeaseTypes
  BY Dhcp8Assumption, SMTT(30) DEF Init, DhcpInit, LeaseTypes, Given
<1>2. Ledger
  BY SMTT(30) DEF Init, DhcpInit, Ledger, Given
<1> QED  BY <1>1, <1>2 DEF LeaseIInv

(* A new lease takes the octet at the pointer, which is above all others.   *)
LEMMA DiscoverKeeps ==
  ASSUME LeaseIInv, NEW s \in Zones, NEW c \in ClientIds, Discover(s, c, now), now' = now
  PROVE  LeaseIInv'
<1> DEFINE new == Lease(s, nextHost[s], now)
<1>1. /\ nextHost[s] \in PoolStart .. PoolEnd /\ nextHost[s] \in Nat /\ now \in Nat
      /\ PoolStart \in Nat /\ PoolEnd \in Nat
  BY Dhcp8Assumption DEF Discover, LeaseIInv, LeaseTypes
<1>2. /\ new \in LeaseSet /\ new # NoLease
      /\ new.address.prefix = Network[s].prefix /\ new.address.net = Network[s].net
      /\ new.address.octet = nextHost[s]
  BY <1>1, LeaseTyped
<1>3. /\ leases' = [leases EXCEPT ![s][c] = new]
      /\ nextHost' = [nextHost EXCEPT ![s] = @ + 1]
      /\ recycled' = recycled
  BY DEF Discover
<1> HIDE DEF new
<1>4. /\ leases' \in [Zones -> [ClientIds -> LeaseSet \cup {NoLease}]]
      /\ leases'[s][c] = new
      /\ \A d \in ClientIds \ {c} : leases'[s][d] = leases[s][d]
      /\ \A t \in Zones \ {s} : leases'[t] = leases[t]
  BY <1>2, <1>3 DEF LeaseIInv, LeaseTypes
<1>5. /\ nextHost' \in [Zones -> PoolStart .. PoolEnd + 1]
      /\ nextHost'[s] = nextHost[s] + 1
      /\ \A t \in Zones \ {s} : nextHost'[t] = nextHost[t]
  BY <1>1, <1>3 DEF LeaseIInv, LeaseTypes
<1>6. LeaseTypes'
  <2> SUFFICES ASSUME NEW t \in Zones, NEW d \in ClientIds, leases'[t][d] # NoLease
               PROVE  /\ leases'[t][d].address.prefix = Network[t].prefix
                      /\ leases'[t][d].address.net = Network[t].net
                      /\ leases'[t][d].address.octet \in PoolStart .. PoolEnd
    BY <1>1, <1>3, <1>4, <1>5 DEF LeaseIInv, LeaseTypes, Given
  <2>1. CASE t = s /\ d = c
    BY <2>1, <1>1, <1>2, <1>4
  <2>2. CASE ~ (t = s /\ d = c)
    BY <2>2, <1>4 DEF LeaseIInv, LeaseTypes, Given
  <2> QED  BY <2>1, <2>2
<1>7. Ledger'
  <2> SUFFICES ASSUME NEW t \in Zones \ recycled
               PROVE  /\ \A d \in ClientIds :
                           leases'[t][d] # NoLease
                             => leases'[t][d].address.octet < nextHost'[t]
                      /\ \A d, e \in ClientIds :
                           leases'[t][d] # NoLease /\ leases'[t][e] # NoLease
                             /\ leases'[t][d].address.octet = leases'[t][e].address.octet
                             => d = e
    BY <1>3 DEF Ledger, Given
  <2>1. /\ \A d \in ClientIds : Given(t, d) => /\ leases[t][d].address.octet < nextHost[t]
                                              /\ leases[t][d].address.octet \in Nat
        /\ \A d, e \in ClientIds :
             Given(t, d) /\ Given(t, e)
               /\ leases[t][d].address.octet = leases[t][e].address.octet => d = e
    BY <1>1 DEF LeaseIInv, LeaseTypes, Ledger
  <2>2. CASE t # s
    BY <2>1, <2>2, <1>4, <1>5 DEF Given
  <2>3. CASE t = s
    <3>1. \A d \in ClientIds \ {c} :
            leases'[s][d] # NoLease => /\ leases'[s][d].address.octet < nextHost[s]
                                       /\ leases'[s][d].address.octet \in Nat
      BY <2>1, <2>3, <1>4 DEF Given
    <3>2. leases'[s][c].address.octet = nextHost[s]
      BY <1>2, <1>4
    <3>3. ASSUME NEW d \in ClientIds, leases'[s][d] # NoLease
          PROVE  leases'[s][d].address.octet < nextHost'[s]
      BY <3>1, <3>2, <3>3, <1>1, <1>5
    <3>4. ASSUME NEW d \in ClientIds, NEW e \in ClientIds,
                 leases'[s][d] # NoLease, leases'[s][e] # NoLease,
                 leases'[s][d].address.octet = leases'[s][e].address.octet
          PROVE  d = e
      <4>1. CASE d = c /\ e # c
        BY <4>1, <3>1, <3>2, <3>4, <1>1
      <4>2. CASE d # c /\ e = c
        BY <4>2, <3>1, <3>2, <3>4, <1>1
      <4>3. CASE d # c /\ e # c
        BY <4>3, <2>1, <2>3, <3>4, <1>4 DEF Given
      <4> QED  BY <4>1, <4>2, <4>3
    <3> QED  BY <2>3, <3>3, <3>4
  <2> QED  BY <2>2, <2>3
<1> QED  BY <1>6, <1>7, SMTT(30) DEF LeaseIInv

LEMMA ReleaseKeeps ==
  ASSUME LeaseIInv, NEW s \in Zones, NEW c \in ClientIds, Release(s, c), now' = now
  PROVE  LeaseIInv'
<1>1. /\ leases' = [leases EXCEPT ![s][c] = NoLease]
      /\ nextHost' = nextHost /\ recycled' = recycled
  BY DEF Release
<1>2. /\ leases' \in [Zones -> [ClientIds -> LeaseSet \cup {NoLease}]]
      /\ \A t \in Zones, d \in ClientIds :
           leases'[t][d] # NoLease => leases'[t][d] = leases[t][d]
  BY <1>1 DEF LeaseIInv, LeaseTypes
<1>3. LeaseTypes'
  BY <1>1, <1>2 DEF LeaseIInv, LeaseTypes, Given
<1>4. Ledger'
  BY <1>1, <1>2 DEF LeaseIInv, Ledger, Given
<1> QED  BY <1>3, <1>4 DEF LeaseIInv

LEMMA ResetKeeps ==
  ASSUME LeaseIInv, NEW s \in Zones, Reset(s), now' = now
  PROVE  LeaseIInv'
<1>1. /\ leases' = leases
      /\ nextHost' = [nextHost EXCEPT ![s] = PoolStart]
      /\ recycled \subseteq recycled' /\ recycled' \subseteq Zones
      /\ s \notin recycled' => \A c \in ClientIds : ~Given(s, c)
  BY DEF Reset, Given, LeaseIInv, LeaseTypes
<1>2. nextHost' \in [Zones -> PoolStart .. PoolEnd + 1]
  <2>1. PoolStart \in PoolStart .. PoolEnd + 1
    BY Dhcp8Assumption
  <2> QED  BY <1>1, <2>1 DEF LeaseIInv, LeaseTypes
<1>3. LeaseTypes'
  BY <1>1, <1>2 DEF LeaseIInv, LeaseTypes, Given
<1>4. Ledger'
  BY <1>1 DEF LeaseIInv, LeaseTypes, Ledger, Given
<1> QED  BY <1>3, <1>4 DEF LeaseIInv

LEMMA LeaseNext == ZonesKnown /\ LeaseIInv /\ [Next]_vars => LeaseIInv'
<1> SUFFICES ASSUME ZonesKnown, LeaseIInv, [Next]_vars PROVE LeaseIInv'
  OBVIOUS
<1>n. now \in Nat
  BY DEF LeaseIInv, LeaseTypes
<1>1. CASE UNCHANGED vars
  BY <1>1, <1>n, OtherSteps DEF vars, zoneVars
<1>2. ASSUME NEW z \in Zones, AddZone(z) PROVE LeaseIInv'
  BY <1>2, <1>n, OtherSteps DEF AddZone
<1>3. ASSUME NEW a, NEW b, ConnectZones(a, b) PROVE LeaseIInv'
  BY <1>3, <1>n, OtherSteps DEF ConnectZones
<1>4. ASSUME NEW z \in Zones, NEW c \in ClientIds, ProvisionDevice(z, c) PROVE LeaseIInv'
  BY <1>4, DiscoverKeeps DEF ProvisionDevice, zoneVars
<1>5. ASSUME NEW z \in Zones, NEW c \in ClientIds, AuthenticateDevice(z, c) PROVE LeaseIInv'
  BY <1>5, <1>n, OtherSteps DEF AuthenticateDevice, zoneVars
<1>6. ASSUME NEW z \in Zones, LeaseStep(z) PROVE LeaseIInv'
  BY <1>6, ReleaseKeeps, ResetKeeps DEF LeaseStep, zoneVars
<1>7. ASSUME NEW server, KeyStep(server) \/ RuleStep(server) PROVE LeaseIInv'
  BY <1>7, <1>n, OtherSteps DEF KeyStep, RuleStep, zoneVars
<1>8. CASE Tick
  <2>1. now' \in Nat
    BY <1>8, <1>n DEF Tick
  <2> QED  BY <1>8, <2>1, OtherSteps DEF Tick
<1>9. CASE \E z \in zones : ZoneStep(z)
  BY <1>9, <1>4, <1>5, <1>6, <1>7 DEF ZoneStep, ZonesKnown
<1> QED  BY <1>1, <1>2, <1>3, <1>8, <1>9 DEF Next

(* Leases of two servers differ in the network, those of one in the octet.  *)
LEMMA LedgerImplies == LeaseIInv => OneHolder
<1> SUFFICES ASSUME LeaseIInv, DistinctNetworks,
                    NEW s \in Zones \ recycled, NEW t \in Zones \ recycled,
                    NEW c \in ClientIds, NEW d \in ClientIds,
                    Given(s, c), Given(t, d), leases[s][c].address = leases[t][d].address
             PROVE  s = t /\ c = d
  BY DEF OneHolder, Given
<1>1. Network[s].prefix = Network[t].prefix /\ Network[s].net = Network[t].net
  BY DEF LeaseIInv, LeaseTypes
<1>2. Network[s] = Network[t]
  BY <1>1, Dhcp8Assumption
<1>3. s = t
  BY <1>2 DEF DistinctNetworks
<1> QED  BY <1>3 DEF LeaseIInv, Ledger

(* Only discover and release write a lease; discover spares the live ones.  *)
LEMMA KeepsAddressStep ==
  ZonesKnown /\ LeaseIInv /\ [Next]_vars =>
    \A z \in Zones, c \in ClientIds : Live(z, c, now) => leases'[z][c] \in {leases[z][c], NoLease}
<1> SUFFICES ASSUME ZonesKnown, LeaseIInv, [Next]_vars,
                    NEW z \in Zones, NEW c \in ClientIds, Live(z, c, now)
             PROVE  leases'[z][c] \in {leases[z][c], NoLease}
  OBVIOUS
<1>t. leases \in [Zones -> [ClientIds -> LeaseSet \cup {NoLease}]]
  BY DEF LeaseIInv, LeaseTypes
<1>1. ASSUME NEW s \in Zones, NEW d \in ClientIds, Discover(s, d, now)
      PROVE  leases'[z][c] = leases[z][c]
  <2>1. ~ (s = z /\ d = c)
    BY <1>1 DEF Discover
  <2> QED  BY <1>1, <1>t, <2>1 DEF Discover
<1>2. ASSUME NEW s \in Zones, NEW d \in ClientIds, Release(s, d)
      PROVE  leases'[z][c] \in {leases[z][c], NoLease}
  BY <1>2, <1>t DEF Release
<1>3. ASSUME NEW s \in Zones, LeaseStep(s)
      PROVE  leases'[z][c] \in {leases[z][c], NoLease}
  BY <1>2, <1>3 DEF LeaseStep, Reset
<1>4. ASSUME NEW s \in Zones, ZoneStep(s)
      PROVE  leases'[z][c] \in {leases[z][c], NoLease}
  BY <1>1, <1>3, <1>4 DEF ZoneStep, ProvisionDevice, AuthenticateDevice, KeyStep, RuleStep, dhcpVars
<1> QED
  BY <1>4 DEF Next, AddZone, ConnectZones, Tick, vars, dhcpVars, ZonesKnown

--------------------------------------------------------------------------------
(* Routes.  A zone's table has a route to another zone exactly if the two   *)
(* are linked, and always one to itself.                                    *)
HasRoute(routes, z) == \E i \in DOMAIN routes : routes[i] = RouteTo(z)

RouteIInv ==
  /\ ZonesKnown
  /\ tables \in [Zones -> Seq({RouteTo(z) : z \in Zones})]
  /\ links \subseteq zones \X zones
  /\ \A a \in zones, z \in Zones : HasRoute(tables[a], z) <=> (a = z \/ <<a, z>> \in links)

LEMMA RouteToInjective ==
  ASSUME NEW y, NEW z, RouteTo(y) = RouteTo(z)
  PROVE  y = z
BY DEF RouteTo

LEMMA AppendedRoute ==
  ASSUME NEW S, NEW routes \in Seq(S), NEW r \in S, NEW z
  PROVE  /\ AddRoute(routes, r) \in Seq(S)
         /\ HasRoute(AddRoute(routes, r), z) <=> (HasRoute(routes, z) \/ r = RouteTo(z))
<1> DEFINE new == Append(routes, r)
<1>1. /\ new \in Seq(S) /\ DOMAIN new = 1 .. Len(routes) + 1 /\ DOMAIN routes = 1 .. Len(routes)
      /\ new[Len(routes) + 1] = r /\ \A i \in 1 .. Len(routes) : new[i] = routes[i]
      /\ Len(routes) \in Nat
  OBVIOUS
<1> HIDE DEF new
<1>2. ASSUME HasRoute(new, z) PROVE HasRoute(routes, z) \/ r = RouteTo(z)
  <2>1. PICK i \in 1 .. Len(routes) + 1 : new[i] = RouteTo(z)
    BY <1>1, <1>2 DEF HasRoute
  <2>2. CASE i = Len(routes) + 1
    BY <1>1, <2>1, <2>2
  <2>3. CASE i # Len(routes) + 1
    <3>1. i \in 1 .. Len(routes)
      BY <1>1, <2>3
    <3> QED  BY <1>1, <2>1, <3>1 DEF HasRoute
  <2> QED  BY <2>2, <2>3
<1>3. ASSUME HasRoute(routes, z) PROVE HasRoute(new, z)
  <2>1. PICK i \in 1 .. Len(routes) : routes[i] = RouteTo(z)
    BY <1>1, <1>3 DEF HasRoute
  <2>2. i \in DOMAIN new /\ new[i] = RouteTo(z)
    BY <1>1, <2>1
  <2> QED  BY <2>2 DEF HasRoute
<1>4. ASSUME r = RouteTo(z) PROVE HasRoute(new, z)
  <2>1. Len(routes) + 1 \in DOMAIN new
    BY <1>1
  <2> QED  BY <1>1, <1>4, <2>1 DEF HasRoute
<1> QED  BY <1>1, <1>2, <1>3, <1>4 DEF AddRoute, new

LEMMA RouteInit == Init => RouteIInv
<1> SUFFICES ASSUME Init PROVE RouteIInv
  OBVIOUS
<1>1. tables \in [Zones -> Seq({RouteTo(z) : z \in Zones})]
  BY DEF Init
<1> QED  BY <1>1 DEF Init, RouteIInv, ZonesKnown

LEMMA AddZoneRoutes ==
  ASSUME RouteIInv, NEW z \in Zones, AddZone(z)
  PROVE  RouteIInv'
<1> DEFINE all == {RouteTo(y) : y \in Zones}
<1>1. /\ zones' = zones \cup {z} /\ z \notin zones /\ links' = links
      /\ tables' = [tables EXCEPT ![z] = <<RouteTo(z)>>]
      /\ tables \in [Zones -> Seq(all)]
      /\ zones \subseteq Zones
  BY DEF AddZone, RouteIInv, ZonesKnown
<1>2. RouteTo(z) \in all
  OBVIOUS
<1> HIDE DEF all
<1>3. <<RouteTo(z)>> \in Seq(all)
  BY <1>2
<1>4. /\ tables' \in [Zones -> Seq(all)]
      /\ tables'[z] = <<RouteTo(z)>>
      /\ \A a \in Zones \ {z} : tables'[a] = tables[a]
  BY <1>1, <1>3
<1>5. \A y : HasRoute(<<RouteTo(z)>>, y) <=> y = z
  BY DEF HasRoute, RouteTo
<1>6. links \subseteq zones \X zones
  BY DEF RouteIInv
<1>7. ASSUME NEW a \in zones', NEW y \in Zones
      PROVE  HasRoute(tables'[a], y) <=> (a = y \/ <<a, y>> \in links)
  <2>1. CASE a = z
    <3>1. <<a, y>> \notin links
      BY <1>1, <1>6, <2>1
    <3> QED  BY <1>4, <1>5, <2>1, <3>1
  <2>2. CASE a # z
    BY <1>1, <1>4, <2>2 DEF RouteIInv
  <2> QED  BY <2>1, <2>2
<1> QED  BY <1>1, <1>4, <1>6, <1>7 DEF RouteIInv, ZonesKnown, HasRoute, RouteTo, all

LEMMA ConnectRoutes ==
  ASSUME RouteIInv, NEW a \in zones, NEW b \in zones, ConnectZones(a, b)
  PROVE  RouteIInv'
<1> DEFINE all == {RouteTo(y) : y \in Zones}
           near == AddRoute(tables[a], RouteTo(b))
           far == AddRoute(IF a = b THEN near ELSE tables[b], RouteTo(a))
<1>1. /\ zones' = zones /\ links' = links \cup {<<a, b>>, <<b, a>>}
      /\ tables' = WithRoute(WithRoute(tables, a, b), b, a)
      /\ tables \in [Zones -> Seq(all)]
      /\ links \subseteq zones \X zones
      /\ zones \subseteq Zones
  BY DEF ConnectZones, Connect, RouteIInv, ZonesKnown
<1>2. RouteTo(a) \in all /\ RouteTo(b) \in all /\ a \in Zones /\ b \in Zones
  BY <1>1
<1>3. /\ tables'[b] = far
      /\ a # b => tables'[a] = near
      /\ \A y \in Zones \ {a, b} : tables'[y] = tables[y]
      /\ DOMAIN tables' = Zones
      /\ tables' = [y \in Zones |-> tables'[y]]
  <2> DEFINE mid == [tables EXCEPT ![a] = near]
  <2>1. tables' = [mid EXCEPT ![b] = AddRoute(@, RouteTo(a))]
    BY <1>1 DEF WithRoute
  <2> HIDE DEF near
  <2>2. /\ DOMAIN mid = Zones /\ mid = [y \in Zones |-> mid[y]]
        /\ mid[a] = near /\ \A y \in Zones \ {a} : mid[y] = tables[y]
    BY <1>1, <1>2
  <2> HIDE DEF mid
  <2>3. /\ tables'[b] = AddRoute(mid[b], RouteTo(a))
        /\ \A y \in Zones \ {b} : tables'[y] = mid[y]
        /\ DOMAIN tables' = Zones /\ tables' = [y \in Zones |-> tables'[y]]
    BY <1>2, <2>1, <2>2
  <2>4. mid[b] = IF a = b THEN near ELSE tables[b]
    BY <1>2, <2>2
  <2> QED  BY <1>2, <2>2, <2>3, <2>4
<1>a. tables[a] \in Seq(all) /\ tables[b] \in Seq(all)
  BY <1>1, <1>2
<1> HIDE DEF all
<1>4. /\ near \in Seq(all)
      /\ \A y : HasRoute(near, y) <=> (HasRoute(tables[a], y) \/ RouteTo(b) = RouteTo(y))
  BY <1>a, <1>2, AppendedRoute
<1>5. (IF a = b THEN near ELSE tables[b]) \in Seq(all)
  BY <1>a, <1>4
<1> HIDE DEF near
<1>6. /\ far \in Seq(all)
      /\ \A y : HasRoute(far, y) <=>
             (HasRoute(IF a = b THEN near ELSE tables[b], y) \/ RouteTo(a) = RouteTo(y))
  BY <1>2, <1>5, AppendedRoute
<1> HIDE DEF far
<1>7. \A y \in Zones : tables'[y] \in Seq(all)
  BY <1>1, <1>3, <1>4, <1>6
<1>8. tables' \in [Zones -> Seq(all)]
  BY <1>3, <1>7
<1>9. \A x, y \in Zones : x \in zones =>
        (HasRoute(tables[x], y) <=> (x = y \/ <<x, y>> \in links))
  BY DEF RouteIInv
<1>10. \A x, y : RouteTo(x) = RouteTo(y) <=> x = y
  BY RouteToInjective
<1>11. ASSUME NEW x \in zones, NEW y \in Zones
       PROVE  HasRoute(tables'[x], y) <=> (x = y \/ <<x, y>> \in links \cup {<<a, b>>, <<b, a>>})
  <2>0. x \in Zones
    BY <1>1
  <2>1. CASE x = b /\ a = b
    BY <2>0, <2>1, <1>2, <1>3, <1>4, <1>6, <1>9, <1>10
  <2>2. CASE x = b /\ a # b
    BY <2>0, <2>2, <1>2, <1>3, <1>6, <1>9, <1>10
  <2>3. CASE x = a /\ a # b
    BY <2>0, <2>3, <1>2, <1>3, <1>4, <1>9, <1>10
  <2>4. CASE x \notin {a, b}
    BY <2>0, <2>4, <1>3, <1>9
  <2> QED  BY <2>1, <2>2, <2>3, <2>4
<1>12. links' \subseteq zones' \X zones'
  BY <1>1
<1> QED  BY <1>1, <1>8, <1>11, <1>12 DEF RouteIInv, ZonesKnown, HasRoute, RouteTo, all

LEMMA RouteNext == RouteIInv /\ [Next]_vars => RouteIInv'
<1> SUFFICES ASSUME RouteIInv, [Next]_vars PROVE RouteIInv'
  OBVIOUS
<1>1. ASSUME UNCHANGED <<zones, tables, links>> PROVE RouteIInv'
  BY <1>1 DEF RouteIInv, ZonesKnown, HasRoute, RouteTo
<1>2. CASE \E z \in Zones : AddZone(z)
  BY <1>2, AddZoneRoutes
<1>3. CASE \E a, b \in zones : ConnectZones(a, b)
  BY <1>3, ConnectRoutes
<1>4. ASSUME NEW z, ZoneStep(z) PROVE RouteIInv'
  BY <1>1, <1>4 DEF ZoneStep, ProvisionDevice, AuthenticateDevice, LeaseStep, KeyStep, RuleStep, zoneVars
<1>5. CASE Tick \/ UNCHANGED vars
  BY <1>1, <1>5 DEF Tick, vars, zoneVars
<1> QED  BY <1>2, <1>3, <1>4, <1>5 DEF Next

(* The lookup of a prefix finds a route to the zone that has it if there is *)
(* one, and nothing otherwise: there is no default route.                   *)
LEMMA FindsZone ==
  ASSUME DistinctPrefixes, NEW routes \in Seq({RouteTo(z) : z \in Zones}), NEW b \in Zones
  PROVE  FindRoute(routes, Network[b].prefix) = IF HasRoute(routes, b) THEN RouteTo(b) ELSE NoRoute
<1> DEFINE p == Network[b].prefix
<1>1. \A i \in DOMAIN routes : \E z \in Zones : routes[i] = RouteTo(z)
  OBVIOUS
<1>2. \A S : Hits(routes, S) \subseteq Nat
  BY DEF Hits
<1>3. First(routes, Zero) = NoRoute
  BY <1>1, MultiZoneAssumption DEF First, Hits, RouteTo
<1>4. \A i \in DOMAIN routes : routes[i].dest = p <=> routes[i] = RouteTo(b)
  BY <1>1 DEF DistinctPrefixes, RouteTo
<1>5. RouteTo(b) # NoRoute
  BY MultiZoneAssumption DEF RouteTo
<1>6. CASE HasRoute(routes, b)
  <2>1. Hits(routes, p) # {}
    BY <1>6, <1>4 DEF HasRoute, Hits
  <2>2. Min(Hits(routes, p)) \in Hits(routes, p)
    BY <1>2, <2>1, MinOfNats
  <2>3. First(routes, p) = RouteTo(b)
    BY <2>1, <2>2, <1>4 DEF First, Hits
  <2> QED  BY <1>5, <1>6, <2>3 DEF FindRoute, OrElse
<1>7. CASE ~HasRoute(routes, b)
  <2>1. Hits(routes, p) = {}
    BY <1>7, <1>4 DEF HasRoute, Hits
  <2> QED  BY <1>3, <1>7, <2>1 DEF FindRoute, OrElse, First
<1> QED  BY <1>6, <1>7

LEMMA RoutesLead == LeaseIInv /\ RouteIInv => RoutedToOwner
<1> SUFFICES ASSUME LeaseIInv, RouteIInv, DistinctPrefixes,
                    NEW a \in zones, NEW b \in zones, NEW c \in ClientIds, Given(b, c)
             PROVE  RouteBetweenZones(a, leases[b][c].address)
                      = IF a = b \/ <<a, b>> \in links THEN RouteTo(b) ELSE NoRoute
  BY DEF RoutedToOwner, Given
<1> DEFINE adr == [prefix |-> leases[b][c].address.prefix,
                   host |-> Append(leases[b][c].address.net, leases[b][c].address.octet)]
<1>1. a \in Zones /\ b \in Zones
  BY DEF RouteIInv, ZonesKnown
<1>2. adr.prefix = Network[b].prefix /\ adr.prefix # Zero
  BY <1>1, MultiZoneAssumption DEF LeaseIInv, LeaseTypes
<1> HIDE DEF adr
<1>3. Tier2Lookup(<< >>, adr.host) = NoRoute
  BY DEF Tier2Lookup, OrElse, First, Hits
<1>4. FindRoute(tables[a], adr.prefix) = IF a = b \/ <<a, b>> \in links THEN RouteTo(b) ELSE NoRoute
  BY <1>1, <1>2, FindsZone DEF RouteIInv
<1>5. TwoTierFindRoute(tables[a], << >>, adr)
        = IF a = b \/ <<a, b>> \in links THEN RouteTo(b) ELSE NoRoute
  BY <1>2, <1>3, <1>4 DEF TwoTierFindRoute, OrElse
<1> QED  BY <1>5 DEF RouteBetweenZones, adr

--------------------------------------------------------------------------------
(* Tokens and keys.                                                         *)
LEMMA ServersOfZone ==
  ASSUME NEW z \in Zones
  PROVE  /\ Primary(z) \in ZoneServers /\ Secondary(z) \in ZoneServers
         /\ Primary(z) # Secondary(z)
         /\ \A y : Primary(y) = Primary(z) => y = z
         /\ \A y : Primary(y) # Secondary(z)
BY DEF Primary, Secondary, ZoneServers

LEMMA KeyStored ==
  ASSUME NEW K, K \in [ZoneServers -> [KeyIds -> Secrets \cup {NoKey}]],
         NEW server \in ZoneServers, NEW k \in KeyIds, NEW secret \in Secrets \cup {NoKey}
  PROVE  [K EXCEPT ![server][k] = secret] \in [ZoneServers -> [KeyIds -> Secrets \cup {NoKey}]]
OBVIOUS

LEMMA KeyStepTypes ==
  ASSUME OAuthTypeOK, NEW server \in ZoneServers, KeyStep(server)
  PROVE  OAuthTypeOK'
<1>1. ASSUME NEW k \in KeyIds, NEW secret \in Secrets, RegisterKey(server, k, secret)
      PROVE  OAuthTypeOK'
  BY <1>1, KeyStored DEF RegisterKey, OAuthTypeOK
<1>2. ASSUME NEW k \in KeyIds, UnregisterKey(server, k) PROVE OAuthTypeOK'
  BY <1>2, KeyStored DEF UnregisterKey, OAuthTypeOK
<1>3. ASSUME NEW token \in tokens, RevokeToken(server, token) PROVE OAuthTypeOK'
  BY <1>3 DEF RevokeToken, OAuthTypeOK
<1> QED  BY <1>1, <1>2, <1>3 DEF KeyStep

LEMMA AuthenticateTypes ==
  ASSUME OAuthTypeOK, now \in Nat, NEW z \in Zones, NEW c \in ClientIds, AuthenticateDevice(z, c)
  PROVE  OAuthTypeOK'
<1> DEFINE token == Token(Primary(z), KeyOf[z], c, now)
<1>1. /\ KeyOf[z] \in KeyIds /\ c \in Subjects /\ now + TokenDuration \in Nat
      /\ keys[Primary(z)][KeyOf[z]] \in Secrets
  BY ServersOfZone, MultiZoneAssumption, OAuth8Assumption
     DEF AuthenticateDevice, IssueToken, OAuthTypeOK
<1>2. token \in [kid : KeyIds, secret : Secrets, subject : Subjects, exp : Nat]
  BY <1>1 DEF Token
<1> HIDE DEF token
<1>3. tokens' = tokens \cup {token} /\ keys' = keys /\ revokedTokens' = revokedTokens
  BY DEF AuthenticateDevice, IssueToken, token
<1> QED  BY <1>2, <1>3 DEF OAuthTypeOK

LEMMA AddZoneKeys ==
  ASSUME OAuthTypeOK, NEW z \in Zones, AddZone(z)
  PROVE  OAuthTypeOK'
<1> DEFINE once == [keys EXCEPT ![Primary(z)][KeyOf[z]] = SecretOf[z]]
<1>1. KeyOf[z] \in KeyIds /\ SecretOf[z] \in Secrets
  BY MultiZoneAssumption
<1>2. once \in [ZoneServers -> [KeyIds -> Secrets \cup {NoKey}]]
  BY <1>1, ServersOfZone, KeyStored DEF OAuthTypeOK
<1>3. [once EXCEPT ![Secondary(z)][KeyOf[z]] = SecretOf[z]]
        \in [ZoneServers -> [KeyIds -> Secrets \cup {NoKey}]]
  BY <1>1, <1>2, ServersOfZone, KeyStored
<1>4. keys' = [once EXCEPT ![Secondary(z)][KeyOf[z]] = SecretOf[z]]
  BY ServersOfZone DEF AddZone
<1> QED  BY <1>3, <1>4 DEF AddZone, OAuthTypeOK

LEMMA OAuthNext == ZonesKnown /\ now \in Nat /\ OAuthTypeOK /\ [Next]_vars => OAuthTypeOK'
<1> SUFFICES ASSUME ZonesKnown, now \in Nat, OAuthTypeOK, [Next]_vars PROVE OAuthTypeOK'
  OBVIOUS
<1>1. ASSUME UNCHANGED oauthVars PROVE OAuthTypeOK'
  BY <1>1 DEF OAuthTypeOK, oauthVars
<1>2. ASSUME NEW z \in Zones, AddZone(z) PROVE OAuthTypeOK'
  BY <1>2, AddZoneKeys
<1>3. ASSUME NEW z \in Zones, NEW c \in ClientIds, AuthenticateDevice(z, c) PROVE OAuthTypeOK'
  BY <1>3, AuthenticateTypes
<1>4. ASSUME NEW z \in Zones, \E server \in {Primary(z), Secondary(z)} : KeyStep(server)
      PROVE  OAuthTypeOK'
  BY <1>4, ServersOfZone, KeyStepTypes
<1>5. ASSUME NEW z \in Zones, ZoneStep(z) PROVE OAuthTypeOK'
  BY <1>1, <1>3, <1>4, <1>5 DEF ZoneStep, ProvisionDevice, LeaseStep, RuleStep
<1>6. CASE Tick \/ UNCHANGED vars \/ \E a, b \in zones : ConnectZones(a, b)
  BY <1>1, <1>6 DEF Tick, vars, ConnectZones
<1> QED  BY <1>2, <1>5, <1>6 DEF Next, ZonesKnown

(* No token lasts longer than one issued now would.                         *)
TokensTimely == \A token \in tokens : token.exp <= now + TokenDuration

LEMMA TimelyNext ==
  ASSUME ZonesKnown, now \in Nat, OAuthTypeOK, TokensTimely, [Next]_vars
  PROVE  TokensTimely'
<1> USE OAuth8Assumption
<1>1. CASE UNCHANGED tokens /\ now' \in {now, now + 1}
  <2>1. ASSUME NEW token \in tokens PROVE token.exp \in Nat
    BY DEF OAuthTypeOK
  <2>2. ASSUME NEW token \in tokens PROVE token.exp <= now' + TokenDuration
    <3>1. token.exp \in Nat /\ token.exp <= now + TokenDuration
      BY <2>1 DEF TokensTimely
    <3> QED  BY <1>1, <3>1
  <2> QED  BY <1>1, <2>2 DEF TokensTimely
<1>2. ASSUME NEW z \in Zones, NEW c \in ClientIds, AuthenticateDevice(z, c) PROVE TokensTimely'
  <2> DEFINE token == Token(Primary(z), KeyOf[z], c, now)
  <2>1. token.exp = now + TokenDuration /\ now + TokenDuration \in Int
    BY DEF Token
  <2> HIDE DEF token
  <2>2. tokens' = tokens \cup {token} /\ now' = now
    BY <1>2 DEF AuthenticateDevice, IssueToken, token, zoneVars
  <2> QED  BY <2>1, <2>2 DEF TokensTimely
<1>3. ASSUME NEW server, KeyStep(server) PROVE UNCHANGED <<tokens, now>>
  BY <1>3 DEF KeyStep, RegisterKey, UnregisterKey, RevokeToken, zoneVars
<1>4. ASSUME NEW z \in Zones, ZoneStep(z) PROVE TokensTimely'
  BY <1>1, <1>2, <1>3, <1>4
     DEF ZoneStep, ProvisionDevice, LeaseStep, RuleStep, oauthVars, zoneVars
<1>5. (UNCHANGED tokens /\ now' \in {now, now + 1}) \/ \E z \in zones : ZoneStep(z)
  BY DEF Next, AddZone, ConnectZones, Tick, oauthVars, zoneVars, vars
<1> QED  BY <1>1, <1>4, <1>5 DEF ZonesKnown

LEMMA ShutOutStep ==
  ASSUME ZonesKnown, now \in Nat, OAuthTypeOK, TokensTimely, [Next]_vars, now' # now,
         NEW z \in zones, NEW c \in ClientIds, keys[Primary(z)][KeyOf[z]] # NoKey
  PROVE  ValidateToken(Primary(z), Token(Primary(z), KeyOf[z], c, now'), now')
<1> DEFINE token == Token(Primary(z), KeyOf[z], c, now')
<1>1. now' = now + 1
  <2>1. ASSUME NEW y, ZoneStep(y) PROVE now' = now
    BY <2>1 DEF ZoneStep, ProvisionDevice, AuthenticateDevice, LeaseStep, KeyStep, RuleStep, zoneVars
  <2> QED  BY <2>1 DEF Next, AddZone, ConnectZones, Tick, vars, zoneVars
<1>2. /\ token.exp = now' + TokenDuration /\ token.kid = KeyOf[z]
      /\ token.secret = keys[Primary(z)][KeyOf[z]]
  BY DEF Token
<1> HIDE DEF token
<1>3. TokenDuration \in Nat /\ TokenDuration > 0
  BY OAuth8Assumption, MultiZoneAssumption
<1>4. token \notin tokens
  <2>1. ASSUME token \in tokens PROVE FALSE
    <3>1. token.exp <= now + TokenDuration
      BY <2>1 DEF TokensTimely
    <3> QED  BY <1>1, <1>2, <1>3, <3>1
  <2> QED  BY <2>1
<1>5. Primary(z) \in ZoneServers
  BY ServersOfZone DEF ZonesKnown
<1>6. token \notin revokedTokens[Primary(z)]
  BY <1>4, <1>5 DEF OAuthTypeOK
<1>7. now' < token.exp
  BY <1>1, <1>2, <1>3
<1> QED  BY <1>2, <1>6, <1>7 DEF ValidateToken, token

--------------------------------------------------------------------------------
(* Access rules.                                                            *)
Covers(rule, s, d) == rule.source \in {Anyone, s} /\ rule.destination \in {Anyone, d}

(* Deciding and Evaluate as functions of a sequence of rules.               *)
DecidingIn(seq, s, d) ==
  LET hits == {j \in DOMAIN seq : Covers(seq[j], s, d)} IN IF hits = {} THEN 0 ELSE Min(hits)

Verdict(seq, s, d) ==
  IF DecidingIn(seq, s, d) = 0 THEN "DENY" ELSE seq[DecidingIn(seq, s, d)].action

LEMMA EngineVerdict ==
  ASSUME NEW e, NEW s, NEW d
  PROVE  /\ Deciding(e, s, d) = DecidingIn(rules[e], s, d)
         /\ Evaluate(e, s, d) = Verdict(rules[e], s, d)
         /\ Evaluate(e, s, d)' = Verdict(rules'[e], s, d)
BY DEF Deciding, Evaluate, Matching, Covers, DecidingIn, Verdict

(* The first rule that covers s and d decides.                              *)
Decides(seq, s, d, i) ==
  /\ i \in DOMAIN seq /\ Covers(seq[i], s, d)
  /\ \A j \in DOMAIN seq : Covers(seq[j], s, d) => i <= j

LEMMA FirstDecides ==
  ASSUME NEW seq \in Seq(Rule), NEW s, NEW d
  PROVE  /\ DecidingIn(seq, s, d) # 0 => Decides(seq, s, d, DecidingIn(seq, s, d))
         /\ \A i : Decides(seq, s, d, i) => DecidingIn(seq, s, d) = i /\ i # 0
<1> DEFINE hits == {j \in DOMAIN seq : Covers(seq[j], s, d)}
<1>1. hits \subseteq Nat \ {0}
  OBVIOUS
<1>2. CASE hits = {}
  BY <1>2 DEF DecidingIn, Decides
<1>3. CASE hits # {}
  <2>1. DecidingIn(seq, s, d) = Min(hits)
    BY <1>3 DEF DecidingIn
  <2>2. Min(hits) \in hits /\ \A j \in hits : Min(hits) <= j
    <3> HIDE DEF hits
    <3> QED  BY <1>1, <1>3, MinOfNats
  <2>3. Decides(seq, s, d, Min(hits))
    BY <2>2 DEF Decides
  <2>4. ASSUME NEW i, Decides(seq, s, d, i) PROVE i = Min(hits)
    <3>1. i \in hits /\ Min(hits) \in DOMAIN seq /\ Covers(seq[Min(hits)], s, d)
      BY <2>2, <2>4 DEF Decides
    <3>2. i <= Min(hits) /\ i \in Nat
      BY <3>1, <2>4, <1>1 DEF Decides
    <3> HIDE DEF hits
    <3> QED  BY <1>1, <2>2, <3>1, <3>2
  <2> QED  BY <1>1, <2>1, <2>2, <2>3, <2>4
<1> QED  BY <1>2, <1>3

LEMMA AppendStays ==
  ASSUME NEW seq \in Seq(Rule), NEW rule \in Rule, NEW s, NEW d, DecidingIn(seq, s, d) # 0
  PROVE  Verdict(Append(seq, rule), s, d) = Verdict(seq, s, d)
<1> DEFINE i == DecidingIn(seq, s, d)
           new == Append(seq, rule)
<1>1. Decides(seq, s, d, i)
  BY FirstDecides
<1>2. /\ new \in Seq(Rule) /\ Len(seq) \in Nat
      /\ DOMAIN seq = 1 .. Len(seq) /\ DOMAIN new = 1 .. Len(seq) + 1
      /\ \A j \in 1 .. Len(seq) : new[j] = seq[j]
  OBVIOUS
<1> HIDE DEF i, new
<1>3. Decides(new, s, d, i)
  <2>1. i \in 1 .. Len(seq)
    BY <1>1, <1>2 DEF Decides
  <2>2. ASSUME NEW j \in 1 .. Len(seq) + 1, Covers(new[j], s, d) PROVE i <= j
    <3>1. CASE j \in 1 .. Len(seq)
      BY <1>1, <1>2, <2>2, <3>1 DEF Decides
    <3>2. CASE j = Len(seq) + 1
      BY <2>1, <3>2, <1>2
    <3> QED  BY <1>2, <3>1, <3>2
  <2> QED  BY <1>1, <1>2, <2>1, <2>2 DEF Decides
<1>4. DecidingIn(new, s, d) = i /\ i # 0
  BY <1>2, <1>3, FirstDecides
<1> QED  BY <1>1, <1>2, <1>4 DEF Verdict, Decides, i, new

LEMMA WithoutShifts ==
  ASSUME NEW seq \in Seq(Rule), NEW k \in 1 .. Len(seq)
  PROVE  /\ Without(seq, k) \in Seq(Rule)
         /\ DOMAIN Without(seq, k) = 1 .. Len(seq) - 1
         /\ \A j \in 1 .. Len(seq) - 1 :
              Without(seq, k)[j] = seq[IF j < k THEN j ELSE j + 1]
<1> DEFINE head == SubSeq(seq, 1, k - 1)
           tail == SubSeq(seq, k + 1, Len(seq))
<1>1. /\ head \in Seq(Rule) /\ Len(head) = k - 1
      /\ \A j \in 1 .. k - 1 : head[j] = seq[j]
  OBVIOUS
<1>2. /\ tail \in Seq(Rule) /\ Len(tail) = Len(seq) - k
      /\ \A j \in 1 .. Len(seq) - k : tail[j] = seq[k + j]
  OBVIOUS
<1>3. Without(seq, k) = head \o tail
  BY DEF Without
<1> HIDE DEF head, tail
<1>4. /\ head \o tail \in Seq(Rule)
      /\ DOMAIN (head \o tail) = 1 .. Len(seq) - 1
      /\ \A j \in 1 .. Len(seq) - 1 :
           (head \o tail)[j] = IF j < k THEN head[j] ELSE tail[j - (k - 1)]
  BY <1>1, <1>2
<1> QED  BY <1>1, <1>2, <1>3, <1>4

LEMMA WithoutStays ==
  ASSUME NEW seq \in Seq(Rule), NEW k \in DOMAIN seq, NEW s, NEW d,
         DecidingIn(seq, s, d) \notin {0, k}
  PROVE  Verdict(Without(seq, k), s, d) = Verdict(seq, s, d)
<1> DEFINE i == DecidingIn(seq, s, d)
           new == Without(seq, k)
           at == IF i < k THEN i ELSE i - 1
<1>1. Decides(seq, s, d, i) /\ i # k
  BY FirstDecides
<1>2. /\ new \in Seq(Rule) /\ Len(seq) \in Nat /\ k \in 1 .. Len(seq)
      /\ DOMAIN seq = 1 .. Len(seq) /\ DOMAIN new = 1 .. Len(seq) - 1
      /\ \A j \in 1 .. Len(seq) - 1 : new[j] = seq[IF j < k THEN j ELSE j + 1]
  BY WithoutShifts
<1> HIDE DEF i, new
<1>3. i \in 1 .. Len(seq) /\ at \in 1 .. Len(seq) - 1 /\ new[at] = seq[i]
  BY <1>1, <1>2 DEF Decides
<1>4. Decides(new, s, d, at)
  <2>1. ASSUME NEW j \in 1 .. Len(seq) - 1, Covers(new[j], s, d) PROVE at <= j
    <3>1. CASE j < k
      <4>1. i <= j
        BY <1>1, <1>2, <2>1, <3>1 DEF Decides
      <4> QED  BY <1>2, <1>3, <3>1, <4>1
    <3>2. CASE ~ (j < k)
      <4>1. i <= j + 1
        BY <1>1, <1>2, <2>1, <3>2, SMTT(30) DEF Decides
      <4> QED  BY <1>1, <1>2, <1>3, <3>2, <4>1
    <3> QED  BY <3>1, <3>2
  <2> QED  BY <1>1, <1>2, <1>3, <2>1 DEF Decides
<1> HIDE DEF at
<1>5. DecidingIn(new, s, d) = at /\ at # 0
  BY <1>2, <1>4, FirstDecides
<1> QED  BY <1>3, <1>5 DEF Verdict, i, new

LEMMA GatewayRuleTyped == GatewayRule \in Rule
BY MultiZoneAssumption DEF GatewayRule, Rule

(* Every step leaves an engine alone, adds a rule at its end or takes one   *)
(* away.                                                                    *)
RuleChange(e) ==
  \/ rules'[e] = rules[e]
  \/ \E rule \in Rule : rules'[e] = Append(rules[e], rule)
  \/ \E k \in DOMAIN rules[e] : rules'[e] = Without(rules[e], k)

LEMMA RulesNext ==
  ASSUME AclTypeOK, [Next]_vars
  PROVE  DOMAIN rules' = ZoneServers /\ rules' = [e \in ZoneServers |-> rules'[e]]
         /\ \A e \in ZoneServers : RuleChange(e)
<1> DEFINE Goal == /\ DOMAIN rules' = ZoneServers /\ rules' = [e \in ZoneServers |-> rules'[e]]
                   /\ \A e \in ZoneServers : RuleChange(e)
<1>t. rules \in [ZoneServers -> Seq(Rule)]
  BY DEF AclTypeOK
<1>1. ASSUME UNCHANGED rules PROVE Goal
  BY <1>1, <1>t DEF RuleChange
<1>2. ASSUME NEW z \in Zones, AddZone(z) PROVE Goal
  BY <1>2, <1>t, GatewayRuleTyped DEF AddZone, RuleChange
<1>3. ASSUME NEW server, RuleStep(server) PROVE Goal
  <2>1. ASSUME NEW rule \in Rule, AddRule(server, rule) PROVE Goal
    BY <1>t, <2>1 DEF AddRule, RuleChange
  <2>2. ASSUME NEW k \in DOMAIN rules[server], RemoveRule(server, k) PROVE Goal
    BY <1>t, <2>2 DEF RemoveRule, RuleChange
  <2> QED  BY <1>3, <2>1, <2>2 DEF RuleStep
<1>4. ASSUME NEW z, ZoneStep(z) PROVE Goal
  BY <1>1, <1>3, <1>4 DEF ZoneStep, ProvisionDevice, AuthenticateDevice, LeaseStep, KeyStep
<1>5. CASE Tick \/ UNCHANGED vars \/ \E a, b \in zones : ConnectZones(a, b)
  BY <1>1, <1>5 DEF Tick, vars, ConnectZones
<1> QED  BY <1>2, <1>4, <1>5 DEF Next

LEMMA AclNext == AclTypeOK /\ [Next]_vars => AclTypeOK'
<1> SUFFICES ASSUME AclTypeOK, [Next]_vars PROVE AclTypeOK'
  OBVIOUS
<1>1. ASSUME NEW e \in ZoneServers PROVE rules'[e] \in Seq(Rule)
  <2>1. rules[e] \in Seq(Rule) /\ RuleChange(e)
    BY RulesNext DEF AclTypeOK
  <2>2. CASE \E rule \in Rule : rules'[e] = Append(rules[e], rule)
    BY <2>1, <2>2
  <2>3. CASE \E k \in DOMAIN rules[e] : rules'[e] = Without(rules[e], k)
    BY <2>1, <2>3, WithoutShifts
  <2> QED  BY <2>1, <2>2, <2>3 DEF RuleChange
<1> QED  BY <1>1, RulesNext DEF AclTypeOK

LEMMA DecisionsStep ==
  AclTypeOK /\ [Next]_vars =>
    \A e \in ZoneServers, s, d \in Ends :
      Evaluate(e, s, d)' # Evaluate(e, s, d) =>
        LET i == Deciding(e, s, d) IN i = 0 \/ rules'[e] = Without(rules[e], i)
<1> SUFFICES ASSUME AclTypeOK, [Next]_vars, NEW e \in ZoneServers, NEW s \in Ends, NEW d \in Ends,
                    Verdict(rules'[e], s, d) # Verdict(rules[e], s, d),
                    DecidingIn(rules[e], s, d) # 0
             PROVE  rules'[e] = Without(rules[e], DecidingIn(rules[e], s, d))
  BY EngineVerdict
<1>1. rules[e] \in Seq(Rule) /\ RuleChange(e)
  BY RulesNext DEF AclTypeOK
<1>2. ASSUME NEW rule \in Rule, rules'[e] = Append(rules[e], rule) PROVE FALSE
  <2>1. Verdict(Append(rules[e], rule), s, d) = Verdict(rules[e], s, d)
    BY <1>1, AppendStays
  <2> QED  BY <1>2, <2>1
<1>3. PICK k \in DOMAIN rules[e] : rules'[e] = Without(rules[e], k)
  BY <1>1, <1>2 DEF RuleChange
<1>4. k = DecidingIn(rules[e], s, d)
  BY <1>1, <1>3, WithoutStays
<1> QED  BY <1>3, <1>4

--------------------------------------------------------------------------------
(* Nothing is kept for a zone that was not added.                           *)
Fresh ==
  \A z \in Zones \ zones :
    /\ tables[z] = << >> /\ rules[Primary(z)] = << >>
    /\ \A c \in ClientIds : leases[z][c] = NoLease

IInv ==
  /\ LeaseIInv /\ RouteIInv /\ OAuthTypeOK /\ TokensTimely /\ AclTypeOK /\ Fresh
  /\ now \in 0 .. MaxTime

LEMMA ComponentStepFresh ==
  ASSUME IInv, NEW z \in zones, ZoneStep(z)
  PROVE  Fresh'
<1> SUFFICES ASSUME NEW y \in Zones \ zones, zones' = zones, tables' = tables
             PROVE  /\ rules'[Primary(y)] = << >>
                    /\ \A c \in ClientIds : leases'[y][c] = NoLease
  BY DEF Fresh, IInv, ZoneStep, ProvisionDevice, AuthenticateDevice, LeaseStep, KeyStep, RuleStep,
         zoneVars
<1>1. /\ z \in Zones /\ y # z
      /\ leases \in [Zones -> [ClientIds -> LeaseSet \cup {NoLease}]]
      /\ rules \in [ZoneServers -> Seq(Rule)]
      /\ rules[Primary(y)] = << >> /\ \A c \in ClientIds : leases[y][c] = NoLease
  BY DEF IInv, RouteIInv, ZonesKnown, LeaseIInv, LeaseTypes, AclTypeOK, Fresh
<1>2. leases'[y] = leases[y]
  <2>1. UNCHANGED leases \/ \E x : leases' = [leases EXCEPT ![z] = x]
    <3>1. ASSUME NEW c \in ClientIds, Discover(z, c, now) PROVE \E x : leases' = [leases EXCEPT ![z] = x]
      BY <3>1 DEF Discover
    <3>2. ASSUME NEW c \in ClientIds, Release(z, c) PROVE \E x : leases' = [leases EXCEPT ![z] = x]
      BY <3>2 DEF Release
    <3> QED
      BY <3>1, <3>2 DEF ZoneStep, ProvisionDevice, AuthenticateDevice, LeaseStep, KeyStep, RuleStep,
                        Reset, dhcpVars
  <2> QED  BY <1>1, <2>1
<1>3. rules'[Primary(y)] = rules[Primary(y)]
  <2>1. Primary(y) \notin {Primary(z), Secondary(z)} /\ Primary(y) \in ZoneServers
    BY <1>1, ServersOfZone
  <2>2. UNCHANGED rules \/ \E server \in {Primary(z), Secondary(z)} : \E x : rules' = [rules EXCEPT ![server] = x]
    <3>1. ASSUME NEW server, RuleStep(server) PROVE \E x : rules' = [rules EXCEPT ![server] = x]
      BY <3>1 DEF RuleStep, AddRule, RemoveRule
    <3> QED
      BY <3>1 DEF ZoneStep, ProvisionDevice, AuthenticateDevice, LeaseStep, KeyStep
  <2> QED  BY <1>1, <2>1, <2>2
<1> QED  BY <1>1, <1>2, <1>3

LEMMA FreshNext == IInv /\ [Next]_vars => Fresh'
<1> SUFFICES ASSUME IInv, [Next]_vars PROVE Fresh'
  OBVIOUS
<1>t. /\ zones \subseteq Zones
      /\ tables \in [Zones -> Seq({RouteTo(z) : z \in Zones})]
      /\ rules \in [ZoneServers -> Seq(Rule)]
  BY DEF IInv, RouteIInv, ZonesKnown, AclTypeOK
<1>1. ASSUME NEW z \in Zones, AddZone(z) PROVE Fresh'
  <2> SUFFICES ASSUME NEW y \in Zones \ zones, y # z
               PROVE  /\ tables'[y] = << >> /\ rules'[Primary(y)] = << >>
                      /\ \A c \in ClientIds : leases'[y][c] = NoLease
    BY <1>1 DEF Fresh, AddZone
  <2>1. Primary(y) # Primary(z) /\ Primary(y) \in ZoneServers
    BY ServersOfZone
  <2> QED  BY <1>1, <1>t, <2>1 DEF AddZone, IInv, Fresh, dhcpVars
<1>2. ASSUME NEW a \in zones, NEW b \in zones, ConnectZones(a, b) PROVE Fresh'
  <2>1. \A y \in Zones \ zones : tables'[y] = tables[y]
    BY <1>2, <1>t DEF ConnectZones, Connect, WithRoute
  <2> QED  BY <1>2, <2>1 DEF ConnectZones, IInv, Fresh, dhcpVars
<1>3. CASE Tick \/ UNCHANGED vars
  BY <1>3 DEF Tick, vars, zoneVars, dhcpVars, IInv, Fresh
<1> QED  BY <1>1, <1>2, <1>3, ComponentStepFresh DEF Next

LEMMA ZonesInvariant == Spec => []IInv
<1>1. Init => IInv
  <2> SUFFICES ASSUME Init PROVE IInv
    OBVIOUS
  <2>1. OAuthTypeOK /\ TokensTimely /\ AclTypeOK /\ Fresh /\ now \in 0 .. MaxTime
    BY MultiZoneAssumption, ServersOfZone
       DEF Init, DhcpInit, OAuthInit, AclInit, OAuthTypeOK, TokensTimely, AclTypeOK, Fresh
  <2> QED  BY <2>1, LeaseInit, RouteInit DEF IInv
<1>2. IInv /\ [Next]_vars => IInv'
  <2> SUFFICES ASSUME IInv, [Next]_vars PROVE IInv'
    OBVIOUS
  <2>1. ZonesKnown /\ LeaseIInv /\ RouteIInv /\ OAuthTypeOK /\ AclTypeOK /\ now \in Nat
        /\ TokensTimely
    BY DEF IInv, RouteIInv
  <2>2. LeaseIInv' /\ RouteIInv' /\ OAuthTypeOK' /\ TokensTimely' /\ AclTypeOK' /\ Fresh'
    BY <2>1, LeaseNext, RouteNext, OAuthNext, TimelyNext, AclNext, FreshNext
  <2>3. now' \in 0 .. MaxTime
    <3>1. ASSUME NEW z, ZoneStep(z) PROVE now' = now
      BY <3>1 DEF ZoneStep, ProvisionDevice, AuthenticateDevice, LeaseStep, KeyStep, RuleStep, zoneVars
    <3>2. now' = now \/ (now < MaxTime /\ now' = now + 1)
      BY <3>1 DEF Next, AddZone, ConnectZones, Tick, vars, zoneVars
    <3> QED  BY <3>2, MultiZoneAssumption DEF IInv
  <2> QED  BY <2>2, <2>3 DEF IInv
<1> QED  BY <1>1, <1>2, PTL DEF Spec

(* A table's routes lead to zones that were added.                          *)
LEMMA RoutesKnown == RouteIInv /\ Fresh => tables \in [Zones -> Seq({RouteTo(z) : z \in zones})]
<1> SUFFICES ASSUME RouteIInv, Fresh, NEW a \in Zones
             PROVE  tables[a] \in Seq({RouteTo(z) : z \in zones})
  BY DEF RouteIInv
<1>1. CASE a \notin zones
  <2>1. tables[a] = << >>
    BY <1>1 DEF Fresh
  <2>2. \A S : << >> \in Seq(S)
    OBVIOUS
  <2> QED  BY <2>1, <2>2
<1>2. CASE a \in zones
  <2>1. tables[a] \in Seq({RouteTo(z) : z \in Zones})
    BY DEF RouteIInv
  <2>2. ASSUME NEW i \in DOMAIN tables[a] PROVE tables[a][i] \in {RouteTo(z) : z \in zones}
    <3>1. PICK z \in Zones : tables[a][i] = RouteTo(z)
      BY <2>1
    <3>2. HasRoute(tables[a], z)
      BY <3>1 DEF HasRoute
    <3>3. z \in zones
      BY <1>2, <3>2 DEF RouteIInv
    <3> QED  BY <3>1, <3>3
  <2> DEFINE S == {RouteTo(z) : z \in zones}
  <2> HIDE DEF S
  <2>3. \A i \in DOMAIN tables[a] : tables[a][i] \in S
    BY <2>2 DEF S
  <2>4. tables[a] \in Seq(S)
    BY <2>1, <2>3
  <2> QED  BY <2>4 DEF S
<1> QED  BY <1>1, <1>2

LEMMA IInvTypes == IInv => TypeOK
<1> SUFFICES ASSUME IInv PROVE TypeOK
  OBVIOUS
<1>1. DhcpTypeOK
  <2>1. /\ nextHost \in [Zones -> PoolStart .. PoolEnd + 1]
        /\ leases \in [Zones -> [ClientIds -> LeaseSet \cup {NoLease}]]
        /\ recycled \subseteq Zones
    BY DEF IInv, LeaseIInv, LeaseTypes
  <2>2. ASSUME NEW s \in Zones, NEW c \in ClientIds, leases[s][c] # NoLease
        PROVE  /\ leases[s][c].issuedAt \in Nat
               /\ \E octet \in PoolStart .. PoolEnd :
                    leases[s][c] = Lease(s, octet, leases[s][c].issuedAt)
    <3>1. leases[s][c] \in LeaseSet
      BY <2>1, <2>2
    <3>2. /\ leases[s][c].address.prefix = Network[s].prefix
          /\ leases[s][c].address.net = Network[s].net
          /\ leases[s][c].address.octet \in PoolStart .. PoolEnd
      BY <2>2 DEF IInv, LeaseIInv, LeaseTypes, Given
    <3>3. leases[s][c] = Lease(s, leases[s][c].address.octet, leases[s][c].issuedAt)
      BY <3>1, <3>2 DEF LeaseSet, Lease
    <3> QED  BY <3>1, <3>2, <3>3 DEF LeaseSet
  <2> QED  BY <2>1, <2>2 DEF DhcpTypeOK
<1>2. tables \in [Zones -> Seq({RouteTo(z) : z \in zones})]
  BY RoutesKnown DEF IInv
<1> QED  BY <1>1, <1>2 DEF TypeOK, IInv, RouteIInv, ZonesKnown, Fresh

--------------------------------------------------------------------------------
(* Types, and nothing is kept for a zone before add_zone (TypeOK).          *)
THEOREM TypeCorrect == Spec => []TypeOK
<1> QED  BY ZonesInvariant, IInvTypes, PTL

(* However devices come, go and come back and leases run out, two devices   *)
(* never hold one address, unless networks are shared or a pool was reset   *)
(* under its leases (dhcp8.py, discover, release, reset).                   *)
THEOREM NoAddressTwice == Spec => []OneHolder
<1>1. IInv => OneHolder
  BY LedgerImplies DEF IInv
<1> QED  BY <1>1, ZonesInvariant, PTL

(* route_between_zones finds the zone that leased the address from every    *)
(* zone linked to it and from no other, in whatever order zones were added, *)
(* connected and connected again (multizone.py, connect_zones).             *)
THEOREM RoutesLeadToOwner == Spec => []RoutedToOwner
<1>1. IInv => RoutedToOwner
  BY RoutesLead DEF IInv
<1> QED  BY <1>1, ZonesInvariant, PTL

(* discover, release, reset and the clock leave a live lease as it is or    *)
(* take it away on request (dhcp8.py, discover).                            *)
THEOREM LeasesKept == Spec => KeepsAddress
<1>1. IInv /\ [Next]_vars =>
        [\A z \in Zones, c \in ClientIds :
           Live(z, c, now) => leases'[z][c] \in {leases[z][c], NoLease}]_vars
  BY KeepsAddressStep DEF IInv, RouteIInv
<1> QED  BY <1>1, ZonesInvariant, PTL DEF Spec, KeepsAddress

(* Adding and removing rules changes no decision but those the removed rule *)
(* made and those no rule made (zoneserver.py, ACL8Engine).                 *)
THEOREM RulesReachNoFurther == Spec => DecisionsStay
<1>1. IInv /\ [Next]_vars =>
        [\A e \in ZoneServers, s, d \in Ends :
           Evaluate(e, s, d)' # Evaluate(e, s, d) =>
             LET i == Deciding(e, s, d) IN i = 0 \/ rules'[e] = Without(rules[e], i)]_vars
  BY DecisionsStep DEF IInv
<1> QED  BY <1>1, ZonesInvariant, PTL DEF Spec, DecisionsStay

(* However often a device's tokens were revoked in either cache, once the   *)
(* clock has moved authenticate_device gives it a valid one wherever the    *)
(* zone's key is registered (multizone.py, authenticate_device;             *)
(* zoneserver.py, revoke_token and validate_token).                         *)
THEOREM RevocationEndsWithTheInstant == Spec => ShutOutOnlyNow
<1>1. IInv /\ [Next]_vars =>
        [now' # now =>
           \A z \in zones, c \in ClientIds :
             LET cache == Primary(z)
             IN  keys[cache][KeyOf[z]] # NoKey =>
                   ValidateToken(cache, Token(cache, KeyOf[z], c, now'), now')]_vars
  BY ShutOutStep DEF IInv, RouteIInv
<1> QED  BY <1>1, ZonesInvariant, PTL DEF Spec, ShutOutOnlyNow

--------------------------------------------------------------------------------
(* VPCs.  A zone is below the pointer when it was given out, and the step   *)
(* over the interop zone is taken before the pointer gets there.            *)
VpcTypes ==
  /\ vpcs \in [VpcIds -> (1 .. MaxZone) \cup {NoVpc}]
  /\ nextZone \in Nat \ {0}
  /\ zoneOf \in [1 .. MaxZone -> SUBSET VpcIds]

ZonesOnce ==
  /\ \A z \in 1 .. MaxZone : z >= nextZone => zoneOf[z] = {}
  /\ zoneOf[InteropZone] = {}
  /\ \A z \in 1 .. MaxZone : \A v, w \in zoneOf[z] : v = w
  /\ \A v \in VpcIds : vpcs[v] # NoVpc => v \in zoneOf[vpcs[v]]

Peered ==
  \A v, w : {v, w} \in peerings =>
    /\ v \in VpcIds /\ w \in VpcIds /\ vpcs[v] # NoVpc /\ vpcs[w] # NoVpc
    /\ {vpcs[v], vpcs[w]} \in joined

VpcIInv == VpcTypes /\ ZonesOnce /\ Peered

LEMMA VpcStart == VpcInit => VpcIInv
BY VpcAssumption DEF VpcInit, VpcIInv, VpcTypes, ZonesOnce, Peered

LEMMA CreateVpcKeeps ==
  ASSUME VpcIInv, NEW v \in VpcIds, CreateVpc(v)
  PROVE  VpcIInv'
<1> DEFINE z == ZoneTaken
<1>1. /\ z \in 1 .. MaxZone /\ z >= nextZone /\ z # InteropZone /\ nextZone' = z + 1
      /\ zoneOf[z] = {} /\ vpcs[v] = NoVpc
  <2>1. /\ nextZone \in Nat \ {0} /\ InteropZone \in Int /\ MaxZone \in Nat
        /\ z <= MaxZone /\ nextZone' = z + 1 /\ vpcs[v] = NoVpc
    BY VpcAssumption DEF CreateVpc, VpcIInv, VpcTypes
  <2>2. z \in 1 .. MaxZone /\ z >= nextZone /\ z # InteropZone
    BY <2>1 DEF ZoneTaken
  <2> QED  BY <2>1, <2>2 DEF VpcIInv, ZonesOnce
<1>2. /\ vpcs' = [vpcs EXCEPT ![v] = z] /\ zoneOf' = [zoneOf EXCEPT ![z] = @ \cup {v}]
      /\ peerings' = peerings /\ joined' = joined
  BY DEF CreateVpc
<1> HIDE DEF z
<1>3. VpcTypes'
  BY <1>1, <1>2 DEF VpcIInv, VpcTypes
<1>4. /\ zoneOf'[z] = {v} /\ \A y \in 1 .. MaxZone : y # z => zoneOf'[y] = zoneOf[y]
      /\ vpcs'[v] = z /\ \A w \in VpcIds : w # v => vpcs'[w] = vpcs[w]
  BY <1>1, <1>2 DEF VpcIInv, VpcTypes
<1>5. ZonesOnce'
  <2>1. ASSUME NEW y \in 1 .. MaxZone, y >= nextZone' PROVE zoneOf'[y] = {}
    <3>1. y # z /\ y >= nextZone
      BY <1>1, <2>1 DEF VpcIInv, VpcTypes
    <3> QED  BY <1>4, <3>1 DEF VpcIInv, ZonesOnce
  <2>2. zoneOf'[InteropZone] = {}
    BY <1>1, <1>4, VpcAssumption DEF VpcIInv, ZonesOnce
  <2>3. ASSUME NEW y \in 1 .. MaxZone, NEW a \in zoneOf'[y], NEW b \in zoneOf'[y] PROVE a = b
    BY <1>4, <2>3 DEF VpcIInv, ZonesOnce
  <2>4. ASSUME NEW w \in VpcIds, vpcs'[w] # NoVpc PROVE w \in zoneOf'[vpcs'[w]]
    <3>1. CASE w = v
      BY <1>4, <3>1
    <3>2. CASE w # v
      <4>1. vpcs'[w] = vpcs[w] /\ w \in zoneOf[vpcs[w]] /\ vpcs[w] \in 1 .. MaxZone
        BY <1>4, <2>4, <3>2 DEF VpcIInv, VpcTypes, ZonesOnce
      <4> QED  BY <1>1, <1>4, <4>1
    <3> QED  BY <3>1, <3>2
  <2> QED  BY <2>1, <2>2, <2>3, <2>4 DEF ZonesOnce
<1>6. Peered'
  <2> SUFFICES ASSUME NEW a, NEW b, {a, b} \in peerings'
               PROVE  /\ a \in VpcIds /\ b \in VpcIds /\ vpcs'[a] # NoVpc /\ vpcs'[b] # NoVpc
                      /\ {vpcs'[a], vpcs'[b]} \in joined'
    BY DEF Peered
  <2>0. {a, b} \in peerings
    BY <1>2
  <2>1. /\ a \in VpcIds /\ b \in VpcIds /\ vpcs[a] # NoVpc /\ vpcs[b] # NoVpc
        /\ {vpcs[a], vpcs[b]} \in joined
    BY <2>0 DEF VpcIInv, Peered
  <2>2. vpcs'[a] = vpcs[a] /\ vpcs'[b] = vpcs[b]
    BY <1>1, <1>4, <2>1
  <2>3. {vpcs'[a], vpcs'[b]} = {vpcs[a], vpcs[b]}
    BY <2>2
  <2> QED  BY <1>2, <2>1, <2>2, <2>3
<1> QED  BY <1>3, <1>5, <1>6 DEF VpcIInv

LEMMA DeleteVpcKeeps ==
  ASSUME VpcIInv, NEW v \in VpcIds, DeleteVpc(v)
  PROVE  VpcIInv'
<1>1. /\ vpcs' = [vpcs EXCEPT ![v] = NoVpc] /\ peerings' = {p \in peerings : v \notin p}
      /\ UNCHANGED <<nextZone, zoneOf, joined>>
  BY DEF DeleteVpc
<1>2. vpcs'[v] = NoVpc /\ \A w \in VpcIds : w # v => vpcs'[w] = vpcs[w]
  BY <1>1 DEF VpcIInv, VpcTypes
<1>3. VpcTypes'
  BY <1>1 DEF VpcIInv, VpcTypes
<1>4. ZonesOnce'
  BY <1>1, <1>2 DEF VpcIInv, ZonesOnce
<1>5. Peered'
  <2> SUFFICES ASSUME NEW a, NEW b, {a, b} \in peerings'
               PROVE  /\ a \in VpcIds /\ b \in VpcIds /\ vpcs'[a] # NoVpc /\ vpcs'[b] # NoVpc
                      /\ {vpcs'[a], vpcs'[b]} \in joined'
    BY DEF Peered
  <2>1. {a, b} \in peerings /\ a # v /\ b # v
    BY <1>1
  <2>2. /\ a \in VpcIds /\ b \in VpcIds /\ vpcs[a] # NoVpc /\ vpcs[b] # NoVpc
        /\ {vpcs[a], vpcs[b]} \in joined
    BY <2>1 DEF VpcIInv, Peered
  <2>3. vpcs'[a] = vpcs[a] /\ vpcs'[b] = vpcs[b]
    BY <1>2, <2>1, <2>2
  <2>4. {vpcs'[a], vpcs'[b]} = {vpcs[a], vpcs[b]}
    BY <2>3
  <2>5. joined' = joined
    BY <1>1
  <2>6. {vpcs'[a], vpcs'[b]} \in joined'
    BY <2>2, <2>4, <2>5
  <2> QED  BY <2>2, <2>3, <2>6
<1> QED  BY <1>3, <1>4, <1>5 DEF VpcIInv

LEMMA PeeringKeeps ==
  ASSUME VpcIInv, NEW v \in VpcIds, NEW w \in VpcIds, CreatePeering(v, w)
  PROVE  VpcIInv'
<1>1. /\ UNCHANGED <<vpcs, nextZone, zoneOf>> /\ peerings' = peerings \cup {{v, w}}
      /\ joined' = joined \cup {{vpcs[v], vpcs[w]}} /\ vpcs[v] # NoVpc /\ vpcs[w] # NoVpc
  BY DEF CreatePeering, Vpcs
<1>2. VpcTypes' /\ ZonesOnce'
  BY <1>1 DEF VpcIInv, VpcTypes, ZonesOnce
<1>3. Peered'
  <2> SUFFICES ASSUME NEW a, NEW b, {a, b} \in peerings'
               PROVE  /\ a \in VpcIds /\ b \in VpcIds /\ vpcs[a] # NoVpc /\ vpcs[b] # NoVpc
                      /\ {vpcs[a], vpcs[b]} \in joined'
    BY <1>1 DEF Peered
  <2>1. CASE {a, b} = {v, w}
    <3>1. (a = v /\ b = w) \/ (a = w /\ b = v)
      BY <2>1
    <3> QED  BY <1>1, <3>1
  <2>2. CASE {a, b} \in peerings
    BY <1>1, <2>2 DEF VpcIInv, Peered
  <2> QED  BY <1>1, <2>1, <2>2
<1> QED  BY <1>2, <1>3 DEF VpcIInv

LEMMA VpcApart == VpcIInv => PeeredOnly
<1> SUFFICES ASSUME VpcIInv PROVE PeeredOnly
  OBVIOUS
<1>1. Overlapping = {}
  BY DEF Overlapping, Vpcs, VpcIInv, VpcTypes, ZonesOnce
<1>2. ASSUME NEW z \in 1 .. MaxZone
      PROVE  Cardinality(zoneOf[z]) <= 1 /\ ResolveVpc(z) \subseteq zoneOf[z]
  <2>1. Cardinality(zoneOf[z]) <= 1
    <3>1. CASE zoneOf[z] = {}
      BY <3>1, FS_EmptySet
    <3>2. CASE zoneOf[z] # {}
      <4>1. PICK v : v \in zoneOf[z]
        BY <3>2
      <4>2. zoneOf[z] = {v}
        BY <4>1 DEF VpcIInv, ZonesOnce
      <4>3. Cardinality({v}) = 1
        BY FS_Singleton
      <4> QED  BY <4>2, <4>3
    <3> QED  BY <3>1, <3>2
  <2>2. ResolveVpc(z) \subseteq zoneOf[z]
    BY DEF ResolveVpc, Vpcs, VpcIInv, ZonesOnce
  <2> QED  BY <2>1, <2>2
<1>3. ASSUME NEW src, NEW dst, CanCommunicate(src, dst)
      PROVE  src = dst \/ {src, dst} \in joined
  BY <1>3 DEF CanCommunicate, ResolveVpc, VpcIInv, Peered
<1> QED  BY <1>1, <1>2, <1>3 DEF PeeredOnly, VpcIInv, ZonesOnce

--------------------------------------------------------------------------------
(* VRFs.  An object that a name stands for bears that name, and has the     *)
(* routes that were meant for it.                                           *)
VrfIInv ==
  /\ nameOf \in Seq(VrfNames)
  /\ \E S : table \in Seq(S)
  /\ Len(table) = Len(nameOf)
  /\ vrfs \in [VrfNames -> (1 .. Len(nameOf)) \cup {NoVrf}]
  /\ DOMAIN meant = VrfNames
  /\ \A name \in VrfNames : vrfs[name] # NoVrf =>
       /\ nameOf[vrfs[name]] = name
       /\ table[vrfs[name]] = meant[name]
  /\ \A name \in Mandatory : vrfs[name] # NoVrf

LEMMA VrfStart == VrfInit => VrfIInv
<1> SUFFICES ASSUME VrfInit PROVE VrfIInv
  OBVIOUS
<1>1. PICK a \in Mandatory, b \in Mandatory : Mandatory = {a, b} /\ a # b
  BY VrfAssumption
<1> DEFINE S == Mandatory \cup {DefaultVrf}
           Orders(f) == \A i, j \in 1 .. 3 : f[i] = f[j] => i = j
           given == [i \in 1 .. 3 |-> IF i = 1 THEN a ELSE IF i = 2 THEN b ELSE DefaultVrf]
<1>2. given \in [1 .. 3 -> S] /\ Orders(given)
  BY <1>1, VrfAssumption
<1>3. nameOf \in [1 .. 3 -> S] /\ Orders(nameOf)
  <2>1. nameOf = CHOOSE f \in [1 .. 3 -> S] : Orders(f)
    BY DEF VrfInit
  <2> HIDE DEF S, given, Orders
  <2> QED  BY <1>2, <2>1
<1>4. nameOf \in Seq(VrfNames) /\ Len(nameOf) = 3
  <2>1. nameOf \in [1 .. 3 -> VrfNames]
    BY <1>3, VrfAssumption
  <2> QED  BY <2>1
<1>5. ASSUME NEW name \in S PROVE \E i \in 1 .. 3 : nameOf[i] = name
  <2>1. /\ nameOf[1] \in {a, b, DefaultVrf} /\ nameOf[2] \in {a, b, DefaultVrf}
        /\ nameOf[3] \in {a, b, DefaultVrf}
        /\ nameOf[1] # nameOf[2] /\ nameOf[1] # nameOf[3] /\ nameOf[2] # nameOf[3]
    BY <1>1, <1>3, SMTT(30)
  <2>2. name \in {nameOf[1], nameOf[2], nameOf[3]}
    BY <1>1, <2>1, SMTT(30)
  <2> QED  BY <2>2, SMTT(30)
<1>6. ASSUME NEW name \in VrfNames, vrfs[name] # NoVrf
      PROVE  vrfs[name] \in 1 .. 3 /\ nameOf[vrfs[name]] = name
  BY <1>6 DEF VrfInit
<1>7. ASSUME NEW name \in Mandatory PROVE vrfs[name] # NoVrf
  <2>1. name \in VrfNames /\ \E i \in 1 .. 3 : nameOf[i] = name
    BY <1>5, VrfAssumption
  <2>2. vrfs[name] \in 1 .. 3
    BY <2>1 DEF VrfInit
  <2> QED  BY <2>2, VrfAssumption
<1>8. /\ table \in Seq({<< >>}) /\ Len(table) = 3 /\ \A i \in 1 .. 3 : table[i] = << >>
      /\ meant = [name \in VrfNames |-> << >>] /\ DOMAIN vrfs = VrfNames
      /\ vrfs = [name \in VrfNames |-> vrfs[name]]
  BY DEF VrfInit
<1>9. vrfs \in [VrfNames -> (1 .. 3) \cup {NoVrf}]
  BY <1>6, <1>8
<1> QED  BY <1>4, <1>6, <1>7, <1>8, <1>9 DEF VrfIInv

LEMMA CreateVrfKeeps ==
  ASSUME VrfIInv, NEW name \in VrfNames, CreateVrf(name)
  PROVE  VrfIInv'
<1> DEFINE object == Len(nameOf) + 1
<1>1. /\ vrfs' = [vrfs EXCEPT ![name] = object] /\ nameOf' = Append(nameOf, name)
      /\ table' = Append(table, << >>) /\ meant' = [meant EXCEPT ![name] = << >>]
  BY DEF CreateVrf
<1>2. /\ nameOf' \in Seq(VrfNames) /\ Len(nameOf') = object /\ nameOf'[object] = name
      /\ \A i \in 1 .. Len(nameOf) : nameOf'[i] = nameOf[i]
  BY <1>1 DEF VrfIInv
<1>3. PICK S : table \in Seq(S)
  BY DEF VrfIInv
<1>4. /\ table' \in Seq(S \cup {<< >>}) /\ Len(table') = object /\ table'[object] = << >>
      /\ \A i \in 1 .. Len(nameOf) : table'[i] = table[i]
  <2>1. table \in Seq(S \cup {<< >>}) /\ Len(table) = Len(nameOf) /\ Len(nameOf) \in Nat
    BY <1>3 DEF VrfIInv
  <2>2. << >> \in S \cup {<< >>}
    OBVIOUS
  <2> QED  BY <1>1, <2>1, <2>2, AppendProperties
<1>5. object \in Nat /\ Len(nameOf) \in Nat
  BY DEF VrfIInv
<1>6. vrfs' \in [VrfNames -> (1 .. object) \cup {NoVrf}] /\ DOMAIN meant' = VrfNames
  BY <1>1, <1>5 DEF VrfIInv
<1>7. ASSUME NEW other \in VrfNames, vrfs'[other] # NoVrf
      PROVE  nameOf'[vrfs'[other]] = other /\ table'[vrfs'[other]] = meant'[other]
  <2>1. CASE other = name
    <3>1. vrfs'[other] = object /\ meant'[other] = << >>
      BY <1>1, <2>1 DEF VrfIInv
    <3> QED  BY <1>2, <1>4, <2>1, <3>1
  <2>2. CASE other # name
    <3>1. vrfs'[other] = vrfs[other] /\ meant'[other] = meant[other]
      BY <1>1, <2>2 DEF VrfIInv
    <3>2. /\ vrfs[other] \in 1 .. Len(nameOf) /\ nameOf[vrfs[other]] = other
          /\ table[vrfs[other]] = meant[other]
      BY <1>7, <3>1 DEF VrfIInv
    <3> QED  BY <1>2, <1>4, <3>1, <3>2
  <2> QED  BY <2>1, <2>2
<1>8. \A other \in Mandatory : vrfs'[other] # NoVrf
  BY <1>1, <1>5, VrfAssumption DEF VrfIInv
<1> HIDE DEF object
<1> QED  BY <1>2, <1>4, <1>6, <1>7, <1>8 DEF VrfIInv

LEMMA DeleteVrfKeeps ==
  ASSUME VrfIInv, NEW name \in VrfNames, DeleteVrf(name)
  PROVE  VrfIInv'
<1>1. CASE UNCHANGED vrfVars
  BY <1>1 DEF VrfIInv, vrfVars
<1>2. CASE /\ name \notin Mandatory
           /\ vrfs' = [vrfs EXCEPT ![name] = NoVrf] /\ meant' = [meant EXCEPT ![name] = << >>]
           /\ UNCHANGED <<nameOf, table>>
  <2>1. /\ vrfs'[name] = NoVrf
        /\ \A other \in VrfNames :
             other # name => vrfs'[other] = vrfs[other] /\ meant'[other] = meant[other]
    BY <1>2 DEF VrfIInv
  <2>2. \A other \in Mandatory : vrfs'[other] # NoVrf
    BY <1>2, <2>1, VrfAssumption DEF VrfIInv
  <2>3. vrfs' \in [VrfNames -> (1 .. Len(nameOf)) \cup {NoVrf}] /\ DOMAIN meant' = VrfNames
    BY <1>2 DEF VrfIInv
  <2> QED  BY <1>2, <2>1, <2>2, <2>3 DEF VrfIInv
<1> QED  BY <1>1, <1>2 DEF DeleteVrf

LEMMA AddVrfRouteKeeps ==
  ASSUME VrfIInv, NEW object \in Objects, NEW route, AddVrfRoute(object, route)
  PROVE  VrfIInv'
<1> DEFINE added == AddRoute(table[object], route)
<1>1. /\ table' = [table EXCEPT ![object] = added]
      /\ meant' = [name \in VrfNames |->
                     IF vrfs[name] = object THEN AddRoute(meant[name], route) ELSE meant[name]]
      /\ UNCHANGED <<vrfs, nameOf>>
  BY DEF AddVrfRoute
<1>2. PICK S : table \in Seq(S)
  BY DEF VrfIInv
<1>3. object \in 1 .. Len(table) /\ Len(table) = Len(nameOf)
  BY DEF VrfIInv, Objects
<1>4. ASSUME NEW name \in VrfNames, vrfs[name] # NoVrf PROVE table'[vrfs[name]] = meant'[name]
  <2>1. vrfs[name] \in 1 .. Len(table) /\ table[vrfs[name]] = meant[name]
    BY <1>3, <1>4 DEF VrfIInv
  <2>2. CASE vrfs[name] = object
    BY <1>1, <1>2, <1>3, <2>1, <2>2
  <2>3. CASE vrfs[name] # object
    BY <1>1, <1>2, <1>3, <2>1, <2>3
  <2> QED  BY <2>2, <2>3
<1>5. table' \in Seq(S \cup {added}) /\ Len(table') = Len(table)
  <2> HIDE DEF added
  <2>1. table \in [1 .. Len(table) -> S \cup {added}]
    BY <1>2
  <2>2. table' \in [1 .. Len(table) -> S \cup {added}] /\ Len(table) \in Nat
    BY <1>1, <1>2, <1>3, <2>1
  <2> QED  BY <2>2
<1>6. DOMAIN meant' = VrfNames
  BY <1>1
<1> HIDE DEF added
<1> QED  BY <1>1, <1>4, <1>5, <1>6 DEF VrfIInv

LEMMA VrfApartness == VrfIInv => VrfsApart
BY DEF VrfIInv, VrfsApart, VrfLookup, IsIsolated

--------------------------------------------------------------------------------
(* Spanning tree roots.  Nobody but the servers has a server's role.        *)
PvrstIInv ==
  \A b \in BridgeIds : bridges[b] # NoBridge =>
    /\ bridges[b].priority \in Nat
    /\ b = PrimaryId => bridges[b] = MakeServer("PRIMARY")
    /\ b = SecondaryId => bridges[b] = MakeServer("SECONDARY")
    /\ b \notin {PrimaryId, SecondaryId} => bridges[b].role = "none"

BridgesKnown == DOMAIN bridges = BridgeIds

LEMMA PvrstStart == PvrstInit => BridgesKnown /\ PvrstIInv
BY DEF PvrstInit, BridgesKnown, PvrstIInv

LEMMA PvrstKeeps == BridgesKnown /\ PvrstIInv /\ PvrstNext => BridgesKnown' /\ PvrstIInv'
<1> SUFFICES ASSUME BridgesKnown, PvrstIInv, PvrstNext PROVE BridgesKnown' /\ PvrstIInv'
  OBVIOUS
<1>1. CASE ServerUp(PrimaryId, "PRIMARY")
  BY <1>1, PvrstAssumption DEF ServerUp, BridgesKnown, PvrstIInv, MakeServer, RootPriority
<1>2. CASE ServerUp(SecondaryId, "SECONDARY")
  BY <1>2, PvrstAssumption DEF ServerUp, BridgesKnown, PvrstIInv, MakeServer, RootPriority
<1>3. ASSUME NEW id \in BridgeIds, NEW priority \in Priorities, BridgeUp(id, priority)
      PROVE  BridgesKnown' /\ PvrstIInv'
  BY <1>3, PvrstAssumption DEF BridgeUp, BridgesKnown, PvrstIInv
<1>4. ASSUME NEW id \in BridgeIds, BridgeDown(id) PROVE BridgesKnown' /\ PvrstIInv'
  BY <1>4 DEF BridgeDown, BridgesKnown, PvrstIInv
<1> QED  BY <1>1, <1>2, <1>3, <1>4 DEF PvrstNext

LEMMA RootsFollow == PvrstIInv => RootsAgree
<1> SUFFICES ASSUME PvrstIInv, NEW vlan \in Vlans
             PROVE  /\ PrimaryId \in Present /\ ServerIsRoot("PRIMARY", vlan) => ElectRoot(vlan) = PrimaryId
                    /\ SecondaryId \in Present /\ ServerIsRoot("SECONDARY", vlan)
                         => ElectRoot(vlan) = SecondaryId
                    /\ \A server \in Present \cap {PrimaryId, SecondaryId} :
                         (\A b \in Present \ {server} : Ahead(server, b)) =>
                           ElectRoot(vlan) \in {PrimaryId, SecondaryId}
  BY DEF RootsAgree
<1> DEFINE designated == {b \in Present : IsRootForVlan(bridges[b], vlan)}
<1>1. ASSUME NEW b \in designated
      PROVE  \/ b = PrimaryId /\ ServerIsRoot("PRIMARY", vlan)
             \/ b = SecondaryId /\ ServerIsRoot("SECONDARY", vlan)
  BY DEF Present, IsRootForVlan, PvrstIInv, MakeServer, ServerIsRoot, Parity
<1>2. PrimaryId \in Present /\ ServerIsRoot("PRIMARY", vlan) => PrimaryId \in designated
  BY DEF Present, IsRootForVlan, PvrstIInv, MakeServer, ServerIsRoot, Parity
<1>3. SecondaryId \in Present /\ ServerIsRoot("SECONDARY", vlan) => SecondaryId \in designated
  BY DEF Present, IsRootForVlan, PvrstIInv, MakeServer, ServerIsRoot, Parity
<1>4. ~(ServerIsRoot("PRIMARY", vlan) /\ ServerIsRoot("SECONDARY", vlan))
  BY DEF ServerIsRoot
<1>5. ElectRoot(vlan) = IF Present = {} THEN NoBridge
                        ELSE IF designated = {} THEN LeastOf(Present) ELSE LeastOf(designated)
  BY DEF ElectRoot
<1> HIDE DEF designated
<1>6. ASSUME NEW b PROVE LeastOf({b}) = b
  <2>1. \A c \in {b} \ {b} : Ahead(b, c)
    OBVIOUS
  <2> QED  BY <2>1 DEF LeastOf
<1>7. designated \subseteq Present /\ designated \subseteq {PrimaryId, SecondaryId}
  BY <1>1 DEF designated
<1>8. designated # {} => designated = {PrimaryId} \/ designated = {SecondaryId}
  BY <1>1, <1>4, <1>7
<1>9. ASSUME PrimaryId \in Present, ServerIsRoot("PRIMARY", vlan) PROVE ElectRoot(vlan) = PrimaryId
  <2>1. designated = {PrimaryId}
    BY <1>1, <1>2, <1>4, <1>9
  <2> QED  BY <1>5, <1>6, <1>9, <2>1
<1>10. ASSUME SecondaryId \in Present, ServerIsRoot("SECONDARY", vlan)
       PROVE  ElectRoot(vlan) = SecondaryId
  <2>1. designated = {SecondaryId}
    BY <1>1, <1>3, <1>4, <1>10
  <2> QED  BY <1>5, <1>6, <1>10, <2>1
<1>11. ASSUME NEW server \in Present \cap {PrimaryId, SecondaryId},
              \A b \in Present \ {server} : Ahead(server, b)
       PROVE  ElectRoot(vlan) \in {PrimaryId, SecondaryId}
  <2>1. CASE designated # {}
    BY <1>5, <1>6, <1>8, <2>1
  <2>2. CASE designated = {}
    <3>1. ASSUME NEW b \in Present, \A c \in Present \ {b} : Ahead(b, c) PROVE b = server
      <4> SUFFICES ASSUME b # server PROVE FALSE
        OBVIOUS
      <4>1. Ahead(b, server) /\ Ahead(server, b)
        BY <1>11, <3>1
      <4>2. /\ bridges[b].priority \in Nat /\ bridges[server].priority \in Nat
            /\ b \in Nat /\ server \in Nat
        BY PvrstAssumption DEF Present, PvrstIInv
      <4> QED  BY <4>1, <4>2 DEF Ahead
    <3>2. LeastOf(Present) = server
      BY <1>11, <3>1 DEF LeastOf
    <3> QED  BY <1>5, <2>2, <3>2
  <2> QED  BY <2>1, <2>2
<1> QED  BY <1>9, <1>10, <1>11

--------------------------------------------------------------------------------
(* Whatever VPCs are created, peered, deleted and created again, whatever   *)
(* VRFs are deleted under their callers and whatever bridges come and go,   *)
(* prefixes are given out once and never the interop's, nothing is reached  *)
(* without a peering, VRFs look up their own routes only, and both sides    *)
(* name the same root (cloud_vpc.py, vrf.py, pvrst.py, zoneserver.py).      *)
THEOREM FabricStaysApart == FabricSpec => []FabricApart
<1> DEFINE FabricIInv == VpcIInv /\ VrfIInv /\ BridgesKnown /\ PvrstIInv
<1>1. FabricInit => FabricIInv
  BY VpcStart, VrfStart, PvrstStart DEF FabricInit
<1>2. FabricIInv /\ [FabricNext]_fabricVars => FabricIInv'
  <2> SUFFICES ASSUME FabricIInv, [FabricNext]_fabricVars PROVE FabricIInv'
    OBVIOUS
  <2>1. ASSUME UNCHANGED vpcVars PROVE VpcIInv'
    BY <2>1 DEF vpcVars, VpcIInv, VpcTypes, ZonesOnce, Peered
  <2>2. ASSUME UNCHANGED vrfVars PROVE VrfIInv'
    BY <2>2 DEF vrfVars, VrfIInv
  <2>3. ASSUME UNCHANGED bridges PROVE BridgesKnown' /\ PvrstIInv'
    BY <2>3 DEF BridgesKnown, PvrstIInv
  <2>4. ASSUME VpcNext PROVE VpcIInv'
    BY <2>4, CreateVpcKeeps, DeleteVpcKeeps, PeeringKeeps DEF VpcNext
  <2>5. ASSUME VrfNext PROVE VrfIInv'
    BY <2>5, CreateVrfKeeps, DeleteVrfKeeps, AddVrfRouteKeeps DEF VrfNext
  <2> QED  BY <2>1, <2>2, <2>3, <2>4, <2>5, PvrstKeeps DEF FabricNext, fabricVars
<1>3. FabricIInv => FabricApart
  BY VpcApart, VrfApartness, RootsFollow DEF FabricApart
<1> QED  BY <1>1, <1>2, <1>3, PTL DEF FabricSpec
================================================================================
