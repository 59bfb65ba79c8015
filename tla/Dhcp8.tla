---------------------------------- MODULE Dhcp8 ----------------------------------
(***************************************************************************)
(* DHCP8 servers and their address pools (dhcp8.py).  A pool hands out     *)
(* host octets in order and takes none back: neither release nor the end   *)
(* of a lease returns an address, only reset starts over.                  *)
(* A zone has such a server, and two zone servers (zoneserver.py,          *)
(* make_zone_server_pair).                                                 *)
(***************************************************************************)
EXTENDS Integers

CONSTANTS
  Zones,
  ClientIds,
  Network,        \* server -> [prefix, net]: zone prefix and first three host octets
  PoolStart, PoolEnd,
  LeaseDuration,
  NoLease

Primary(z) == <<z, "primary">>
Secondary(z) == <<z, "secondary">>

ZoneServers == Zones \X {"primary", "secondary"}

VARIABLES
  nextHost,       \* server -> DHCP8Pool._next
  leases,         \* server -> client -> DHCP8Lease, or NoLease (DHCP8Server._leases)
  recycled        \* servers whose pool was reset while leases were held

dhcpVars == <<nextHost, leases, recycled>>

ASSUME Dhcp8Assumption ==
  /\ PoolStart \in Nat /\ PoolEnd \in Nat /\ LeaseDuration \in Nat
  /\ PoolStart <= PoolEnd
  /\ Network \in [Zones -> [prefix : [1 .. 4 -> 0 .. 255], net : [1 .. 3 -> 0 .. 255]]]
  /\ NoLease \notin [address : [prefix : [1 .. 4 -> 0 .. 255], net : [1 .. 3 -> 0 .. 255],
                                octet : Nat],
                     issuedAt : Nat]

Lease(s, octet, t) ==
  [address |-> [prefix |-> Network[s].prefix, net |-> Network[s].net, octet |-> octet],
   issuedAt |-> t]

IsExpired(lease, t) == t >= lease.issuedAt + LeaseDuration

Live(s, c, t) == leases[s][c] # NoLease /\ ~IsExpired(leases[s][c], t)

DhcpInit ==
  /\ nextHost = [s \in Zones |-> PoolStart]
  /\ leases = [s \in Zones |-> [c \in ClientIds |-> NoLease]]
  /\ recycled = {}

(* discover: a live lease is given again as it is; an expired one is        *)
(* replaced by one for the next address, if there is one.                   *)
DiscoverSticky(s, c, t) ==                       \* fault: pool not advanced
  /\ ~Live(s, c, t)
  /\ nextHost[s] <= PoolEnd
  /\ leases' = [leases EXCEPT ![s][c] = Lease(s, nextHost[s], t)]
  /\ UNCHANGED <<nextHost, recycled>>
Discover(s, c, t) ==
  /\ ~Live(s, c, t)
  /\ nextHost[s] <= PoolEnd
  /\ nextHost' = [nextHost EXCEPT ![s] = @ + 1]
  /\ leases' = [leases EXCEPT ![s][c] = Lease(s, nextHost[s], t)]
  /\ UNCHANGED recycled

Release(s, c) ==
  /\ leases[s][c] # NoLease
  /\ leases' = [leases EXCEPT ![s][c] = NoLease]
  /\ UNCHANGED <<nextHost, recycled>>

Reset(s) ==
  /\ nextHost' = [nextHost EXCEPT ![s] = PoolStart]
  /\ recycled' = IF \E c \in ClientIds : leases[s][c] # NoLease
                 THEN recycled \cup {s} ELSE recycled
  /\ UNCHANGED leases

DhcpTypeOK ==
  /\ nextHost \in [Zones -> PoolStart .. PoolEnd + 1]
  /\ DOMAIN leases = Zones
  /\ \A s \in Zones :
       /\ DOMAIN leases[s] = ClientIds
       /\ \A c \in ClientIds : leases[s][c] # NoLease =>
            /\ leases[s][c].issuedAt \in Nat
            /\ \E octet \in PoolStart .. PoolEnd :
                 leases[s][c] = Lease(s, octet, leases[s][c].issuedAt)
  /\ recycled \subseteq Zones

(* No two clients, in whatever zones, hold one address, expired leases      *)
(* included: where two servers share a network or a pool was reset under    *)
(* its leases, this is not promised.                                        *)
DistinctNetworks == \A s, t \in Zones : Network[s] = Network[t] => s = t

OneHolder ==
  DistinctNetworks =>
    \A s, t \in Zones \ recycled, c, d \in ClientIds :
      (/\ leases[s][c] # NoLease /\ leases[t][d] # NoLease
       /\ leases[s][c].address = leases[t][d].address)
        => (s = t /\ c = d)
================================================================================
