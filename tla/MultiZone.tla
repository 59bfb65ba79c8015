-------------------------------- MODULE MultiZone --------------------------------
(***************************************************************************)
(* Several zones, each with a DHCP8 server, a pair of zone servers with    *)
(* their OAuth8 caches and ACL8 engines, and a route table that knows the  *)
(* zones it is connected to (multizone.py, MultiZoneSimulation).           *)
(*                                                                         *)
(* Zones are added and connected while devices are provisioned and         *)
(* authenticated; leases, keys, tokens and rules also change through the   *)
(* zone's own components.  route_between_zones and authorize_cross_zone    *)
(* only read (RouteBetweenZones, Evaluate); the event list is left out.    *)
(***************************************************************************)
EXTENDS RouteTable, ZoneAccess

CONSTANTS
  KeyOf, SecretOf,  \* zone -> oauth8_key_id, oauth8_secret of its definition
  Gateway,          \* the destination "gateway" of ACL rules
  MaxRoutes,        \* bound: routes of one table
  MaxTime           \* bound: the clock

VARIABLES
  now,
  zones,            \* _zones
  tables,           \* zone -> tier 1 of its route table (tier 2 stays empty)
  links             \* _links, as pairs of zones

zoneVars == <<now, zones, tables, links>>
vars == <<dhcpVars, oauthVars, rules, zoneVars>>

ASSUME MultiZoneAssumption ==
  /\ Gateway \in Ends /\ MaxRoutes \in Nat /\ MaxTime \in Nat
  /\ \A z \in Zones : KeyOf[z] \in KeyIds /\ SecretOf[z] \in Secrets
  /\ ClientIds \subseteq Subjects
  /\ TokenDuration > 0
  /\ \A z \in Zones : /\ Network[z].prefix # Zero               \* 127.x.0.0
                     /\ NoRoute # [dest |-> Network[z].prefix, hop |-> z]

RouteTo(z) == [dest |-> Network[z].prefix, hop |-> z]

GatewayRule == [source |-> Anyone, destination |-> Gateway, action |-> "PERMIT"]

Init ==
  /\ DhcpInit /\ OAuthInit /\ AclInit
  /\ now = 0
  /\ zones = {}
  /\ tables = [z \in Zones |-> << >>]
  /\ links = {}

(* add_zone: both caches know the zone's key, only the primary's engine     *)
(* gets the rule that lets devices reach the gateway.                       *)
AddZone(z) ==
  /\ z \notin zones
  /\ zones' = zones \cup {z}
  /\ keys' = [keys EXCEPT ![Primary(z)][KeyOf[z]] = SecretOf[z],
                          ![Secondary(z)][KeyOf[z]] = SecretOf[z]]
  /\ rules' = [rules EXCEPT ![Primary(z)] = Append(@, GatewayRule)]
  /\ tables' = [tables EXCEPT ![z] = <<RouteTo(z)>>]
  /\ UNCHANGED <<dhcpVars, revokedTokens, tokens, now, links>>

WithRoute(ts, a, b) == [ts EXCEPT ![a] = AddRoute(@, RouteTo(b))]

ConnectSwapped(a, b) ==                          \* fault: routes the wrong way round
  /\ links' = links \cup {<<a, b>>, <<b, a>>}
  /\ tables' = WithRoute(WithRoute(tables, a, a), b, b)
Connect(a, b) ==
  /\ links' = links \cup {<<a, b>>, <<b, a>>}
  /\ tables' = WithRoute(WithRoute(tables, a, b), b, a)

ConnectZones(a, b) ==
  /\ a \in zones /\ b \in zones
  /\ Len(tables[a]) < MaxRoutes /\ Len(tables[b]) < MaxRoutes
  /\ Connect(a, b)
  /\ UNCHANGED <<dhcpVars, oauthVars, rules, now, zones>>

ProvisionDevice(z, client) ==
  /\ Discover(z, client, now)
  /\ UNCHANGED <<oauthVars, rules, zoneVars>>

(* authenticate_device: a token is issued by the primary and validated      *)
(* there; without the key nothing is issued.                                *)
AuthenticateDevice(z, client) ==
  /\ IssueToken(Primary(z), KeyOf[z], client, now)
  /\ UNCHANGED <<dhcpVars, rules, zoneVars>>

LeaseStep(z) ==
  /\ \/ \E client \in ClientIds : Release(z, client)
     \/ Reset(z)
  /\ UNCHANGED <<oauthVars, rules, zoneVars>>

KeyStep(server) ==
  /\ \/ \E k \in KeyIds, secret \in Secrets : RegisterKey(server, k, secret)
     \/ \E k \in KeyIds : UnregisterKey(server, k)
     \/ \E token \in tokens : RevokeToken(server, token)
  /\ UNCHANGED <<dhcpVars, rules, zoneVars>>

RuleStep(server) ==
  /\ \/ \E rule \in Rule : AddRule(server, rule)
     \/ \E i \in DOMAIN rules[server] : RemoveRule(server, i)
  /\ UNCHANGED <<dhcpVars, oauthVars, zoneVars>>

Tick ==
  /\ now < MaxTime
  /\ now' = now + 1
  /\ UNCHANGED <<dhcpVars, oauthVars, rules, zones, tables, links>>

ZoneStep(z) ==
  \/ \E client \in ClientIds : ProvisionDevice(z, client)
  \/ \E client \in ClientIds : AuthenticateDevice(z, client)
  \/ LeaseStep(z)
  \/ \E server \in {Primary(z), Secondary(z)} : KeyStep(server)
  \/ \E server \in {Primary(z), Secondary(z)} : RuleStep(server)

Next ==
  \/ \E z \in Zones : AddZone(z)
  \/ \E a, b \in zones : ConnectZones(a, b)
  \/ \E z \in zones : ZoneStep(z)
  \/ Tick

Spec == Init /\ [][Next]_vars

--------------------------------------------------------------------------------
RouteBetweenZones(z, address) ==
  TwoTierFindRoute(tables[z], << >>,
    [prefix |-> address.prefix, host |-> Append(address.net, address.octet)])

(* Types; a zone's components hold nothing before the zone is added.        *)
TypeOK ==
  /\ DhcpTypeOK /\ OAuthTypeOK /\ AclTypeOK
  /\ now \in 0 .. MaxTime
  /\ zones \subseteq Zones
  /\ tables \in [Zones -> Seq({RouteTo(z) : z \in zones})]
  /\ links \subseteq zones \X zones
  /\ \A z \in Zones \ zones :
       /\ tables[z] = << >> /\ rules[Primary(z)] = << >>
       /\ \A c \in ClientIds : leases[z][c] = NoLease

(* A device keeps its address for the time of its lease unless it gives it  *)
(* up: discovering again, renewals of others or a reset change nothing.     *)
KeepsAddress ==
  [][\A z \in Zones, c \in ClientIds :
       Live(z, c, now) => leases'[z][c] \in {leases[z][c], NoLease}]_vars

(* A packet to an address that a zone leased finds its way to that zone     *)
(* exactly from the zone itself and the zones linked to it, in either       *)
(* direction of the link, as long as no two zones share a prefix.           *)
DistinctPrefixes == \A s, t \in Zones : Network[s].prefix = Network[t].prefix => s = t

RoutedToOwner ==
  DistinctPrefixes =>
    \A a, b \in zones, c \in ClientIds :
      leases[b][c] # NoLease =>
        LET route == RouteBetweenZones(a, leases[b][c].address)
        IN  IF a = b \/ <<a, b>> \in links THEN route = RouteTo(b) ELSE route = NoRoute

(* Access decisions change only where they must: what another rule decided  *)
(* than the one removed, or any rule when one is added, stays decided.      *)
DecisionsStay ==
  [][\A e \in ZoneServers, s, d \in Ends :
       Evaluate(e, s, d)' # Evaluate(e, s, d) =>
         LET i == Deciding(e, s, d) IN i = 0 \/ rules'[e] = Without(rules[e], i)]_vars

(* A device whose token was revoked, however often and in whichever of the  *)
(* caches, can authenticate again as soon as the clock has moved: wherever  *)
(* the zone's key is registered, authenticate_device then makes a token     *)
(* that is no revoked one, and finds it valid.                              *)
ShutOutOnlyNow ==
  [][now' # now =>
       \A z \in zones, c \in ClientIds :
         LET cache == Primary(z)
         IN  keys[cache][KeyOf[z]] # NoKey =>
               ValidateToken(cache, Token(cache, KeyOf[z], c, now'), now')]_vars
================================================================================
