-------------------------------- MODULE EndToEnd --------------------------------
(***************************************************************************)
(* The onboarding of a device, in one scenario object (integration.py,     *)
(* EndToEndScenario): a lease, a token, a rule, the registry, the route    *)
(* table and the filter at the border.  Every step is a call of its own,   *)
(* a full run makes them all, and the result they add to is never emptied. *)
(***************************************************************************)
EXTENDS RouteTable, AddressClass, FiniteSets

CONSTANTS
  ClientIds,
  Own, Net,             \* the zone's prefix, and the first three host octets
  PoolStart, PoolEnd, LeaseDuration, NoLease,
  NoRun,
  MaxMoment             \* bound on the clock

VARIABLES
  services,       \* what setup_zone makes: [made, next, leases, registry, tiers, permitted]
  moment,
  allPassed,      \* no step of the accumulated result failed (IntegrationResult.all_passed)
  lastRun         \* run_full_scenario, last: [dest, source, before, failed, passed]

e2eVars == <<services, moment, allPassed, lastRun>>

(* Hosts in 222.x would be interior links.                                  *)
ASSUME EndToEndAssumption ==
  /\ PoolStart \in Nat /\ PoolEnd \in Nat /\ PoolStart <= PoolEnd
  /\ LeaseDuration \in Nat
  /\ Net \in [1 .. 3 -> 0 .. 255] /\ Net[1] # 222
  /\ Own \in AsPrefixes /\ ~ReservedAsn(Own)
  /\ Unlisted \notin {"active", "inactive"}
  /\ \A p \in AsPrefixes : NoRoute # [dest |-> p]
  /\ NoLease \notin [octet : Nat, issuedAt : Nat]

HostAddress(prefix, octet) == [prefix |-> prefix, host |-> Append(Net, octet)]

RouteVia(prefix) == [dest |-> prefix]

(* All are None until the set-up (made).                                     *)
Services(made, next, registry, tiers) ==
  [made |-> made, next |-> next, leases |-> [c \in ClientIds |-> NoLease],
   registry |-> registry, tiers |-> tiers, permitted |-> {}]

NotSetUp == Services(FALSE, PoolStart, EmptyRegistry, << >>)

E2eInit == services = NotSetUp /\ moment = 0 /\ allPassed = TRUE /\ lastRun = NoRun

--------------------------------------------------------------------------------
(* What each step makes of the services S ...                                *)

SetUpKeepingPool(S) ==                  \* fault: the old server's pool goes on
  Services(TRUE, S.next, WithRecord(EmptyRegistry, Own, "active"), <<RouteVia(Own)>>)

SetUp(S) ==                             \* all anew: nothing of S is kept
  Services(TRUE, PoolStart, WithRecord(EmptyRegistry, Own, "active"), <<RouteVia(Own)>>)

Registered(S, p) ==
  IF ~S.made \/ p = Own THEN S ELSE [S EXCEPT !.registry = WithRecord(@, p, "active")]

Reachable(S, p) == IF p = Own THEN S ELSE [S EXCEPT !.tiers = AddRoute(@, RouteVia(p))]

HasLease(S, c, t) == S.leases[c] # NoLease /\ t < S.leases[c].issuedAt + LeaseDuration

Provisioned(S, c, t) ==
  IF ~S.made \/ HasLease(S, c, t) \/ S.next > PoolEnd THEN S
  ELSE [S EXCEPT !.next = @ + 1, !.leases[c] = [octet |-> S.next, issuedAt |-> t]]

Permitted(S, c) == [S EXCEPT !.permitted = @ \cup {c}]

(* ... and when it fails.  A token is issued and checked at once.            *)
NoneLeft(S, c, t) == ~S.made \/ (~HasLease(S, c, t) /\ S.next > PoolEnd)
NoToken(S) == ~S.made \/ LeaseDuration = 0
Denied(S, c) == ~S.made \/ c \notin S.permitted
Refused(S, dst) == ~S.made \/ DestinationStatus(S.registry, dst) # "VALID"
NotFound(S, dst) == ~S.made \/ TwoTierFindRoute(S.tiers, << >>, dst) = NoRoute
Stopped(S, src, dst) == ~S.made \/ IngressViolations(Own, TRUE, src, dst) # {}

--------------------------------------------------------------------------------
Note(fails) == allPassed' = (allPassed /\ ~fails)

SetupZone == services' = SetUp(services) /\ UNCHANGED <<moment, allPassed, lastRun>>

ProvisionDevice(c) ==
  /\ services' = Provisioned(services, c, moment)
  /\ Note(NoneLeft(services, c, moment))
  /\ UNCHANGED <<moment, lastRun>>

(* The steps that only look.                                                 *)
Look ==
  /\ \/ Note(NoToken(services))
     \/ \E c \in ClientIds : Note(Denied(services, c))
     \/ \E p \in AsPrefixes :
          LET dst == HostAddress(p, 100) IN
          \/ Note(Refused(services, dst))
          \/ Note(NotFound(services, dst))
          \/ Note(Stopped(services, HostAddress(Own, PoolStart), dst))
  /\ UNCHANGED <<services, moment, lastRun>>

(* run_full_scenario.  The destination is registered before the set-up too,  *)
(* where that is lost, and its record is refused if its ASN is reserved.  A  *)
(* step that fails does not end the run; having no lease does.  What comes   *)
(* back is the object's result, with all that was added to it before.        *)
RunFullScenario(c, dest) ==
  LET ready == Reachable(Registered(SetUp(Registered(services, dest)), dest), dest)
      last == Permitted(Provisioned(ready, c, moment), c)
      lease == last.leases[c]
      src == HostAddress(Own, lease.octet)
      dst == HostAddress(dest, 100)
      failed ==
        {s \in {"dhcp8_provision", "oauth8_auth", "acl8_authorize"} :
           CASE s = "dhcp8_provision" -> NoneLeft(ready, c, moment)
             [] s = "oauth8_auth" -> NoToken(last)
             [] s = "acl8_authorize" -> Denied(last, c)}
        \cup {s \in {"whois8_validate", "routing", "ingress_filter"} :
                lease # NoLease
                /\ CASE s = "whois8_validate" -> Refused(last, dst)
                     [] s = "routing" -> NotFound(last, dst)
                     [] s = "ingress_filter" -> Stopped(last, src, dst)}
  IN  /\ services' = last
      /\ Note(failed # {})
      /\ lastRun' = [dest |-> dest, source |-> IF lease = NoLease THEN NoLease ELSE src,
                     before |-> allPassed, failed |-> failed, passed |-> allPassed']
      /\ UNCHANGED moment

E2eTick == moment < MaxMoment /\ moment' = moment + 1
           /\ UNCHANGED <<services, allPassed, lastRun>>

E2eNext ==
  \/ SetupZone
  \/ \E c \in ClientIds : ProvisionDevice(c)
  \/ Look
  \/ \E c \in ClientIds, p \in AsPrefixes : RunFullScenario(c, p)
  \/ E2eTick

E2eSpec == E2eInit /\ [][E2eNext]_e2eVars

--------------------------------------------------------------------------------
(* The destinations the validation of addresses (validation.py) lets be      *)
(* routed externally, but for two kinds: IPv4 addresses, for which the       *)
(* scenario has no route, and the protocol multicasts, which the filter      *)
(* stops.  Broadcast is among them, since only check_egress looks for it.    *)
Onward(dst) ==
  \/ IsBroadcast(dst)
  \/ RoutableExternally(dst) /\ ~IsIpv4Compatible(dst) /\ dst.prefix \notin ProtocolPrefixes

(* What a full run adds to the result tells its destination alone, whatever  *)
(* was set up, leased, permitted or run on the object before, a used-up pool *)
(* and a registry from an earlier run included (the set-up in between makes  *)
(* all anew): no step of it fails exactly if the destination is Onward and   *)
(* tokens last.  What it returns does not: that passes only if, besides,     *)
(* nothing ever failed on the object, since the result is never emptied, so  *)
(* that after one failure no run passes any more.                            *)
RunTellsDestination ==
  lastRun # NoRun =>
    /\ lastRun.failed = {} <=> LeaseDuration # 0 /\ Onward(HostAddress(lastRun.dest, 100))
    /\ lastRun.passed <=> lastRun.before /\ lastRun.failed = {}
    /\ allPassed => lastRun.passed
    /\ \E octet \in PoolStart .. PoolEnd : lastRun.source = HostAddress(Own, octet)
================================================================================
