---------------------------------- MODULE Border ----------------------------------
(***************************************************************************)
(* A border router's filters (rine_protection.py, ilink_protection.py,     *)
(* prefix_enforce.py, security.py), the registry (whois8.py) and table of  *)
(* advertisements (companions.py, BGP8Table) beside them.  Every filter    *)
(* has rules of its own and counts what it drops until it is cleared.      *)
(***************************************************************************)
EXTENDS AddressClass, FiniteSets

CONSTANTS
  Sources, Destinations,   \* addresses of the packets judged
  Lengths,                 \* prefix lengths advertised
  PeerAsn,                 \* prefix of the peer on the interface
  NoPacket,
  MaxNoted                 \* bound on what is counted, installed or listed

ASSUME BorderAssumption ==
  /\ \A a \in Sources \cup Destinations :
       a.prefix \in [1 .. 4 -> 0 .. 255] /\ a.host \in [1 .. 4 -> 0 .. 255]
  /\ \A a \in Destinations : a.prefix \in AsPrefixes
  /\ Lengths \subseteq Nat /\ MaxNoted \in Nat

VARIABLES
  rineAlerts, linkTraps, lengthAlerts,   \* how many since cleared
  accepted, rejected,                    \* PrefixEnforcer, never cleared
  installed,            \* BGP8Table: prefixes installed
  judged          \* what the checks were asked last, if nothing else came since

borderVars == <<rineAlerts, linkTraps, lengthAlerts, accepted, rejected, installed, judged, listed>>

noted == <<rineAlerts, linkTraps, lengthAlerts, accepted, rejected>>

BorderInit ==
  /\ rineAlerts = 0 /\ linkTraps = 0 /\ lengthAlerts = 0 /\ accepted = 0 /\ rejected = 0
  /\ installed = {} /\ judged = NoPacket /\ listed = EmptyRegistry

RineDrops(a, interface) == IsRinePrefix(a) /\ interface # "peering"
LinkDrops(a) == IsInteriorLink(a)
TooSpecific(length) == length > 16

(* A prefix as it is written, cut at its slashes.  What has not one slash, or *)
(* no number behind it (here: nothing), is let pass without a word.          *)
CheckPrefixLength(written) == IF Len(written) = 2 /\ written[2] > 16 THEN {"18.7"} ELSE {}

CheckInteriorLinkEgress(a) == IF IsInteriorLink(a) THEN {"4.10"} ELSE {}

--------------------------------------------------------------------------------
(* The checks of validation, egress, ingress and usage keep nothing.         *)
JudgePacket(src, dst, length) ==
  /\ judged = NoPacket
  /\ judged' = [src |-> src, dst |-> dst, length |-> length]
  /\ UNCHANGED <<noted, installed, listed>>

Counted == rineAlerts + linkTraps + lengthAlerts + accepted + rejected + Cardinality(installed)

RineFilterPacket(a, interface) ==
  /\ RineDrops(a, interface) /\ Counted < MaxNoted
  /\ rineAlerts' = rineAlerts + 1 /\ judged' = NoPacket
  /\ UNCHANGED <<linkTraps, lengthAlerts, accepted, rejected, installed, listed>>

RineFilterAdvertisement(a) == RineFilterPacket(a, "ebgp8")

LinkFilter(a) ==
  /\ LinkDrops(a) /\ Counted < MaxNoted
  /\ linkTraps' = linkTraps + 1 /\ judged' = NoPacket
  /\ UNCHANGED <<rineAlerts, lengthAlerts, accepted, rejected, installed, listed>>

FilterLength(length) ==
  /\ Counted < MaxNoted
  /\ IF TooSpecific(length)
     THEN lengthAlerts' = lengthAlerts + 1 /\ rejected' = rejected + 1 /\ UNCHANGED accepted
     ELSE accepted' = accepted + 1 /\ UNCHANGED <<lengthAlerts, rejected>>
  /\ judged' = NoPacket /\ UNCHANGED <<rineAlerts, linkTraps, installed, listed>>

ClearAlerts ==
  /\ \/ rineAlerts' = 0 /\ UNCHANGED <<linkTraps, lengthAlerts>>
     \/ linkTraps' = 0 /\ UNCHANGED <<rineAlerts, lengthAlerts>>
     \/ lengthAlerts' = 0 /\ UNCHANGED <<rineAlerts, linkTraps>>
  /\ judged' = NoPacket /\ UNCHANGED <<accepted, rejected, installed, listed>>

Install(prefix, length) ==
  /\ ~TooSpecific(length) /\ Counted < MaxNoted
  /\ installed' = installed \cup {prefix} /\ judged' = NoPacket
  /\ UNCHANGED <<noted, listed>>

WithdrawPrefix(prefix) ==
  /\ prefix \in installed
  /\ installed' = installed \ {prefix} /\ judged' = NoPacket
  /\ UNCHANGED <<noted, listed>>

RegistryChanges ==              \* one record at a time is enough: they do not mix
  /\ \E p \in AsPrefixes :
       \/ /\ \A q \in AsPrefixes \ {p} : listed[q] = Unlisted
          /\ \E state \in {"active", "inactive"} : ResolverRegister(p, state)
       \/ ResolverUnregister(p)
  /\ judged' = NoPacket /\ UNCHANGED <<noted, installed>>

BorderNext ==
  \/ \E s \in Sources, d \in Destinations, n \in Lengths : JudgePacket(s, d, n)
  \/ \E a \in Destinations, i \in {"peering", "external", "internal"} : RineFilterPacket(a, i)
  \/ \E a \in Destinations : RineFilterAdvertisement(a) \/ LinkFilter(a)
  \/ \E n \in Lengths : FilterLength(n)
  \/ ClearAlerts
  \/ \E p \in AsPrefixes : WithdrawPrefix(p) \/ \E n \in Lengths : Install(p, n)
  \/ RegistryChanges

BorderSpec == BorderInit /\ [][BorderNext]_borderVars

--------------------------------------------------------------------------------
(* The rules exist once for each filter, written apart, and a packet meets   *)
(* several of them: their verdicts on one packet fit each other.             *)
(* - The usage table, validate_prefix and check_egress agree on what never   *)
(*   leaves the AS; validate_prefix lets a multicast group of other ASNs out *)
(*   whatever its host octets, the egress check does not.                    *)
(* - The ingress check stops what the egress check stops, broadcast apart,   *)
(*   and what only it knows of: spoofed sources and protocol multicasts.     *)
(* - The filters for RINE and interior links drop what the checks report.    *)
(* - The links made for an ASN are links to the filters; what is called      *)
(*   unicast or routable beyond the AS is so for the others.                 *)
(* - No registry lists an ASN whose addresses have an inner scope, and the   *)
(*   resolver refuses a route by length where the enforcer does.             *)
NeverLeaves(src, dst) ==
  LET flagged == EgressViolations(src, dst) IN
  /\ ExternalRouting(dst) = "never" => ~RoutableExternally(dst) /\ flagged # {}
  /\ EgressViolations(dst, dst) # {} =>
       \/ ExternalRouting(dst) = "never"
       \/ IsInteropPrefix(dst)
       \/ IsMulticast(dst) /\ IsInteriorLink(dst)
  /\ RoutableExternally(dst)
       <=> ExternalRouting(dst) \in {"global", "ipv4-only"} /\ ~IsIntraAsnMulticast(dst)
  /\ RoutableExternally(dst) /\ ~IsMulticast(dst) => EgressViolations(dst, dst) = {}

BothWays(src, dst) ==
  /\ EgressViolations(src, dst) \ {"12"} = IngressViolations(PeerAsn, TRUE, src, dst) \ {"18.1", "18.6"}
  /\ IngressViolations(PeerAsn, FALSE, src, dst) = {}
  /\ "18.6" \in IngressViolations(PeerAsn, TRUE, src, dst) => MulticastType(dst) = "protocol"

FiltersAgree(src, dst) ==
  /\ (\E a \in {src, dst} : RineDrops(a, "external")) <=> "18.3" \in EgressViolations(src, dst)
  /\ (\E a \in {src, dst} : LinkDrops(a)) <=> "18.4" \in EgressViolations(src, dst)
  /\ CheckInteriorLinkEgress(dst) # {} =>
       ExternalRouting(dst) = "never" \/ IsMulticast(dst) \/ IsInteropPrefix(dst)

NamesAgree(dst) ==
  /\ ClassOf(dst) = "asn-unicast" <=> IsUnicast(dst)
  /\ RoutableBeyondAs(dst) => RoutableExternally(dst)
  /\ DeprecatedProtocol(dst) => RoutableBeyondAs(dst) /\ dst.prefix \in ProtocolPrefixes
  /\ IsUnicast(dst) =>
       \A end \in 0 .. 1 :
         LET link == InteriorLink(dst.prefix, 258)[end] IN
         InteriorLinkViolations(link) = {} /\ LinkDrops(link) /\ ~RoutableExternally(link)

RegistryAgrees(dst, length) ==
  /\ ReservedAsn(dst.prefix) => listed[dst.prefix] = Unlisted /\ ~RoutableExternally(dst)
  /\ Scope(dst) \in {"private", "peering"} => DestinationStatus(listed, dst) = "RESERVED_RANGE"
  /\ RouteStatus(listed, dst.prefix, length) = "VALID"
       => DestinationStatus(listed, dst) = "VALID" /\ CheckPrefixLength(<<dst.prefix, length>>) = {}
  /\ CheckPrefixLength(<<dst.prefix, length>>) = {} <=> ~TooSpecific(length)

OneJudgement ==
  judged # NoPacket =>
    /\ NeverLeaves(judged.src, judged.dst)
    /\ BothWays(judged.src, judged.dst)
    /\ FiltersAgree(judged.src, judged.dst)
    /\ NamesAgree(judged.dst)
    /\ RegistryAgrees(judged.dst, judged.length)
================================================================================
