----------------------------- MODULE AddressClass ------------------------------
(***************************************************************************)
(* What an address is for, and the checks that decide by it (address.py,   *)
(* validation.py, addr_usage.py, multicast.py, security.py, and            *)
(* interior_link.py).  Each check has its own copy of the rules.           *)
(* An address is [prefix, host], four octets each; the prefix is the ASN.  *)
(***************************************************************************)
EXTENDS Integers, Sequences

ZeroOctets == <<0, 0, 0, 0>>
PeeringAsn == <<0, 0, 255, 254>>         \* 65534
DocumentationAsn == <<0, 0, 255, 253>>   \* 65533

IsIpv4Compatible(a) == a.prefix = ZeroOctets
IsInternalZone(a) == a.prefix[1] = 127
IsInteropPrefix(a) == a.prefix = <<127, 127, 0, 0>>
IsRinePrefix(a) == a.prefix[1] = 100
IsInteriorLink(a) == a.host[1] = 222
IsBroadcast(a) == a.prefix = <<255, 255, 255, 255>>
IsMulticast(a) == a.prefix[1] = 255 /\ a.prefix[2] = 255
IsIntraAsnMulticast(a) == IsIpv4Compatible(a) /\ a.host[1] \in 224 .. 239
IsPrivatePeeringAsn(a) == a.prefix = PeeringAsn
IsDocumentationAsn(a) == a.prefix = DocumentationAsn

IsUnicast(a) ==
  ~(\/ IsIpv4Compatible(a) \/ IsInternalZone(a) \/ IsRinePrefix(a)
    \/ IsBroadcast(a) \/ IsMulticast(a))

(* The first row that fits: <<test, value>>.                                 *)
FirstFit(rows) == rows[CHOOSE i \in DOMAIN rows : rows[i][1] /\ \A j \in 1 .. i - 1 : ~rows[j][1]][2]

ClassOf(a) ==
  FirstFit(<< <<IsBroadcast(a), "broadcast">>, <<IsMulticast(a), "cross-asn-multicast">>,
              <<IsIntraAsnMulticast(a), "intra-asn-multicast">>,
              <<IsIpv4Compatible(a), "ipv4-compatible">>, <<IsInternalZone(a), "internal-zone">>,
              <<IsRinePrefix(a), "rine-peering">>, <<TRUE, "asn-unicast">> >>)

(* validate_prefix: the scope; GLOBAL is the one that is routable externally. *)
ScopeBlind(a) ==                 \* fault: interior links not looked for
  FirstFit(<< <<IsBroadcast(a), "not-routable">>, <<IsMulticast(a), "global">>,
              <<IsInternalZone(a), "internal">>, <<IsPrivatePeeringAsn(a), "private">>,
              <<IsDocumentationAsn(a), "private">>, <<IsRinePrefix(a), "peering">>,
              <<IsIntraAsnMulticast(a), "local-only">>, <<TRUE, "global">> >>)
Scope(a) ==
  FirstFit(<< <<IsBroadcast(a), "not-routable">>, <<IsMulticast(a), "global">>,
              <<IsInternalZone(a), "internal">>, <<IsPrivatePeeringAsn(a), "private">>,
              <<IsDocumentationAsn(a), "private">>, <<IsRinePrefix(a), "peering">>,
              <<IsInteriorLink(a), "internal">>, <<IsIntraAsnMulticast(a), "local-only">>,
              <<IsIpv4Compatible(a), "global">>, <<TRUE, "global">> >>)
RoutableExternally(a) == Scope(a) = "global"

(* classify_address: the external routing of the usage table's row.           *)
ExternalRouting(a) ==
  FirstFit(<< <<IsBroadcast(a), "never">>, <<IsMulticast(a), "global">>,
              <<IsInteropPrefix(a), "private">>, <<IsInternalZone(a), "never">>,
              <<IsRinePrefix(a), "never">>, <<IsInteriorLink(a), "never">>,
              <<IsPrivatePeeringAsn(a), "private">>, <<IsDocumentationAsn(a), "private">>,
              <<IsIpv4Compatible(a), "ipv4-only">>, <<TRUE, "global">> >>)

(* check_egress: the sections violated.                                       *)
EgressViolations(src, dst) ==
  {v \in {"18.2", "18.3", "18.4", "12"} :
     CASE v = "18.2" -> IsInternalZone(src) \/ IsInternalZone(dst)
       [] v = "18.3" -> IsRinePrefix(src) \/ IsRinePrefix(dst)
       [] v = "18.4" -> IsInteriorLink(src) \/ IsInteriorLink(dst)
       [] v = "12" -> IsBroadcast(dst)}

(* check_asn_reservation, and the two registries' own copies of it.           *)
ReservedAsn(prefix) == prefix[1] \in {127, 100} \/ prefix \in {PeeringAsn, DocumentationAsn}

ProtocolPrefixes == {<<255, 255, 0, n>> : n \in 1 .. 5}

(* IngressFilter.check on an interface; nothing is checked inside.             *)
IngressViolations(peer, external, src, dst) ==
  {v \in {"18.1", "18.2", "18.3", "18.4", "18.6"} :
     /\ external
     /\ CASE v = "18.1" -> src.prefix # peer /\ ~IsIpv4Compatible(src)
          [] v = "18.2" -> IsInternalZone(src) \/ IsInternalZone(dst)
          [] v = "18.3" -> IsRinePrefix(src) \/ IsRinePrefix(dst)
          [] v = "18.4" -> IsInteriorLink(src) \/ IsInteriorLink(dst)
          [] v = "18.6" -> dst.prefix \in ProtocolPrefixes}

MulticastType(a) ==
  FirstFit(<< <<IsBroadcast(a), "none">>, <<IsIntraAsnMulticast(a), "intra-asn">>,
              <<~IsMulticast(a), "none">>, <<a.prefix = <<255, 255, 0, 0>>, "general">>,
              <<a.prefix \in ProtocolPrefixes, "protocol">>, <<TRUE, "unknown">> >>)

RoutableBeyondAs(a) == MulticastType(a) \notin {"intra-asn", "none"}
DeprecatedProtocol(a) == a.prefix \in {<<255, 255, 0, 3>>, <<255, 255, 0, 4>>}

(* make_interior_link: the two ends of link number id.  Only 16 bits of it    *)
(* are in the address.                                                       *)
InteriorLink(prefix, id) ==
  [i \in 0 .. 1 |-> [prefix |-> prefix, host |-> <<222, (id \div 256) % 256, id % 256, i>>]]

InteriorLinkViolations(a) ==
  IF ~IsInteriorLink(a) THEN {"not a link"}
  ELSE {v \in {"no owner", "internal zone"} :
          IF v = "no owner" THEN IsIpv4Compatible(a) ELSE IsInternalZone(a)}

--------------------------------------------------------------------------------
(***************************************************************************)
(* The resolver that routes and destinations are checked against           *)
(* (whois8.py, WHOIS8Resolver): which ASNs - prefixes - are on record, and *)
(* whether their record is active.                                         *)
(***************************************************************************)
CONSTANTS AsPrefixes, Unlisted

VARIABLE listed           \* prefix -> "active", "inactive" or Unlisted

EmptyRegistry == [p \in AsPrefixes |-> Unlisted]

(* register raises for a reserved ASN, and its caller goes on.                *)
WithRecord(registry, prefix, state) ==
  IF ReservedAsn(prefix) THEN registry ELSE [registry EXCEPT ![prefix] = state]

ResolverRegister(prefix, state) ==
  ~ReservedAsn(prefix) /\ listed' = WithRecord(listed, prefix, state)

ResolverUnregister(prefix) ==
  listed[prefix] # Unlisted /\ listed' = [listed EXCEPT ![prefix] = Unlisted]

ListingStatus(registry, prefix) ==
  FirstFit(<< <<ReservedAsn(prefix), "RESERVED_RANGE">>, <<registry[prefix] = Unlisted, "UNKNOWN_ASN">>,
              <<registry[prefix] = "inactive", "EXPIRED">>, <<TRUE, "VALID">> >>)

RouteStatus(registry, prefix, length) ==
  IF ListingStatus(registry, prefix) = "VALID" /\ length > 16
  THEN "PREFIX_TOO_SPECIFIC" ELSE ListingStatus(registry, prefix)

DestinationStatus(registry, a) ==
  IF IsIpv4Compatible(a) THEN "VALID" ELSE ListingStatus(registry, a.prefix)
================================================================================
