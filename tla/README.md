# Formal models of Open-IPv8-Lab

`ipv8lab` (package `src/src/ipv8lab`) is a laboratory implementation of an
"IPv8" network: 64-bit addresses `r.r.r.r.n.n.n.n` (a routing prefix, which is
an AS number, and a host part), packets, fragmentation, address translation,
zone services (DHCP8, OAuth8, ACL8), routing with a cost factor (BGP8), a
registry (WHOIS8), logs (NetLog8), flow records and simulators. Almost all of it
is a single-threaded Python library: every public method runs to its end, and
what interleaves are the *calls* - packets of many hosts, late and repeated
messages, operator commands and the clock that every component reads for
itself. The models take one such call as one step and the clock as one more
actor. Where there is a network (the UDP runner, the frames of the transport,
fragments, handshake messages) it loses, repeats, reorders and in places
damages what is sent; where there are files, they are cut or damaged before
they are read.

Line numbers below are those of `src/src/ipv8lab/`.

## 1. Inventory

| Component (files) | State | Operations | What is hard, what makes it correct |
|---|---|---|---|
| 8-to-4 gateway (`nat8.py`) | `_mappings`, `_pat_mappings`, `_pat_reverse`, `_pool`, `_pool_used`, `_next_pat_port` | translate out and in, static mapping, pool and address configuration, release, clear | two tables that must stay inverse, a scan that wraps, lazy expiry in every call, a second record of what is in use; one-to-one translation, nothing refused while something is free |
| Other translations (`cgnat.py`, `xlate8_flow.py`, `interop.py`, `companions.py`) | bindings in turn; entries by inside key; two dicts per company | translate, reply, expose a service | addresses go round without a look at what is held, first match among several entries, reverse entries left behind; a reply reaches who asked |
| Sockets, balancer (`socket_api.py`, `dns_a8.py`, `xlate8_lb.py`) | registered hosts, connections, a log | connect (legacy and IPv8), send, select | what a connection was told stays, whatever is registered after it |
| Fragmentation (`fragmentation.py`) | `_buffers` by (src, dst, id, protocol) | `fragment`, `process`, `expire`, `flush` | loss, duplication, reordering, reuse of identifications, timeout against late copies; the payload comes out byte for byte or not at all |
| Codecs and transport (`packet.py`, `icmpv8.py`, `checksum.py`, `tunnel.py`, `transport.py`) | none, or frames under way | encode, decode, echo, report an error | three nested decoders with lengths and sums of their own; what is accepted was sent |
| Files (`capture.py`, `pcap_export.py`, `netflow8.py`) | what was captured or recorded, the file | write, read | files cut, damaged, or given up half written; two readers with different rules |
| Mutual TLS (`mtls.py`) | `_issued`, `_revoked`; sessions, `_active_sessions`, `_authenticated_clients` | issue, revoke, verify; handshake in steps or in one call; encrypt, decrypt; revoke a session | several handshakes at a time, expiry and revocation between messages, repeated messages; agreement of both ends |
| DHCP8 (`dhcp8.py`) | pool pointer, leases | discover, release, reset | expiry seen only at the next discover; no address twice, a live lease is kept |
| Zone servers (`zoneserver.py`) | per server: keys, revoked tokens, rules | register, issue, validate, revoke; add, remove, evaluate | two servers that share nothing, tokens without identity but their text, first match wins |
| Multi-zone (`multizone.py`), routes (`route.py`) | zones, links, a two-tier table per zone | add, connect, provision, authenticate, route | state spread over all of the above |
| Under the zones (`cloud_vpc.py`, `vrf.py`, `pvrst.py`) | VPCs and peerings, VRFs, bridges | create, delete, peer, look up, elect | names used again after deletion, objects held past it, two places that say who is root |
| End-to-end scenario (`integration.py`) | the objects of one scenario | a fixed sequence that goes on after a failed step | runs repeated on one object, whose result is never emptied; what a run adds to it depends on the destination alone, what it returns on every failure before |
| Addresses and filters (`address.py`, `addr_usage.py`, `validation.py`, `multicast.py`, `security.py`, `interior_link.py`, `rine_protection.py`, `ilink_protection.py`, `prefix_enforce.py`, `whois8.py`) | alerts, a registry | classify, filter, validate | one set of rules written seven times; the verdicts fit each other |
| WHOIS8 (`whois8_proto.py`) | registry, routes; client cache | register, unregister, five queries; lookup with cache; sign, verify | stale cache, two notions of expired, signatures that travel with copies |
| BGP8, costs, board (`bgp8_selection.py`, `cost_factor.py`, `cf_dashboard.py`) | candidates by prefix; paths on the board | receive, withdraw, select; rank | appended duplicates, saturating costs, tie breaks |
| QoS (`qos.py`) | token buckets, queues, counters | configure, enqueue, dequeue by three policies | fairness over time, order |
| NetFlow8 (`netflow8.py`) | active flows, exported records | observe, export | conservation across splits |
| NetLog8 (`netlog8.py`, `netlog8_proto.py`), limiter (`ratelimit.py`) | ring buffers, rules, windows, tokens | log, relay, ingest, query, allow | bounded buffers, edges of windows, a clock that steps back |
| Neighbours (`arp8_version.py`, `companions.py`) | two caches | learn, expire, forward | both answer without asking how old an entry is |
| Simulator, UDP runner, traceroute (`simulator.py`, `udp_runner.py`, `traceroute8.py`) | nodes, links, tables, datagrams | send, forward, probe | loops in routes; every packet ends |
| Test bed (`docker_testbed.py`) | nodes by name, links in a list | load, add, clear, generate | topologies loaded over each other |

`PROJECT.json` lists every file under one of its components with its status and
the reason, and under "hazards" the places in the code that are hard to test,
with the properties that speak about each.

How the parts touch: a zone (`ZoneInstance`) owns a pair of zone servers, a
DHCP8 server and a route table, and `MultiZoneSimulation` calls into all of
them (module `MultiZone`); the scenario of `integration.py` composes DHCP8,
OAuth8, ACL8, the resolver, the route table and the ingress filter
(`EndToEnd`); mutual TLS has an authority which operators use at the same time
(`ZoneMtls`); messages sit in packets in frames (`Wire`, `Exchange`), and
captures hold packets (`TraceFiles`); the XLATE8 flow works over the companion
table (`Xlate8`). The other components are used alone.

## 2. Modules

    Nat8                      ExclusiveBinding (abstract)
    Xlate8 <- Sockets                                           MCNat8, Nat8Proofs
    Reassembly; Wire <- Exchange, TraceFiles                    ReassemblyProofs
    RouteTable <- Forwarding  PacketLife (abstract)
    Arp8                                                        ForwardingProofs
    Traceroute8, Testbed                                        MCDataPath
    ZoneMtls <- ZoneRecords                                     MCZoneMtls, ZoneMtlsProofs
    Dhcp8 <- ZoneAccess; RouteTable, ZoneAccess <- MultiZone
    RouteTable <- Fabric                                        MCMultiZone, MultiZoneProofs
    AddressClass <- Border; AddressClass, RouteTable <- EndToEnd
    Bgp8 <- CfBoard
    Whois8, WhoisServer                                         MCWhois8Bgp8, RegistryProofs
    Qos, RateLimits                                             TrafficProofs
    NetFlow8, NetLog8                                           MCTraffic

(`A <- B`: B extends or instantiates A. On the right is the MC module that
composes the lines above it, and the modules of their proofs; `MinFacts` holds
facts about minima and recursive functions for the latter, and `TrafficProofs`
extends `MCTraffic`.) An MC module extends the components of one run that share no state
in the code; each behaviour works on one of them (the variable `focus`), which
keeps the product of their states small and loses nothing, as no property
relates two.

Every action is a whole public method: the expiry a method begins with, and
everything it calls, belong to it. Names follow the source. Definitions marked
"fault" are variants of the operator that follows them with one plausible bug
each; nothing uses them, they document what the properties can tell apart.

### The 8-to-4 gateway: `Nat8`

| TLA+ | code |
|---|---|
| `pat`, `rev`, `nextPort`, `patAddr` | `_pat_mappings`, `_pat_reverse`, `_next_pat_port`, `_pat_address` |
| `KeptPat`, `KeptRev`, `KeptTable`, `KeptUsed` | the tables after `_expire` |
| `AllocPort` | `_alloc_pat_port` |
| `PatEgress`, `PatIngress`, `ReleasePat`, `SetPatAddress`, `PatClear` | `_egress_pat`, `_ingress_pat`, `release_pat`, `set_pat_address`, `clear` |
| `table`, `older`, `pool`, `used` | `_mappings`, its iteration order, `_pool`, `_pool_used` |
| `PoolEgress`, `PoolIngress`, `AddStaticMapping`, `AddPoolAddress`, `Release` | `translate_egress`, `translate_ingress`, `add_static_mapping`, `add_pool_address`, `release` |

Time is how long each mapping has been idle, saturating one tick past the
timeout, which is all the code compares. The statistics become the outcome of
the last packet. A Python dict iterates in insertion order and `_reverse_lookup`
takes the first hit; `older` is that order. The module `ExclusiveBinding` says
what port translation promises - a client keeps its slot until it is evicted,
no slot has two clients - and `PatRefinesBinding` is that the gateway implements
it under `held <- HeldPort`.

### The other translations and sockets: `Xlate8`, `Sockets`

| TLA+ | code |
|---|---|
| `bindings`, `NextOutside`, `PortFollowing`, `Translate`, `ReverseTranslate` | `CGNATEngine`: outside hosts and ports in turn |
| `xlate`, `WithEntry`, `CreateXlateEntry`, `TranslateIngress`, `EgressFlow`, `RoundTrip` | `XLATE8Table` as an ordered dict, `NorthSouthFlow` |
| `ExposeService`, `Crossing`, `BridgeSend`, `TranslateOutbound`, `TranslateInbound` | `InteropXLATE8Engine`, `TwoXLATE8Bridge.send` |
| `Select`, `Distribute`, `Choice` | `EvenOddLB`; the strategy `passthrough` behaves as `round_robin` |
| `RegisterDns8`, `ConnectLegacy`, `Connect`, `Bind`, `Send`, `Recv`, `Close` | `CompatLayer`, `IPv8Socket` |

A key written again keeps its place in a dict; both tables are sequences for
that reason.

### Reassembly: `Reassembly`

`Send` is `fragment` for a link with a given room (MTU less header); the network
keeps, copies, reorders and loses fragments and drops them after `Lifetime`;
`Deliver` is one call of `process`: expiry, then the pass-through, the limit, the
insertion and the completion test with `_assemble`. A byte is named by its packet
and position, so mixing packets or misplacing data shows. The offset goes
through the 13 bits of the header (`OffsetMod`). `ReuseAfter` is the time after
which a sender uses an identification again; the code leaves that to the caller,
so the exactness property is conditional on it.

### The wire and files: `Wire`, `Exchange`, `TraceFiles`

`Wire` has the layouts as sequences of 16-bit words: `EncodePacket` and
`DecodePacket` (`IPv8Packet.to_bytes`, `from_bytes`), `EncodeIcmp` and
`DecodeIcmp`, `Wrap` and `Unwrap` (the 8to4 frame), `FramePacket`. Both sums are
the code's: the internet checksum, and the low half of CRC-32, which is what the
header has room for (`Crc`, octet by octet by table, the remainder kept as four
octets). Sixteen bits do not tell every change: of a packet of a few dozen octets
every single bit, but at some places one to seven of the 65535 changes of a word
pass. So the network and the file system change what is under the sum only
where the sum shows it (`SumShows`), and whatever is proved of changed packets is
proved of those. Changes of the frame, of the packet's length and of the sum
itself need no such condition.

`Exchange`: `Ask` (an echo request), `Report` (the three error messages) and
`Arrive`, the transport's handler, which decodes three times and replies;
`LoseFrame` and `Harm` are the network's. `TraceFiles`: `CapturePacket`, `Save`,
`Load`, `Export`, `ReadPcap`, `TakeOver` of `PacketCapture`, `PcapWriter` and
`PcapReader`, with `CutFile` and `Damage` between writing and reading;
`WriteNf8`, `ReadNf8` of the flow file with `CutNf8`, where a number that does
not fit its field raises after part of the file is written.

### Mutual TLS: `ZoneMtls`, `ZoneRecords`

`StartHandshake` is `start_handshake` (ServerHello is sent, the session kept),
`ClientHandshake` the client's side (`client_handshake`: verify the server, sign
the transcript), `CompleteHandshake` is `complete_handshake` with `Admit` or
`Reject`, `RevokeSession` is `revoke_session`. Messages stay available once made,
so a CertificateVerify can come late, twice and with another session's id. The
server's random value is fresh, so the id of the session stands for its
transcript. Certificates of other authorities are in the constant
`ForeignCerts`. `ZoneRecords` adds `EncryptForClient` and `DecryptFromClient`
with messages that are altered, repeated and tried in other sessions, and
`PerformHandshake`, the handshake in one call (`perform_mtls_handshake`) with
the alert it ends in.

### Zones: `Dhcp8`, `ZoneAccess`, `RouteTable`, `MultiZone`

`Dhcp8`: `nextHost` is the pool's `_next`, `leases` the server's `_leases`;
`Discover`, `Release`, `Reset`. `recycled` is history: the servers whose pool was
reset over leases, for which no uniqueness can hold. `ZoneAccess`: keys, issued
and revoked tokens of one cache, a token being the tuple its text encodes; and
the rules of one engine in order, `Deciding` the index of the first match.
`RouteTable`: the lookups of `RouteTable` and `TwoTierRouteTable`. `MultiZone`
composes them: `AddZone`, `ConnectZones`, `ProvisionDevice`,
`AuthenticateDevice`, and the steps operators can take on the components of a
zone (`LeaseStep`, `KeyStep`, `RuleStep`); `RouteBetweenZones` and the
authorization (`Evaluate`) only read.

### Under the zones: `Fabric`

`CreateVpc`, `DeleteVpc`, `CreatePeering`, `ResolveVpc`, `CanCommunicate`,
`Overlapping` (`CloudVPCFabric`): `zoneOf` and `joined` remember which VPC ever
had a prefix and which were peered, whatever the names are now. `CreateVrf`,
`DeleteVrf`, `AddVrfRoute`, `VrfLookup` (`VRFManager`): a VRF object is a number,
since callers keep objects whose name was deleted or given again. `BridgeUp`,
`ServerUp`, `BridgeDown` and `ElectRoot` (`pvrst.py`), and `ServerIsRoot`, what a
zone server says of itself (`zoneserver.py`).

### Addresses, filters and the scenario: `AddressClass`, `Border`, `EndToEnd`

`AddressClass` has each copy of the rules as it is written: `Scope` and
`RoutableExternally` (`validation.py`), `EgressViolations`, `IngressViolations`
(`validation.py`, `security.py`), `ExternalRouting` (`addr_usage.py`),
`MulticastType`, `ClassOf`, and the resolver's `RouteStatus` and
`DestinationStatus` (`whois8.py`). `Border` lets a packet, its prefix and a
prefix length meet all of them, with the filters' alerts, the registry and the
BGP8 table beside it. `EndToEnd` is one `EndToEndScenario` object: `SetupZone`,
`ProvisionDevice`, `Look` (the single steps that only note their outcome) and
`RunFullScenario`. What each step makes of the scenario's objects (`services`) is
an operator of its own, of which the full run is the composition; the zone's
DHCP8 server is the part of it that a scenario uses. `allPassed` is `all_passed`
of the result that every step and every run adds to and nothing empties.

### Registry and path selection: `Whois8`, `WhoisServer`, `Bgp8`, `CfBoard`

| TLA+ | code |
|---|---|
| `registry`, `routed`, `cache` | `_registry`, the keys of `_routes`, the client's `_cache` |
| `RegisterAsn`, `RegisterRoute`, `UnregisterAsn`, `AsnLookup` | the methods of `WHOIS8Server` |
| `LookupCached`, `LookupAsked`, `Kept`, `FlushCache` | the two ways through `WHOIS8Client.lookup`, what it caches, `flush_cache` |
| `roll`, `RollRegister`, `RollRegisterSigning`, `SetSecret` | `register_asn` without and with a secret, `signing_secret` |
| `RouteValidate`, `AnycastLookup`, `BulkQuery`, `RecordVerify` | the handlers of the other queries |
| `rib`, `intrazone` | `_rib`, `_intrazone_cf` |
| `ReceiveAdvertisement`, `Withdraw`, `SetIntrazone`, `BgpClear` | the methods of `BGP8PathSelector` |
| `Cheapest`, `Shortest`, `Lowest`, `Select` | `select`: the stages of its sort key, then the first of what is left |
| `Accumulate`, `Saturated`, `ComputeCf`, `IsAnomaly` | `accumulate_cf`, `cf_total`, `compute_cf`, `is_cf_anomaly` |
| `AddPath`, `RankedPaths`, `BestPath`, `Summary`, `RunBenchmarks` | `CFDashboardState` |

A registry record in `Whois8` is the serial number of its registration and its
expiry; `WhoisServer` has the fields the other queries and the signature depend
on, at one moment. One call reads the clock once in the model; in the code a
lookup reads it up to three times within the call. Three history variables say
what a client can compare: `goodAt` (when the registry last gave a content as
OK), `told` (how far an ASN's life had come by the last answer) and
`registered`. The reply of a lookup that was not OK leaves a stale entry in the
cache, as in the code.

A list of candidates is a function of arrival numbers, so that dropping entries
keeps the order of the others; the sort is stable, so `Select` takes the earliest
of the paths that tie in cost, length and origin. Costs saturate at `MaxCf`.
On the board the seven measures are parts of `Whole` and the weights hundredths,
so that sums are exact where the code rounds.

### Traffic: `Qos`, `NetFlow8`, `NetLog8`, `RateLimits`

| TLA+ | code |
|---|---|
| `queues`, `config`, `bucket`, `served` | `_queues`, `_configs`, the bucket of a configuration, `_wfq_counters` |
| `Enqueue` = `Refuse`, `Police` or `Admit` | `enqueue` and its three ways out |
| `Refilled`, `Affordable` | `TokenBucket.refill`, `consume` |
| `Dequeue`, `Chosen` (`Highest`, `LeastServed`, `FirstOf`) | `dequeue` and the three policies |
| `ConfigureClass`, `ShaperClear` | `configure_class`, `clear` |
| `flows`, `exported` | `_flows`, `_exported` (by key) |
| `Observe`, `ExportExpired`, `ExportAll`, `FlowClear` | the methods of `FlowCollector` |
| `Log`, `ClearClient`, `ClientQuery` | `NetLog8Client` |
| `Ingest`, `RelayForward`, `AddAlertRule`, `ClearAlerts`, `LogQuery`, `QueryAlerts` | `NetLog8Collector`, `NetLog8Relay` |
| `PackHeader`, `UnpackHeader` | `NetLog8Header` |
| `LimitAllow`, `Turned`, `Remaining` | `ratelimit.RateLimiter` |
| `Allow`, `RefilledTo` | `netlog8_proto.RateLimiter` |

Time is in seconds and a rate in octets a second; where the code computes with
floating point (tokens, the ratio of a counter and a weight) the model is exact:
ratios are compared by cross-multiplying (`Lead`). History variables say what the
properties need: `sent` what a class let in since each moment under its present
bucket, `start` how far one class led another when the two began to wait together
under their present weights, `observed` the packets of each flow in order,
`handled` how many entries were handed on, `since8` what each collector was handed
since its buffer and its alerts were cleared and by which rules it was watched
then, `passed` what the limiter let through since the first call at each moment.

### Networks: `Forwarding`, `Traceroute8`, `Arp8`, `Testbed`

`Forwarding` has the simulator and the UDP runner over the same configurations.
In the simulator `Forward` is one call of `_forward`: `Revisited`, `DeliverAt`,
`OnRoute`, `OnAnyLink` and `DropAs` are its ways on and out, in its order, and
`Change` (nodes, links, routes) comes only between packets, since `send` returns
when the packet has ended. `PacketLife` says what forwarding promises - a packet
moves, spends one hop a move, and ends once, delivered to a node that owns the
address or dropped - and `SimulatorKeepsPacketLife` is that the simulator
implements it. In the UDP runner `SendAndWait` puts a datagram on the network,
which may `LoseDatagram` and `Copy` it; `OnPacket` is `_on_packet` of whoever holds the
address; only the time to live ends what routes send round.

`Traceroute8`: one step (`Probe`) is one time to live, for which the path is
walked anew (`Walk`); the four `build_*_topology` functions are there too, the
chain with up to all the named routers.
`Arp8`: the version cache with its forwarder, and the MAC table; devices are
replaced and change their MAC behind their backs. An entry is dated by its answer,
1 or 51 ms after the probes (`AnswerAfter`). `Testbed`: the three builders,
`LoadTopology`, `AddNode8`, `AddLink8`, and what `generate_compose` and
`generate_node_config` make of it (`Networks`, `Subnet`, `PeersOf`). Nothing checks
what a caller builds with - a link may name a node that is not there, two
systems may get one subnet - so `ComposeJoinsPeers` says what holds all the same
and names the ways in which the file may fail to describe one network: a link
by hand to what is no node, a gateway given by hand without a link, and the
reasons for which two networks have one subnet (`SameSubnet`).

## 3. Runs

| run | module, configuration | shows |
|---|---|---|
| `nat8_gateway` | `MCNat8` | the gateway in both modes: tables inverse (`PatBijection`), no address given twice (`OneToOne`), nothing refused while something is free (`DroppedOnlyWhenFull`), ports handed out in turn (`PortsGoRound`), idle ports come back, refinement of `ExclusiveBinding`; the carrier's pool reaches a device for one round and no longer (`ReachedForOneRound`); a reply goes to the flow that was first at its address (`RepliesStay`); exposed services and named sockets lead where they were meant to (`NamesLeadHome`) |
| `nat8_override` | `MCNat8Override.cfg` | *violated:* a static mapping over a dynamic one leaks the pool address, against "an unused address from the pool is assigned" |
| `data_path` | `MCDataPath` | every packet ends, in the simulator and on a network that loses and copies (`EveryPacketEnds`); the simulator implements `PacketLife` and loses a packet only when its way leads nowhere or too far (`LostOnlyOffRoute`); a trace tells the way, on any tables of three routers and on the built topologies (`TracesTell`); neighbour caches are wrong only as long as flushing is put off (`OldNewsIsFlushed`); how far the compose file describes one network (`ComposeJoinsPeers`). Fragments lost, copied, reordered, keys reused: exact payloads, nothing held back, buffers drain; echo and error messages over a harmful network: what is heard was told (`HeardIsTold`); files cut, damaged or given up: what is read was written (`FilesTell`) |
| `stale_version` | `MCStaleVersion.cfg` | *violated:* a neighbour that became an IPv4 device is sent IPv8 from a stale entry, against "No IPv4 device ever receives a packet with version 8 in the IP header" |
| `reassembly_oversize` | `MCOversize.cfg` | *violated:* above 65536 octets the offset no longer says where the data belongs |
| `mtls_handshakes` | `MCZoneMtls` | agreement of both ends, admission only with a certificate valid at that moment; the handshake in one call ends as the one in steps, and messages open only in their session (`HandshakesKeep`) |
| `mtls_two_sessions` | `MCZoneMtlsAuth.cfg` | *violated:* of two sessions of one client, closing one makes `is_authenticated` deny the other |
| `multizone` | `MCMultiZone` | leases, routes, tokens and rules while zones are added and connected; VPCs, VRFs and roots stay apart (`FabricApart`) |
| `registry_and_paths` | `MCWhois8Bgp8` | how old an answer from a cache can be, that answers never step back; which records are vouched for (`VouchedWasSigned`); a router's choice gets worse only by losing all paths of its origin; a cost common to all paths does not matter below saturation, at a router and on the board (`CostsNeutral`); the seven copies of the address rules fit each other (`OneJudgement`); what a full run adds to its result tells its destination alone, while what it returns remembers every failure (`RunTellsDestination`) |
| `bgp8_intrazone` | `MCIntrazone.cfg` | *violated:* with saturation the cost inside the zone changes the choice |
| `traffic` | `MCTraffic` | what a policed class lets in over any stretch of time, and that it refuses no more than that asks for; how far one waiting class gets ahead of its share; flow records, collectors and clients account for everything once (`ObserversAccount`); windows and the log limiter keep their bounds, the latter with a clock that steps back (`WindowsHold`, `LogEnvelope`) |
| `qos_fifo` | `MCFifo.cfg` | *violated:* under FIFO packets overtake those of classes listed later |

Each property has a mutant in `PROJECT.json`: a bug in one mapped definition
under which the same run finds the property violated. Properties that are
conjunctions (`NamesLeadHome`, `HandshakesKeep`, `FabricApart`, `CostsNeutral`,
`OldNewsIsFlushed`, `TracesTell`, `FilesTell`, and in its MC module
`ObserversAccount`) have their conjuncts at the end of the component modules, each with
its comment.

### Bounds

- *Gateway.* Four sessions compete for three ports, so that the scan runs full,
  wraps and starts anywhere; the idle timeout is one tick, so "within", "at" and
  "past" all occur. Host mode has three hosts, two pool addresses (a pool of at
  most two entries, duplicates included) and one static pair, which may override
  a dynamic mapping and be released again. Hosts, sessions and addresses are
  interchangeable, so more of them add no new kind of conflict.
- *Carrier, flows, bridges, sockets.* A pool of two hosts and three ports and
  seven bindings (`MaxBindings`): both go round, and out of step. Three flow keys
  of two devices, two servers, two outside ports: two flows share an outside
  address, one device has two flows. Two companies with two services and two
  meeting addresses, three exposures (`MaxExposed`): each may be exposed again,
  moved, or put over another. Sockets: at most four logged calls (`MaxLogged`)
  and three selections (`MaxSelected`), one host registered for two ASNs.
- *Reassembly.* Two packets of one key and one with DF; links with room for one
  or two units; up to three fragments; identification reused as soon as allowed.
  `OffsetMod = 3` makes the limit of the offset field reachable by a packet one
  unit longer (the oversize run).
- *Wire and files.* One request or error at a time (`MaxAsked = 1`; it may be
  sent again), errors with the codes 0, 1 and 6; one frame harmed
  (`MaxHarmed = 1`), at any word and in each way, as far as the sum shows it;
  payloads of an even number of octets. Two captured packets in their order with
  a clock of four nanoseconds, two of them a microsecond; up to three flow
  records, with the 16- and 32-bit limits of the header and the records scaled to
  two (`MaxCount`, `MaxField`).
- *Mutual TLS.* Two clients, two sessions, four serial numbers (two are the
  authority's own), a clock of 0 to 2, and a forged certificate; one more session
  repeats the situation of the second. Two messages (`MaxMessages`) of one text,
  while the clock stands.
- *Zones.* Two zones, two devices, two addresses per pool (so that it runs dry),
  a clock of 0 and 1 around a lease and a token of one tick, three rules.
- *Fabric.* Three names for VPCs and eight zones in all (`MaxZone`), the interop
  zone scaled from 127 to 3 and the last octet from 255 to 6, so that the
  numbering passes both; five VRF objects under three names; four bridges, two of
  them the zone's servers, three priorities, a VLAN of each parity.
- *Registry and paths.* Two ASNs and a reserved one, two registrations in all (a
  record and what replaces it, or one for each ASN), a time to live of one tick
  and two further ticks, expiry never, at once and later: an entry can be
  within, at and past its time with its record in force, replaced, expired or
  gone. Three arrivals out of six advertisements (two ways to one origin, a
  second origin, a loop, a prefix too specific, another prefix) over four
  sequences of hop costs around `MaxCf = 7`, so that sums stay below, meet and
  pass it, with and without what the zone adds. In the other queries one signature is made (`MaxSigned`), and the
  records of the second ASN are plain and without a route: signatures travel from
  the first ASN to the second and back.
- *Board.* Five sets of measures in halves of the scale (`Whole = 2`), three
  paths, the same saturation; the cost inside the zone that the constructor takes is
  not clamped, the one the setter takes is, as in the code.
- *Border and scenario.* A prefix of every class and its neighbours, three kinds
  of host, both sides of the /16 limit; one thing noted by each filter
  (`MaxNoted`) and one registry record at a time. Two devices, two addresses, a
  clock of 0 and 1.
- *Traffic.* Two classes (one above and one of best effort; an unknown value in
  the packet counts as best effort), one configuration in a behaviour, packets of
  one or two octets. Policing works on four packets over moments 0 to 2, with
  rates 1 and 2 and bursts of two octets: a bucket is emptied, refilled in part
  and up to its burst, and queues of two fill. Scheduling works on six packets
  of one size with weights 1 and 3, so that one class is served three times as
  often and a class may come back after it was idle. Flows have two keys, four
  packets and moments 0 to 4 around timeouts of 1 (idle) and 2 (active), so that
  either cuts a flow alone.
- *Logs and limiters.* Two entries (`MaxLogged`), routine and urgent, through a
  client with room for one and a collector with room for two; two are handed on
  by the relay or directly, repeatedly; a collector may be listed twice
  (`MaxRelayed = 2`); messages of 70000 octets and more, past 16 bits of length.
  Windows: two packets a second and three a minute, seconds of two ticks, minutes
  of two seconds, eight ticks. The log limiter: a burst of two and moments 0 to 3 in any
  order.
- *Networks.* A host and a router on each side and a name that is not there; 36
  configurations (two sets of links, three tables each for the routers, two for a
  host) with circles, gaps and missing next hops; a time to live of three, two
  packets, one change between them; on the UDP side, where only the links of
  hosts count, two packets, one copy, one stop. Traces: tables of three of five
  routers over six maps each (no route, a default to a router or to nothing, a
  prefix's route before a default), first times to live of 1 and 2, four probes.
  Neighbours: entries of one tick, answers dated one or two ticks ahead and a
  clock to 2 (versions), entries of two ticks and a clock to 3 (MACs), so that
  entries are within, at and past their life. Test bed: two calls of the builder
  of two systems, two of that of a star, one of that of a mesh, two nodes and two links by hand, six
  links in all (`MaxTestLinks`); two pairs of systems share an octet, one has
  that of the spokes, a link by hand has a spoke's subnet or leads to a name
  that may not be there, a gateway given by hand may have no link.

### Fairness

Expiry is lazy everywhere: nothing runs unless someone calls. `IdlePortReclaimed`
assumes that the clock advances and that *some* session's packet is translated
again and again (each such call expires every mapping); it does not assume that
any particular session sends. `BuffersDrain` assumes the clock and that `expire`
is called from time to time (`process` does it too). `EveryPacketEnds` assumes of
the simulator that `_forward`, which calls itself until the packet has ended,
goes on (`Carried`), and of the UDP network that a datagram in flight is at last
handled by a socket or lost (`Settled`); no delivery and no order is assumed.
All of these are weak fairness. All other properties are safety and assume
nothing.

## 4. Proofs

TLAPS proves the following for every value of the constants - any number of
sessions, ports, hosts, clients, zones, nodes, routes, packets, any lengths,
rates and weights - from the assumptions named in the modules, which TLC
evaluates in every run. The assumptions give the constants their types and, in
places, what the code has by construction: markers such as `NoBuffer` or
`NoPath` are no value of what they mark, timeouts and weights are positive, the
reserved numbers are reserved, the program's own prefix is one of the
prefixes. Conditions on what callers do (identifications not reused too soon,
static externals apart, pools not reset over leases)
are never assumptions; they are hypotheses inside the properties, where a run
shows that they are met.

Each proof has an inductive invariant whose name ends in `IInv` or `Inv`, a lemma
that the initial states have it, one that every step keeps it (with one case per
action), and one that it implies the property.

`Nat8Proofs`, on the gateway - the type invariant, `PatBijection`,
`DroppedOnlyWhenFull`, `DynamicAccounted`, `OneToOne`, `PortsGoRound` and the
refinement `PatRefinesBinding`. `PatBijection` is inductive with the types
(`PatIInv`); the lemma `KeptTables` shows that expiry takes back both halves of an
entry, `AllocPortFree` that the wrapping scan returns a free port whenever there
is one. `PortsGoRound` has an invariant of its own (`RoundIInv`): a port that was
free ever since another was handed out comes before that one in the scan that is
next (`ScanMovesOn`), so it would be found first. For host mode the invariant is
`PoolIInv`: `Accounts` (dynamic mappings hold distinct addresses, all marked used,
all of the pool; a static mapping is one of the operator's) and `Ordered` (`older`
is a strict order of the mapped hosts in which every set of them has a first one,
so that the reverse lookup has an answer). `OneToOne` follows from `Accounts`
under the condition that static externals are apart.

`Nat8Proofs`, on the rest - `ReachedForOneRound`: two counters that only ever step
give binding `i` the host of its turn modulo the pool and the port of its turn
modulo the range (`CgnatIInv`), and two bindings share one exactly when their
turns differ by a multiple (`SameRemainder`). `RepliesStay`: an entry appended is
the first match of nobody's reply that had one before (`AppendTakesNothing`).
`NamesLeadHome`: the tables of two companies answer each other (`InteropIInv`);
what a socket has is what the log named last (`LogIInv`, with `LastOfIs` on the
last of the entries of a kind); the address survives the wire because eight
octets are four and four (`WireKept`); of any run of choices the balancer's two
hosts get half each (`Halves`, by induction on the length of the run).

`ReassemblyProofs` - types, `ExactReassembly` and `NothingHeldBack`. The condition
on reuse (`Undisturbed`) speaks about moments, the reassembler about bytes; what
joins them is that a fragment under way was sent a short time ago (`Fresh`), of
two packets with one key one was sent long ago (`KeysApart`), and what a buffer
that is not stale holds was sent no longer ago than the buffer's age and a
fragment's life (`Timely`) - so a buffer never has pieces of two packets. Then
each piece says where it belongs and has MF if it is not the last (`Honest`),
and the buffer knows the length once the last is in and is never complete
between calls (`Whole`, `Good`); a complete buffer covers the packet without
overlap, which gives the bytes.

`ReassemblyProofs`, on the wire and files - `HeardIsTold` and `FilesTell`. First
what a decoder returns for what its encoder made: a header's fields are read back
(`HeaderWords`, `FieldsRead`), a packet, a message and a frame are taken apart as
they were put together (`PacketRead`, `MessageRead`, `FrameWhole`). Then what
becomes of them when harmed: a change under the sum is refused where the sum shows
it, and the sum always fits its word, since each step of it keeps four octets
(`TableIs`, `StepIs`, `CrcIsWord`); each word of a frame belongs to a length, a
sum, a magic number or the padding that some decoder looks at or that says nothing
(`FrameCut`, `FrameChanged`, `PacketHarmed`). The invariant of `Exchange`
(`ExchangeInv`) is that whatever is in the air stems from the frame of a message
that may be told (`AirTold`): one that was asked or reported, or the reply to a
request that was accepted. For the files the invariants say of the file alone what
a reader may make of it (`CaptureInv`, `FileInv`): a record's moment and packet
are read back to the precision of the format (`PartsOfTime`, `RecordRead`), a
reader that skips returns the records that are whole, in order (`ParsedBut`), and
a flow file's numbers come out of their fields when they fit (`RecordKept`).

`ZoneMtlsProofs` - types, `Agreement`, `HandshakesKeep` and the two action properties
(`AdmittedWithCertificate`, and `DeauthenticatedWithSession`: a client's
authentication ends only with a session of its own). The invariant is
`TypeOK /\ Answered /\ Agreement`: `Answered` says that a CertificateVerify
carries the name of a client who was sent the ServerHello it signs. Without it
`Agreement` is not inductive, since nothing would tie a message in flight to the
hello it answers. For `HandshakesKeep` (`RecordsIInv`) the zone's certificate is the
authority's own (`ServersOwn`), a session id was given to one client
(`OneClientEach`) and a message carries the key of the session and client it was
made for (`KeyFits`); `OneCallAgrees` goes through the checks of the handshake in
one call beside those of the steps.

`MultiZoneProofs` - the type invariant, `OneHolder`, `RoutedToOwner`, `FabricApart` and
the action properties `KeepsAddress`, `DecisionsStay` and `ShutOutOnlyNow`. A pool
gives out increasing octets, so the invariant adds that every lease of a server
that was not reset under leases lies below the pool's pointer and that its
leases are pairwise different (`Ledger`). For the routes, `RouteIInv` says that a
table holds the route to a zone exactly if the zone is its own or linked to it,
whichever was added first and however often they were connected, and `Fresh` that
a zone not added yet has neither routes nor leases; that the lookup's first match
is then the only match follows from the condition that prefixes are distinct.
`DecisionsStay` rests on lemmas about the first match of a sequence that loses or
gains one element. `ShutOutOnlyNow` rests on `TokensTimely`: no token that was
issued or revoked carries a moment after the present one, so one made later is
not among the revoked. `FabricApart` has three invariants: `VpcIInv` (a zone number
belongs to one VPC for ever, and a peering in force joins the very VPCs that
hold its names), `VrfIInv` (the object a name stands for bears that name and the
routes meant for it), `PvrstIInv` (only the servers have a server's role, and the
priorities of their role).

`RegistryProofs`, on the registry - `AnswersNoOlderThanTtl`, `RoutesOwned` and
`NoGoingBack`. The invariant ties the client to the registry: `Dated` says that an
entry is no newer than the last moment its record was in force, `Behind` that
what the client was told never exceeds the truth, nor its entry while that is
usable, nor falls short of it. The last clause is what makes an answer from the
cache no step back, and it holds only since a lookup that is not answered OK
does not renew the entry. The truth itself only moves forward (`TruthWithTime`,
`RegisterKeeps`, `UnregisterKeeps`). On the other queries, `VouchedWasSigned`: a
record's signature is one that was made, and no reserved ASN is on the roll
(`RollIInv`).

`RegistryProofs`, on the rules - `OneJudgement`: each chain of tests is brought into
a table of which kinds of address come out how (`Kinds`, `ScopeRows`, `RoutingRows`,
`MulticastRows`, `ListingRows`), for any address; what a registry can hold is
`BorderIInv`. `RunTellsDestination`: what a run adds to the result
is a formula of its destination (`Passes`, `RunFinds`), whatever the scenario held
before, and a run that passes has nothing failed before it (`RunIInv`). That
theorem found a condition the property had left out: with leases of no duration
the token is expired when it is made, and every run fails.

`RegistryProofs`, on costs - `OnlyWithdrawalWorsens`, for any advertisements and
costs: the choice is a least element of the held paths under the order `Better`
(with lemmas that each stage of the selection is not empty and that `Better`
compares any two), so a path added or a different origin withdrawn can only
improve it. `CostsNeutral`: the sum over hops is a fold, of which
`SumOfHopsTyped` proves that there is such a function and that it stays within
the limit; `CheapestStay` and `BestMeasured` show that saturating after adding
the same to all keeps the cheapest paths the cheapest unless the least sum
saturates; `CostGrows` that the weighted cost grows with every measure; and the
board's dictionary keeps one place for each path (`BoardIInv`), so its anomalies
are counted once and `RanksBestFirst` holds.

`TrafficProofs`, on the shaper - `WithinEnvelope` and `PolicedOnlyWhenOver`, for
any classes, rates, bursts, sizes and calls. The number of tokens is nowhere
related to time in the code but by the last refill, so the invariant (`Metered`)
says what the number means: a bucket in use holds the least, over all stretches
that end with its last use, of what the stretch allows less what was let in
(`Used`: no stretch leaves less, and one leaves exactly that); one not used yet
is full and nothing was let in (`Untouched`). `RefillMeters` carries this to the
present, where capping at the burst is the stretch that begins now. The first
property follows as tokens are never negative, the second as the stretch that
leaves exactly the tokens held is the one a policed packet would exceed.
`FairWhileWaiting`: the lead of one class over another, in units of both weights,
grows only when the first is served, and then it was not ahead
(`LeastServedBehind`), so it ends at most one packet ahead or where it began.

`TrafficProofs`, on the limiters - `LogEnvelope`, for any rate, burst and moments of
calls, in any order. Its clock may step back, which takes tokens away, below
zero if need be; the invariant `LimiterIInv` says for each moment `s` that was
called at that what passed since is covered: by the burst and what the rate
gives from `s` to the last refill - less than nothing if that is earlier -
less the tokens left (`Covered`). `WindowsHold`: the packets let through up to each
tick have a running sum (`WindowIInv` says that there is one), of which the
counters of the present second and minute are the last part (`Counted`); what
any window lets through is a difference of two of its values (`WindowTotals`).

`TrafficProofs`, on telemetry - `ObserversAccount`, for any flows, timeouts, rooms,
rules and relays. Of a flow the invariant (`FlowInv`) says that its records and
the entry still open cut its packets into stretches, each as long as the record's
count, with its moments and its octets (`Tells`); a packet prolongs the last
stretch, an export closes it, and sums over sequences are recursive functions
that grow by the element appended. Of the logs (`LogInv`): a collector's buffer
is the newest of all it was handed, its counters are the lengths of the parts of
one severity, its alerts the alerts called for by each hand-over under the rules
of its moment (`Kept`), and a client drops entries only when it is full
(`ClientKept`). One entry more keeps that so (`IngestedKeeps`), hence so does the
relay by as many steps as it has collectors, the same one several times perhaps
(`FanOutKeeps`); what a query finds, newest first and no more than asked for,
follows from how filtering and reversing meet (`QueryAll`, `QueryOne`), and what
the header says from octets being put together again (`HeaderRead`). `EachPartBehaves`
ties these theorems to the run: its specification implements that of each part.

`ForwardingProofs` - `OldNewsIsFlushed`: an entry that is wrong was learnt before
its device changed, and no flush came a lifetime after that (`ArpIInv`,
`MacIInv`). The refinement `SimulatorKeepsPacketLife`, from the types and that a
packet on its way has a hop left (`SimTypes`). `LostOnlyOffRoute`: the places the
routes lead a packet to are a recursive function of the number of hops (`Way`);
while a packet moves, each of them before the present one was a single node
without the address, and they are the nodes it visited (`OnItsWay`, in `WayIInv`).
A packet dropped for a revisit, for want of a route or of hops is then one whose
way leads nowhere within its time to live (`Astray`). `ComposeJoinsPeers`: a link
joins nodes that are there, or was added by hand; a gateway keeps its link when
its topology is loaded over another, or its node was added by hand (`BedIInv`);
and the four shapes of a link the builders make (`Shaped`) meet neither in the
name nor, unless an octet is shared (`ShapesApart`), in the subnet; that the list
of a mesh has one place for each pair of routers is a surjection between finite
sets (`EveryPlaceTaken`). `TracesTell`: the way packets take, `OnWay`, is a
recursive function of the number of hops, and the walk made anew for every time to
live stays on it until it closes, arrives or gives out (`WalkTells`, by the least
walk that would not); `TraceIInv` is that every probe before the last died on that
way, one router further each, and that the last stood where the trace says the way
ends. A way that closes never comes to the target, since what lies on the circle
leads nowhere else (`EndsWithoutTarget`). The built topologies need only which
routers `OnWay` names on each (`WayPassed`), for chains of any length.

The type invariants and some other results (`DynamicAccounted`,
`PolicedOnlyWhenOver`, `RoutesOwned`, `KeepsAddress`,
`DeauthenticatedWithSession`) are proved and no longer listed in a run.

What stays with TLC:

- The liveness properties `IdlePortReclaimed`, `BuffersDrain` and
  `EveryPacketEnds`, which are out of the prover's reach.
- Nothing else a passing run checks. Where a model computes by recursion (sums,
  filters, walks, two readers of files) it does so by recursive functions on the
  natural numbers, of which the proofs show that they exist and what each step
  adds (`Iterates`, `UpFrom` in `MinFacts`); what holds of every length follows
  from there being no least counterexample.
- The six runs that end in a violation: each shows one behaviour.

## 5. Findings

1. `nat8.py:199` - `add_static_mapping` over a dynamic mapping forgets which pool
   address the host had; `_pool_used` keeps it until `clear` (`nat8_override`).
2. `fragmentation.py:122` - payloads of more than 65536 octets are cut although
   their offsets do not fit the header (`reassembly_oversize`).
3. `mtls.py:763` - `_authenticated_clients` is a set of names: closing one session
   deauthenticates a client that still has another (`mtls_two_sessions`).
4. `bgp8_selection.py:186` - sums that saturate make paths tie, so the cost inside
   the zone does change the choice, against `tests/test_bgp8_selection.py:252`
   (`bgp8_intrazone`).
5. `qos.py:371` - the FIFO policy drains classes in the order of the enumeration,
   against its description "Simple FIFO across all queues (no priority)"
   (`qos_fifo`).
6. `arp8_version.py:136` - a cached entry is answered however old it is and
   whatever the device speaks by now, so an IPv4 device that took the place of an
   IPv8 one is sent IPv8, against line 303 "No IPv4 device ever receives a packet
   with version 8 in the IP header" (`stale_version`; `OldNewsIsFlushed` says for how
   long this can last).

Behaviour of the code that the models have and no property speaks against; we
know of no line in the repository that promises otherwise:

- `mtls.py:721` - a session whose client never answers stays in
  `_active_sessions`; there is no timeout.
- `zoneserver.py:99` - the two servers of a pair share no keys, revocations or
  rules: what is revoked at one is accepted by the other (`ShutOutOnlyNow` is
  about one cache at a time).
- `dhcp8.py:98` - neither release nor expiry gives an address back, so a pool
  runs dry.
- `whois8_proto.py:363` - ROUTE_VALIDATE looks at the active flag and never at
  the expiry, ASN_LOOKUP at the expiry and never at the flag; hence `Whois8` and
  `WhoisServer` abstract a record differently.
- `cgnat.py:88`, `companions.py:236` - bindings are overtaken after one round of
  the pool, and the MAC of a host that changed it is told until someone flushes;
  `ReachedForOneRound` and `OldNewsIsFlushed` say exactly how long either holds.
- `nat8.py:379` - a port is handed out again at once if its turn is next when it
  comes back, and after `clear` (486) the round begins anew; in between
  `PortsGoRound` keeps it for a whole round.
- `integration.py:107` - the result of a scenario object is never emptied, so
  after one failed step no later run of it passes (`RunTellsDestination`).
- `docker_testbed.py:213, 349` - systems that agree modulo 256 get one subnet, a
  system of 256 k that of the spokes, links may lead to no node, and links stay
  when nodes are replaced; `ComposeJoinsPeers` names these.
- `qos.py:354` - under weighted queuing a class that was idle comes back with a low
  count and is served first until it has caught up: the "lead it had" in
  `FairWhileWaiting`.
- `bgp8_selection.py:137` - an advertisement received again is appended, so a path
  once known as good goes on counting until its origin is withdrawn;
  `OnlyWithdrawalWorsens` describes that.
- `whois8_proto.py:202` - the text that is signed joins the fields with ":", so two
  records whose fields contain one may have one text; the model signs the fields.

## 6. Plan

| # | modules | state |
|---|---|---|
| 1 | gateway, reassembly, mutual TLS, zones | done; proved but for the liveness of idle ports and buffers |
| 2 | registry, path selection, shaper, flow records | done, proved |
| 3 | logs, limiters, carrier, flows, bridges, sockets | done, proved |
| 4 | networks: simulator, UDP runner, traceroute, neighbours, test bed | done; all proved but the UDP runner's liveness |
| 5 | wire, files, encrypted messages | done, proved |
| 6 | addresses, filters, scenario, other queries, board | done, proved |
| 7 | fabric: VPCs, VRFs, spanning tree roots | done, proved |

Every safety invariant and action property of a passing run is stated by a
theorem. Left are the three liveness properties, which need a prover for
ENABLED and weak fairness.

## 7. Not modelled

- The command line (`cli/`, a third of the code): a command parses its arguments,
  calls the operations modelled here and prints. Most of these modules keep one
  object in a module's variable from command to command of a process (the test bed
  of `docker_cli.py`, the fabric of `cloud_vpc_cli.py`, a gateway, a selector); it
  is the object that the models describe, and the commands are its callers.
- `dashboard.py`, `tui_dashboard.py` and the page and HTTP handler of
  `cf_dashboard.py`: rendering of what other components hold. The board's state
  is modelled; that the handler of `POST /api/path` may store a path and then
  answer 400, when the hop costs are no numbers, is not.
- `fuzzer.py`, `benchmark.py`, `dump.py`: drivers of tests, timings, hex dumps.
- `compliance.py`: comparing one set with another. `plugin.py`: a list of
  functions that no module of the package calls.
- Of `companions.py` the RINE links, the MIB and the OSPF8, IS-IS8 and Update8
  records, of `pvrst.py` the port states, of `zoneserver.py` the service list:
  stored, listed, and read by no decision.
- Parsing and formatting of addresses, YAML and JSON text, statistics beyond the
  outcome of a packet, event lists, wording. Cryptography is who made what:
  keys, digests and extensions of certificates are left out. Distances on the
  globe and answer times of a trace are inputs or left out.
