-------------------------------- MODULE NetLog8 --------------------------------
(***************************************************************************)
(* Telemetry (netlog8.py, netlog8_proto.py): clients with a bounded buffer *)
(* and a severity filter, a relay that hands entries on to its collectors, *)
(* and collectors that keep the newest entries, count by severity, and     *)
(* raise an alert for each rule an entry matches.  Severity 0 is the most  *)
(* urgent.                                                                 *)
(***************************************************************************)
EXTENDS Integers, SequencesExt

(***************************************************************************)
(* The header NetLog8 puts before an entry on the wire (netlog8_proto.py,  *)
(* NetLog8Header): twelve octets that name severity and facility and say   *)
(* how many octets of message follow.                                      *)
(***************************************************************************)
CONSTANT Unreadable   \* what unpack raises on

(* A facility's number is its place, from 0 on.                              *)
Facilities ==
  <<"kernel", "routing", "security", "dhcp8", "dns8", "ntp8", "oauth8", "acl8", "whois8",
    "xlate8", "pvrst", "vrf", "icmpv8", "general">>

FacilityNumber(f) == (CHOOSE i \in DOMAIN Facilities : Facilities[i] = f) - 1

HeaderMagic == <<78, 76, 56, 1>>     \* "NL8" and a 1

LogHeader(severity, facility, length) ==
  [version |-> 1, severity |-> severity, facility |-> facility, length |-> length]

(* frame_entry: the length is that of the message alone, in octets.           *)
FrameEntry(kind, messageOctets) ==
  LogHeader(kind.severity, FacilityNumber(kind.facility), messageOctets)

(* What fits in two octets, the most significant first.                      *)
BigEndian(n) == <<(n \div 256) % 256, n % 256>>

PackHeader(h) ==
  HeaderMagic \o <<h.version, h.severity>> \o BigEndian(h.facility)
    \o BigEndian(h.length \div 65536) \o BigEndian(h.length % 65536)

LogHeaderSize == 12

(* Fault: the length is read from two octets.                                 *)
UnpackShort(data) ==
  IF Len(data) < LogHeaderSize \/ SubSeq(data, 1, 4) # HeaderMagic THEN Unreadable
  ELSE [version |-> data[5], severity |-> data[6], facility |-> data[7] * 256 + data[8],
        length |-> data[11] * 256 + data[12]]

(* Neither the version nor the size of what follows is looked at.             *)
UnpackHeader(data) ==
  IF Len(data) < LogHeaderSize \/ SubSeq(data, 1, 4) # HeaderMagic THEN Unreadable
  ELSE [version |-> data[5], severity |-> data[6], facility |-> data[7] * 256 + data[8],
        length |-> ((data[9] * 256 + data[10]) * 256 + data[11]) * 256 + data[12]]

--------------------------------------------------------------------------------
CONSTANTS
  LogSources,        \* clients
  Collectors,
  LogKinds,          \* [severity, facility, event]: what entries differ in
  AlertRules,        \* [severity, events, facilities]
  Finest,            \* the least urgent severity a client records
  ClientRoom,        \* max_buffer of a client
  CollectorRoom,     \* max_buffer of a collector
  MessageOctets,     \* the n-th message is so many octets longer than the one before
  MaxLogged,         \* bound: entries made
  MaxHandled,        \* bound: entries handed to a collector or the relay
  MaxRules,          \* bound: rules of a collector
  MaxRelayed         \* bound: collectors of the relay

ASSUME LogAssumption ==
  /\ \A k \in LogKinds : k.severity \in 0 .. 7 /\ k.facility \in ToSet(Facilities)
  /\ ClientRoom \in Nat /\ CollectorRoom \in Nat
  /\ MessageOctets \in Nat /\ MaxLogged \in Nat
  /\ (MessageOctets * MaxLogged) \div 65536 < 65536
  /\ Unreadable \notin [version : Nat, severity : Nat, facility : Nat, length : Nat]

Severities == {k.severity : k \in LogKinds}

(* What clients record by name: in each, the facility is the caller's.        *)
SecAlert(f) == [severity |-> 1, facility |-> f, event |-> "SEC-ALERT"]
E3Trap(f) == [severity |-> 3, facility |-> f, event |-> "E3"]
Warning(f) == [severity |-> 4, facility |-> f, event |-> "WARNING"]
Info(f) == [severity |-> 6, facility |-> f, event |-> "INFO"]

VARIABLES
  logBuffer,     \* client -> entries
  logCount,      \* client -> severity -> entries recorded
  collector,     \* collector -> buffer, counters, received, sources, rules, alerts
  relay,         \* the relay's collectors, in the order they were added
  logged,        \* entries made
  handled,       \* hand-overs so far
  since8         \* history: what each collector was handed, and under which rules,
                 \* since its buffer was cleared and since its alerts were

logVars == <<logBuffer, logCount, collector, relay, logged, handled, since8>>

Newest(s, room) == SubSeq(s, IF Len(s) > room THEN Len(s) - room + 1 ELSE 1, Len(s))

(* The elements of a sequence that are in S.                                 *)
Only(s, S) ==
  LET kept[n \in 0 .. Len(s)] ==
        IF n = 0 THEN << >>
        ELSE IF s[n] \in S THEN Append(kept[n - 1], s[n]) ELSE kept[n - 1]
  IN  kept[Len(s)]

(* --------------------------------------------------------------- clients *)

Log(source, kind) ==
  /\ logged < MaxLogged
  /\ kind.severity <= Finest
  /\ logBuffer' = [logBuffer EXCEPT ![source] =
       Newest(Append(@, [kind |-> kind, source |-> source, number |-> logged]), ClientRoom)]
  /\ logCount' = [logCount EXCEPT ![source][kind.severity] = @ + 1]
  /\ logged' = logged + 1
  /\ UNCHANGED <<collector, relay, handled, since8>>

ClearClient(source) ==
  /\ logBuffer' = [logBuffer EXCEPT ![source] = << >>]
  /\ logCount' = [logCount EXCEPT ![source] = [s \in Severities |-> 0]]
  /\ UNCHANGED <<collector, relay, logged, handled, since8>>

(* ------------------------------------------------------------ collectors *)

Matches(rule, entry) ==
  /\ entry.kind.severity <= rule.severity
  /\ rule.events # {} => entry.kind.event \in rule.events
  /\ rule.facilities # {} => entry.kind.facility \in rule.facilities

Triggered(rules, entry) ==
  LET hits == Only(rules, {r \in ToSet(rules) : Matches(r, entry)})
  IN [i \in DOMAIN hits |-> [rule |-> hits[i], entry |-> entry]]

Ingested(c, entry) ==
  [c EXCEPT !.buffer = Newest(Append(@, entry), CollectorRoom),
            !.received = @ + 1,
            !.sources = @ \union {entry.source},
            !.counters[entry.kind.severity] = @ + 1,
            !.alerts = @ \o Triggered(c.rules, entry)]

(* entry is handed to each of cs, the same one more than once perhaps.        *)
HandedTo(cs, entry) ==
  LET Handed(c) == [i \in DOMAIN Only(cs, {c}) |-> [entry |-> entry, rules |-> collector[c].rules]]
  IN  /\ handled < MaxHandled /\ handled' = handled + 1
      /\ since8' = [c \in Collectors |-> [buffer |-> since8[c].buffer \o Handed(c),
                                         alerts |-> since8[c].alerts \o Handed(c)]]
      /\ UNCHANGED <<logBuffer, logCount, relay, logged>>

Ingest(c, entry) ==
  /\ collector' = [collector EXCEPT ![c] = Ingested(@, entry)]
  /\ HandedTo(<<c>>, entry)

(* forward: once for each time a collector was added.                         *)
FannedOut(cs, entry) ==
  LET after[n \in 0 .. Len(cs)] ==
        IF n = 0 THEN collector
        ELSE [after[n - 1] EXCEPT ![cs[n]] = Ingested(@, entry)]
  IN  after[Len(cs)]

RelayForward(entry) ==
  /\ collector' = FannedOut(relay, entry)
  /\ HandedTo(relay, entry)

AddCollector(c) ==
  /\ Len(relay) < MaxRelayed /\ relay' = Append(relay, c)
  /\ UNCHANGED <<logBuffer, logCount, collector, logged, handled, since8>>

Tend(c, with) ==
  /\ collector' = [collector EXCEPT ![c] = with]
  /\ UNCHANGED <<logBuffer, logCount, relay, logged, handled>>

AddAlertRule(c, rule) ==
  /\ Len(collector[c].rules) < MaxRules
  /\ Tend(c, [collector[c] EXCEPT !.rules = Append(@, rule)]) /\ UNCHANGED since8

ClearRules(c) == Tend(c, [collector[c] EXCEPT !.rules = << >>]) /\ UNCHANGED since8

ClearAlerts(c) ==
  /\ Tend(c, [collector[c] EXCEPT !.alerts = << >>])
  /\ since8' = [since8 EXCEPT ![c].alerts = << >>]

ClearBuffer(c) ==
  /\ Tend(c, [collector[c] EXCEPT !.buffer = << >>, !.counters = [s \in Severities |-> 0]])
  /\ since8' = [since8 EXCEPT ![c].buffer = << >>]

(* query, for the entries that pass its filters: newest first; the limit is    *)
(* looked at once an entry is in.                                             *)
LogQuery(entries, wanted, limit) ==
  LET found == Only(Reverse(entries), wanted)
      most == IF limit < 1 THEN 1 ELSE limit
  IN SubSeq(found, 1, IF most < Len(found) THEN most ELSE Len(found))

ClientQuery(source, wanted, limit) == LogQuery(logBuffer[source], wanted, limit)

QueryAlerts(c, rule, limit) ==
  LogQuery(collector[c].alerts, {a \in ToSet(collector[c].alerts) : a.rule = rule}, limit)

AtSeverity(entries, s) == {e \in ToSet(entries) : e.kind.severity = s}

Fresh8 == [buffer |-> << >>, counters |-> [s \in Severities |-> 0], received |-> 0,
           sources |-> {}, rules |-> << >>, alerts |-> << >>]

LogInit ==
  /\ logBuffer = [s \in LogSources |-> << >>]
  /\ logCount = [s \in LogSources |-> [v \in Severities |-> 0]]
  /\ collector = [c \in Collectors |-> Fresh8]
  /\ relay = << >> /\ logged = 0 /\ handled = 0
  /\ since8 = [c \in Collectors |-> [buffer |-> << >>, alerts |-> << >>]]

LogNext ==
  \/ \E s \in LogSources : ClearClient(s) \/ \E k \in LogKinds : Log(s, k)
  \/ \E s \in LogSources : \E e \in ToSet(logBuffer[s]) :
       RelayForward(e) \/ \E c \in Collectors : Ingest(c, e)
  \/ \E c \in Collectors :
       \/ AddCollector(c) \/ ClearRules(c) \/ ClearAlerts(c) \/ ClearBuffer(c)
       \/ \E r \in AlertRules : AddAlertRule(c, r)

LogSpec == LogInit /\ [][LogNext]_logVars

(* ------------------------------------------------------------------------ *)
(* Of what was handed over, the entries of one severity, and the alerts that   *)
(* one of them calls for.                                                     *)
OfSeverity(hs, s) == Only(hs, {h \in ToSet(hs) : h.entry.kind.severity = s})

Empty8Or(S, x) == S = {} \/ x \in S

CalledFor(h) ==
  LET rs == Only(h.rules, {r \in ToSet(h.rules) :
                             /\ h.entry.kind.severity <= r.severity
                             /\ Empty8Or(r.events, h.entry.kind.event)
                             /\ Empty8Or(r.facilities, h.entry.kind.facility)})
  IN [i \in DOMAIN rs |-> [rule |-> rs[i], entry |-> h.entry]]

(* Nothing handed to a collector goes by unnoticed: its counters and alerts    *)
(* account for every entry since they were cleared, in order and by the rules   *)
(* of that time, whatever the buffer still holds; and a query finds the newest  *)
(* entries, as many as the buffer has room for, the newest first.              *)
CollectorsAccount ==
  \A c \in Collectors :
    LET entries == since8[c].buffer
        watched == since8[c].alerts
    IN /\ collector[c].alerts =
            FlattenSeq([i \in DOMAIN watched |-> CalledFor(watched[i])])
       /\ \A s \in Severities :
            /\ collector[c].counters[s] = Len(OfSeverity(entries, s))
            /\ LET recent == Reverse(OfSeverity(Newest(entries, CollectorRoom), s))
               IN LogQuery(collector[c].buffer, AtSeverity(collector[c].buffer, s), CollectorRoom) =
                    [i \in DOMAIN recent |-> recent[i].entry]
       /\ \A r \in ToSet(collector[c].rules) :
            LET alerts == QueryAlerts(c, r, 1)
                raised == Only(collector[c].alerts, {a \in ToSet(collector[c].alerts) : a.rule = r})
            IN alerts = IF raised = << >> THEN << >> ELSE <<Last(raised)>>

(* A client's counters tell what its buffer had to drop: a query finds as many *)
(* entries of each severity as were counted, and fewer only once the buffer is *)
(* full; and the header of each says on the wire what the entry says, whatever *)
(* follows it, and nothing when it is cut short.                               *)
ClientsAccount ==
  \A s \in LogSources :
    LET Found(v) == Len(ClientQuery(s, AtSeverity(logBuffer[s], v), ClientRoom))
        full == Len(ClientQuery(s, ToSet(logBuffer[s]), ClientRoom)) = ClientRoom
    IN /\ \A v \in Severities : Found(v) <= logCount[s][v]
       /\ full \/ \A v \in Severities : Found(v) = logCount[s][v]
       /\ \A e \in ToSet(logBuffer[s]) :
            LET framed == FrameEntry(e.kind, MessageOctets * e.number)
                read == UnpackHeader(PackHeader(framed) \o <<0>>)
            IN /\ read = framed
               /\ read.severity = e.kind.severity
               /\ Facilities[read.facility + 1] = e.kind.facility
               /\ UnpackHeader(Front(PackHeader(framed))) = Unreadable
================================================================================
