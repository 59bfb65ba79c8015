-------------------------------- MODULE Xlate8 ---------------------------------
(***************************************************************************)
(* Translations beside the gateway of nat8.py: the carrier's, that of north-*)
(* south flows, and that between two companies.                            *)
(***************************************************************************)
EXTENDS Integers, SequencesExt

--------------------------------------------------------------------------------
(***************************************************************************)
(* The carrier-grade NAT (cgnat.py): outside addresses and ports are given *)
(* out in turn, whoever holds them, and a reply is looked up by address.   *)
(***************************************************************************)
CONSTANTS
  Insiders,         \* addresses inside: [prefix, host]
  OperatorAsns,     \* the operator's AS number; 0 is none
  ZeroPrefix,       \* r.r.r.r of an address without AS
  PoolSize,         \* outside hosts, 0 .. PoolSize - 1
  FirstPort, LastPort,   \* 10000 and 65535
  NoInsider,
  MaxBindings       \* bound: bindings

ASSUME CgnatAssumption ==
  /\ Insiders \subseteq [prefix : Nat, host : Nat]
  /\ PoolSize \in Nat \ {0} /\ MaxBindings \in Nat
  /\ FirstPort \in Nat /\ LastPort \in Nat /\ FirstPort <= LastPort

VARIABLES asn, bindings, poolIndex, nextOutside

cgnatVars == <<asn, bindings, poolIndex, nextOutside>>

NextOutsideShort == poolIndex % (PoolSize - 1)   \* fault: end - start

NextOutside == poolIndex % PoolSize

PortFollowing == IF nextOutside + 1 > LastPort THEN FirstPort ELSE nextOutside + 1

(* An operator without AS passes only addresses without prefix.              *)
Refused(addr) == asn = 0 /\ addr.prefix # ZeroPrefix

(* The prefix stays, the host becomes the outside one.                       *)
Translated(addr) == [addr EXCEPT !.host = NextOutside]

Translate(addr) ==
  /\ ~Refused(addr) /\ Len(bindings) < MaxBindings
  /\ bindings' = Append(bindings, [inside |-> addr, outside |-> Translated(addr), port |-> nextOutside])
  /\ poolIndex' = poolIndex + 1 /\ nextOutside' = PortFollowing
  /\ UNCHANGED asn

TranslateRefused(addr) == Refused(addr) /\ UNCHANGED cgnatVars

(* The latest binding of the address, whatever its port.                      *)
ReverseTranslate(addr) ==
  LET i == SelectLastInSeq(bindings, LAMBDA b : b.outside = addr)
  IN IF i = 0 THEN NoInsider ELSE bindings[i].inside

ValidTranslation(original, translated) ==
  /\ original.prefix = translated.prefix
  /\ asn = 0 => translated.prefix = ZeroPrefix

CgnatFlush ==
  /\ bindings' = << >> /\ poolIndex' = 0 /\ nextOutside' = FirstPort
  /\ UNCHANGED asn

CgnatInit ==
  /\ asn \in OperatorAsns
  /\ bindings = << >> /\ poolIndex = 0 /\ nextOutside = FirstPort

CgnatNext ==
  \/ \E addr \in Insiders : Translate(addr) \/ TranslateRefused(addr)
  \/ CgnatFlush

CgnatSpec == CgnatInit /\ [][CgnatNext]_cgnatVars

(* ------------------------------------------------------------------------ *)
(* A device is reached at its outside address until the pool has gone round,  *)
(* address and port come together again only when both have gone round, and   *)
(* every translation is one the engine's own check passes.                    *)
ReachedForOneRound ==
  \A i \in DOMAIN bindings :
    /\ Len(bindings) - i < PoolSize => ReverseTranslate(bindings[i].outside) = bindings[i].inside
    /\ ValidTranslation(bindings[i].inside, bindings[i].outside)
    /\ \A j \in 1 .. i - 1 :
         /\ bindings[j].outside.host = bindings[i].outside.host => (i - j) % PoolSize = 0
         /\ bindings[j].port = bindings[i].port => (i - j) % (LastPort - FirstPort + 1) = 0

--------------------------------------------------------------------------------
(***************************************************************************)
(* North-south traffic (xlate8_flow.py) over the XLATE8 table              *)
(* (companions.py): a device resolves a name, which makes an entry of the  *)
(* table, and replies find the device by the first entry of their address. *)
(* The table is a dict: a key written again keeps its place in the order.  *)
(***************************************************************************)
CONSTANTS
  FlowKeys,      \* internal addresses and ports
  DnsNames, Servers,   \* names and the addresses they may resolve to
  OutPorts,      \* external ports
  Blocked

ASSUME FlowAssumption == \A k \in FlowKeys : k[1] # Blocked

VARIABLES
  records,   \* name -> address or Blocked
  xlate,     \* entries: [device, port, external, outPort], in the dict's order
  trip       \* the last packet out and its answer

flowTableVars == <<records, xlate, trip>>

(* ------------------------------------------------------------- the table *)

Earliest(S) == CHOOSE i \in S : \A j \in S : i <= j

KeysAt(table, device, port) ==
  {i \in DOMAIN table : table[i].device = device /\ table[i].port = port}

(* Fault: a key written again goes to the end.                                *)
WithEntryLast(e) ==
  Append(SelectSeq(xlate, LAMBDA f : ~(f.device = e.device /\ f.port = e.port)), e)

WithEntry(e) ==
  LET at == KeysAt(xlate, e.device, e.port)
  IN IF at = {} THEN Append(xlate, e) ELSE [xlate EXCEPT ![Earliest(at)] = e]

RemoveEntry(device, port) ==
  /\ LET at == KeysAt(xlate, device, port)
     IN xlate' = IF at = {} THEN xlate ELSE RemoveAt(xlate, Earliest(at))
  /\ UNCHANGED <<records, trip>>

(* -------------------------------------------------------------- the flow *)

AddRecord(name, server) ==
  /\ records' = [records EXCEPT ![name] = server]
  /\ UNCHANGED <<xlate, trip>>

Entry(device, port, external, outPort) ==
  [device |-> device, port |-> port, external |-> external, outPort |-> outPort]

(* An entry by hand; the flow marks every entry as validated.                 *)
CreateXlateEntry(e) == xlate' = WithEntry(e) /\ UNCHANGED <<records, trip>>

(* The source of what leaves is the address of the entry - the resolved one.  *)
TranslateEgress(device, port, table) ==
  LET at == KeysAt(table, device, port)
  IN IF at = {} THEN Blocked ELSE table[Earliest(at)].external

(* What comes to an external address and port goes to the first entry's device.*)
TranslateIngress(dst, outPort, table) ==
  LET at == {i \in DOMAIN table : table[i].external = dst /\ table[i].outPort = outPort}
  IN IF at = {} THEN Blocked ELSE table[Earliest(at)].device

NoTrip == [device |-> Blocked, port |-> 0, out |-> Blocked, back |-> Blocked]

(* A packet without a lookup: out only over an entry there is.                *)
SendOut(device, port) ==
  /\ trip' = [NoTrip EXCEPT !.out = TranslateEgress(device, port, xlate)]
  /\ UNCHANGED <<records, xlate>>

(* A name that is not known goes nowhere.                                     *)
DnsLookup(name) == records[name]

EgressFlow(name, device, port, outPort) ==
  /\ IF DnsLookup(name) = Blocked
     THEN trip' = NoTrip /\ UNCHANGED xlate
     ELSE /\ xlate' = WithEntry(Entry(device, port, DnsLookup(name), outPort))
          /\ trip' = [NoTrip EXCEPT !.out = TranslateEgress(device, port, xlate')]
  /\ UNCHANGED records

IngressFlow(dst, outPort) ==
  /\ trip' = [NoTrip EXCEPT !.back = TranslateIngress(dst, outPort, xlate)]
  /\ UNCHANGED <<records, xlate>>

(* Out and back again; a blocked way out is all that happens.                  *)
RoundTrip(name, device, port, outPort) ==
  /\ DnsLookup(name) # Blocked
  /\ xlate' = WithEntry(Entry(device, port, DnsLookup(name), outPort))
  /\ LET out == TranslateEgress(device, port, xlate')
     IN trip' = [device |-> device, port |-> port, out |-> out,
                 back |-> TranslateIngress(out, outPort, xlate')]
  /\ UNCHANGED records

XlateInit ==
  /\ records = [n \in DnsNames |-> Blocked]
  /\ xlate = << >> /\ trip = NoTrip

XlateNext ==
  \/ \E n \in DnsNames, s \in Servers : AddRecord(n, s)
  \/ \E k \in FlowKeys :
       \/ RemoveEntry(k[1], k[2])
       \/ SendOut(k[1], k[2])
       \/ \E s \in Servers, q \in OutPorts : CreateXlateEntry(Entry(k[1], k[2], s, q))
       \/ \E n \in DnsNames, q \in OutPorts : EgressFlow(n, k[1], k[2], q) \/ RoundTrip(n, k[1], k[2], q)
  \/ \E s \in Servers, q \in OutPorts : IngressFlow(s, q)

FlowSpec == XlateInit /\ [][XlateNext]_flowTableVars

(* ------------------------------------------------------------------------ *)
Same(e, f) == e.external = f.external /\ e.outPort = f.outPort

Receiver(external, outPort) == TranslateIngress(external, outPort, xlate)

Rewritten ==
  \E i \in DOMAIN xlate \intersect DOMAIN xlate' :
    /\ xlate'[i].device = xlate[i].device /\ xlate'[i].port = xlate[i].port
    /\ ~Same(xlate'[i], xlate[i])

(* A reply finds its way: a round trip that got out comes back, to its device *)
(* unless an older key stands for the same address and port; and replies to an *)
(* address and port change their receiver only when an entry is removed or an  *)
(* existing key comes to stand for another address - no new flow takes the     *)
(* replies of an older one.                                                    *)
RepliesStay ==
  [][/\ trip' # trip /\ trip'.device # Blocked =>
          /\ trip'.back # Blocked
          /\ \/ trip'.back = trip'.device
             \/ \E i, j \in DOMAIN xlate' :
                  /\ i < j /\ xlate'[i].device = trip'.back /\ Same(xlate'[i], xlate'[j])
                  /\ xlate'[j].device = trip'.device /\ xlate'[j].port = trip'.port
     /\ \A s \in Servers, q \in OutPorts :
          Receiver(s, q) # Blocked /\ Receiver(s, q)' # Receiver(s, q)
            => Rewritten \/ Len(xlate') < Len(xlate)]_flowTableVars

--------------------------------------------------------------------------------
(***************************************************************************)
(* Two companies joined over the interop prefix (interop.py): each exposes *)
(* services at addresses between the companies, and a packet is translated *)
(* on both sides.  Addresses and their reverse are two dicts per company,  *)
(* and a service exposed again leaves its old reverse entry behind.        *)
(***************************************************************************)
CONSTANTS
  Companies,        \* the two of them
  Internals,        \* internal addresses
  Meeting,          \* host parts between the companies
  Unexposed,
  MaxExposed        \* bound: calls of expose_service

ASSUME BridgeAssumption ==
  /\ \E a, b \in Companies : a # b /\ Companies = {a, b}
  /\ Unexposed \notin Internals \cup Meeting
  /\ MaxExposed \in Nat

VARIABLES
  exposedAt,    \* company -> internal address -> where it is exposed
  exposes,      \* company -> interop address -> the internal address behind it
  lastSent,     \* the last packet: how far it came
  exposures, stamp   \* history: calls, and the call that last exposed each

interopVars == <<exposedAt, exposes, lastSent, exposures, stamp>>

(* Fault: an interop address that is taken stays with its first service.      *)
BehindFirst(c, i, x) == [exposes EXCEPT ![c][x] = IF @ = Unexposed THEN i ELSE @]

Behind(c, i, x) == [exposes EXCEPT ![c][x] = i]

ExposeService(c, i, x) ==
  /\ exposures < MaxExposed /\ exposures' = exposures + 1
  /\ exposedAt' = [exposedAt EXCEPT ![c][i] = x]
  /\ exposes' = Behind(c, i, x)
  /\ stamp' = [stamp EXCEPT ![c][i] = exposures + 1]
  /\ UNCHANGED lastSent

TranslateOutbound(c, i) == exposedAt[c][i]
TranslateInbound(c, x) == exposes[c][x]

(* What becomes of a packet from i of company c to an address between them.   *)
Crossing(c, i, x) ==
  LET other == CHOOSE d \in Companies : d # c
      seen == TranslateOutbound(c, i)
      to == TranslateInbound(other, x)
  IN [step |-> IF seen = Unexposed THEN "no way out" ELSE IF to = Unexposed THEN "no way in" ELSE "delivered",
      by |-> c, seen |-> seen, to |-> to]

BridgeSend(c, i, x) ==
  /\ lastSent' = Crossing(c, i, x)
  /\ UNCHANGED <<exposedAt, exposes, exposures, stamp>>

(* validate_interop_isolation: no internal address is exposed by both.         *)
Isolated ==
  \A i \in Internals : \E c \in Companies : exposedAt[c][i] = Unexposed

InteropInit ==
  /\ exposedAt = [c \in Companies |-> [i \in Internals |-> Unexposed]]
  /\ exposes = [c \in Companies |-> [x \in Meeting |-> Unexposed]]
  /\ lastSent = [step |-> "no way out", by |-> Unexposed, seen |-> Unexposed, to |-> Unexposed]
  /\ exposures = 0 /\ stamp = [c \in Companies |-> [i \in Internals |-> 0]]

InteropNext ==
  \E c \in Companies, i \in Internals, x \in Meeting : ExposeService(c, i, x) \/ BridgeSend(c, i, x)

InteropSpec == InteropInit /\ [][InteropNext]_interopVars

(* ------------------------------------------------------------------------ *)
(* Whatever was delivered can be answered at the address that was seen, and    *)
(* the answer reaches the sender - or a service its company exposed there      *)
(* after the sender, never one it replaced; and a service is behind an address *)
(* only if its own company exposed it, also when both use the same addresses.  *)
Answerable ==
  /\ \A c \in Companies, i \in Internals, x \in Meeting :
       Crossing(c, i, x).step = "delivered" =>
         LET other == CHOOSE d \in Companies : d # c
             answer == Crossing(other, Crossing(c, i, x).to, Crossing(c, i, x).seen)
         IN /\ answer.step = "delivered"
            /\ stamp[c][answer.to] >= stamp[c][i]
            /\ Isolated => stamp[other][answer.to] = 0
  /\ lastSent.step = "delivered" =>
       \E d \in Companies \ {lastSent.by} : stamp[d][lastSent.to] > 0
================================================================================
