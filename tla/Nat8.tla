--------------------------------- MODULE Nat8 ----------------------------------
(***************************************************************************)
(* The 8-to-4 gateway (nat8.py, NATGateway): its table of ports, its table *)
(* of addresses, and the gateway, which works with one of them.            *)
(***************************************************************************)
EXTENDS Integers, Sequences, FiniteSetsExt

--------------------------------------------------------------------------------
(***************************************************************************)
(* The NAT8 gateway in PAT ("overload") mode: nat8.py, class NATGateway    *)
(* with mode = NATMode.PAT.  Many internal sessions (an internal address   *)
(* and a source port, the key of _pat_mappings) share one external address *)
(* and are told apart by the external port.                                *)
(*                                                                         *)
(* Time is kept as the time since a mapping was last used, in ticks, and   *)
(* saturates just past the idle timeout: the code only ever asks whether   *)
(* now - last_used > idle_timeout.  The statistics are abstracted to the   *)
(* outcome of the last packet: every packet increments exactly one of      *)
(* total_egress, total_ingress and total_dropped.  The external address a  *)
(* mapping records is left out: translation uses the gateway's current     *)
(* address and ingress does not look at addresses at all.                  *)
(***************************************************************************)
CONSTANTS
  Sessions,       \* (internal address, internal port) pairs
  Addrs,          \* external addresses the operator may configure
  PortMin,        \* PAT_PORT_MIN
  PortMax,        \* PAT_PORT_MAX
  IdleTimeout,    \* idle_timeout, in ticks
  NoAddr, NoSession, NoPort, NoMapping

Ports == PortMin .. PortMax
PatMapping == [port : Ports, idle : 0 .. IdleTimeout + 1]

ASSUME PortAssumption == PortMin \in Nat /\ PortMax \in Nat /\ PortMin <= PortMax
ASSUME TimeAssumption == IdleTimeout \in Nat
ASSUME NoneAssumption ==
  /\ NoAddr \notin Addrs
  /\ NoSession \notin Sessions
  /\ NoPort \notin Ports
  /\ NoMapping \notin PatMapping

VARIABLES
  pat,            \* _pat_mappings: session -> its mapping, or NoMapping
  rev,            \* _pat_reverse: external port -> session, or NoSession
  nextPort,       \* _next_pat_port
  patAddr,        \* _pat_address
  patOut          \* outcome of the last packet (NATStats)

patVars == <<pat, rev, nextPort, patAddr, patOut>>

PatOutcome == [kind : {"none", "sent", "delivered", "dropped_out", "dropped_in"},
               session : Sessions \cup {NoSession}, port : Ports \cup {NoPort}]

Quiet == [kind |-> "none", session |-> NoSession, port |-> NoPort]

(* Types of the gateway's PAT tables.                                       *)
PatTypeOK ==
  /\ pat \in [Sessions -> PatMapping \cup {NoMapping}]
  /\ rev \in [Ports -> Sessions \cup {NoSession}]
  /\ nextPort \in Ports
  /\ patAddr \in Addrs \cup {NoAddr}
  /\ patOut \in PatOutcome

PatInit ==
  /\ pat = [s \in Sessions |-> NoMapping]
  /\ rev = [p \in Ports |-> NoSession]
  /\ nextPort = PortMin
  /\ patAddr \in Addrs \cup {NoAddr}      \* pat_address is optional
  /\ patOut = Quiet

--------------------------------------------------------------------------------
(* _expire, run at the start of every translate call.                       *)

HasMapping(s) == pat[s] # NoMapping

LapsedNever(s) == FALSE                                \* fault: expiry not run
Lapsed(s) == HasMapping(s) /\ pat[s].idle > IdleTimeout

KeptPat == [s \in Sessions |-> IF Lapsed(s) THEN NoMapping ELSE pat[s]]

KeptRevLeaky == rev                                    \* fault: reverse entry stays
KeptRev == [p \in Ports |->
              IF \E s \in Sessions : Lapsed(s) /\ pat[s].port = p
              THEN NoSession ELSE rev[p]]

(* _alloc_pat_port: the first port at or after nextPort that is not in the  *)
(* reverse table, wrapping from PortMax to PortMin; if every port is taken  *)
(* the scan ends where it began and the packet is dropped.                  *)
FreePorts == {p \in Ports : KeptRev[p] = NoSession}

AllocBlind == nextPort                                 \* fault: no scan for a free port
AllocLowest == Min(FreePorts)                          \* fault: not round robin
AllocPort ==
  LET ahead == {p \in FreePorts : p >= nextPort}
  IN  IF ahead # {} THEN Min(ahead) ELSE Min(FreePorts)

PortAfter(p) == IF p = PortMax THEN PortMin ELSE p + 1

--------------------------------------------------------------------------------
(* translate_egress / _egress_pat: a packet of session s leaves.            *)

PatDropOut(s) ==
  /\ pat' = KeptPat
  /\ rev' = KeptRev
  /\ patOut' = [kind |-> "dropped_out", session |-> s, port |-> NoPort]
  /\ UNCHANGED <<nextPort, patAddr>>

EgressUnconfigured(s) == patAddr = NoAddr /\ PatDropOut(s)

EgressKnown(s) ==
  /\ patAddr # NoAddr
  /\ KeptPat[s] # NoMapping
  /\ pat' = [KeptPat EXCEPT ![s] = [@ EXCEPT !.idle = 0]]
  /\ rev' = KeptRev
  /\ patOut' = [kind |-> "sent", session |-> s, port |-> KeptPat[s].port]
  /\ UNCHANGED <<nextPort, patAddr>>

EgressNew(s) ==
  /\ patAddr # NoAddr
  /\ KeptPat[s] = NoMapping
  /\ FreePorts # {}
  /\ LET p == AllocPort
     IN  /\ pat' = [KeptPat EXCEPT ![s] = [port |-> p, idle |-> 0]]
         /\ rev' = [KeptRev EXCEPT ![p] = s]
         /\ nextPort' = PortAfter(p)
         /\ patOut' = [kind |-> "sent", session |-> s, port |-> p]
  /\ UNCHANGED patAddr

EgressExhausted(s) ==
  /\ patAddr # NoAddr
  /\ KeptPat[s] = NoMapping
  /\ FreePorts = {}
  /\ PatDropOut(s)

PatEgress(s) ==
  EgressUnconfigured(s) \/ EgressKnown(s) \/ EgressNew(s) \/ EgressExhausted(s)

(* translate_ingress / _ingress_pat: a packet for external port p arrives;  *)
(* only the port is looked at, not the destination address.                 *)

IngressKnown(p) ==
  /\ KeptRev[p] # NoSession
  /\ KeptPat[KeptRev[p]] # NoMapping
  /\ pat' = [KeptPat EXCEPT ![KeptRev[p]] = [@ EXCEPT !.idle = 0]]
  /\ rev' = KeptRev
  /\ patOut' = [kind |-> "delivered", session |-> KeptRev[p], port |-> p]
  /\ UNCHANGED <<nextPort, patAddr>>

IngressUnknown(p) ==
  /\ KeptRev[p] # NoSession => KeptPat[KeptRev[p]] = NoMapping
  /\ pat' = KeptPat
  /\ rev' = KeptRev
  /\ patOut' = [kind |-> "dropped_in", session |-> NoSession, port |-> p]
  /\ UNCHANGED <<nextPort, patAddr>>

PatIngress(p) == IngressKnown(p) \/ IngressUnknown(p)

--------------------------------------------------------------------------------
(* release_pat: no expiry first; the reverse entry goes with the mapping.   *)
ReleasePatLeaky(s) ==                                  \* fault: reverse entry stays
  /\ HasMapping(s)
  /\ pat' = [pat EXCEPT ![s] = NoMapping]
  /\ patOut' = Quiet
  /\ UNCHANGED <<rev, nextPort, patAddr>>
ReleasePat(s) ==
  /\ HasMapping(s)
  /\ pat' = [pat EXCEPT ![s] = NoMapping]
  /\ rev' = [rev EXCEPT ![pat[s].port] = NoSession]
  /\ patOut' = Quiet
  /\ UNCHANGED <<nextPort, patAddr>>

(* set_pat_address: existing mappings are left as they are.                 *)
SetPatAddress(a) ==
  /\ patAddr' = a
  /\ patOut' = Quiet
  /\ UNCHANGED <<pat, rev, nextPort>>

(* clear: the external address survives.                                    *)
PatClear ==
  /\ pat' = [s \in Sessions |-> NoMapping]
  /\ rev' = [p \in Ports |-> NoSession]
  /\ nextPort' = PortMin
  /\ patOut' = Quiet
  /\ UNCHANGED patAddr

(* One tick of the clock the gateway reads.                                 *)
Aged(s) ==
  IF HasMapping(s) /\ pat[s].idle <= IdleTimeout
  THEN [pat[s] EXCEPT !.idle = @ + 1] ELSE pat[s]

PatTick ==
  /\ pat' = [s \in Sessions |-> Aged(s)]
  /\ patOut' = Quiet
  /\ UNCHANGED <<rev, nextPort, patAddr>>

PatWork ==
  \/ \E s \in Sessions : PatEgress(s)
  \/ \E p \in Ports : PatIngress(p)
  \/ \E s \in Sessions : ReleasePat(s)
  \/ \E a \in Addrs : SetPatAddress(a)
  \/ PatTick

PatNext == PatWork \/ PatClear

PatSpec == PatInit /\ [][PatNext]_patVars

--------------------------------------------------------------------------------
(* The two tables are inverse to each other: the reverse table names the    *)
(* session whose live mapping has that port, and nothing else.  _egress_pat *)
(* writes both, _expire and release_pat must take back both; a stale entry  *)
(* would strand a port for good or deliver replies to another host, and two *)
(* sessions with one port would break nat8.py:20-22 ("each pair gets a      *)
(* unique external port").                                                  *)
PatBijection ==
  \A s \in Sessions, p \in Ports :
    rev[p] = s <=> (HasMapping(s) /\ pat[s].port = p)

(* A packet is refused only when translation is impossible: no external     *)
(* address is set, or every port belongs to a session other than the sender *)
(* that was used within the idle timeout (the wrap of _alloc_pat_port       *)
(* misses no port and expiry has run before the verdict).                   *)
DroppedOnlyWhenFull ==
  patOut.kind = "dropped_out" =>
    \/ patAddr = NoAddr
    \/ \A p \in Ports : \E s \in Sessions \ {patOut.session} :
         HasMapping(s) /\ pat[s].port = p /\ pat[s].idle <= IdleTimeout

(* Under the slots-and-clients view, PAT is an exclusive binding of         *)
(* sessions to ports.                                                       *)
HeldPort == [s \in Sessions |-> IF HasMapping(s) THEN pat[s].port ELSE NoPort]

Binding == INSTANCE ExclusiveBinding
             WITH Clients <- Sessions, Slots <- Ports, None <- NoPort, held <- HeldPort

(* A session keeps its port from the packet that opened it until it is      *)
(* released, cleared or idle past the timeout, whatever other sessions do:  *)
(* the gateway implements ExclusiveBinding.                                 *)
PatRefinesBinding == Binding!Spec

--------------------------------------------------------------------------------
(***************************************************************************)
(* The NAT8 gateway in static and in dynamic mode: nat8.py, class          *)
(* NATGateway with mode = NATMode.STATIC or NATMode.DYNAMIC.  Both use the *)
(* same table _mappings (one mapping per internal address); a dynamic      *)
(* gateway also takes external addresses from a pool on demand.            *)
(*                                                                         *)
(* A Python dict iterates in insertion order and the reverse lookup takes  *)
(* the first match, so the order in which hosts entered the table is part  *)
(* of the state.  Idle time is as with ports; a static mapping never       *)
(* expires, so its idle time is not kept.                                  *)
(***************************************************************************)
CONSTANTS
  Hosts,          \* internal addresses
  Externals,      \* external addresses
  StaticPairs,    \* <<host, external>> the operator may configure
  PoolCandidates, \* external addresses the operator may add to the pool
  MaxPool,        \* bound: the pool is configured with at most this many entries
  PoolIdleTimeout,
  NoHost, NoExternal, Unmapped

PoolMapping == [ext : Externals, kind : {"static", "dynamic"},
                idle : 0 .. PoolIdleTimeout + 1]

ASSUME PoolAssumption ==
  /\ StaticPairs \subseteq Hosts \X Externals
  /\ PoolCandidates \subseteq Externals
  /\ MaxPool \in Nat
  /\ PoolIdleTimeout \in Nat
  /\ NoHost \notin Hosts
  /\ NoExternal \notin Externals
  /\ Unmapped \notin PoolMapping

VARIABLES
  dynamic,        \* _mode = NATMode.DYNAMIC (fixed at construction)
  table,          \* _mappings: host -> its mapping, or Unmapped
  older,          \* <<g, h>>: g comes before h in the iteration order of _mappings
  pool,           \* _pool
  used,           \* _pool_used
  poolOut         \* outcome of the last packet (NATStats)

poolVars == <<dynamic, table, older, pool, used, poolOut>>

PoolOutcome == [kind : {"none", "sent", "delivered", "dropped_out", "dropped_in"},
                host : Hosts \cup {NoHost}, ext : Externals \cup {NoExternal}]

PoolQuiet == [kind |-> "none", host |-> NoHost, ext |-> NoExternal]

Mapped == {h \in Hosts : table[h] # Unmapped}
PoolAddrs == {pool[i] : i \in DOMAIN pool}
DynamicHosts == {h \in Mapped : table[h].kind = "dynamic"}

(* Types; the iteration order is a strict order of the mapped hosts in      *)
(* which every set of them has a first one.                                 *)
PoolTypeOK ==
  /\ dynamic \in BOOLEAN
  /\ table \in [Hosts -> PoolMapping \cup {Unmapped}]
  /\ older \subseteq Mapped \X Mapped
  /\ \A e \in older : <<e[2], e[1]>> \notin older
  /\ \A T \in SUBSET Mapped : T # {} => \E h \in T : \A g \in T \ {h} : <<h, g>> \in older
  /\ pool \in Seq(PoolCandidates)
  /\ used \subseteq Externals
  /\ poolOut \in PoolOutcome

PoolInit ==
  /\ dynamic \in BOOLEAN
  /\ table = [h \in Hosts |-> Unmapped]
  /\ older = {}
  /\ pool = << >>
  /\ used = {}
  /\ poolOut = PoolQuiet

--------------------------------------------------------------------------------
(* _expire: only dynamic entries of a dynamic gateway.                      *)

LapsedHosts ==
  IF dynamic THEN {h \in DynamicHosts : table[h].idle > PoolIdleTimeout} ELSE {}

KeptTable == [h \in Hosts |-> IF h \in LapsedHosts THEN Unmapped ELSE table[h]]
KeptMapped == Mapped \ LapsedHosts
OlderWithout(H) == {e \in older : e[1] \notin H /\ e[2] \notin H}
KeptOlder == OlderWithout(LapsedHosts)
KeptUsedReset == IF LapsedHosts # {} THEN {} ELSE used  \* fault: all returned
KeptUsed == used \ {table[h].ext : h \in LapsedHosts}

(* A new key goes to the end of the dict.                                   *)
AppendTo(ord, hosts, h) == ord \cup (hosts \X {h})

(* _allocate_dynamic: the first pool entry whose address is not in use.     *)
UnusedAt == {i \in DOMAIN pool : pool[i] \notin KeptUsed}
Allocate == pool[Min(UnusedAt)]

(* _reverse_lookup: the first mapping, in iteration order, with external e. *)
Matches(e) == {h \in KeptMapped : table[h].ext = e}
FirstMatch(e) ==
  CHOOSE h \in Matches(e) : \A g \in Matches(e) \ {h} : <<h, g>> \in older

Touched(t, h) ==
  IF t[h].kind = "dynamic" THEN [t EXCEPT ![h] = [@ EXCEPT !.idle = 0]] ELSE t

--------------------------------------------------------------------------------
(* translate_egress: a packet of host h leaves.                             *)

PoolEgressKnown(h) ==
  /\ h \in KeptMapped
  /\ table' = Touched(KeptTable, h)
  /\ older' = KeptOlder
  /\ used' = KeptUsed
  /\ poolOut' = [kind |-> "sent", host |-> h, ext |-> table[h].ext]
  /\ UNCHANGED <<dynamic, pool>>

PoolEgressNew(h) ==
  /\ dynamic
  /\ h \notin KeptMapped
  /\ UnusedAt # {}
  /\ LET a == Allocate
     IN  /\ table' = [KeptTable EXCEPT ![h] = [ext |-> a, kind |-> "dynamic", idle |-> 0]]
         /\ older' = AppendTo(KeptOlder, KeptMapped, h)
         /\ used' = KeptUsed \cup {a}
         /\ poolOut' = [kind |-> "sent", host |-> h, ext |-> a]
  /\ UNCHANGED <<dynamic, pool>>

PoolEgressDropped(h) ==
  /\ h \notin KeptMapped
  /\ dynamic => UnusedAt = {}
  /\ table' = KeptTable
  /\ older' = KeptOlder
  /\ used' = KeptUsed
  /\ poolOut' = [kind |-> "dropped_out", host |-> h, ext |-> NoExternal]
  /\ UNCHANGED <<dynamic, pool>>

PoolEgress(h) == PoolEgressKnown(h) \/ PoolEgressNew(h) \/ PoolEgressDropped(h)

(* translate_ingress: a packet addressed to external e arrives.             *)

PoolIngressKnown(e) ==
  /\ Matches(e) # {}
  /\ table' = Touched(KeptTable, FirstMatch(e))
  /\ older' = KeptOlder
  /\ used' = KeptUsed
  /\ poolOut' = [kind |-> "delivered", host |-> FirstMatch(e), ext |-> e]
  /\ UNCHANGED <<dynamic, pool>>

PoolIngressUnknown(e) ==
  /\ Matches(e) = {}
  /\ table' = KeptTable
  /\ older' = KeptOlder
  /\ used' = KeptUsed
  /\ poolOut' = [kind |-> "dropped_in", host |-> NoHost, ext |-> e]
  /\ UNCHANGED <<dynamic, pool>>

PoolIngress(e) == PoolIngressKnown(e) \/ PoolIngressUnknown(e)

--------------------------------------------------------------------------------
(* add_static_mapping: overwrites whatever the host had and keeps its place *)
(* in the iteration order; _pool_used is not looked at.                     *)
AddStaticMapping(h, e) ==
  /\ table' = [table EXCEPT ![h] = [ext |-> e, kind |-> "static", idle |-> 0]]
  /\ older' = IF h \in Mapped THEN older ELSE AppendTo(older, Mapped, h)
  /\ poolOut' = PoolQuiet
  /\ UNCHANGED <<dynamic, pool, used>>

AddPoolAddress(a) ==
  /\ Len(pool) < MaxPool
  /\ pool' = Append(pool, a)
  /\ poolOut' = PoolQuiet
  /\ UNCHANGED <<dynamic, table, older, used>>

(* release: static mappings too; only a dynamic one returns its address.    *)
Release(h) ==
  /\ h \in Mapped
  /\ table' = [table EXCEPT ![h] = Unmapped]
  /\ older' = OlderWithout({h})
  /\ used' = IF table[h].kind = "dynamic" THEN used \ {table[h].ext} ELSE used
  /\ poolOut' = PoolQuiet
  /\ UNCHANGED <<dynamic, pool>>

(* clear: the pool survives.                                                *)
PoolClear ==
  /\ table' = [h \in Hosts |-> Unmapped]
  /\ older' = {}
  /\ used' = {}
  /\ poolOut' = PoolQuiet
  /\ UNCHANGED <<dynamic, pool>>

PoolTick ==
  /\ table' = [h \in Hosts |->
                 IF h \in DynamicHosts /\ table[h].idle <= PoolIdleTimeout
                 THEN [table[h] EXCEPT !.idle = @ + 1] ELSE table[h]]
  /\ poolOut' = PoolQuiet
  /\ UNCHANGED <<dynamic, older, pool, used>>

PoolNext ==
  \/ \E h \in Hosts : PoolEgress(h)
  \/ \E e \in Externals : PoolIngress(e)
  \/ \E h \in Hosts : Release(h)
  \/ \E m \in StaticPairs : AddStaticMapping(m[1], m[2])
  \/ \E a \in PoolCandidates : AddPoolAddress(a)
  \/ PoolClear
  \/ PoolTick

PoolSpec == PoolInit /\ [][PoolNext]_poolVars

--------------------------------------------------------------------------------
StaticsApart ==
  /\ \A m \in StaticPairs : m[2] \notin PoolCandidates
  /\ \A m, n \in StaticPairs : m[2] = n[2] => m[1] = n[1]

(* Every dynamic mapping holds an address of the pool that is marked used,  *)
(* so that _allocate_dynamic cannot hand it out again, and no two of them   *)
(* hold the same one, through any order of egress, expiry, release, clear   *)
(* and static overrides.                                                    *)
DynamicAccounted ==
  /\ \A h \in DynamicHosts : table[h].ext \in used
  /\ \A g, h \in DynamicHosts : table[g].ext = table[h].ext => g = h
  /\ used \subseteq PoolAddrs

(* If the operator keeps static externals apart from each other and from    *)
(* the pool, translation is one-to-one (nat8.py:8-10): two hosts never have *)
(* the same external address, so that a reply has one possible receiver.    *)
OneToOne ==
  StaticsApart => \A g, h \in Mapped : table[g].ext = table[h].ext => g = h

(* "An unused address from the pool is assigned" (nat8.py:14-15): a packet  *)
(* of a dynamic gateway is refused only if every pool address is mapped.    *)
UnusedAddressAssigned ==
  (dynamic /\ poolOut.kind = "dropped_out")
    => \A a \in PoolAddrs : \E h \in Mapped : table[h].ext = a

--------------------------------------------------------------------------------
(***************************************************************************)
(* One NATGateway object (nat8.py): its mode is fixed at construction and  *)
(* decides which of its two tables a packet goes through.  The methods     *)
(* that configure the other mode's table have no effect on translation and *)
(* are left out.                                                           *)
(***************************************************************************)
VARIABLE mode       \* _mode: "pat" or "host" (static and dynamic)

vars == <<mode, patVars, poolVars>>

TypeOK == mode \in {"pat", "host"} /\ PatTypeOK /\ PoolTypeOK

Init ==
  /\ PatInit /\ PoolInit
  /\ \/ mode = "pat" /\ dynamic = FALSE
     \/ mode = "host" /\ patAddr = NoAddr

PatStep == mode = "pat" /\ PatNext /\ UNCHANGED <<mode, poolVars>>

HostStep == mode = "host" /\ PoolNext /\ UNCHANGED <<mode, patVars>>

Next == PatStep \/ HostStep

Spec == Init /\ [][Next]_vars

--------------------------------------------------------------------------------
(* The gateway with a history: per port, those that were free all the time    *)
(* since it was handed out.  clear starts the numbers, and the history, anew.  *)
VARIABLE untouched

roundVars == <<vars, untouched>>

HandedOut == {patOut'.port : s \in {t \in Sessions : EgressNew(t)}}

StillUntouched ==
  [p \in Ports |->
     {q \in IF p \in HandedOut THEN Ports \ {p} ELSE untouched[p] : rev'[q] = NoSession}]

RoundInit == Init /\ untouched = [p \in Ports |-> {}]

RoundNext ==
  \/ /\ mode = "pat" /\ UNCHANGED <<mode, poolVars>>
     /\ \/ PatWork /\ untouched' = StillUntouched
        \/ PatClear /\ untouched' = [p \in Ports |-> {}]
  \/ HostStep /\ UNCHANGED untouched

RoundSpec == RoundInit /\ [][RoundNext]_roundVars

(* A port is handed out again only after every other port was held at some    *)
(* moment since: its reuse, and with it the late reply to an old session that  *)
(* hits a new one, is put off by a whole round, however many ports come back   *)
(* in between (_alloc_pat_port).  It is put off no further: a port whose turn  *)
(* is next is handed out at once when it is released, and clear starts the     *)
(* round anew.                                                                 *)
PortsGoRound ==
  [][\A s \in Sessions : EgressNew(s) => untouched[patOut'.port] = {}]_patVars

--------------------------------------------------------------------------------
(* The clock advances, and the gateway never falls silent for good: some    *)
(* session's packet is eventually translated.  Expiry is lazy, so without   *)
(* traffic nothing lapses.                                                  *)
PatTickStep == mode = "pat" /\ PatTick /\ UNCHANGED <<mode, poolVars>>

PatTrafficStep ==
  mode = "pat" /\ (\E s \in Sessions : PatEgress(s)) /\ UNCHANGED <<mode, poolVars>>

FairSpec == Spec /\ WF_vars(PatTickStep) /\ WF_vars(PatTrafficStep)

(* An idle port comes back: a mapping that is kept for good is used again   *)
(* and again, so a session that stopped cannot hold its port against others *)
(* for ever.                                                                *)
IdlePortReclaimed ==
  \A s \in Sessions : <>[]HasMapping(s) => []<>(HasMapping(s) /\ pat[s].idle = 0)
================================================================================
