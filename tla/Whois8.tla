--------------------------------- MODULE Whois8 ---------------------------------
(***************************************************************************)
(* A WHOIS8 registry and a client of it with a cache (whois8_proto.py,     *)
(* WHOIS8Server and WHOIS8Client).  The client asks the registry about an  *)
(* ASN and keeps what it was told for cache_ttl, while the registry goes   *)
(* on changing: nothing tells the client.                                  *)
(*                                                                         *)
(* A record stands for what it says by its content, a serial number given  *)
(* at registration.  Holder, country, signature and the active flag, which *)
(* lookup does not read, are left out.                                     *)
(***************************************************************************)
EXTENDS Integers

CONSTANTS
  Asns,
  ReservedAsns,       \* ASNs for which _reserved_reason gives a reason
  Expiries,           \* expires_at; 0 is no expiry
  RouteLengths,
  CacheTtl,
  NoRecord, NoEntry,
  MaxRegistrations,   \* bound: registrations in all
  MaxClock            \* bound: the last moment

Contents == 1 .. MaxRegistrations

Record == [content : Contents, expires : Expiries]

Entry == [record : Record, cachedAt : Nat]

ASSUME Whois8Assumption ==
  /\ ReservedAsns \subseteq Asns
  /\ Expiries \subseteq Nat
  /\ RouteLengths \subseteq Nat
  /\ CacheTtl \in Nat
  /\ MaxRegistrations \in Nat
  /\ NoRecord \notin Record
  /\ NoEntry \notin Entry

VARIABLES
  registry,           \* _registry: ASN -> record, or NoRecord
  routed,             \* ASNs with a route (_routes)
  cache,              \* _cache: ASN -> entry, or NoEntry
  clock,              \* time.time()
  answer,             \* what the last call of lookup returned
  registered,         \* history: number of registrations so far
  goodAt,             \* history: ASN -> content -> last moment the registry gave it as OK
  told                \* history: ASN -> Stage of the last answer to the client

serverVars == <<registry, routed, registered>>
whoisVars == <<serverVars, cache, clock, answer, goodAt, told>>

Quiet == [code |-> "none"]

IsExpired(record) == record.expires # 0 /\ clock > record.expires

(* handle_query for ASN_LOOKUP.                                             *)
AsnLookup(asn) ==
  LET record == registry[asn]
  IN  CASE asn \in ReservedAsns -> [code |-> "RESERVED"]
        [] asn \notin ReservedAsns /\ record = NoRecord -> [code |-> "NOT_FOUND"]
        [] record # NoRecord /\ IsExpired(record) -> [code |-> "EXPIRED", record |-> record]
        [] OTHER -> [code |-> "OK", record |-> record]

--------------------------------------------------------------------------------
(* How far the life of an ASN had come when an answer about it was true:     *)
(* its n-th content in force, then expired, then gone.                       *)
Latest(asn) == IF registry[asn] = NoRecord THEN registered ELSE registry[asn].content

Stage(asn, reply) ==
  CASE reply.code = "OK" -> 3 * reply.record.content
    [] reply.code = "EXPIRED" -> 3 * reply.record.content + 1
    [] OTHER -> 3 * Latest(asn) + 2

InForce(asn, n) ==
  registry[asn] # NoRecord /\ registry[asn].content = n /\ ~IsExpired(registry[asn])

Remember ==
  goodAt' = [asn \in Asns |-> [n \in Contents |->
              IF InForce(asn, n)' THEN clock' ELSE goodAt[asn][n]]]

ServerStep == answer' = Quiet /\ UNCHANGED <<cache, clock, told>>

--------------------------------------------------------------------------------
(* register_asn replaces what is there; register_route wants the ASN and a   *)
(* prefix of at most 16 bits; unregister_asn takes the route along.          *)
RegisterAsn(asn, expires) ==
  /\ asn \notin ReservedAsns
  /\ registered < MaxRegistrations
  /\ registry' = [registry EXCEPT ![asn] =
       [content |-> registered + 1, expires |-> expires]]
  /\ registered' = registered + 1
  /\ UNCHANGED routed
  /\ ServerStep

RegisterRoute(asn, length) ==
  /\ registry[asn] # NoRecord
  /\ length <= 16
  /\ routed' = routed \cup {asn}
  /\ UNCHANGED <<registry, registered>>
  /\ ServerStep

UnregisterAsn(asn) ==
  /\ registry[asn] # NoRecord
  /\ registry' = [registry EXCEPT ![asn] = NoRecord]
  /\ routed' = routed \ {asn}
  /\ UNCHANGED registered
  /\ ServerStep

--------------------------------------------------------------------------------
(* lookup: an entry that is not stale answers, and only then; otherwise the  *)
(* registry does, and what it gives as OK is kept.  Any other answer leaves  *)
(* the stale entry where it is.                                              *)
Usable(asn) == cache[asn] # NoEntry /\ clock - cache[asn].cachedAt <= CacheTtl

Answer(asn, reply) ==
  /\ answer' = [asn |-> asn, reply |-> reply, code |-> reply.code]
  /\ told' = [told EXCEPT ![asn] = Stage(asn, reply)]
  /\ UNCHANGED <<serverVars, clock>>

LookupRenewing(asn) ==                           \* fault: a hit renews the entry
  /\ Usable(asn)
  /\ Answer(asn, [code |-> "OK", record |-> cache[asn].record])
  /\ cache' = [cache EXCEPT ![asn].cachedAt = clock]
LookupCached(asn) ==
  /\ Usable(asn)
  /\ Answer(asn, [code |-> "OK", record |-> cache[asn].record])
  /\ UNCHANGED cache

KeptLonger(asn, reply) ==                        \* fault: stale entry kept alive on failure
  IF reply.code = "OK" THEN [record |-> reply.record, cachedAt |-> clock]
  ELSE IF cache[asn] = NoEntry THEN NoEntry
  ELSE [record |-> cache[asn].record, cachedAt |-> clock]
Kept(asn, reply) ==
  IF reply.code = "OK" THEN [record |-> reply.record, cachedAt |-> clock] ELSE cache[asn]
LookupAsked(asn) ==
  /\ ~Usable(asn)
  /\ Answer(asn, AsnLookup(asn))
  /\ cache' = [cache EXCEPT ![asn] = Kept(asn, AsnLookup(asn))]

FlushCache ==
  /\ cache' = [asn \in Asns |-> NoEntry]
  /\ answer' = Quiet
  /\ UNCHANGED <<serverVars, clock, told>>

WhoisTick ==
  /\ clock < MaxClock
  /\ clock' = clock + 1
  /\ answer' = Quiet
  /\ UNCHANGED <<serverVars, cache, told>>

WhoisInit ==
  /\ registry = [asn \in Asns |-> NoRecord]
  /\ routed = {}
  /\ cache = [asn \in Asns |-> NoEntry]
  /\ clock = CacheTtl + 1          \* so that 0 in goodAt is out of reach
  /\ answer = Quiet
  /\ registered = 0
  /\ goodAt = [asn \in Asns |-> [n \in Contents |-> 0]]
  /\ told = [asn \in Asns |-> 0]

WhoisStep ==
  \/ \E asn \in Asns :
       \/ \E expires \in Expiries : RegisterAsn(asn, expires)
       \/ \E length \in RouteLengths : RegisterRoute(asn, length)
       \/ UnregisterAsn(asn)
       \/ LookupCached(asn)
       \/ LookupAsked(asn)
  \/ FlushCache
  \/ WhoisTick

WhoisNext == WhoisStep /\ Remember

WhoisSpec == WhoisInit /\ [][WhoisNext]_whoisVars

--------------------------------------------------------------------------------
WhoisTypeOK ==
  /\ registry \in [Asns -> Record \cup {NoRecord}]
  /\ \A asn \in ReservedAsns : registry[asn] = NoRecord
  /\ routed \subseteq Asns
  /\ cache \in [Asns -> Entry \cup {NoEntry}]
  /\ clock \in Nat
  /\ registered \in 0 .. MaxRegistrations
  /\ goodAt \in [Asns -> [Contents -> Nat]]
  /\ told \in [Asns -> Nat]

(* However the registry changes meanwhile - replaced, unregistered, expired  *)
(* - the client is never given a record the registry itself would not have   *)
(* given within the last CacheTtl.                                           *)
AnswersNoOlderThanTtl ==
  answer.code = "OK" => clock - goodAt[answer.asn][answer.reply.record.content] <= CacheTtl

(* A client that was told of a state of an ASN is never told of an earlier   *)
(* one: what was replaced, expired or gone does not come back from a cache.  *)
NoGoingBack ==
  [][\A asn \in Asns : told'[asn] >= told[asn]]_whoisVars

(* Whatever is registered and unregistered in between, a route is held only  *)
(* for an ASN that is registered.                                            *)
RoutesOwned == \A asn \in routed : registry[asn] # NoRecord
================================================================================
