----------------------------- MODULE RegistryProofs -----------------------------
(***************************************************************************)
(* Proofs about the registry and what is decided by it: the client's cache *)
(* (Whois8), the choice among advertised paths (Bgp8), the signatures on   *)
(* records (WhoisServer), the verdicts on addresses (Border), and what a   *)
(* full run of the scenario makes of them (EndToEnd).                      *)
(***************************************************************************)
EXTENDS Whois8, CfBoard, Border, WhoisServer, EndToEnd, MinFacts, FiniteSetTheorems, SequenceTheorems

--------------------------------------------------------------------------------
(***************************************************************************)
(* The resolver and its client's cache.                                    *)
(***************************************************************************)

(* What the registry would answer now, as a stage.                           *)
Truth(asn) == Stage(asn, AsnLookup(asn))

(* Records are numbered in the order of registration.                        *)
Numbered ==
  /\ \A asn \in Asns : registry[asn] # NoRecord => registry[asn].content <= registered
  /\ \A asn \in Asns : cache[asn] # NoEntry => cache[asn].record.content <= registered

(* goodAt is up to date for what is in force, and a cache entry is no newer   *)
(* than the moment its record was last in force.                             *)
Dated ==
  /\ \A asn \in Asns, n \in Contents : goodAt[asn][n] <= clock
  /\ \A asn \in Asns, n \in Contents : InForce(asn, n) => goodAt[asn][n] = clock
  /\ \A asn \in Asns : cache[asn] # NoEntry =>
       cache[asn].cachedAt <= goodAt[asn][cache[asn].record.content]

(* What the client was told is not ahead of the registry, not behind its      *)
(* cache entry, and not ahead of it while the entry may still be used.        *)
Behind ==
  /\ \A asn \in Asns : told[asn] <= Truth(asn)
  /\ \A asn \in Asns : cache[asn] # NoEntry => 3 * cache[asn].record.content <= told[asn]
  /\ \A asn \in Asns : Usable(asn) => told[asn] <= 3 * cache[asn].record.content

WhoisIInv == WhoisTypeOK /\ Numbered /\ Dated /\ Behind /\ AnswersNoOlderThanTtl /\ RoutesOwned

LEMMA StageOfTruth ==
  ASSUME WhoisTypeOK, NEW asn \in Asns
  PROVE  Truth(asn) = IF registry[asn] = NoRecord \/ asn \in ReservedAsns THEN 3 * Latest(asn) + 2
                      ELSE IF IsExpired(registry[asn]) THEN 3 * registry[asn].content + 1
                      ELSE 3 * registry[asn].content
<1>1. asn \in ReservedAsns => registry[asn] = NoRecord
  BY DEF WhoisTypeOK
<1>2. CASE asn \in ReservedAsns
  <2>1. AsnLookup(asn) = [code |-> "RESERVED"]
    BY <1>1, <1>2 DEF AsnLookup
  <2> QED  BY <1>2, <2>1 DEF Truth, Stage
<1>3. CASE asn \notin ReservedAsns /\ registry[asn] = NoRecord
  <2>1. AsnLookup(asn) = [code |-> "NOT_FOUND"]
    BY <1>3 DEF AsnLookup
  <2> QED  BY <1>3, <2>1 DEF Truth, Stage
<1>4. CASE asn \notin ReservedAsns /\ registry[asn] # NoRecord /\ IsExpired(registry[asn])
  <2>1. AsnLookup(asn) = [code |-> "EXPIRED", record |-> registry[asn]]
    BY <1>4 DEF AsnLookup
  <2> QED  BY <1>4, <2>1 DEF Truth, Stage
<1>5. CASE asn \notin ReservedAsns /\ registry[asn] # NoRecord /\ ~IsExpired(registry[asn])
  <2>1. AsnLookup(asn) = [code |-> "OK", record |-> registry[asn]]
    BY <1>5 DEF AsnLookup
  <2> QED  BY <1>5, <2>1 DEF Truth, Stage
<1> QED  BY <1>2, <1>3, <1>4, <1>5

LEMMA RecordTypes ==
  ASSUME WhoisTypeOK
  PROVE  /\ \A asn \in Asns : registry[asn] # NoRecord =>
              /\ registry[asn] \in Record /\ asn \notin ReservedAsns
              /\ registry[asn].content \in Contents /\ registry[asn].expires \in Nat
         /\ \A asn \in Asns : cache[asn] # NoEntry =>
              /\ cache[asn] \in Entry /\ cache[asn].record \in Record
              /\ cache[asn].record.content \in Contents /\ cache[asn].cachedAt \in Nat
BY Whois8Assumption DEF WhoisTypeOK, Record, Entry

LEMMA Remembered ==
  ASSUME WhoisTypeOK, Dated, Remember, clock' \in Nat, clock <= clock'
  PROVE  /\ goodAt' \in [Asns -> [Contents -> Nat]]
         /\ \A asn \in Asns, n \in Contents :
              /\ goodAt[asn][n] <= goodAt'[asn][n] /\ goodAt'[asn][n] <= clock'
              /\ InForce(asn, n)' => goodAt'[asn][n] = clock'
<1>1. goodAt \in [Asns -> [Contents -> Nat]] /\ clock \in Nat
  BY DEF WhoisTypeOK
<1>2. \A asn \in Asns, n \in Contents :
        goodAt'[asn][n] = IF InForce(asn, n)' THEN clock' ELSE goodAt[asn][n]
  BY DEF Remember
<1>3. goodAt' \in [Asns -> [Contents -> Nat]]
  BY <1>1 DEF Remember
<1>4. \A asn \in Asns, n \in Contents : goodAt[asn][n] \in Nat /\ goodAt[asn][n] <= clock
  BY <1>1 DEF Dated
<1> QED  BY <1>1, <1>2, <1>3, <1>4

(* A step in which nothing is asked: the truth moves on, the client is told   *)
(* nothing and caches nothing.                                               *)
LEMMA UnaskedKeeps ==
  ASSUME WhoisIInv, Remember, WhoisTypeOK', RoutesOwned',
         told' = told, answer' = Quiet, clock <= clock',
         \A asn \in Asns : cache'[asn] = cache[asn] \/ cache'[asn] = NoEntry,
         registered <= registered',
         \A asn \in Asns : registry'[asn] # NoRecord => registry'[asn].content <= registered',
         \A asn \in Asns : Truth(asn) <= Truth(asn)',
         \A asn \in Asns : Truth(asn) \in Nat /\ Truth(asn)' \in Nat
  PROVE  WhoisIInv' /\ told' = told
<1> USE DEF WhoisIInv
<1>1. /\ clock \in Nat /\ clock' \in Nat /\ registered \in Nat /\ registered' \in Nat
      /\ told \in [Asns -> Nat]
  BY DEF WhoisTypeOK
<1>2. /\ \A asn \in Asns, n \in Contents :
           /\ goodAt[asn][n] <= goodAt'[asn][n] /\ goodAt'[asn][n] <= clock'
           /\ InForce(asn, n)' => goodAt'[asn][n] = clock'
      /\ goodAt' \in [Asns -> [Contents -> Nat]]
  BY <1>1, Remembered
<1>3. Numbered'
  <2>1. \A asn \in Asns : cache[asn] # NoEntry =>
          cache[asn].record.content \in Nat /\ cache[asn].record.content <= registered
    BY RecordTypes DEF Numbered, Contents
  <2> QED  BY <1>1, <2>1 DEF Numbered
<1>4. Dated'
  <2>1. ASSUME NEW asn \in Asns, cache[asn] # NoEntry
        PROVE  cache[asn].cachedAt <= goodAt'[asn][cache[asn].record.content]
    <3> DEFINE n == cache[asn].record.content
    <3>1. n \in Contents /\ cache[asn].cachedAt \in Nat /\ cache[asn].cachedAt <= goodAt[asn][n]
      BY <2>1, RecordTypes DEF Dated
    <3> HIDE DEF n
    <3>2. goodAt[asn][n] \in Nat /\ goodAt'[asn][n] \in Nat /\ goodAt[asn][n] <= goodAt'[asn][n]
      BY <1>2, <3>1 DEF WhoisTypeOK
    <3>3. cache[asn].cachedAt <= goodAt'[asn][n]
      BY <3>1, <3>2
    <3> QED  BY <3>3 DEF n
  <2> QED  BY <1>2, <2>1 DEF Dated
<1>5. Behind'
  <2>1. \A asn \in Asns : told'[asn] <= Truth(asn)'
    <3> SUFFICES ASSUME NEW asn \in Asns PROVE told[asn] <= Truth(asn)'
      OBVIOUS
    <3>1. told[asn] \in Nat /\ told[asn] <= Truth(asn)
      BY <1>1 DEF Behind
    <3> QED  BY <3>1
  <2>2. ASSUME NEW asn \in Asns, Usable(asn)' PROVE Usable(asn) /\ cache'[asn] = cache[asn]
    <3>1. cache'[asn] = cache[asn] /\ cache[asn] # NoEntry /\ clock' - cache[asn].cachedAt <= CacheTtl
      BY <2>2 DEF Usable
    <3>2. cache[asn].cachedAt \in Nat /\ CacheTtl \in Nat
      BY <3>1, RecordTypes, Whois8Assumption
    <3> QED  BY <1>1, <3>1, <3>2 DEF Usable
  <2> QED  BY <2>1, <2>2 DEF Behind
<1>6. AnswersNoOlderThanTtl'
  BY DEF AnswersNoOlderThanTtl, Quiet
<1> QED  BY <1>3, <1>4, <1>5, <1>6

LEMMA TruthType ==
  ASSUME WhoisTypeOK, NEW asn \in Asns
  PROVE  Truth(asn) \in Nat /\ Latest(asn) \in Nat
<1>1. Latest(asn) \in Nat
  BY RecordTypes DEF WhoisTypeOK, Latest, Contents
<1>2. registry[asn] # NoRecord => registry[asn].content \in Nat
  BY RecordTypes DEF Contents
<1> QED  BY <1>1, <1>2, StageOfTruth

(* The same of the next state.                                                *)
LEMMA StageOfTruthAll ==
  WhoisTypeOK => \A asn \in Asns :
    /\ Truth(asn) = IF registry[asn] = NoRecord \/ asn \in ReservedAsns THEN 3 * Latest(asn) + 2
                    ELSE IF IsExpired(registry[asn]) THEN 3 * registry[asn].content + 1
                    ELSE 3 * registry[asn].content
    /\ Truth(asn) \in Nat /\ Latest(asn) \in Nat
BY StageOfTruth, TruthType

LEMMA StageOfTruthNext ==
  ASSUME WhoisTypeOK'
  PROVE  \A asn \in Asns :
    /\ Truth(asn)' = IF registry'[asn] = NoRecord \/ asn \in ReservedAsns THEN 3 * Latest(asn)' + 2
                     ELSE IF IsExpired(registry[asn])' THEN 3 * registry'[asn].content + 1
                     ELSE 3 * registry'[asn].content
    /\ Truth(asn)' \in Nat /\ Latest(asn)' \in Nat
<1>1. (WhoisTypeOK => \A asn \in Asns :
    /\ Truth(asn) = IF registry[asn] = NoRecord \/ asn \in ReservedAsns THEN 3 * Latest(asn) + 2
                    ELSE IF IsExpired(registry[asn]) THEN 3 * registry[asn].content + 1
                    ELSE 3 * registry[asn].content
    /\ Truth(asn) \in Nat /\ Latest(asn) \in Nat)'
  BY StageOfTruthAll, PTL
<1> QED  BY <1>1

(* Time alone takes the truth forward, if at all.                             *)
LEMMA TruthWithTime ==
  ASSUME WhoisTypeOK, WhoisTypeOK', NEW asn \in Asns,
         registry'[asn] = registry[asn], registered' = registered, clock <= clock'
  PROVE  Truth(asn) <= Truth(asn)' /\ (clock' = clock => Truth(asn)' = Truth(asn))
<1>1. clock \in Nat /\ clock' \in Nat
  BY DEF WhoisTypeOK
<1>2. Latest(asn)' = Latest(asn)
  BY DEF Latest
<1>3. registry[asn] # NoRecord => registry[asn].content \in Nat /\ registry[asn].expires \in Nat
  BY RecordTypes DEF Contents
<1>4. registry[asn] # NoRecord =>
        /\ IsExpired(registry[asn]) => IsExpired(registry[asn])'
        /\ clock' = clock => (IsExpired(registry[asn])' => IsExpired(registry[asn]))
  BY <1>1, <1>3 DEF IsExpired
<1>5. Latest(asn) \in Nat
  BY TruthType
<1> QED  BY <1>2, <1>3, <1>4, <1>5, StageOfTruth, StageOfTruthNext

(* The truth about an ASN is never further on than the last registration.    *)
LEMMA TruthBound ==
  ASSUME WhoisTypeOK, Numbered, NEW asn \in Asns
  PROVE  /\ Truth(asn) <= 3 * registered + 2
         /\ registry[asn] # NoRecord => Truth(asn) <= 3 * registered + 1
<1>1. registered \in Nat
  BY DEF WhoisTypeOK
<1>2. registry[asn] # NoRecord =>
        /\ registry[asn].content \in Nat /\ registry[asn].content <= registered
        /\ asn \notin ReservedAsns
  BY RecordTypes DEF Numbered, Contents
<1> QED  BY <1>1, <1>2, StageOfTruth DEF Latest

LEMMA TypesKept ==
  ASSUME WhoisTypeOK, Dated, Remember, clock' \in Nat, clock <= clock',
         registry' \in [Asns -> Record \cup {NoRecord}],
         \A asn \in ReservedAsns : registry'[asn] = NoRecord,
         routed' \subseteq Asns, registered' \in 0 .. MaxRegistrations,
         cache' \in [Asns -> Entry \cup {NoEntry}], told' \in [Asns -> Nat]
  PROVE  WhoisTypeOK'
BY Remembered DEF WhoisTypeOK

LEMMA RegisterKeeps ==
  ASSUME WhoisIInv, Remember, NEW asn \in Asns, NEW expires \in Expiries,
         RegisterAsn(asn, expires)
  PROVE  WhoisIInv' /\ told' = told
<1> DEFINE new == [content |-> registered + 1, expires |-> expires]
<1>1. /\ registry' = [registry EXCEPT ![asn] = new] /\ registered' = registered + 1
      /\ asn \notin ReservedAsns /\ registered < MaxRegistrations
      /\ routed' = routed /\ ServerStep /\ cache' = cache /\ clock' = clock /\ told' = told
      /\ answer' = Quiet
  BY DEF RegisterAsn, ServerStep
<1>2. registered \in 0 .. MaxRegistrations /\ MaxRegistrations \in Nat /\ clock \in Nat
  BY Whois8Assumption DEF WhoisIInv, WhoisTypeOK
<1>3. new \in Record /\ registered + 1 \in 1 .. MaxRegistrations /\ new # NoRecord
  BY <1>1, <1>2, Whois8Assumption DEF Record, Contents
<1>t. new.content = registered + 1
  OBVIOUS
<1> HIDE DEF new
<1>4. WhoisTypeOK'
  <2>1. /\ registry' \in [Asns -> Record \cup {NoRecord}]
        /\ \A a \in ReservedAsns : registry'[a] = NoRecord
    BY <1>1, <1>3, Whois8Assumption DEF WhoisIInv, WhoisTypeOK
  <2> QED  BY <1>1, <1>2, <1>3, <2>1, TypesKept DEF WhoisIInv, WhoisTypeOK
<1>5. RoutesOwned'
  BY <1>1, <1>3 DEF WhoisIInv, WhoisTypeOK, RoutesOwned
<1>6. \A a \in Asns : registry'[a] # NoRecord => registry'[a].content <= registered'
  <2> SUFFICES ASSUME NEW a \in Asns, registry'[a] # NoRecord
               PROVE  registry'[a].content <= registered'
    OBVIOUS
  <2>1. CASE a = asn
    BY <1>1, <1>2, <1>t, <2>1 DEF WhoisIInv, WhoisTypeOK
  <2>2. CASE a # asn
    <3>1. registry'[a] = registry[a] /\ registry[a] # NoRecord
      BY <1>1, <2>2 DEF WhoisIInv, WhoisTypeOK
    <3>2. registry[a].content \in Nat /\ registry[a].content <= registered
      BY <3>1, RecordTypes DEF WhoisIInv, Numbered, Contents
    <3> QED  BY <1>1, <1>2, <3>1, <3>2
  <2> QED  BY <2>1, <2>2
<1>7. \A a \in Asns : Truth(a) \in Nat /\ Truth(a)' \in Nat /\ Truth(a) <= Truth(a)'
  <2> SUFFICES ASSUME NEW a \in Asns
               PROVE  Truth(a) \in Nat /\ Truth(a)' \in Nat /\ Truth(a) <= Truth(a)'
    OBVIOUS
  <2>1. Truth(a) \in Nat /\ Truth(a) <= 3 * registered + 2
    BY TruthType, TruthBound DEF WhoisIInv
  <2>2. Truth(a)' \in Nat
    BY <1>4, StageOfTruthNext
  <2>3. Truth(a)' = IF registry'[a] = NoRecord \/ a \in ReservedAsns
                    THEN 3 * Latest(a)' + 2
                    ELSE IF IsExpired(registry[a])' THEN 3 * registry'[a].content + 1
                    ELSE 3 * registry'[a].content
    BY <1>4, StageOfTruthNext
  <2>4. CASE a = asn
    <3>1. registry'[a] = new
      BY <1>1, <2>4 DEF WhoisIInv, WhoisTypeOK
    <3>2. Truth(a)' >= 3 * (registered + 1)
      BY <1>1, <1>2, <1>3, <1>t, <2>3, <2>4, <3>1
    <3> QED  BY <1>2, <1>4, <2>1, <2>2, <3>2
  <2>5. CASE a # asn
    <3>1. registry'[a] = registry[a] /\ clock' = clock
      BY <1>1, <2>5 DEF WhoisIInv, WhoisTypeOK
    <3>2. IsExpired(registry[a])' = IsExpired(registry[a])
      BY <3>1 DEF IsExpired
    <3>3. registry[a] = NoRecord => Latest(a) = registered /\ Latest(a)' = registered + 1
      BY <1>1, <3>1 DEF Latest
    <3>4. a \in ReservedAsns => registry[a] = NoRecord
      BY DEF WhoisIInv, WhoisTypeOK
    <3>5. Truth(a) = IF registry[a] = NoRecord \/ a \in ReservedAsns THEN 3 * Latest(a) + 2
                     ELSE IF IsExpired(registry[a]) THEN 3 * registry[a].content + 1
                     ELSE 3 * registry[a].content
      BY StageOfTruth DEF WhoisIInv
    <3>6. CASE registry[a] = NoRecord
      BY <1>2, <2>1, <2>3, <3>1, <3>3, <3>5, <3>6
    <3>7. CASE registry[a] # NoRecord
      <4>1. Truth(a)' = Truth(a)
        BY <2>3, <3>1, <3>2, <3>4, <3>5, <3>7
      <4> QED  BY <2>1, <4>1
    <3> QED  BY <3>6, <3>7
  <2> QED  BY <2>4, <2>5
<1> QED  BY <1>1, <1>2, <1>4, <1>5, <1>6, <1>7, UnaskedKeeps

LEMMA UnregisterKeeps ==
  ASSUME WhoisIInv, Remember, NEW asn \in Asns, UnregisterAsn(asn)
  PROVE  WhoisIInv' /\ told' = told
<1>1. /\ registry' = [registry EXCEPT ![asn] = NoRecord] /\ registered' = registered
      /\ registry[asn] # NoRecord
      /\ routed' = routed \ {asn} /\ ServerStep /\ cache' = cache /\ clock' = clock /\ told' = told
      /\ answer' = Quiet
  BY DEF UnregisterAsn, ServerStep
<1>2. registered \in 0 .. MaxRegistrations /\ MaxRegistrations \in Nat /\ clock \in Nat
  BY Whois8Assumption DEF WhoisIInv, WhoisTypeOK
<1>3. WhoisTypeOK'
  <2>1. /\ registry' \in [Asns -> Record \cup {NoRecord}]
        /\ \A a \in ReservedAsns : registry'[a] = NoRecord
    BY <1>1, Whois8Assumption DEF WhoisIInv, WhoisTypeOK
  <2> QED  BY <1>1, <1>2, <2>1, TypesKept DEF WhoisIInv, WhoisTypeOK
<1>4. RoutesOwned'
  BY <1>1 DEF WhoisIInv, WhoisTypeOK, RoutesOwned
<1>5. \A a \in Asns : registry'[a] # NoRecord => registry'[a].content <= registered'
  BY <1>1 DEF WhoisIInv, WhoisTypeOK, Numbered
<1>6. \A a \in Asns : Truth(a) \in Nat /\ Truth(a)' \in Nat /\ Truth(a) <= Truth(a)'
  <2> SUFFICES ASSUME NEW a \in Asns
               PROVE  Truth(a) \in Nat /\ Truth(a)' \in Nat /\ Truth(a) <= Truth(a)'
    OBVIOUS
  <2>1. Truth(a) \in Nat /\ Truth(a) <= 3 * registered + 2
    BY TruthType, TruthBound DEF WhoisIInv
  <2>2. Truth(a)' = IF registry'[a] = NoRecord \/ a \in ReservedAsns
                    THEN 3 * Latest(a)' + 2
                    ELSE IF IsExpired(registry[a])' THEN 3 * registry'[a].content + 1
                    ELSE 3 * registry'[a].content
    BY <1>3, StageOfTruthNext
  <2>3. Truth(a)' \in Nat
    BY <1>3, StageOfTruthNext
  <2>4. CASE a = asn
    <3>1. registry'[a] = NoRecord
      BY <1>1, <2>4 DEF WhoisIInv, WhoisTypeOK
    <3>2. Latest(a)' = registered
      BY <1>1, <3>1 DEF Latest
    <3> QED  BY <1>2, <2>1, <2>2, <3>1, <3>2
  <2>5. CASE a # asn
    <3>1. registry'[a] = registry[a]
      BY <1>1, <2>5 DEF WhoisIInv, WhoisTypeOK
    <3>2. Truth(a)' = Truth(a)
      BY <1>1, <1>2, <1>3, <3>1, TruthWithTime DEF WhoisIInv
    <3> QED  BY <2>1, <3>2
  <2> QED  BY <1>3, <2>3, <2>4, <2>5
<1> QED  BY <1>1, <1>2, <1>3, <1>4, <1>5, <1>6, UnaskedKeeps

LEMMA RouteKeeps ==
  ASSUME WhoisIInv, Remember, NEW asn \in Asns, NEW length \in RouteLengths,
         RegisterRoute(asn, length)
  PROVE  WhoisIInv' /\ told' = told
<1>1. /\ registry' = registry /\ registered' = registered /\ registry[asn] # NoRecord
      /\ routed' = routed \cup {asn} /\ cache' = cache /\ clock' = clock /\ told' = told
      /\ answer' = Quiet
  BY DEF RegisterRoute, ServerStep
<1>2. registered \in Nat /\ clock \in Nat
  BY DEF WhoisIInv, WhoisTypeOK
<1>3. WhoisTypeOK'
  BY <1>1, TypesKept DEF WhoisIInv, WhoisTypeOK
<1>4. RoutesOwned'
  BY <1>1 DEF WhoisIInv, RoutesOwned
<1>5. \A a \in Asns : Truth(a) \in Nat /\ Truth(a)' \in Nat /\ Truth(a) <= Truth(a)'
  BY <1>1, <1>2, <1>3, TruthType, StageOfTruthNext, TruthWithTime DEF WhoisIInv
<1> QED  BY <1>1, <1>2, <1>3, <1>4, <1>5, UnaskedKeeps DEF WhoisIInv, Numbered

LEMMA FlushKeeps ==
  ASSUME WhoisIInv, Remember, FlushCache
  PROVE  WhoisIInv' /\ told' = told
<1>1. /\ registry' = registry /\ registered' = registered /\ routed' = routed
      /\ cache' = [asn \in Asns |-> NoEntry] /\ clock' = clock /\ told' = told
      /\ answer' = Quiet
  BY DEF FlushCache, serverVars
<1>2. registered \in Nat /\ clock \in Nat
  BY DEF WhoisIInv, WhoisTypeOK
<1>3. WhoisTypeOK'
  BY <1>1, TypesKept DEF WhoisIInv, WhoisTypeOK
<1>4. RoutesOwned'
  BY <1>1 DEF WhoisIInv, RoutesOwned
<1>5. \A a \in Asns : Truth(a) \in Nat /\ Truth(a)' \in Nat /\ Truth(a) <= Truth(a)'
  BY <1>1, <1>2, <1>3, TruthType, StageOfTruthNext, TruthWithTime DEF WhoisIInv
<1> QED  BY <1>1, <1>2, <1>3, <1>4, <1>5, UnaskedKeeps DEF WhoisIInv, Numbered

LEMMA TickKeeps ==
  ASSUME WhoisIInv, Remember, WhoisTick
  PROVE  WhoisIInv' /\ told' = told
<1>1. /\ registry' = registry /\ registered' = registered /\ routed' = routed
      /\ cache' = cache /\ clock' = clock + 1 /\ told' = told /\ answer' = Quiet
  BY DEF WhoisTick, serverVars
<1>2. registered \in Nat /\ clock \in Nat
  BY DEF WhoisIInv, WhoisTypeOK
<1>3. WhoisTypeOK'
  BY <1>1, <1>2, TypesKept DEF WhoisIInv, WhoisTypeOK
<1>4. RoutesOwned'
  BY <1>1 DEF WhoisIInv, RoutesOwned
<1>5. \A a \in Asns : Truth(a) \in Nat /\ Truth(a)' \in Nat /\ Truth(a) <= Truth(a)'
  BY <1>1, <1>2, <1>3, TruthType, StageOfTruthNext, TruthWithTime DEF WhoisIInv
<1> QED  BY <1>1, <1>2, <1>3, <1>4, <1>5, UnaskedKeeps DEF WhoisIInv, Numbered

(* What a lookup leaves alone, whoever answers it.                            *)
LEMMA AskedAgain ==
  ASSUME WhoisIInv, Remember, UNCHANGED <<serverVars, clock>>, WhoisTypeOK'
  PROVE  /\ \A asn \in Asns : Truth(asn)' = Truth(asn) /\ Truth(asn) \in Nat
         /\ \A asn \in Asns, n \in Contents :
              /\ goodAt[asn][n] <= goodAt'[asn][n] /\ goodAt'[asn][n] <= clock'
              /\ InForce(asn, n) => InForce(asn, n)'
              /\ InForce(asn, n)' => goodAt'[asn][n] = clock
         /\ RoutesOwned'
         /\ \A asn \in Asns : registry'[asn] # NoRecord => registry'[asn].content <= registered'
<1>1. /\ registry' = registry /\ registered' = registered /\ routed' = routed
      /\ clock' = clock /\ clock \in Nat
  BY DEF serverVars, WhoisIInv, WhoisTypeOK
<1>2. \A asn \in Asns : Truth(asn)' = Truth(asn) /\ Truth(asn) \in Nat
  BY <1>1, TruthType, TruthWithTime DEF WhoisIInv
<1>3. \A asn \in Asns, n \in Contents :
        /\ goodAt[asn][n] <= goodAt'[asn][n] /\ goodAt'[asn][n] <= clock'
        /\ InForce(asn, n)' => goodAt'[asn][n] = clock'
  BY <1>1, Remembered DEF WhoisIInv
<1>4. \A asn \in Asns, n \in Contents : InForce(asn, n) => InForce(asn, n)'
  BY <1>1 DEF InForce, IsExpired
<1> QED  BY <1>1, <1>2, <1>3, <1>4 DEF WhoisIInv, RoutesOwned, Numbered

LEMMA CachedKeeps ==
  ASSUME WhoisIInv, Remember, NEW asn \in Asns, LookupCached(asn)
  PROVE  WhoisIInv' /\ \A a \in Asns : told'[a] >= told[a]
<1> DEFINE n == cache[asn].record.content
           reply == [code |-> "OK", record |-> cache[asn].record]
<1>1. /\ Usable(asn) /\ cache' = cache /\ UNCHANGED <<serverVars, clock>>
      /\ answer' = [asn |-> asn, reply |-> reply, code |-> reply.code]
      /\ told' = [told EXCEPT ![asn] = Stage(asn, reply)]
  BY DEF LookupCached, Answer
<1>2. /\ cache[asn] # NoEntry /\ n \in Contents /\ n \in Nat /\ cache[asn].cachedAt \in Nat
      /\ clock - cache[asn].cachedAt <= CacheTtl
  BY <1>1, RecordTypes DEF Usable, WhoisIInv, Contents
<1>3. Stage(asn, reply) = 3 * n
  BY DEF Stage
<1>4. /\ registry' = registry /\ registered' = registered /\ routed' = routed
      /\ clock' = clock /\ clock \in Nat /\ CacheTtl \in Nat /\ registered \in Nat
      /\ told \in [Asns -> Nat]
      /\ answer'.code = "OK" /\ answer'.asn = asn /\ answer'.reply.record.content = n
  BY <1>1, Whois8Assumption DEF serverVars, WhoisIInv, WhoisTypeOK
<1> HIDE DEF reply
<1>5. told' \in [Asns -> Nat] /\ told[asn] = 3 * n /\ told' = told
  <2>1. told[asn] \in Nat /\ told[asn] <= 3 * n /\ 3 * n <= told[asn]
    BY <1>1, <1>2, <1>4 DEF WhoisIInv, Behind
  <2>2. told[asn] = 3 * n
    BY <1>2, <2>1
  <2> QED  BY <1>1, <1>3, <1>4, <2>2
<1>6. WhoisTypeOK'
  BY <1>1, <1>4, <1>5, TypesKept DEF WhoisIInv, WhoisTypeOK
<1>7. /\ \A a \in Asns : Truth(a)' = Truth(a)
      /\ \A a \in Asns, k \in Contents :
           /\ goodAt[a][k] <= goodAt'[a][k] /\ goodAt'[a][k] <= clock'
           /\ InForce(a, k)' => goodAt'[a][k] = clock
      /\ RoutesOwned'
  BY <1>1, <1>6, AskedAgain
<1>8. Numbered'
  BY <1>1, <1>4 DEF WhoisIInv, Numbered
<1>9. ASSUME NEW a \in Asns, cache[a] # NoEntry
      PROVE  cache[a].cachedAt <= goodAt'[a][cache[a].record.content]
  <2> DEFINE k == cache[a].record.content
  <2>1. k \in Contents /\ cache[a].cachedAt \in Nat /\ cache[a].cachedAt <= goodAt[a][k]
    BY <1>9, RecordTypes DEF WhoisIInv, Dated
  <2> HIDE DEF k
  <2>2. goodAt[a][k] \in Nat /\ goodAt'[a][k] \in Nat /\ goodAt[a][k] <= goodAt'[a][k]
    BY <1>6, <1>7, <2>1 DEF WhoisIInv, WhoisTypeOK
  <2>3. cache[a].cachedAt <= goodAt'[a][k]
    BY <2>1, <2>2
  <2> QED  BY <2>3 DEF k
<1>10. Dated'
  BY <1>1, <1>4, <1>7, <1>9 DEF Dated
<1>11. Behind'
  BY <1>1, <1>4, <1>5, <1>7 DEF WhoisIInv, Behind, Usable
<1>12. AnswersNoOlderThanTtl'
  <2>1. cache[asn].cachedAt <= goodAt'[asn][n]
    BY <1>2, <1>9
  <2>2. goodAt'[asn][n] \in Nat
    BY <1>2, <1>6 DEF WhoisTypeOK
  <2> HIDE DEF n
  <2>3. clock' - goodAt'[asn][n] <= CacheTtl
    BY <1>2, <1>4, <2>1, <2>2
  <2> QED  BY <1>4, <2>3 DEF AnswersNoOlderThanTtl
<1> QED  BY <1>4, <1>5, <1>6, <1>7, <1>8, <1>10, <1>11, <1>12 DEF WhoisIInv

LEMMA AskedKeeps ==
  ASSUME WhoisIInv, Remember, NEW asn \in Asns, LookupAsked(asn)
  PROVE  WhoisIInv' /\ \A a \in Asns : told'[a] >= told[a]
<1> DEFINE reply == AsnLookup(asn)
<1>1. /\ ~Usable(asn) /\ cache' = [cache EXCEPT ![asn] = Kept(asn, reply)]
      /\ UNCHANGED <<serverVars, clock>>
      /\ answer' = [asn |-> asn, reply |-> reply, code |-> reply.code]
      /\ told' = [told EXCEPT ![asn] = Truth(asn)]
  BY DEF LookupAsked, Answer, Truth
<1>2. /\ registry' = registry /\ registered' = registered /\ routed' = routed
      /\ clock' = clock /\ clock \in Nat /\ CacheTtl \in Nat /\ registered \in Nat
      /\ told \in [Asns -> Nat] /\ Truth(asn) \in Nat
  BY <1>1, Whois8Assumption, TruthType DEF serverVars, WhoisIInv, WhoisTypeOK
<1>3. reply.code = "OK" =>
        /\ registry[asn] # NoRecord /\ ~IsExpired(registry[asn]) /\ reply.record = registry[asn]
  BY DEF AsnLookup
<1>4. reply.code = "OK" =>
        /\ registry[asn] \in Record /\ registry[asn].content \in Contents
        /\ registry[asn].content <= registered /\ asn \notin ReservedAsns
        /\ InForce(asn, registry[asn].content)
        /\ Truth(asn) = 3 * registry[asn].content
  BY <1>3, RecordTypes, StageOfTruth DEF WhoisIInv, Numbered, InForce
<1> HIDE DEF reply
<1>5. /\ reply.code = "OK" => cache'[asn] = [record |-> registry[asn], cachedAt |-> clock]
      /\ reply.code # "OK" => cache'[asn] = cache[asn]
      /\ \A a \in Asns : a # asn => cache'[a] = cache[a]
  BY <1>1, <1>3 DEF Kept, WhoisIInv, WhoisTypeOK
<1>6. cache' \in [Asns -> Entry \cup {NoEntry}]
  <2>1. reply.code = "OK" => [record |-> registry[asn], cachedAt |-> clock] \in Entry
    BY <1>2, <1>4 DEF Entry
  <2> QED  BY <1>1, <1>5, <2>1 DEF WhoisIInv, WhoisTypeOK
<1>7. WhoisTypeOK'
  BY <1>1, <1>2, <1>6, TypesKept DEF WhoisIInv, WhoisTypeOK
<1>8. /\ \A a \in Asns : Truth(a)' = Truth(a)
      /\ \A a \in Asns, k \in Contents :
           /\ goodAt[a][k] <= goodAt'[a][k] /\ goodAt'[a][k] <= clock'
           /\ InForce(a, k) => InForce(a, k)'
           /\ InForce(a, k)' => goodAt'[a][k] = clock
      /\ RoutesOwned'
      /\ \A a \in Asns : registry'[a] # NoRecord => registry'[a].content <= registered'
  BY <1>1, <1>7, AskedAgain
<1>9. \A a \in Asns : told'[a] \in Nat /\ told'[a] >= told[a] /\ told'[a] <= Truth(a)'
  BY <1>1, <1>2, <1>8 DEF WhoisIInv, Behind
<1>10. Numbered'
  BY <1>2, <1>4, <1>5, <1>8 DEF WhoisIInv, Numbered
<1>11. ASSUME NEW a \in Asns, cache'[a] # NoEntry
       PROVE  cache'[a].cachedAt <= goodAt'[a][cache'[a].record.content]
  <2>1. CASE a = asn /\ reply.code = "OK"
    <3> DEFINE n == registry[asn].content
    <3>1. n \in Contents /\ InForce(asn, n)
      BY <1>4, <2>1
    <3> HIDE DEF n
    <3>2. goodAt'[asn][n] = clock
      BY <1>8, <3>1
    <3>3. cache'[asn].cachedAt = clock /\ cache'[asn].record.content = n
      BY <1>5, <2>1 DEF n
    <3> QED  BY <1>2, <2>1, <3>2, <3>3
  <2>2. CASE ~(a = asn /\ reply.code = "OK")
    <3> DEFINE k == cache[a].record.content
    <3>1. cache'[a] = cache[a]
      BY <1>5, <2>2
    <3>2. k \in Contents /\ cache[a].cachedAt \in Nat /\ cache[a].cachedAt <= goodAt[a][k]
      BY <1>11, <3>1, RecordTypes DEF WhoisIInv, Dated
    <3> HIDE DEF k
    <3>3. goodAt[a][k] \in Nat /\ goodAt'[a][k] \in Nat /\ goodAt[a][k] <= goodAt'[a][k]
      BY <1>7, <1>8, <3>2 DEF WhoisIInv, WhoisTypeOK
    <3>4. cache[a].cachedAt <= goodAt'[a][k]
      BY <3>2, <3>3
    <3> QED  BY <3>1, <3>4 DEF k
  <2> QED  BY <2>1, <2>2
<1>12. Dated'
  BY <1>2, <1>8, <1>11 DEF Dated
<1>13. ASSUME NEW a \in Asns
       PROVE  /\ cache'[a] # NoEntry => 3 * cache'[a].record.content <= told'[a]
              /\ Usable(a)' => told'[a] <= 3 * cache'[a].record.content
  <2>1. CASE a = asn /\ reply.code = "OK"
    <3>1. told'[a] = 3 * registry[asn].content /\ cache'[a].record.content = registry[asn].content
      BY <1>1, <1>2, <1>4, <1>5, <2>1
    <3>2. registry[asn].content \in Nat
      BY <1>4, <2>1 DEF Contents
    <3> QED  BY <3>1, <3>2
  <2>2. CASE a = asn /\ reply.code # "OK"
    <3>1. cache'[a] = cache[a] /\ ~Usable(a)'
      BY <1>1, <1>2, <1>5, <2>2 DEF Usable
    <3>2. cache[a] # NoEntry => /\ cache[a].record.content \in Nat
                               /\ 3 * cache[a].record.content <= told[a]
      BY RecordTypes DEF WhoisIInv, Behind, Contents
    <3>3. told[a] \in Nat /\ told'[a] \in Nat /\ told[a] <= told'[a]
      BY <1>2, <1>9
    <3> QED  BY <3>1, <3>2, <3>3
  <2>3. CASE a # asn
    <3>1. cache'[a] = cache[a] /\ told'[a] = told[a] /\ Usable(a)' = Usable(a)
      BY <1>1, <1>2, <1>5, <2>3 DEF Usable
    <3> QED  BY <3>1 DEF WhoisIInv, Behind
  <2> QED  BY <2>1, <2>2, <2>3
<1>14. Behind'
  BY <1>9, <1>13 DEF Behind
<1>15. AnswersNoOlderThanTtl'
  <2> DEFINE n == registry[asn].content
  <2>1. SUFFICES ASSUME reply.code = "OK" PROVE clock' - goodAt'[asn][n] <= CacheTtl
    BY <1>1, <1>3 DEF AnswersNoOlderThanTtl
  <2>2. n \in Contents /\ InForce(asn, n)
    BY <1>4, <2>1
  <2> HIDE DEF n
  <2>3. goodAt'[asn][n] = clock
    BY <1>8, <2>2
  <2> QED  BY <1>2, <2>3
<1> QED  BY <1>7, <1>8, <1>9, <1>10, <1>12, <1>14, <1>15 DEF WhoisIInv

--------------------------------------------------------------------------------
LEMMA WhoisStart == ASSUME WhoisInit PROVE WhoisIInv
<1>1. /\ registry = [asn \in Asns |-> NoRecord] /\ routed = {} /\ registered = 0
      /\ cache = [asn \in Asns |-> NoEntry] /\ clock = CacheTtl + 1 /\ answer.code = "none"
      /\ goodAt = [asn \in Asns |-> [n \in Contents |-> 0]]
      /\ told = [asn \in Asns |-> 0]
  BY DEF WhoisInit, Quiet
<1>2. WhoisTypeOK
  BY <1>1, Whois8Assumption DEF WhoisTypeOK
<1>3. Numbered /\ RoutesOwned /\ AnswersNoOlderThanTtl
  BY <1>1 DEF Numbered, RoutesOwned, AnswersNoOlderThanTtl
<1>4. Dated
  BY <1>1, Whois8Assumption DEF Dated, InForce
<1>5. Behind
  BY <1>1, <1>2, TruthType DEF Behind, Usable
<1> QED  BY <1>2, <1>3, <1>4, <1>5 DEF WhoisIInv

LEMMA WhoisNextKeeps ==
  ASSUME WhoisIInv, [WhoisNext]_whoisVars
  PROVE  WhoisIInv' /\ \A asn \in Asns : told'[asn] >= told[asn]
<1>0. told \in [Asns -> Nat]
  BY DEF WhoisIInv, WhoisTypeOK
<1>1. CASE UNCHANGED whoisVars
  <2>1. /\ WhoisTypeOK' /\ Numbered' /\ AnswersNoOlderThanTtl' /\ RoutesOwned' /\ told' = told
    BY <1>1 DEF WhoisIInv, WhoisTypeOK, Numbered, AnswersNoOlderThanTtl, RoutesOwned,
                whoisVars, serverVars
  <2>2. Dated'
    BY <1>1 DEF WhoisIInv, Dated, InForce, IsExpired, whoisVars, serverVars
  <2>3. Behind'
    <3>1. registry' = registry /\ registered' = registered /\ clock' = clock /\ clock \in Nat
      BY <1>1 DEF whoisVars, serverVars, WhoisIInv, WhoisTypeOK
    <3>2. \A asn \in Asns : Truth(asn)' = Truth(asn)
      BY <2>1, <3>1, TruthWithTime DEF WhoisIInv
    <3> QED  BY <1>1, <3>2 DEF WhoisIInv, Behind, Usable, whoisVars
  <2> QED  BY <1>0, <2>1, <2>2, <2>3 DEF WhoisIInv
<1>2. CASE WhoisNext
  <2>1. ASSUME NEW asn \in Asns, NEW expires \in Expiries, RegisterAsn(asn, expires)
        PROVE  WhoisIInv' /\ told' = told
    BY <1>2, <2>1, RegisterKeeps DEF WhoisNext
  <2>2. ASSUME NEW asn \in Asns, NEW length \in RouteLengths, RegisterRoute(asn, length)
        PROVE  WhoisIInv' /\ told' = told
    BY <1>2, <2>2, RouteKeeps DEF WhoisNext
  <2>3. ASSUME NEW asn \in Asns, UnregisterAsn(asn) PROVE WhoisIInv' /\ told' = told
    BY <1>2, <2>3, UnregisterKeeps DEF WhoisNext
  <2>4. ASSUME NEW asn \in Asns, LookupCached(asn)
        PROVE  WhoisIInv' /\ \A a \in Asns : told'[a] >= told[a]
    BY <1>2, <2>4, CachedKeeps DEF WhoisNext
  <2>5. ASSUME NEW asn \in Asns, LookupAsked(asn)
        PROVE  WhoisIInv' /\ \A a \in Asns : told'[a] >= told[a]
    BY <1>2, <2>5, AskedKeeps DEF WhoisNext
  <2>6. CASE FlushCache
    BY <1>0, <1>2, <2>6, FlushKeeps DEF WhoisNext
  <2>7. CASE WhoisTick
    BY <1>0, <1>2, <2>7, TickKeeps DEF WhoisNext
  <2> QED  BY <1>0, <1>2, <2>1, <2>2, <2>3, <2>4, <2>5, <2>6, <2>7 DEF WhoisNext, WhoisStep
<1> QED  BY <1>1, <1>2

LEMMA WhoisInvariant == WhoisSpec => []WhoisIInv
<1>1. WhoisInit => WhoisIInv
  BY WhoisStart
<1>2. WhoisIInv /\ [WhoisNext]_whoisVars => WhoisIInv'
  BY WhoisNextKeeps
<1> QED  BY <1>1, <1>2, PTL DEF WhoisSpec

(* Whatever the registry does meanwhile, a client is never answered with a    *)
(* record that was not in force within the last CacheTtl.                    *)
THEOREM AnswersAreRecent == WhoisSpec => []AnswersNoOlderThanTtl
<1>1. WhoisIInv => AnswersNoOlderThanTtl
  BY DEF WhoisIInv
<1> QED  BY <1>1, WhoisInvariant, PTL

(* A route is held only for an ASN that is registered (register_route,        *)
(* unregister_asn).                                                          *)
THEOREM RoutesAreOwned == WhoisSpec => []RoutesOwned
<1>1. WhoisIInv => RoutesOwned
  BY DEF WhoisIInv
<1> QED  BY <1>1, WhoisInvariant, PTL

(* Successive answers of one client about an ASN never step back in its life  *)
(* (lookup).                                                                 *)
THEOREM AnswersMoveForward == WhoisSpec => NoGoingBack
<1>1. WhoisIInv /\ [WhoisNext]_whoisVars => [\A asn \in Asns : told'[asn] >= told[asn]]_whoisVars
  BY WhoisNextKeeps
<1> QED  BY <1>1, WhoisInvariant, PTL DEF WhoisSpec, NoGoingBack
--------------------------------------------------------------------------------
(***************************************************************************)
(* The choice among the paths to a prefix.                                 *)
(***************************************************************************)

(* A list of accepted candidates, as a function of arrival numbers.          *)
IsList(list) ==
  /\ list = [i \in DOMAIN list |-> list[i]]
  /\ DOMAIN list \subseteq Nat
  /\ \A i \in DOMAIN list : list[i] \in Candidate /\ Accepted(list[i].adv)

(* The sum of hop costs that stops at a cap, for any number of hops: it is   *)
(* a cost again, and of a single hop that hop's, as far as the cap allows.   *)
Capped(n, cap) == IF n > cap THEN cap ELSE n

SumOfHops(cap, s) == FoldLeft(LAMBDA total, cf : Capped(total + cf, cap), 0, s)

LEMMA MaxOfNats ==
  ASSUME NEW n \in Nat, NEW t \in SUBSET (1 .. n), t # {}
  PROVE  Max(t) \in t
<1> DEFINE R == {n - i : i \in t}
<1>1. R \subseteq Nat /\ R # {}
  <2>1. \A i \in t : i \in 1 .. n
    OBVIOUS
  <2>2. \A i \in t : n - i \in Nat
    BY <2>1
  <2> QED  BY <2>2
<1>2. Min(R) \in R /\ \A y \in R : Min(R) <= y
  <2> HIDE DEF R
  <2> QED  BY <1>1, MinOfNats
<1>3. PICK x \in t : Min(R) = n - x
  BY <1>2
<1>4. \A y \in t : x >= y
  <2> SUFFICES ASSUME NEW y \in t PROVE x >= y
    OBVIOUS
  <2>1. n - x <= n - y
    BY <1>2, <1>3
  <2> QED  BY <2>1
<1> QED  BY <1>4 DEF Max

LEMMA SumOfHopsTyped ==
  ASSUME NEW cap \in Nat, NEW s \in Seq(Nat)
  PROVE  /\ SumOfHops(cap, s) \in 0 .. cap
         /\ Len(s) = 1 => SumOfHops(cap, s) = Capped(s[1], cap)
<1> DEFINE D == DOMAIN s
           P == SUBSET D
           Rest(t) == t \ {Max(t)}
           Step(h, t) == IF t = {} THEN 0 ELSE Capped(h[Rest(t)] + s[Max(t)], cap)
           All(h) == h = [t \in P |-> Step(h, t)]
           sum == CHOOSE h : All(h)
           Good(h, n) == /\ h \in [P -> 0 .. cap]
                         /\ \A t \in P : Cardinality(t) <= n => h[t] = Step(h, t)
<1>1. SumOfHops(cap, s) = sum[D]
  BY Zenon DEF SumOfHops, FoldLeft, MapThenFoldSet
<1>2. IsFiniteSet(D) /\ Cardinality(D) = Len(s) /\ Len(s) \in Nat /\ D = 1 .. Len(s)
  <2>1. D = 1 .. Len(s) /\ Len(s) \in Nat
    OBVIOUS
  <2>2. \A n \in Nat : IsFiniteSet(1 .. n) /\ Cardinality(1 .. n) = n
    <3> SUFFICES ASSUME NEW n \in Nat PROVE IsFiniteSet(1 .. n) /\ Cardinality(1 .. n) = n
      OBVIOUS
    <3>1. IsFiniteSet(1 .. n) /\ Cardinality(1 .. n) = IF 1 > n THEN 0 ELSE n - 1 + 1
      BY FS_Interval
    <3> QED  BY <3>1
  <2> QED  BY <2>1, <2>2
<1>3. \A t \in P : Cardinality(t) \in 0 .. Len(s) /\ (Cardinality(t) = 0 <=> t = {})
  <2> SUFFICES ASSUME NEW t \in P
               PROVE  Cardinality(t) \in 0 .. Len(s) /\ (Cardinality(t) = 0 <=> t = {})
    OBVIOUS
  <2>1. IsFiniteSet(t) /\ Cardinality(t) \in Nat /\ Cardinality(t) <= Len(s)
    BY <1>2, FS_Subset, FS_CardinalityType
  <2>2. Cardinality(t) = 0 <=> t = {}
    BY <2>1, FS_EmptySet
  <2> QED  BY <1>2, <2>1, <2>2
<1>4. \A t \in P : t # {} => /\ s[Max(t)] \in Nat /\ Max(t) \in t /\ Rest(t) \in P
                            /\ Cardinality(Rest(t)) = Cardinality(t) - 1
  <2> SUFFICES ASSUME NEW t \in P, t # {}
               PROVE  /\ s[Max(t)] \in Nat /\ Max(t) \in t /\ Rest(t) \in P
                      /\ Cardinality(Rest(t)) = Cardinality(t) - 1
    OBVIOUS
  <2>1. IsFiniteSet(t) /\ t \subseteq D
    BY <1>2, FS_Subset
  <2>2. Max(t) \in t /\ Max(t) \in D
    BY <1>2, <2>1, MaxOfNats
  <2>3. s[Max(t)] \in Nat
    BY <2>2
  <2>4. Cardinality(Rest(t)) = Cardinality(t) - 1
    BY <2>1, <2>2, FS_RemoveElement
  <2> QED  BY <2>1, <2>2, <2>3, <2>4
<1>5. D \in P /\ {} \in P
  OBVIOUS
<1>6. \A a \in 0 .. cap, b \in Nat : Capped(a + b, cap) \in 0 .. cap
  BY DEF Capped
<1>7. \A h, t : Step(h, t) = IF t = {} THEN 0 ELSE Capped(h[Rest(t)] + s[Max(t)], cap)
  OBVIOUS
<1> HIDE DEF D, P, Rest, Step
<1>8. ASSUME NEW h, NEW t \in P, t # {} => h[Rest(t)] \in 0 .. cap PROVE Step(h, t) \in 0 .. cap
  <2>1. CASE t = {}
    BY <1>7, <2>1
  <2>2. CASE t # {}
    <3>1. Capped(h[Rest(t)] + s[Max(t)], cap) \in 0 .. cap
      BY <1>4, <1>6, <1>8, <2>2
    <3> QED  BY <1>7, <2>2, <3>1
  <2> QED  BY <2>1, <2>2
<1>9. \E h : Good(h, Len(s))
  <2> DEFINE Bad == {n \in Nat : ~\E h : Good(h, n)}
  <2> SUFFICES ASSUME Bad # {} PROVE FALSE
    BY <1>2
  <2>1. PICK m \in Nat : (~\E h : Good(h, m)) /\ \A y \in Bad : m <= y
    <3>1. Bad \subseteq Nat
      OBVIOUS
    <3>2. Min(Bad) \in Bad /\ \A y \in Bad : Min(Bad) <= y
      <4> HIDE DEF Bad
      <4> QED  BY <3>1, MinOfNats
    <3> HIDE DEF Good
    <3> QED  BY <3>2
  <2>2. Good([t \in P |-> 0], 0)
    <3>1. \A t \in P : Cardinality(t) <= 0 => t = {}
      BY <1>3
    <3> QED  BY <1>7, <3>1
  <2>3. m # 0
    <3> HIDE DEF Good
    <3> QED  BY <2>1, <2>2
  <2>4. PICK g : Good(g, m - 1)
    <3>1. m - 1 \in Nat /\ ~(m <= m - 1)
      BY <2>3
    <3>2. m - 1 \notin Bad
      <4> HIDE DEF Bad
      <4> QED  BY <2>1, <3>1
    <3> HIDE DEF Good
    <3> QED  BY <3>1, <3>2
  <2>5. g \in [P -> 0 .. cap] /\ \A t \in P : Cardinality(t) <= m - 1 => g[t] = Step(g, t)
    BY <2>4
  <2> DEFINE h == [t \in P |-> IF Cardinality(t) <= m - 1 THEN g[t] ELSE Step(g, t)]
  <2>6. \A t \in P : Step(g, t) \in 0 .. cap
    BY <1>4, <1>8, <2>5
  <2>7. h \in [P -> 0 .. cap]
    BY <2>5, <2>6
  <2>8. ASSUME NEW t \in P, Cardinality(t) <= m PROVE h[t] = Step(h, t)
    <3>1. h[t] = Step(g, t)
      BY <2>5
    <3>2. CASE t = {}
      BY <1>7, <3>1, <3>2
    <3>3. CASE t # {}
      <4>1. Rest(t) \in P /\ Cardinality(Rest(t)) = Cardinality(t) - 1 /\ Cardinality(t) \in Nat
        BY <1>3, <1>4, <3>3
      <4>2. Cardinality(Rest(t)) <= m - 1
        BY <2>8, <4>1
      <4>3. h[Rest(t)] = g[Rest(t)]
        BY <4>1, <4>2
      <4> HIDE DEF h
      <4> QED  BY <1>7, <3>1, <3>3, <4>3
    <3> QED  BY <3>2, <3>3
  <2> HIDE DEF h
  <2>9. Good(h, m)
    BY <2>7, <2>8
  <2> HIDE DEF Good
  <2> QED  BY <2>1, <2>9
<1>10. All(sum)
  <2>1. PICK h : Good(h, Len(s))
    BY <1>9
  <2>2. \A t \in P : h[t] = Step(h, t)
    BY <1>2, <1>3, <2>1
  <2>3. All(h)
    BY <2>1, <2>2
  <2> HIDE DEF All
  <2> QED  BY <2>3
<1>11. \A t \in P : sum[t] = Step(sum, t)
  <2> HIDE DEF sum
  <2> QED  BY <1>10
<1> HIDE DEF sum, All, Good
<1>12. sum[D] \in 0 .. cap
  <2> DEFINE Bad == {Cardinality(t) : t \in {u \in P : sum[u] \notin 0 .. cap}}
  <2> SUFFICES ASSUME Bad # {} PROVE FALSE
    BY <1>5
  <2>1. Bad \subseteq Nat
    BY <1>2, <1>3
  <2>2. Min(Bad) \in Bad /\ \A y \in Bad : Min(Bad) <= y
    <3> HIDE DEF Bad
    <3> QED  BY <2>1, MinOfNats
  <2>3. PICK t \in P : sum[t] \notin 0 .. cap /\ \A y \in Bad : Cardinality(t) <= y
    BY <2>2
  <2>4. t # {} /\ sum[Rest(t)] \notin 0 .. cap
    BY <1>8, <1>11, <2>3
  <2>5. Rest(t) \in P /\ Cardinality(Rest(t)) = Cardinality(t) - 1 /\ Cardinality(t) \in Nat
    BY <1>2, <1>3, <1>4, <2>4
  <2>6. Cardinality(Rest(t)) \in Bad
    BY <2>4, <2>5
  <2> HIDE DEF Bad
  <2>7. Cardinality(t) <= Cardinality(t) - 1
    BY <2>3, <2>5, <2>6
  <2> QED  BY <2>5, <2>7
<1>13. ASSUME Len(s) = 1 PROVE sum[D] = Capped(s[1], cap)
  <2>1. D = {1}
    BY <1>2, <1>13
  <2>2. Max(D) = 1 /\ Rest(D) = {} /\ s[1] \in Nat
    <3>1. Max(D) \in D /\ s[Max(D)] \in Nat
      BY <1>4, <1>5, <2>1
    <3> QED  BY <2>1, <3>1 DEF Rest
  <2>3. sum[{}] = 0
    BY <1>5, <1>7, <1>11
  <2>4. sum[D] = Capped(sum[{}] + s[1], cap)
    BY <1>5, <1>7, <1>11, <2>1, <2>2
  <2> QED  BY <2>2, <2>3, <2>4
<1> QED  BY <1>1, <1>12, <1>13

LEMMA AccumulateTyped ==
  ASSUME NEW s \in Seq(Nat)
  PROVE  /\ Accumulate(s) \in 0 .. MaxCf
         /\ Len(s) = 1 => Accumulate(s) = Saturated(s[1])
<1>1. Accumulate(s) = SumOfHops(MaxCf, s)
  BY DEF Accumulate, SumOfHops, Saturated, Capped
<1>2. MaxCf \in Nat
  BY Bgp8Assumption
<1> QED  BY <1>1, <1>2, SumOfHopsTyped DEF Saturated, Capped

LEMMA TotalType ==
  ASSUME NEW c \in Candidate, NEW z \in 0 .. MaxCf
  PROVE  /\ AccumulatedCf(c) \in 0 .. MaxCf
         /\ Total(c, z) \in 0 .. MaxCf
         /\ Total(c, z) = Saturated(AccumulatedCf(c) + z)
<1>1. c.hops \in Seq(0 .. MaxCf)
  BY Bgp8Assumption DEF Candidate
<1>2. c.hops \in Seq(Nat)
  BY <1>1, Bgp8Assumption, SeqMonotonic
<1>3. AccumulatedCf(c) \in 0 .. MaxCf
  BY <1>2, AccumulateTyped DEF AccumulatedCf
<1> QED  BY <1>3, Bgp8Assumption DEF Total, Saturated

LEMMA CandidateTypes ==
  \A c \in Candidate : PathLength(c) \in Nat /\ c.adv.origin \in Nat
<1> SUFFICES ASSUME NEW c \in Candidate PROVE PathLength(c) \in Nat /\ c.adv.origin \in Nat
  OBVIOUS
<1>1. c.adv \in Adverts
  BY DEF Candidate
<1>2. c.adv.path \in Seq(Nat) /\ c.adv.origin \in Nat
  BY <1>1, Bgp8Assumption
<1> QED  BY <1>2 DEF PathLength

(* A measure into the naturals takes its least value.                        *)
LEMMA SomeLeast ==
  ASSUME NEW D, D # {}, NEW f, \A i \in D : f[i] \in Nat
  PROVE  \E a \in D : \A j \in D : f[a] <= f[j]
<1> DEFINE R == {f[i] : i \in D}
<1>1. R \subseteq Nat /\ R # {}
  OBVIOUS
<1>2. Min(R) \in R /\ \A y \in R : Min(R) <= y
  <2> HIDE DEF R
  <2> QED  BY <1>1, MinOfNats
<1>3. PICK a \in D : f[a] = Min(R)
  BY <1>2
<1> QED  BY <1>2, <1>3

(* Every path not chosen is no better, and not equal if it came first.       *)
LEMMA SelectLeast ==
  ASSUME NEW list, IsList(list), DOMAIN list # {}, NEW z \in 0 .. MaxCf
  PROVE  \E k \in DOMAIN list :
           /\ Select(list, z) = list[k]
           /\ \A j \in DOMAIN list : ~Better(list[j], list[k], z)
           /\ \A j \in DOMAIN list : j < k => Better(list[k], list[j], z)
<1> DEFINE S == DOMAIN list
           T(i) == Total(list[i], z)
           L(i) == PathLength(list[i])
           O(i) == list[i].adv.origin
<1>1. \A i \in S : T(i) \in Nat /\ L(i) \in Nat /\ O(i) \in Nat
  <2>1. \A i \in S : T(i) \in Nat
    BY TotalType, Bgp8Assumption DEF IsList
  <2> QED  BY <2>1, CandidateTypes DEF IsList
<1>2. Cheapest(list, z) = {i \in S : \A j \in S : T(i) <= T(j)}
  <2>1. {i \in S : ValidPrefix(list[i].adv)} = S
    BY DEF IsList, Accepted
  <2> QED  BY <2>1 DEF Cheapest, Least
<1>3. PICK a \in S : \A j \in S : T(a) <= T(j)
  <2> DEFINE f == [i \in S |-> T(i)]
  <2>1. S # {} /\ \A i \in S : f[i] \in Nat
    BY <1>1
  <2>2. PICK x \in S : \A j \in S : f[x] <= f[j]
    <3> HIDE DEF f
    <3> QED  BY <2>1, SomeLeast
  <2> QED  BY <2>2
<1>4. PICK b \in Cheapest(list, z) : \A j \in Cheapest(list, z) : L(b) <= L(j)
  <2> DEFINE f == [i \in Cheapest(list, z) |-> L(i)]
  <2>1. Cheapest(list, z) # {} /\ \A i \in Cheapest(list, z) : f[i] \in Nat
    BY <1>1, <1>2, <1>3
  <2>2. PICK x \in Cheapest(list, z) : \A j \in Cheapest(list, z) : f[x] <= f[j]
    <3> HIDE DEF f
    <3> QED  BY <2>1, SomeLeast
  <2> QED  BY <2>2
<1>5. Shortest(list, z) = {i \in Cheapest(list, z) : \A j \in Cheapest(list, z) : L(i) <= L(j)}
  BY DEF Shortest, Least
<1>6. PICK c \in Shortest(list, z) : \A j \in Shortest(list, z) : O(c) <= O(j)
  <2> DEFINE f == [i \in Shortest(list, z) |-> O(i)]
  <2>1. Shortest(list, z) # {} /\ \A i \in Shortest(list, z) : f[i] \in Nat
    BY <1>1, <1>2, <1>4, <1>5
  <2>2. PICK x \in Shortest(list, z) : \A j \in Shortest(list, z) : f[x] <= f[j]
    <3> HIDE DEF f
    <3> QED  BY <2>1, SomeLeast
  <2> QED  BY <2>2
<1>7. Lowest(list, z) = {i \in Shortest(list, z) : \A j \in Shortest(list, z) : O(i) <= O(j)}
  BY DEF Lowest, Least
<1>8. PICK k \in Lowest(list, z) : k = Min(Lowest(list, z)) /\ \A j \in Lowest(list, z) : k <= j
  <2>1. Lowest(list, z) \subseteq Nat /\ Lowest(list, z) # {}
    BY <1>2, <1>5, <1>6, <1>7 DEF IsList
  <2> QED  BY <2>1, MinOfNats
<1>9. k \in S /\ Select(list, z) = list[k]
  BY <1>2, <1>5, <1>7, <1>8 DEF Select
<1>10. ASSUME NEW j \in S
       PROVE  /\ T(k) <= T(j)
              /\ T(j) = T(k) => L(k) <= L(j)
              /\ T(j) = T(k) /\ L(j) = L(k) => O(k) <= O(j)
              /\ T(j) = T(k) /\ L(j) = L(k) /\ O(j) = O(k) => k <= j
  <2>1. T(k) <= T(j)
    BY <1>2, <1>5, <1>7, <1>8
  <2>2. ASSUME T(j) = T(k) PROVE j \in Cheapest(list, z)
    BY <2>2, <1>2, <1>5, <1>7, <1>8, SMTT(30)
  <2>3. T(j) = T(k) => L(k) <= L(j)
    BY <2>2, <1>5, <1>7, <1>8, SMTT(30)
  <2>4. ASSUME T(j) = T(k), L(j) = L(k) PROVE j \in Shortest(list, z)
    BY <2>2, <2>4, <1>5, <1>7, <1>8
  <2>5. T(j) = T(k) /\ L(j) = L(k) => O(k) <= O(j)
    BY <2>4, <1>7, <1>8, SMTT(30)
  <2>6. T(j) = T(k) /\ L(j) = L(k) /\ O(j) = O(k) => k <= j
    <3> SUFFICES ASSUME T(j) = T(k), L(j) = L(k), O(j) = O(k) PROVE k <= j
      BY SMTT(30)
    <3>1. j \in Lowest(list, z)
      BY <2>4, <1>7, <1>8
    <3> QED  BY <3>1, <1>8, SMTT(30)
  <2> QED  BY <2>1, <2>3, <2>5, <2>6
<1>11. ASSUME NEW j \in S PROVE ~Better(list[j], list[k], z)
  <2> USE DEF Better
  <2> HIDE DEF S
  <2>1. T(k) \in Nat /\ L(k) \in Nat /\ O(k) \in Nat /\ T(j) \in Nat /\ L(j) \in Nat /\ O(j) \in Nat
    BY <1>1, <1>9, <1>11
  <2> QED  BY <2>1, <1>10, <1>11
<1>12. ASSUME NEW j \in S, j < k PROVE Better(list[k], list[j], z)
  <2> USE DEF Better
  <2> HIDE DEF S
  <2>1. T(k) \in Nat /\ L(k) \in Nat /\ O(k) \in Nat /\ T(j) \in Nat /\ L(j) \in Nat /\ O(j) \in Nat
    BY <1>1, <1>9, <1>12
  <2>2. j \in Nat /\ k \in Nat
    BY <1>9 DEF IsList, S
  <2> QED  BY <2>1, <2>2, <1>10, <1>12
<1> QED  BY <1>9, <1>11, <1>12

(* What is kept in order and only grows at its end keeps its choice unless   *)
(* the choice is dropped or something better came last.                      *)
LEMMA ChoiceStays ==
  ASSUME NEW old, NEW new, IsList(old), IsList(new), NEW z \in 0 .. MaxCf,
         DOMAIN old # {}, DOMAIN new # {},
         \A i \in DOMAIN old \cap DOMAIN new : new[i] = old[i],
         \A i \in DOMAIN old, j \in DOMAIN new \ DOMAIN old : i < j
  PROVE  \/ Select(new, z) = Select(old, z)
         \/ Better(Select(new, z), Select(old, z), z)
         \/ \E k \in DOMAIN old \ DOMAIN new : Select(old, z) = old[k]
<1>1. PICK k \in DOMAIN old :
        /\ Select(old, z) = old[k]
        /\ \A j \in DOMAIN old : ~Better(old[j], old[k], z)
        /\ \A j \in DOMAIN old : j < k => Better(old[k], old[j], z)
  BY SelectLeast
<1>2. PICK m \in DOMAIN new :
        /\ Select(new, z) = new[m]
        /\ \A j \in DOMAIN new : ~Better(new[j], new[m], z)
        /\ \A j \in DOMAIN new : j < m => Better(new[m], new[j], z)
  BY SelectLeast
<1>3. CASE k \notin DOMAIN new
  BY <1>1, <1>3
<1>4. CASE k \in DOMAIN new /\ m \in DOMAIN old
  <2>1. k \in Nat /\ m \in Nat
    BY DEF IsList
  <2>2. ~(m < k) /\ ~(k < m)
    BY <1>1, <1>2, <1>4
  <2>3. k = m
    BY <2>1, <2>2
  <2> QED  BY <1>1, <1>2, <1>4, <2>3
<1>5. CASE k \in DOMAIN new /\ m \notin DOMAIN old
  BY <1>1, <1>2, <1>5
<1> QED  BY <1>3, <1>4, <1>5

Stamps(list) == DOMAIN list \subseteq 1 .. arrivals

ListsOK == \A p \in RibPrefixes : IsList(rib[p]) /\ Stamps(rib[p])

BgpIInv == BgpTypeOK /\ ListsOK

LEMMA EmptyList == IsList(NoPaths) /\ DOMAIN NoPaths = {} /\ Stamps(NoPaths)
BY DEF IsList, Stamps, NoPaths

(* What a step may make of a list: new has no entry that old has not, but    *)
(* for one that comes last, and what it lacks is gone with all of its origin. *)
Follows(old, new) ==
  /\ IsList(new)
  /\ DOMAIN new \subseteq DOMAIN old \cup {arrivals + 1}
  /\ \A i \in DOMAIN old \cap DOMAIN new : new[i] = old[i]
  /\ \A k \in DOMAIN old \ DOMAIN new :
       \A i \in DOMAIN new : new[i].adv.origin # old[k].adv.origin

LEMMA ArrivedList ==
  ASSUME NEW list, IsList(list), Stamps(list), arrivals \in Nat,
         NEW adv \in Adverts, NEW hops \in HopCosts, Accepted(adv)
  PROVE  Follows(list, Arrived(list, adv, hops))
<1> DEFINE c == [adv |-> adv, hops |-> hops]
           new == Arrived(list, adv, hops)
<1>1. arrivals + 1 \notin DOMAIN list
  BY DEF Stamps
<1>2. DOMAIN new = DOMAIN list \cup {arrivals + 1}
  BY DEF Arrived
<1>3. \A i \in DOMAIN list : new[i] = list[i]
  BY <1>1 DEF Arrived
<1>4. new[arrivals + 1] = c
  BY <1>1 DEF Arrived
<1>5. c \in Candidate /\ Accepted(c.adv)
  BY DEF Candidate
<1>6. new = [i \in DOMAIN new |-> new[i]]
  BY DEF Arrived
<1> HIDE DEF new, c
<1>7. \A i \in DOMAIN new : new[i] \in Candidate /\ Accepted(new[i].adv)
  BY <1>2, <1>3, <1>4, <1>5 DEF IsList
<1>8. DOMAIN new \subseteq Nat
  BY <1>2 DEF IsList
<1>9. Follows(list, new)
  BY <1>2, <1>3, <1>6, <1>7, <1>8 DEF Follows, IsList
<1> QED  BY <1>9 DEF new

LEMMA WithoutList ==
  ASSUME NEW list, IsList(list), NEW origin
  PROVE  Follows(list, WithoutOrigin(list, origin))
<1> DEFINE new == WithoutOrigin(list, origin)
<1>1. /\ DOMAIN new = {i \in DOMAIN list : list[i].adv.origin # origin}
      /\ \A i \in DOMAIN new : new[i] = list[i]
      /\ new = [i \in DOMAIN new |-> new[i]]
  BY DEF WithoutOrigin, Restrict
<1> HIDE DEF new
<1>2. Follows(list, new)
  BY <1>1 DEF Follows, IsList
<1> QED  BY <1>2 DEF new

(* One way to change a list: nothing, one more, one origin less, all gone.   *)
Grown(p) ==
  \E adv \in Adverts, hops \in HopCosts :
    /\ Accepted(adv)
    /\ rib'[p] = Arrived(rib[p], adv, hops)
    /\ arrivals' = arrivals + 1

Thinned(p) == \E origin : rib'[p] = WithoutOrigin(rib[p], origin)

LEMMA StepOfList ==
  ASSUME BgpIInv, [BgpNext]_bgpVars
  PROVE  /\ rib' = [p \in RibPrefixes |-> rib'[p]]
         /\ arrivals' \in Nat /\ arrivals <= arrivals'
         /\ intrazone' \in 0 .. MaxCf
         /\ \A p \in RibPrefixes :
              rib'[p] = rib[p] \/ Grown(p) \/ Thinned(p) \/ rib'[p] = NoPaths
<1>0. /\ rib = [p \in RibPrefixes |-> rib[p]]
      /\ arrivals \in Nat /\ intrazone \in 0 .. MaxCf
  BY DEF BgpIInv, BgpTypeOK
<1>1. CASE UNCHANGED bgpVars
  BY <1>0, <1>1 DEF bgpVars
<1>2. ASSUME NEW adv \in Adverts, NEW hops \in HopCosts, ReceiveAdvertisement(adv, hops)
      PROVE  /\ rib' = [p \in RibPrefixes |-> rib'[p]]
             /\ arrivals' \in Nat /\ arrivals <= arrivals'
             /\ intrazone' \in 0 .. MaxCf
             /\ \A p \in RibPrefixes : rib'[p] = rib[p] \/ Grown(p)
  <2>1. /\ Accepted(adv)
        /\ rib' = [rib EXCEPT ![adv.prefix] = Arrived(rib[adv.prefix], adv, hops)]
        /\ arrivals' = arrivals + 1
        /\ intrazone' = intrazone
    BY <1>2 DEF ReceiveAdvertisement
  <2> HIDE DEF Arrived
  <2>2. \A p \in RibPrefixes : rib'[p] = rib[p] \/ Grown(p)
    BY <1>0, <2>1 DEF Grown
  <2> QED  BY <1>0, <2>1, <2>2
<1>3. ASSUME NEW q \in RibPrefixes, NEW origin, Withdraw(q, origin)
      PROVE  /\ rib' = [p \in RibPrefixes |-> rib'[p]]
             /\ arrivals' = arrivals /\ intrazone' = intrazone
             /\ \A p \in RibPrefixes : rib'[p] = rib[p] \/ Thinned(p)
  <2>1. /\ rib' = [rib EXCEPT ![q] = WithoutOrigin(rib[q], origin)]
        /\ arrivals' = arrivals /\ intrazone' = intrazone
    BY <1>3 DEF Withdraw
  <2> QED  BY <1>0, <2>1 DEF Thinned
<1>4. ASSUME NEW value \in IntrazoneValues, SetIntrazone(value)
      PROVE  rib' = rib /\ arrivals' = arrivals /\ intrazone' \in 0 .. MaxCf
  BY <1>4, Bgp8Assumption DEF SetIntrazone
<1>5. CASE BgpClear
  BY <1>0, <1>5 DEF BgpClear
<1>6. CASE \E adv \in Adverts, hops \in HopCosts : ReceiveAdvertisement(adv, hops)
  BY <1>2, <1>6
<1>7. CASE \E q \in RibPrefixes, adv \in Adverts : Withdraw(q, adv.origin)
  BY <1>0, <1>3, <1>7
<1>8. CASE \E value \in IntrazoneValues : SetIntrazone(value)
  BY <1>0, <1>4, <1>8
<1> QED  BY <1>1, <1>5, <1>6, <1>7, <1>8 DEF BgpNext

(* So each list keeps its order, and entries go by origins.                   *)
ListMoves(p) ==
  /\ IsList(rib'[p]) /\ DOMAIN (rib'[p]) \subseteq 1 .. arrivals'
  /\ \A i \in DOMAIN (rib[p]) \cap DOMAIN (rib'[p]) : rib'[p][i] = rib[p][i]
  /\ \A i \in DOMAIN (rib[p]), j \in DOMAIN (rib'[p]) \ DOMAIN (rib[p]) : i < j
  /\ \A k \in DOMAIN (rib[p]) \ DOMAIN (rib'[p]) :
       \A i \in DOMAIN (rib'[p]) : rib'[p][i].adv.origin # rib[p][k].adv.origin

LEMMA ListStep ==
  ASSUME BgpIInv, [BgpNext]_bgpVars, NEW p \in RibPrefixes
  PROVE  ListMoves(p)
<1>0. /\ IsList(rib[p]) /\ DOMAIN (rib[p]) \subseteq 1 .. arrivals
      /\ arrivals \in Nat /\ arrivals' \in Nat /\ arrivals <= arrivals'
  BY StepOfList DEF BgpIInv, BgpTypeOK, ListsOK, Stamps
<1>1. CASE rib'[p] = rib[p]
  BY <1>0, <1>1 DEF ListMoves
<1>2. CASE rib'[p] = NoPaths
  BY <1>0, <1>2, EmptyList DEF Stamps, ListMoves
<1>3. ASSUME Follows(rib[p], rib'[p]),
             arrivals + 1 <= arrivals' \/ DOMAIN (rib'[p]) \subseteq DOMAIN (rib[p])
      PROVE  ListMoves(p)
  BY <1>0, <1>3 DEF Follows, ListMoves
<1>4. CASE Grown(p)
  <2>1. PICK adv \in Adverts, hops \in HopCosts :
          Accepted(adv) /\ rib'[p] = Arrived(rib[p], adv, hops) /\ arrivals' = arrivals + 1
    BY <1>4 DEF Grown
  <2>2. IsList(rib[p]) /\ Stamps(rib[p])
    BY <1>0 DEF Stamps
  <2>3. Follows(rib[p], Arrived(rib[p], adv, hops))
    BY <1>0, <2>1, <2>2, ArrivedList
  <2> QED  BY <1>0, <1>3, <2>1, <2>3
<1>5. CASE Thinned(p)
  <2>1. PICK origin : rib'[p] = WithoutOrigin(rib[p], origin)
    BY <1>5 DEF Thinned
  <2>2. Follows(rib[p], WithoutOrigin(rib[p], origin))
    BY <1>0, WithoutList
  <2>3. DOMAIN (rib'[p]) \subseteq DOMAIN (rib[p])
    BY <2>1 DEF WithoutOrigin, Restrict
  <2> QED  BY <1>3, <2>1, <2>2, <2>3
<1> QED  BY <1>1, <1>2, <1>4, <1>5, StepOfList

LEMMA TypeFromLists ==
  ASSUME NEW r, NEW n \in Nat, r = [p \in RibPrefixes |-> r[p]],
         \A p \in RibPrefixes : IsList(r[p]) /\ DOMAIN (r[p]) \subseteq 1 .. n
  PROVE  r \in [RibPrefixes -> UNION {[D -> Candidate] : D \in SUBSET (1 .. n)}]
<1> SUFFICES ASSUME NEW p \in RibPrefixes
             PROVE  r[p] \in UNION {[D -> Candidate] : D \in SUBSET (1 .. n)}
  OBVIOUS
<1>1. r[p] \in [DOMAIN (r[p]) -> Candidate]
  BY DEF IsList
<1> QED  BY <1>1

LEMMA BgpInvariant == BgpSpec => []BgpIInv
<1>1. BgpInit => BgpIInv
  <2> SUFFICES ASSUME BgpInit PROVE BgpIInv
    OBVIOUS
  <2>1. ListsOK
    BY EmptyList DEF BgpInit, ListsOK
  <2>2. arrivals \in Nat /\ intrazone \in 0 .. MaxCf /\ rib = [p \in RibPrefixes |-> rib[p]]
    BY Bgp8Assumption DEF BgpInit
  <2>3. BgpTypeOK
    BY <2>1, <2>2, TypeFromLists DEF BgpTypeOK, ListsOK, Stamps
  <2> QED  BY <2>1, <2>3 DEF BgpIInv
<1>2. BgpIInv /\ [BgpNext]_bgpVars => BgpIInv'
  <2> SUFFICES ASSUME BgpIInv, [BgpNext]_bgpVars PROVE BgpIInv'
    OBVIOUS
  <2>1. \A p \in RibPrefixes : IsList(rib'[p]) /\ DOMAIN (rib'[p]) \subseteq 1 .. arrivals'
    BY ListStep DEF ListMoves
  <2>2. rib' \in [RibPrefixes -> UNION {[D -> Candidate] : D \in SUBSET (1 .. arrivals')}]
    BY <2>1, StepOfList, TypeFromLists
  <2>3. BgpTypeOK'
    BY <2>2, StepOfList DEF BgpTypeOK
  <2>4. ListsOK'
    BY <2>1 DEF ListsOK, Stamps, IsList, Accepted, ValidPrefix
  <2> QED  BY <2>3, <2>4 DEF BgpIInv
<1> QED  BY <1>1, <1>2, PTL DEF BgpSpec

(* Whatever a router is told in whatever order, its choice gets worse only   *)
(* when nothing of the chosen path's origin is left.                         *)
THEOREM ChoiceWorsensOnlyByWithdrawal == BgpSpec => OnlyWithdrawalWorsens
<1>1. BgpIInv /\ [BgpNext]_bgpVars =>
        [\A p \in RibPrefixes :
           (Known(p) /\ intrazone' = intrazone) =>
             LET chosen == Select(rib[p], intrazone)
             IN  \/ \A i \in DOMAIN rib'[p] : rib'[p][i].adv.origin # chosen.adv.origin
                 \/ Select(rib'[p], intrazone) = chosen
                 \/ Better(Select(rib'[p], intrazone), chosen, intrazone)]_bgpVars
  <2> SUFFICES ASSUME BgpIInv, [BgpNext]_bgpVars, NEW p \in RibPrefixes,
                      Known(p), intrazone' = intrazone
               PROVE  LET chosen == Select(rib[p], intrazone)
                      IN  \/ \A i \in DOMAIN rib'[p] :
                               rib'[p][i].adv.origin # chosen.adv.origin
                          \/ Select(rib'[p], intrazone) = chosen
                          \/ Better(Select(rib'[p], intrazone), chosen, intrazone)
    OBVIOUS
  <2>1. IsList(rib[p]) /\ IsList(rib'[p])
    BY ListStep DEF BgpIInv, ListsOK, ListMoves
  <2>2. CASE DOMAIN (rib'[p]) = {}
    BY <2>2
  <2>3. CASE DOMAIN (rib'[p]) # {}
    <3>1. DOMAIN (rib[p]) # {}
      BY DEF Known
    <3>2. \/ Select(rib'[p], intrazone) = Select(rib[p], intrazone)
          \/ Better(Select(rib'[p], intrazone), Select(rib[p], intrazone), intrazone)
          \/ \E k \in DOMAIN (rib[p]) \ DOMAIN (rib'[p]) : Select(rib[p], intrazone) = rib[p][k]
      BY <2>1, <2>3, <3>1, ListStep, ChoiceStays DEF ListMoves, BgpIInv, BgpTypeOK
    <3>3. CASE \E k \in DOMAIN (rib[p]) \ DOMAIN (rib'[p]) : Select(rib[p], intrazone) = rib[p][k]
      BY <3>3, ListStep DEF ListMoves
    <3> QED  BY <3>2, <3>3
  <2> QED  BY <2>2, <2>3
<1> QED  BY <1>1, BgpInvariant, PTL DEF BgpSpec, OnlyWithdrawalWorsens

--------------------------------------------------------------------------------
(***************************************************************************)
(* What the zone adds to every path, at a router and on the board.         *)
(***************************************************************************)

LEMMA CheapestStay ==
  ASSUME NEW list, IsList(list), DOMAIN list # {}, NEW z \in 0 .. MaxCf,
         Total(Select(list, z), z) # MaxCf
  PROVE  Select(list, z) = Select(list, 0)
<1> DEFINE S == DOMAIN list
           A(i) == AccumulatedCf(list[i])
<1>1. 0 \in 0 .. MaxCf /\ MaxCf \in Nat
  BY Bgp8Assumption
<1>2. \A i \in S : /\ A(i) \in 0 .. MaxCf
                   /\ Total(list[i], z) = Saturated(A(i) + z)
                   /\ Total(list[i], 0) = A(i)
  <2> SUFFICES ASSUME NEW i \in S
               PROVE  /\ A(i) \in 0 .. MaxCf
                      /\ Total(list[i], z) = Saturated(A(i) + z)
                      /\ Total(list[i], 0) = A(i)
    OBVIOUS
  <2>1. list[i] \in Candidate
    BY DEF IsList
  <2>2. A(i) \in 0 .. MaxCf /\ Total(list[i], z) = Saturated(A(i) + z)
    BY <2>1, TotalType
  <2>3. Total(list[i], 0) = Saturated(A(i) + 0)
    BY <1>1, <2>1, TotalType
  <2> HIDE DEF A
  <2> QED  BY <1>1, <2>2, <2>3 DEF Saturated
<1>3. PICK k \in S : Select(list, z) = list[k] /\ \A j \in S : ~Better(list[j], list[k], z)
  BY SelectLeast
<1> HIDE DEF A
<1>4. \A j \in S : Saturated(A(k) + z) <= Saturated(A(j) + z)
  BY <1>1, <1>2, <1>3 DEF Better, Saturated
<1>5. A(k) + z < MaxCf
  BY <1>1, <1>2, <1>3 DEF Saturated
<1>6. \A j \in S : A(k) <= A(j) /\ (Saturated(A(j) + z) <= Saturated(A(k) + z) <=> A(j) = A(k))
  BY <1>1, <1>2, <1>4, <1>5 DEF Saturated
<1>7. \A i \in S : (\A j \in S : Total(list[i], z) <= Total(list[j], z)) <=> A(i) = A(k)
  <2> SUFFICES ASSUME NEW i \in S
               PROVE  (\A j \in S : Total(list[i], z) <= Total(list[j], z)) <=> A(i) = A(k)
    OBVIOUS
  <2>1. ASSUME \A j \in S : Total(list[i], z) <= Total(list[j], z) PROVE A(i) = A(k)
    BY <1>2, <1>6, <2>1
  <2>2. ASSUME A(i) = A(k), NEW j \in S PROVE Total(list[i], z) <= Total(list[j], z)
    BY <1>2, <1>4, <2>2
  <2> QED  BY <2>1, <2>2
<1>8. \A i \in S : (\A j \in S : Total(list[i], 0) <= Total(list[j], 0)) <=> A(i) = A(k)
  <2> SUFFICES ASSUME NEW i \in S
               PROVE  (\A j \in S : Total(list[i], 0) <= Total(list[j], 0)) <=> A(i) = A(k)
    OBVIOUS
  <2>1. A(i) <= A(k) => A(i) = A(k)
    BY <1>2, <1>6
  <2> QED  BY <1>2, <1>6, <2>1
<1>9. {i \in S : ValidPrefix(list[i].adv)} = S
  BY DEF IsList, Accepted
<1>10. Cheapest(list, z) = {i \in S : \A j \in S : Total(list[i], z) <= Total(list[j], z)}
  BY <1>9 DEF Cheapest, Least
<1>11. Cheapest(list, 0) = {i \in S : \A j \in S : Total(list[i], 0) <= Total(list[j], 0)}
  BY <1>9 DEF Cheapest, Least
<1>12. Cheapest(list, z) = Cheapest(list, 0)
  BY <1>7, <1>8, <1>10, <1>11
<1> QED  BY <1>12 DEF Select, Lowest, Shortest

LEMMA ZoneDecidesNothing == BgpIInv => NeutralUntilSaturated
<1> SUFFICES ASSUME BgpIInv, NEW p \in RibPrefixes, Known(p)
             PROVE  \/ Total(Select(rib[p], intrazone), intrazone) = MaxCf
                    \/ Select(rib[p], intrazone) = Select(rib[p], 0)
  BY DEF NeutralUntilSaturated
<1>1. IsList(rib[p]) /\ DOMAIN (rib[p]) # {} /\ intrazone \in 0 .. MaxCf
  BY DEF BgpIInv, ListsOK, BgpTypeOK, Known
<1> QED  BY <1>1, CheapestStay

(* The board: each path has one place in the order.                          *)
BoardIInv ==
  /\ paths \in [PathIds -> BoardEntry \cup {NoPath}]
  /\ order \in Seq(PathIds) /\ internal \in Int
  /\ \A id \in PathIds : paths[id] # NoPath <=> \E i \in 1 .. Len(order) : order[i] = id
  /\ \A i, j \in 1 .. Len(order) : order[i] = order[j] => i = j

LEMMA Divided ==
  ASSUME NEW a \in Nat, NEW b \in Nat, a <= b, NEW d \in Nat, d > 0
  PROVE  a \div d \in Nat /\ b \div d \in Nat /\ a \div d <= b \div d
BY SMTT(30)

LEMMA Times ==
  ASSUME NEW a \in Nat, NEW b \in Nat, a <= b, NEW c \in Nat
  PROVE  a * c \in Nat /\ b * c \in Nat /\ a * c <= b * c
BY SMTT(30)

LEMMA WeightedGrows ==
  ASSUME NEW e \in [Measures -> 0 .. Whole], NEW f \in [Measures -> 0 .. Whole],
         \A m \in Measures : e[m] <= f[m]
  PROVE  Weighted(e) \in Nat /\ Weighted(f) \in Nat /\ Weighted(e) <= Weighted(f)
<1>1. \A m \in Measures : e[m] \in Nat /\ f[m] \in Nat
  BY CfBoardAssumption
<1> QED  BY <1>1 DEF Weighted, Weight, Measures

LEMMA CostGrows ==
  ASSUME NEW e \in [Measures -> 0 .. Whole], NEW f \in [Measures -> 0 .. Whole],
         \A m \in Measures : e[m] <= f[m]
  PROVE  ComputeCf(e) \in Nat /\ ComputeCf(f) \in Nat /\ ComputeCf(e) <= ComputeCf(f)
<1>1. Weighted(e) \in Nat /\ Weighted(f) \in Nat /\ Weighted(e) <= Weighted(f)
  BY WeightedGrows
<1>2. MaxCf \in Nat /\ 100 * Whole \in Nat /\ 100 * Whole > 0
  BY Bgp8Assumption, CfBoardAssumption
<1> DEFINE a == Weighted(e) * MaxCf
           b == Weighted(f) * MaxCf
           d == 100 * Whole
<1>3. a \in Nat /\ b \in Nat /\ a <= b
  BY <1>1, <1>2, Times
<1>4. ComputeCf(e) = a \div d /\ ComputeCf(f) = b \div d /\ d \in Nat /\ d > 0
  BY <1>2 DEF ComputeCf
<1> HIDE DEF a, b, d
<1> QED  BY <1>3, <1>4, Divided

LEMMA EntryTyped ==
  ASSUME NEW m \in Measured PROVE PathEntry(m) \in BoardEntry /\ PathEntry(m) # NoPath
<1>1. m.parts \in [Measures -> 0 .. Whole] /\ m.hops \in Seq(0 .. MaxCf)
      /\ m.distance \in Nat /\ m.rtt \in Nat
  BY CfBoardAssumption
<1>2. m.hops \in Seq(Nat)
  BY <1>1, Bgp8Assumption, SeqMonotonic
<1>3. ComputeCf(m.parts) \in Nat
  BY <1>1, CostGrows, CfBoardAssumption
<1>4. <<ComputeCf(m.parts)>> \in Seq(Nat)
  BY <1>3
<1> DEFINE hops == IF m.hops = << >> THEN <<ComputeCf(m.parts)>> ELSE m.hops
<1>5. hops \in Seq(Nat)
  BY <1>2, <1>4
<1>6. PathEntry(m) = [parts |-> m.parts, distance |-> m.distance, rtt |-> m.rtt, hops |-> hops]
  BY DEF PathEntry
<1> HIDE DEF hops
<1> QED  BY <1>1, <1>5, <1>6, NoPathAssumption DEF BoardEntry

LEMMA OrderWithout ==
  ASSUME NEW s \in Seq(PathIds), NEW k \in 1 .. Len(s)
  PROVE  /\ RemoveAt(s, k) \in Seq(PathIds) /\ Len(RemoveAt(s, k)) = Len(s) - 1
         /\ \A j \in 1 .. Len(s) - 1 : RemoveAt(s, k)[j] = s[IF j < k THEN j ELSE j + 1]
<1> DEFINE head == SubSeq(s, 1, k - 1)
           tail == SubSeq(s, k + 1, Len(s))
<1>1. /\ head \in Seq(PathIds) /\ Len(head) = k - 1
      /\ \A j \in 1 .. k - 1 : head[j] = s[j]
  OBVIOUS
<1>2. /\ tail \in Seq(PathIds) /\ Len(tail) = Len(s) - k
      /\ \A j \in 1 .. Len(s) - k : tail[j] = s[k + j]
  OBVIOUS
<1>3. RemoveAt(s, k) = head \o tail
  BY DEF RemoveAt
<1>4. Len(s) \in Nat /\ k \in Nat /\ k <= Len(s)
  OBVIOUS
<1> HIDE DEF head, tail
<1> DEFINE m == Len(head)
           n == Len(tail)
<1>5. /\ head \o tail \in Seq(PathIds) /\ Len(head \o tail) = m + n
      /\ \A j \in 1 .. m + n :
           (head \o tail)[j] = IF j <= m THEN head[j] ELSE tail[j - m]
  <2>1. head \in Seq(PathIds) /\ tail \in Seq(PathIds)
    BY <1>1, <1>2
  <2> QED  BY <2>1, ConcatProperties
<1>6. m = k - 1 /\ n = Len(s) - k
  BY <1>1, <1>2
<1> HIDE DEF m, n
<1>7. /\ head \o tail \in Seq(PathIds) /\ Len(head \o tail) = (k - 1) + (Len(s) - k)
      /\ \A j \in 1 .. (k - 1) + (Len(s) - k) :
           (head \o tail)[j] = IF j <= k - 1 THEN head[j] ELSE tail[j - (k - 1)]
  BY <1>5, <1>6, Zenon
<1>8. ASSUME NEW j \in 1 .. Len(s) - 1
      PROVE  (head \o tail)[j] = s[IF j < k THEN j ELSE j + 1]
  <2>1. CASE j < k
    <3>1. j \in 1 .. k - 1 /\ j \in 1 .. (k - 1) + (Len(s) - k) /\ j <= k - 1
      BY <1>4, <2>1
    <3> QED  BY <1>1, <1>7, <2>1, <3>1
  <2>2. CASE ~(j < k)
    <3>1. /\ j - (k - 1) \in 1 .. Len(s) - k /\ j \in 1 .. (k - 1) + (Len(s) - k)
          /\ ~(j <= k - 1) /\ k + (j - (k - 1)) = j + 1
      BY <1>4, <2>2
    <3> QED  BY <1>2, <1>7, <2>2, <3>1
  <2> QED  BY <2>1, <2>2
<1>9. (k - 1) + (Len(s) - k) = Len(s) - 1
  BY <1>4
<1> QED  BY <1>3, <1>7, <1>8, <1>9

LEMMA BoardKeeps == BoardIInv /\ [BoardNext]_boardVars => BoardIInv'
<1> SUFFICES ASSUME BoardIInv, [BoardNext]_boardVars PROVE BoardIInv'
  OBVIOUS
<1>1. ASSUME NEW id \in PathIds, NEW m \in Measured, AddPath(id, m) PROVE BoardIInv'
  <2>1. /\ paths' \in [PathIds -> BoardEntry \cup {NoPath}] /\ internal' \in Int
        /\ \A i \in PathIds : paths'[i] # NoPath <=> i = id \/ paths[i] # NoPath
    BY <1>1, EntryTyped DEF AddPath, BoardIInv
  <2>2. CASE paths[id] = NoPath
    <3>1. order' = Append(order, id)
      BY <1>1, <2>2 DEF AddPath
    <3>2. /\ order' \in Seq(PathIds) /\ Len(order') = Len(order) + 1 /\ Len(order) \in Nat
          /\ order'[Len(order) + 1] = id
          /\ \A i \in 1 .. Len(order) : order'[i] = order[i] /\ order[i] # id
      BY <2>2, <3>1 DEF BoardIInv
    <3>3. \A i \in 1 .. Len(order') : i = Len(order) + 1 \/ i \in 1 .. Len(order)
      BY <3>2
    <3>4. 1 .. Len(order) \subseteq 1 .. Len(order') /\ Len(order) + 1 \in 1 .. Len(order')
      BY <3>2
    <3>5. \A i, j \in 1 .. Len(order') : order'[i] = order'[j] => i = j
      BY <3>2, <3>3 DEF BoardIInv
    <3>6. \A i \in PathIds : paths'[i] # NoPath <=> \E j \in 1 .. Len(order') : order'[j] = i
      <4> SUFFICES ASSUME NEW i \in PathIds
                   PROVE  paths'[i] # NoPath <=> \E j \in 1 .. Len(order') : order'[j] = i
        OBVIOUS
      <4>1. paths[i] # NoPath <=> \E j \in 1 .. Len(order) : order[j] = i
        BY DEF BoardIInv
      <4>2. (\E j \in 1 .. Len(order') : order'[j] = i)
              <=> i = id \/ \E j \in 1 .. Len(order) : order[j] = i
        BY <3>2, <3>3, <3>4
      <4> QED  BY <2>1, <4>1, <4>2
    <3> QED  BY <2>1, <3>2, <3>5, <3>6 DEF BoardIInv
  <2>3. CASE paths[id] # NoPath
    BY <1>1, <2>1, <2>3 DEF AddPath, BoardIInv
  <2> QED  BY <2>2, <2>3
<1>2. ASSUME NEW id \in PathIds, RemovePath(id) PROVE BoardIInv'
  <2> DEFINE k == PlaceOf(id)
  <2>1. k \in 1 .. Len(order) /\ order[k] = id
    <3>1. \E i \in 1 .. Len(order) : order[i] = id
      BY <1>2 DEF RemovePath, BoardIInv
    <3>2. DOMAIN order = 1 .. Len(order)
      BY DEF BoardIInv
    <3> QED  BY <3>1, <3>2 DEF PlaceOf
  <2>2. /\ paths' \in [PathIds -> BoardEntry \cup {NoPath}] /\ internal' \in Int
        /\ \A i \in PathIds : paths'[i] # NoPath <=> i # id /\ paths[i] # NoPath
    BY <1>2 DEF RemovePath, BoardIInv
  <2>3. order' = RemoveAt(order, k)
    BY <1>2 DEF RemovePath
  <2> HIDE DEF k
  <2>4. /\ order' \in Seq(PathIds) /\ Len(order') = Len(order) - 1
        /\ \A j \in 1 .. Len(order) - 1 : order'[j] = order[IF j < k THEN j ELSE j + 1]
    <3>1. order \in Seq(PathIds)
      BY DEF BoardIInv
    <3>2. /\ RemoveAt(order, k) \in Seq(PathIds) /\ Len(RemoveAt(order, k)) = Len(order) - 1
          /\ \A j \in 1 .. Len(order) - 1 :
               RemoveAt(order, k)[j] = order[IF j < k THEN j ELSE j + 1]
      BY <2>1, <3>1, OrderWithout
    <3> QED  BY <2>3, <3>2, Zenon
  <2>5. k \in Nat /\ Len(order) \in Nat
    BY <2>1 DEF BoardIInv
  <2>6. \A j \in 1 .. Len(order') : /\ (IF j < k THEN j ELSE j + 1) \in 1 .. Len(order)
                                   /\ (IF j < k THEN j ELSE j + 1) # k
    BY <2>1, <2>4, <2>5
  <2>7. \A i, j \in 1 .. Len(order') : order'[i] = order'[j] => i = j
    BY <2>4, <2>5, <2>6 DEF BoardIInv
  <2>8. ASSUME NEW i \in PathIds
        PROVE  (i # id /\ paths[i] # NoPath) <=> \E j \in 1 .. Len(order') : order'[j] = i
    <3>1. ASSUME i # id, paths[i] # NoPath PROVE \E j \in 1 .. Len(order') : order'[j] = i
      <4>1. PICK n \in 1 .. Len(order) : order[n] = i
        BY <3>1 DEF BoardIInv
      <4>2. n # k /\ n \in Nat
        BY <2>1, <3>1, <4>1
      <4> DEFINE j == IF n < k THEN n ELSE n - 1
      <4>3. j \in 1 .. Len(order') /\ (IF j < k THEN j ELSE j + 1) = n
        BY <2>1, <2>4, <2>5, <4>1, <4>2
      <4> HIDE DEF j
      <4> QED  BY <2>4, <4>1, <4>3
    <3>2. ASSUME NEW j \in 1 .. Len(order'), order'[j] = i PROVE i # id /\ paths[i] # NoPath
      <4> DEFINE n == IF j < k THEN j ELSE j + 1
      <4>1. n \in 1 .. Len(order) /\ n # k /\ order[n] = i
        BY <2>4, <2>6, <3>2
      <4> HIDE DEF n
      <4> QED  BY <2>1, <4>1 DEF BoardIInv
    <3> QED  BY <3>1, <3>2
  <2> QED  BY <2>2, <2>4, <2>7, <2>8 DEF BoardIInv
<1>3. ASSUME NEW value \in BoardIntrazones, SetBoardIntrazone(value) PROVE BoardIInv'
  <2>1. internal' \in Int
    BY <1>3, Bgp8Assumption, CfBoardAssumption DEF SetBoardIntrazone, Saturated
  <2> QED  BY <1>3, <2>1 DEF SetBoardIntrazone, BoardIInv
<1>4. CASE RunBenchmarks
  BY <1>4 DEF RunBenchmarks, BoardIInv
<1>5. CASE ClearBoard
  <2>1. Len(order') = 0 /\ order' \in Seq(PathIds)
    BY <1>5 DEF ClearBoard
  <2> QED  BY <1>5, <2>1 DEF ClearBoard, BoardIInv
<1>6. CASE UNCHANGED boardVars
  BY <1>6 DEF boardVars, BoardIInv
<1> QED  BY <1>1, <1>2, <1>3, <1>4, <1>5, <1>6 DEF BoardNext

LEMMA BoardInvariant == BoardSpec => []BoardIInv
<1>1. BoardInit => BoardIInv
  <2> SUFFICES ASSUME BoardInit PROVE BoardIInv
    OBVIOUS
  <2>1. Len(order) = 0 /\ order \in Seq(PathIds)
    BY DEF BoardInit
  <2> QED  BY <2>1, CfBoardAssumption DEF BoardInit, BoardIInv
<1> QED  BY <1>1, BoardKeeps, PTL DEF BoardSpec

(* What the board shows of a path.                                           *)
LEMMA ShownTyped ==
  ASSUME BoardIInv
  PROVE  /\ DOMAIN order = 1 .. Len(order) /\ Len(order) \in Nat
         /\ \A i \in DOMAIN order :
              /\ order[i] \in PathIds /\ paths[order[i]] \in BoardEntry
              /\ Accumulated(order[i]) \in 0 .. MaxCf
              /\ BoardTotal(order[i]) = Saturated(Accumulated(order[i]) + internal)
              /\ BoardTotal(order[i]) \in Int
<1>1. DOMAIN order = 1 .. Len(order) /\ Len(order) \in Nat
  BY DEF BoardIInv
<1>2. ASSUME NEW i \in DOMAIN order
      PROVE  /\ order[i] \in PathIds /\ paths[order[i]] \in BoardEntry
             /\ Accumulated(order[i]) \in 0 .. MaxCf
             /\ BoardTotal(order[i]) = Saturated(Accumulated(order[i]) + internal)
             /\ BoardTotal(order[i]) \in Int
  <2>1. order[i] \in PathIds
    BY DEF BoardIInv
  <2>2. paths[order[i]] \in BoardEntry
    BY <1>1, <2>1 DEF BoardIInv
  <2>3. paths[order[i]].hops \in Seq(Nat)
    BY <2>2 DEF BoardEntry
  <2>4. Accumulated(order[i]) \in 0 .. MaxCf
    BY <2>3, AccumulateTyped DEF Accumulated
  <2>5. BoardTotal(order[i]) = Saturated(Accumulated(order[i]) + internal)
    BY DEF BoardTotal
  <2> DEFINE a == Accumulated(order[i])
  <2> HIDE DEF a
  <2>6. a \in 0 .. MaxCf => Saturated(a + internal) \in Int
    BY Bgp8Assumption DEF BoardIInv, Saturated
  <2> QED  BY <2>1, <2>2, <2>4, <2>5, <2>6 DEF a
<1> QED  BY <1>1, <1>2

(* Every path too fast for its distance is counted once.                     *)
LEMMA AnomaliesCounted ==
  ASSUME BoardIInv
  PROVE  Cardinality(Anomalies) =
           Cardinality({id \in PathIds : paths[id] # NoPath /\ IsAnomaly(paths[id])})
<1> DEFINE ids == {id \in PathIds : paths[id] # NoPath /\ IsAnomaly(paths[id])}
           f == [i \in Anomalies |-> order[i]]
<1>1. DOMAIN order = 1 .. Len(order) /\ Len(order) \in Nat
  BY ShownTyped
<1>2. IsFiniteSet(Anomalies)
  <2>1. IsFiniteSet(1 .. Len(order))
    BY <1>1, FS_Interval
  <2> QED  BY <1>1, <2>1, FS_Subset DEF Anomalies
<1>3. ASSUME NEW i \in Anomalies PROVE order[i] \in ids
  BY <1>1 DEF Anomalies, BoardIInv
<1>4. ASSUME NEW id \in ids PROVE \E i \in Anomalies : order[i] = id
  BY <1>1 DEF Anomalies, BoardIInv
<1>5. \A i, j \in Anomalies : order[i] = order[j] => i = j
  BY <1>1 DEF Anomalies, BoardIInv
<1> HIDE DEF ids
<1>6. f \in Bijection(Anomalies, ids)
  <2>1. f \in [Anomalies -> ids]
    BY <1>3
  <2>2. f \in Injection(Anomalies, ids)
    BY <1>5, <2>1 DEF Injection, IsInjective
  <2>3. f \in Surjection(Anomalies, ids)
    BY <1>4, <2>1 DEF Surjection
  <2> QED  BY <2>2, <2>3 DEF Bijection
<1> HIDE DEF f
<1>7. ExistsBijection(Anomalies, ids)
  BY <1>6 DEF ExistsBijection
<1>8. Cardinality(ids) = Cardinality(Anomalies)
  BY <1>2, <1>7, FS_Bijection
<1> QED  BY <1>8 DEF ids

(* The first of some places.                                                  *)
LEMMA FirstOfPlaces ==
  ASSUME NEW S, S \subseteq Nat, S # {}
  PROVE  LET first == CHOOSE i \in S : \A j \in S : i <= j IN
         first \in S /\ \A j \in S : first <= j
<1>1. Min(S) \in S /\ \A j \in S : Min(S) <= j
  BY MinOfNats
<1> QED  BY <1>1

(* The best path is that of the first place none undercuts.                   *)
LEMMA BestPlace ==
  ASSUME BoardIInv, order # << >>
  PROVE  \E k \in DOMAIN order :
           /\ BestPath = order[k]
           /\ \A j \in DOMAIN order : BoardTotal(order[k]) <= BoardTotal(order[j])
           /\ \A j \in DOMAIN order : BoardTotal(order[j]) = BoardTotal(order[k]) => k <= j
<1> DEFINE D == DOMAIN order
           A(i) == Accumulated(order[i])
           T(i) == BoardTotal(order[i])
           least == {i \in D : \A j \in D : T(i) <= T(j)}
           k == CHOOSE i \in least : \A j \in least : i <= j
<1>1. D \subseteq Nat /\ D # {}
  <2>1. D = 1 .. Len(order) /\ Len(order) \in Nat
    BY ShownTyped
  <2>2. Len(order) # 0
    BY DEF BoardIInv
  <2> QED  BY <2>1, <2>2
<1>2. \A i \in D : A(i) \in 0 .. MaxCf /\ T(i) = Saturated(A(i) + internal) /\ T(i) \in Int
  BY ShownTyped
<1>3. PICK a \in D : \A j \in D : A(a) <= A(j)
  <2> DEFINE f == [i \in D |-> A(i)]
  <2>1. \A i \in D : f[i] \in Nat
    BY <1>2
  <2>2. PICK x \in D : \A j \in D : f[x] <= f[j]
    <3> HIDE DEF f
    <3> QED  BY <1>1, <2>1, SomeLeast
  <2> QED  BY <2>2
<1>4. BestPath = order[k]
  BY DEF BestPath
<1> HIDE DEF A, T, D
<1>5. MaxCf \in Nat /\ internal \in Int
  BY Bgp8Assumption DEF BoardIInv
<1>6. \A j \in D : T(a) <= T(j)
  BY <1>2, <1>3, <1>5 DEF Saturated
<1>7. least \subseteq Nat /\ least # {}
  BY <1>1, <1>6
<1> HIDE DEF least
<1>8. k \in least /\ \A j \in least : k <= j
  BY <1>7, FirstOfPlaces
<1> HIDE DEF k
<1>9. k \in D /\ \A j \in D : T(k) <= T(j)
  BY <1>8 DEF least
<1>10. \A j \in D : T(j) = T(k) => k <= j
  BY <1>8, <1>9 DEF least
<1> QED  BY <1>4, <1>9, <1>10 DEF T, D

LEMMA RanksBestFirst == ASSUME BoardIInv, order # << >> PROVE RankedPaths[1] = BestPath
<1> DEFINE D == DOMAIN order
           T(i) == BoardTotal(order[i])
           under(i) == {j \in D : Before(j, i)}
<1>1. D = 1 .. Len(order) /\ Len(order) \in Nat /\ \A i \in D : T(i) \in Int
  BY ShownTyped
<1>2. PICK k \in D : /\ BestPath = order[k]
                     /\ \A j \in D : T(k) <= T(j)
                     /\ \A j \in D : T(j) = T(k) => k <= j
  BY BestPlace
<1>3. \A i, j \in D : Before(j, i) <=> T(j) < T(i) \/ (T(j) = T(i) /\ j < i)
  BY DEF Before
<1>4. IsFiniteSet(D)
  BY <1>1, FS_Interval
<1> HIDE DEF T
<1>5. ASSUME NEW i \in D PROVE Cardinality(under(i)) = 1 - 1 <=> i = k
  <2>1. IsFiniteSet(under(i))
    BY <1>4, FS_Subset
  <2>2. Cardinality(under(i)) = 0 <=> under(i) = {}
    <3> HIDE DEF under
    <3> QED  BY <2>1, FS_EmptySet
  <2>3. i = k => under(i) = {}
    BY <1>1, <1>2, <1>3
  <2>4. i # k => k \in under(i)
    BY <1>1, <1>2, <1>3
  <2> HIDE DEF under
  <2> QED  BY <2>2, <2>3, <2>4
<1>6. 1 \in D
  BY <1>1, <1>2
<1> DEFINE place == CHOOSE i \in D : Cardinality(under(i)) = 1 - 1
<1>7. RankedPaths[1] = order[place]
  BY <1>6 DEF RankedPaths
<1> HIDE DEF under
<1>8. place = k
  BY <1>2, <1>5
<1> QED  BY <1>2, <1>7, <1>8

(* Short of saturation the zone's share moves no path past another.          *)
LEMMA BestMeasured ==
  ASSUME BoardIInv, order # << >>, BoardTotal(BestPath) # MaxCf
  PROVE  BestPath = SelectBestPath
<1> DEFINE D == DOMAIN order
           A(i) == Accumulated(order[i])
           T(i) == BoardTotal(order[i])
           leastT == {i \in D : \A j \in D : T(i) <= T(j)}
           leastA == {i \in D : \A j \in D : A(i) <= A(j)}
<1>1. \A i \in D : A(i) \in 0 .. MaxCf /\ T(i) = Saturated(A(i) + internal) /\ T(i) \in Int
  BY ShownTyped
<1>2. PICK k \in D : BestPath = order[k] /\ \A j \in D : T(k) <= T(j)
  BY BestPlace
<1>3. T(k) # MaxCf
  BY <1>2
<1>4. BestPath = order[CHOOSE i \in leastT : \A j \in leastT : i <= j]
  BY DEF BestPath
<1>5. SelectBestPath = order[CHOOSE i \in leastA : \A j \in leastA : i <= j]
  BY DEF SelectBestPath
<1>6. MaxCf \in Nat /\ internal \in Int
  BY Bgp8Assumption DEF BoardIInv
<1> HIDE DEF A, T, D
<1>7. A(k) + internal < MaxCf
  BY <1>1, <1>2, <1>3, <1>6 DEF Saturated
<1>8. \A j \in D : A(k) <= A(j) /\ (T(j) <= T(k) <=> A(j) = A(k))
  BY <1>1, <1>2, <1>6, <1>7 DEF Saturated
<1>9. \A i \in D : (\A j \in D : T(i) <= T(j)) <=> A(i) = A(k)
  <2>1. ASSUME NEW i \in D, \A j \in D : T(i) <= T(j) PROVE A(i) = A(k)
    BY <1>8, <2>1
  <2>2. ASSUME NEW i \in D, A(i) = A(k), NEW j \in D PROVE T(i) <= T(j)
    BY <1>1, <1>2, <2>2
  <2> QED  BY <2>1, <2>2
<1>10. \A i \in D : (\A j \in D : A(i) <= A(j)) <=> A(i) = A(k)
  <2>1. ASSUME NEW i \in D, \A j \in D : A(i) <= A(j) PROVE A(i) = A(k)
    <3>1. A(i) <= A(k) /\ A(k) <= A(i)
      BY <1>8, <2>1
    <3> QED  BY <1>1, <3>1
  <2>2. ASSUME NEW i \in D, A(i) = A(k), NEW j \in D PROVE A(i) <= A(j)
    BY <1>8, <2>2
  <2> QED  BY <2>1, <2>2
<1>11. leastT = leastA
  BY <1>9, <1>10
<1> QED  BY <1>4, <1>5, <1>11

LEMMA MeasuresRank ==
  ASSUME BoardIInv, NEW i \in DOMAIN order, NEW j \in DOMAIN order,
         NoWorse(paths[order[i]], paths[order[j]]),
         AsMeasured(paths[order[i]]), AsMeasured(paths[order[j]])
  PROVE  BoardTotal(order[i]) <= BoardTotal(order[j])
<1> DEFINE e == paths[order[i]]
           f == paths[order[j]]
           c == ComputeCf(e.parts)
           d == ComputeCf(f.parts)
<1>1. e \in BoardEntry /\ f \in BoardEntry
  BY ShownTyped
<1>2. c \in Nat /\ d \in Nat /\ c <= d
  BY <1>1, CostGrows DEF NoWorse, BoardEntry
<1>3. Accumulated(order[i]) = Accumulate(<<c>>) /\ Accumulated(order[j]) = Accumulate(<<d>>)
  BY DEF Accumulated, AsMeasured
<1> HIDE DEF c, d
<1>4. Accumulate(<<c>>) = Saturated(c) /\ Accumulate(<<d>>) = Saturated(d)
  <2>1. \A n \in Nat : <<n>> \in Seq(Nat) /\ Len(<<n>>) = 1 /\ <<n>>[1] = n
    OBVIOUS
  <2>2. \A n \in Nat : Accumulate(<<n>>) = Saturated(n)
    BY <2>1, AccumulateTyped
  <2> QED  BY <1>2, <2>2
<1>5. /\ BoardTotal(order[i]) = Saturated(Saturated(c) + internal)
      /\ BoardTotal(order[j]) = Saturated(Saturated(d) + internal)
  BY <1>3, <1>4, ShownTyped
<1>6. Saturated(Saturated(c) + internal) <= Saturated(Saturated(d) + internal)
  BY <1>2, Bgp8Assumption DEF Saturated, BoardIInv
<1> QED  BY <1>5, <1>6

LEMMA BoardRanks == BoardIInv => BoardRanksByCost
<1> SUFFICES ASSUME BoardIInv PROVE BoardRanksByCost
  OBVIOUS
<1>1. Summary.anomalies =
        Cardinality({id \in PathIds : paths[id] # NoPath /\ IsAnomaly(paths[id])})
  BY AnomaliesCounted DEF Summary
<1>2. ASSUME order # << >> PROVE RankedPaths[1] = Summary.best
  BY <1>2, RanksBestFirst DEF Summary
<1>3. ASSUME order # << >> PROVE BoardTotal(BestPath) = MaxCf \/ BestPath = SelectBestPath
  BY <1>3, BestMeasured
<1>4. ASSUME NEW i \in DOMAIN order, NEW j \in DOMAIN order,
             NoWorse(paths[order[i]], paths[order[j]]),
             AsMeasured(paths[order[i]]), AsMeasured(paths[order[j]])
      PROVE  Before(i, j) \/ (j < i /\ BoardTotal(order[i]) = BoardTotal(order[j])) \/ i = j
  <2>1. BoardTotal(order[i]) <= BoardTotal(order[j])
    BY <1>4, MeasuresRank
  <2>2. /\ i \in Nat /\ j \in Nat
        /\ BoardTotal(order[i]) \in Int /\ BoardTotal(order[j]) \in Int
    BY ShownTyped
  <2> DEFINE a == BoardTotal(order[i])
             b == BoardTotal(order[j])
  <2>3. Before(i, j) <=> a < b \/ (a = b /\ i < j)
    BY DEF Before
  <2> HIDE DEF a, b
  <2>4. a <= b /\ a \in Int /\ b \in Int
    BY <2>1, <2>2 DEF a, b
  <2> QED  BY <2>2, <2>3, <2>4 DEF a, b
<1> QED  BY <1>1, <1>2, <1>3, <1>4 DEF BoardRanksByCost

(* Whatever routes were announced and whatever paths were put on the board,  *)
(* the cost inside the zone changes neither the route a router selects nor   *)
(* the board's best path unless sums saturate; the board's best is first of  *)
(* its ranking, which follows the measures, and every path too fast for its  *)
(* distance is counted (bgp8.py, select_best; cf_dashboard.py,               *)
(* CFDashboardState).                                                        *)
THEOREM CostsDecideAlone == BgpSpec /\ BoardSpec => []CostsNeutral
<1>1. BgpIInv /\ BoardIInv => CostsNeutral
  BY ZoneDecidesNothing, BoardRanks DEF CostsNeutral
<1> QED  BY <1>1, BgpInvariant, BoardInvariant, PTL
--------------------------------------------------------------------------------
(***************************************************************************)
(* The registry's signatures.                                              *)
(***************************************************************************)
Signatures == [asn : ServerAsns, holder : Holders, key : SigningSecrets]

RollRecords ==
  [holder : Holders, active : BOOLEAN, anycast : BOOLEAN, signature : Signatures \cup {Unsigned}]

(* A record's signature is one that was made, and neither a reserved ASN nor *)
(* a route without its record is on the roll.                               *)
RollIInv ==
  /\ secret \in SigningSecrets \cup {NoSecret}
  /\ signatures \subseteq Signatures
  /\ roll \in [ServerAsns -> RollRecords \cup {Unregistered}]
  /\ DOMAIN routeRecords = ServerAsns
  /\ \A asn \in ServerAsns : roll[asn] # Unregistered =>
       roll[asn].signature \in signatures \cup {Unsigned}
  /\ \A asn \in ServerReserved : roll[asn] = Unregistered
  /\ \A asn \in ServerAsns : routeRecords[asn] # NoRouteRecord => roll[asn] # Unregistered

LEMMA SignatureTyped ==
  ASSUME NEW asn \in ServerAsns, NEW holder \in Holders, NEW key \in SigningSecrets
  PROVE  Signature(asn, holder, key) \in Signatures
BY DEF Signature, Signatures

LEMMA RecordPut ==
  ASSUME RollIInv, NEW asn \in ServerAsns \ ServerReserved, NEW record \in RollRecords,
         signatures \subseteq signatures', signatures' \subseteq Signatures,
         record.signature \in signatures' \cup {Unsigned},
         roll' = [roll EXCEPT ![asn] = record], UNCHANGED <<routeRecords, secret>>
  PROVE  RollIInv'
<1>1. record # Unregistered
  BY WhoisServerAssumption DEF RollRecords, Signatures
<1>2. roll' \in [ServerAsns -> RollRecords \cup {Unregistered}]
  BY DEF RollIInv
<1>3. roll'[asn] = record /\ \A other \in ServerAsns : other # asn => roll'[other] = roll[other]
  BY DEF RollIInv
<1>4. ASSUME NEW other \in ServerAsns, roll'[other] # Unregistered
      PROVE  roll'[other].signature \in signatures' \cup {Unsigned}
  BY <1>3, <1>4 DEF RollIInv
<1> QED  BY <1>1, <1>2, <1>3, <1>4, WhoisServerAssumption DEF RollIInv

LEMMA RollNext == RollIInv /\ [QueryNext]_queryVars => RollIInv'
<1> SUFFICES ASSUME RollIInv, [QueryNext]_queryVars PROVE RollIInv'
  OBVIOUS
<1>1. ASSUME NEW asn \in ServerAsns, NEW holder \in Holders, NEW active \in BOOLEAN,
             NEW anycast \in BOOLEAN, NEW signature \in signatures \cup {Unsigned},
             NEW record, record = RollRecord(holder, active, anycast, signature),
             RollRegister(asn, record) \/ RollRegisterSigning(asn, record)
      PROVE  RollIInv'
  <2>1. record \in RollRecords /\ record.signature = signature /\ record.holder = holder
    BY <1>1 DEF RollRecord, RollRecords, RollIInv
  <2>2. CASE RollRegister(asn, record)
    BY <2>1, <2>2, RecordPut DEF RollRegister, RollIInv
  <2>3. CASE RollRegisterSigning(asn, record)
    <3> DEFINE made == Signature(asn, holder, secret)
               signed == [record EXCEPT !.signature = made]
    <3>1. secret \in SigningSecrets /\ made \in Signatures
      BY <2>3, SignatureTyped DEF RollRegisterSigning, RollIInv
    <3>2. signed \in RollRecords /\ signed.signature = made
      BY <2>1, <3>1 DEF RollRecords
    <3>3. /\ roll' = [roll EXCEPT ![asn] = signed] /\ signatures' = signatures \cup {made}
          /\ asn \notin ServerReserved /\ UNCHANGED <<routeRecords, secret>>
      BY <2>1, <2>3 DEF RollRegisterSigning, SignRecord
    <3> HIDE DEF made, signed
    <3> QED  BY <3>1, <3>2, <3>3, RecordPut DEF RollIInv
  <2> QED  BY <1>1, <2>2, <2>3
<1>2. ASSUME NEW asn \in ServerAsns, NEW holder \in Holders, NEW key \in SigningSecrets,
             SignOutside(asn, holder, key)
      PROVE  RollIInv'
  <2>1. signatures' \subseteq Signatures /\ signatures \subseteq signatures'
    BY <1>2, SignatureTyped DEF SignOutside, SignRecord, RollIInv
  <2> QED  BY <1>2, <2>1 DEF SignOutside, RollIInv
<1>3. ASSUME NEW asn \in ServerAsns, NEW length, RollRegisterRoute(asn, length)
      PROVE  RollIInv'
  BY <1>3 DEF RollRegisterRoute, RollIInv
<1>4. ASSUME NEW asn \in ServerAsns, RollUnregister(asn)
      PROVE  RollIInv'
  <2>1. /\ roll' \in [ServerAsns -> RollRecords \cup {Unregistered}]
        /\ DOMAIN routeRecords' = ServerAsns
        /\ roll'[asn] = Unregistered /\ routeRecords'[asn] = NoRouteRecord
        /\ \A other \in ServerAsns : other # asn =>
             roll'[other] = roll[other] /\ routeRecords'[other] = routeRecords[other]
        /\ UNCHANGED <<secret, signatures>>
    BY <1>4 DEF RollUnregister, RollIInv
  <2> QED  BY <2>1, WhoisServerAssumption DEF RollIInv
<1>5. ASSUME NEW key \in SigningSecrets \cup {NoSecret}, SetSecret(key) PROVE RollIInv'
  BY <1>5 DEF SetSecret, RollIInv
<1>6. CASE UNCHANGED queryVars
  BY <1>6 DEF queryVars, RollIInv
<1> QED  BY <1>1, <1>2, <1>3, <1>4, <1>5, <1>6 DEF QueryNext

(* A bulk query of one ASN that is not on the roll gives no record.          *)
LEMMA BulkOfNone ==
  ASSUME NEW asn, roll[asn] = Unregistered
  PROVE  BulkQuery(<<asn>>).records = << >>
<1> DEFINE asns == <<asn>>
           Listing(f) == f = [n \in 0 .. Len(asns) |->
             IF n = 0 THEN << >>
             ELSE IF roll[asns[n]] = Unregistered THEN f[n - 1]
             ELSE Append(f[n - 1], roll[asns[n]])]
           none == [n \in 0 .. 1 |-> << >>]
           records == CHOOSE f : Listing(f)
<1>1. Len(asns) = 1 /\ asns[1] = asn
  OBVIOUS
<1>2. Listing(none)
  <2>1. \A n \in 0 .. 1 : n # 0 => n = 1 /\ n - 1 \in 0 .. 1
    OBVIOUS
  <2> QED  BY <1>1, <2>1
<1>3. BulkQuery(asns).records = records[1]
  BY <1>1 DEF BulkQuery
<1>4. Listing(records)
  <2> HIDE DEF Listing, none
  <2> QED  BY <1>2
<1> HIDE DEF records, asns
<1>5. records[0] = << >> /\ records[1] = records[0]
  BY <1>1, <1>4
<1> QED  BY <1>3, <1>5 DEF asns

(* Whatever is registered, copied, unregistered and signed, and however the *)
(* secret changes, RECORD_VERIFY confirms only what was signed for that ASN *)
(* with the secret in force, and no query gives a record for a reserved ASN *)
(* (whois8_proto.py, register_asn, handle_query and verify_signature).      *)
THEOREM ConfirmedWasSigned == QuerySpec => []VouchedWasSigned
<1>1. QueryInit => RollIInv
  BY WhoisServerAssumption DEF QueryInit, RollIInv
<1>2. RollIInv => VouchedWasSigned
  <2> SUFFICES ASSUME RollIInv, NEW asn \in ServerAsns
               PROVE  /\ RecordVerify(asn).code = "OK" /\ secret # NoSecret
                           => Signature(asn, RecordVerify(asn).record.holder, secret) \in signatures
                      /\ asn \in ServerReserved =>
                           /\ RecordVerify(asn).code = "NOT_FOUND"
                           /\ AnycastLookup(asn).code = "NOT_FOUND"
                           /\ BulkQuery(<<asn>>).records = << >>
                      /\ routeRecords[asn] # NoRouteRecord =>
                           \A length \in PrefixLengths : RouteValidate(asn, length).code # "NOT_FOUND"
    BY DEF VouchedWasSigned
  <2>1. ASSUME RecordVerify(asn).code = "OK", secret # NoSecret
        PROVE  Signature(asn, RecordVerify(asn).record.holder, secret) \in signatures
    <3>1. roll[asn] # Unregistered /\ RecordVerify(asn).record = roll[asn]
      BY <2>1 DEF RecordVerify, NoSuchAsn, Found
    <3>2. VerifySignature(asn, roll[asn])
      BY <2>1, <3>1 DEF RecordVerify, Found
    <3>3. roll[asn].holder \in Holders /\ roll[asn].signature \in signatures \cup {Unsigned}
      BY <3>1 DEF RollIInv, RollRecords
    <3>4. Signature(asn, roll[asn].holder, secret) # Unsigned
      BY <2>1, <3>3, SignatureTyped, WhoisServerAssumption DEF RollIInv, Signatures
    <3> QED  BY <3>1, <3>2, <3>3, <3>4 DEF VerifySignature
  <2>2. ASSUME asn \in ServerReserved
        PROVE  /\ RecordVerify(asn).code = "NOT_FOUND" /\ AnycastLookup(asn).code = "NOT_FOUND"
               /\ BulkQuery(<<asn>>).records = << >>
    <3>1. roll[asn] = Unregistered
      BY <2>2 DEF RollIInv
    <3> QED  BY <3>1, BulkOfNone DEF RecordVerify, AnycastLookup, NoSuchAsn
  <2>3. ASSUME routeRecords[asn] # NoRouteRecord, NEW length \in PrefixLengths
        PROVE  RouteValidate(asn, length).code # "NOT_FOUND"
    <3>1. roll[asn] # Unregistered
      BY <2>3 DEF RollIInv
    <3> QED  BY <3>1 DEF RouteValidate, Found
  <2> QED  BY <2>1, <2>2, <2>3
<1> QED  BY <1>1, <1>2, RollNext, PTL DEF QuerySpec

--------------------------------------------------------------------------------
(***************************************************************************)
(* Verdicts on addresses.  A table of rows gives the value of its first    *)
(* row that fits.                                                          *)
(***************************************************************************)
Fits(rows, i) == rows[i][1] /\ \A j \in 1 .. i - 1 : ~rows[j][1]

LEMMA FirstFitIs ==
  ASSUME NEW n \in Nat, NEW rows, DOMAIN rows = 1 .. n, NEW i \in 1 .. n, Fits(rows, i)
  PROVE  FirstFit(rows) = rows[i][2]
<1>1. ASSUME NEW k \in DOMAIN rows, Fits(rows, k) PROVE k = i
  BY <1>1 DEF Fits
<1>2. (CHOOSE k \in DOMAIN rows : Fits(rows, k)) = i
  BY <1>1
<1> QED  BY <1>2 DEF FirstFit, Fits

(* validate_prefix.                                                         *)
LEMMA ScopeRows ==
  ASSUME NEW a
  PROVE  Scope(a) =
    IF IsBroadcast(a) THEN "not-routable"
    ELSE IF IsMulticast(a) THEN "global"
    ELSE IF IsInternalZone(a) THEN "internal"
    ELSE IF IsPrivatePeeringAsn(a) THEN "private"
    ELSE IF IsDocumentationAsn(a) THEN "private"
    ELSE IF IsRinePrefix(a) THEN "peering"
    ELSE IF IsInteriorLink(a) THEN "internal"
    ELSE IF IsIntraAsnMulticast(a) THEN "local-only"
    ELSE IF IsIpv4Compatible(a) THEN "global"
    ELSE "global"
<1> DEFINE rows == <<
             <<IsBroadcast(a), "not-routable">>,
             <<IsMulticast(a), "global">>,
             <<IsInternalZone(a), "internal">>,
             <<IsPrivatePeeringAsn(a), "private">>,
             <<IsDocumentationAsn(a), "private">>,
             <<IsRinePrefix(a), "peering">>,
             <<IsInteriorLink(a), "internal">>,
             <<IsIntraAsnMulticast(a), "local-only">>,
             <<IsIpv4Compatible(a), "global">>,
             <<TRUE, "global">> >>
<1>1. DOMAIN rows = 1 .. 10
  OBVIOUS
<1>2. /\ rows[1][1] <=> IsBroadcast(a)
      /\ rows[2][1] <=> IsMulticast(a)
      /\ rows[3][1] <=> IsInternalZone(a)
      /\ rows[4][1] <=> IsPrivatePeeringAsn(a)
      /\ rows[5][1] <=> IsDocumentationAsn(a)
      /\ rows[6][1] <=> IsRinePrefix(a)
      /\ rows[7][1] <=> IsInteriorLink(a)
      /\ rows[8][1] <=> IsIntraAsnMulticast(a)
      /\ rows[9][1] <=> IsIpv4Compatible(a)
      /\ rows[10][1] <=> TRUE
  OBVIOUS
<1>3. /\ rows[1][2] = "not-routable"
      /\ rows[2][2] = "global"
      /\ rows[3][2] = "internal"
      /\ rows[4][2] = "private"
      /\ rows[5][2] = "private"
      /\ rows[6][2] = "peering"
      /\ rows[7][2] = "internal"
      /\ rows[8][2] = "local-only"
      /\ rows[9][2] = "global"
      /\ rows[10][2] = "global"
  OBVIOUS
<1>4. Scope(a) = FirstFit(rows)
  BY DEF Scope
<1> HIDE DEF rows
<1>5. ASSUME NEW i \in 1 .. 10, Fits(rows, i) PROVE Scope(a) = rows[i][2]
  BY <1>1, <1>4, <1>5, FirstFitIs
<1> QED  BY <1>2, <1>3, <1>5 DEF Fits

(* classify_address.                                                        *)
LEMMA RoutingRows ==
  ASSUME NEW a
  PROVE  ExternalRouting(a) =
    IF IsBroadcast(a) THEN "never"
    ELSE IF IsMulticast(a) THEN "global"
    ELSE IF IsInteropPrefix(a) THEN "private"
    ELSE IF IsInternalZone(a) THEN "never"
    ELSE IF IsRinePrefix(a) THEN "never"
    ELSE IF IsInteriorLink(a) THEN "never"
    ELSE IF IsPrivatePeeringAsn(a) THEN "private"
    ELSE IF IsDocumentationAsn(a) THEN "private"
    ELSE IF IsIpv4Compatible(a) THEN "ipv4-only"
    ELSE "global"
<1> DEFINE rows == <<
             <<IsBroadcast(a), "never">>,
             <<IsMulticast(a), "global">>,
             <<IsInteropPrefix(a), "private">>,
             <<IsInternalZone(a), "never">>,
             <<IsRinePrefix(a), "never">>,
             <<IsInteriorLink(a), "never">>,
             <<IsPrivatePeeringAsn(a), "private">>,
             <<IsDocumentationAsn(a), "private">>,
             <<IsIpv4Compatible(a), "ipv4-only">>,
             <<TRUE, "global">> >>
<1>1. DOMAIN rows = 1 .. 10
  OBVIOUS
<1>2. /\ rows[1][1] <=> IsBroadcast(a)
      /\ rows[2][1] <=> IsMulticast(a)
      /\ rows[3][1] <=> IsInteropPrefix(a)
      /\ rows[4][1] <=> IsInternalZone(a)
      /\ rows[5][1] <=> IsRinePrefix(a)
      /\ rows[6][1] <=> IsInteriorLink(a)
      /\ rows[7][1] <=> IsPrivatePeeringAsn(a)
      /\ rows[8][1] <=> IsDocumentationAsn(a)
      /\ rows[9][1] <=> IsIpv4Compatible(a)
      /\ rows[10][1] <=> TRUE
  OBVIOUS
<1>3. /\ rows[1][2] = "never"
      /\ rows[2][2] = "global"
      /\ rows[3][2] = "private"
      /\ rows[4][2] = "never"
      /\ rows[5][2] = "never"
      /\ rows[6][2] = "never"
      /\ rows[7][2] = "private"
      /\ rows[8][2] = "private"
      /\ rows[9][2] = "ipv4-only"
      /\ rows[10][2] = "global"
  OBVIOUS
<1>4. ExternalRouting(a) = FirstFit(rows)
  BY DEF ExternalRouting
<1> HIDE DEF rows
<1>5. ASSUME NEW i \in 1 .. 10, Fits(rows, i) PROVE ExternalRouting(a) = rows[i][2]
  BY <1>1, <1>4, <1>5, FirstFitIs
<1> QED  BY <1>2, <1>3, <1>5 DEF Fits

(* address_class.                                                           *)
LEMMA ClassRows ==
  ASSUME NEW a
  PROVE  ClassOf(a) =
    IF IsBroadcast(a) THEN "broadcast"
    ELSE IF IsMulticast(a) THEN "cross-asn-multicast"
    ELSE IF IsIntraAsnMulticast(a) THEN "intra-asn-multicast"
    ELSE IF IsIpv4Compatible(a) THEN "ipv4-compatible"
    ELSE IF IsInternalZone(a) THEN "internal-zone"
    ELSE IF IsRinePrefix(a) THEN "rine-peering"
    ELSE "asn-unicast"
<1> DEFINE rows == <<
             <<IsBroadcast(a), "broadcast">>,
             <<IsMulticast(a), "cross-asn-multicast">>,
             <<IsIntraAsnMulticast(a), "intra-asn-multicast">>,
             <<IsIpv4Compatible(a), "ipv4-compatible">>,
             <<IsInternalZone(a), "internal-zone">>,
             <<IsRinePrefix(a), "rine-peering">>,
             <<TRUE, "asn-unicast">> >>
<1>1. DOMAIN rows = 1 .. 7
  OBVIOUS
<1>2. /\ rows[1][1] <=> IsBroadcast(a)
      /\ rows[2][1] <=> IsMulticast(a)
      /\ rows[3][1] <=> IsIntraAsnMulticast(a)
      /\ rows[4][1] <=> IsIpv4Compatible(a)
      /\ rows[5][1] <=> IsInternalZone(a)
      /\ rows[6][1] <=> IsRinePrefix(a)
      /\ rows[7][1] <=> TRUE
  OBVIOUS
<1>3. /\ rows[1][2] = "broadcast"
      /\ rows[2][2] = "cross-asn-multicast"
      /\ rows[3][2] = "intra-asn-multicast"
      /\ rows[4][2] = "ipv4-compatible"
      /\ rows[5][2] = "internal-zone"
      /\ rows[6][2] = "rine-peering"
      /\ rows[7][2] = "asn-unicast"
  OBVIOUS
<1>4. ClassOf(a) = FirstFit(rows)
  BY DEF ClassOf
<1> HIDE DEF rows
<1>5. ASSUME NEW i \in 1 .. 7, Fits(rows, i) PROVE ClassOf(a) = rows[i][2]
  BY <1>1, <1>4, <1>5, FirstFitIs
<1> QED  BY <1>2, <1>3, <1>5 DEF Fits

(* multicast_type.                                                          *)
LEMMA MulticastRows ==
  ASSUME NEW a
  PROVE  MulticastType(a) =
    IF IsBroadcast(a) THEN "none"
    ELSE IF IsIntraAsnMulticast(a) THEN "intra-asn"
    ELSE IF ~IsMulticast(a) THEN "none"
    ELSE IF a.prefix = <<255, 255, 0, 0>> THEN "general"
    ELSE IF a.prefix \in ProtocolPrefixes THEN "protocol"
    ELSE "unknown"
<1> DEFINE rows == <<
             <<IsBroadcast(a), "none">>,
             <<IsIntraAsnMulticast(a), "intra-asn">>,
             <<~IsMulticast(a), "none">>,
             <<a.prefix = <<255, 255, 0, 0>>, "general">>,
             <<a.prefix \in ProtocolPrefixes, "protocol">>,
             <<TRUE, "unknown">> >>
<1>1. DOMAIN rows = 1 .. 6
  OBVIOUS
<1>2. /\ rows[1][1] <=> IsBroadcast(a)
      /\ rows[2][1] <=> IsIntraAsnMulticast(a)
      /\ rows[3][1] <=> ~IsMulticast(a)
      /\ rows[4][1] <=> a.prefix = <<255, 255, 0, 0>>
      /\ rows[5][1] <=> a.prefix \in ProtocolPrefixes
      /\ rows[6][1] <=> TRUE
  OBVIOUS
<1>3. /\ rows[1][2] = "none"
      /\ rows[2][2] = "intra-asn"
      /\ rows[3][2] = "none"
      /\ rows[4][2] = "general"
      /\ rows[5][2] = "protocol"
      /\ rows[6][2] = "unknown"
  OBVIOUS
<1>4. MulticastType(a) = FirstFit(rows)
  BY DEF MulticastType
<1> HIDE DEF rows
<1>5. ASSUME NEW i \in 1 .. 6, Fits(rows, i) PROVE MulticastType(a) = rows[i][2]
  BY <1>1, <1>4, <1>5, FirstFitIs
<1> QED  BY <1>2, <1>3, <1>5 DEF Fits

(* The resolver's answer.                                                   *)
LEMMA ListingRows ==
  ASSUME NEW known, NEW prefix
  PROVE  ListingStatus(known, prefix) =
    IF ReservedAsn(prefix) THEN "RESERVED_RANGE"
    ELSE IF known[prefix] = Unlisted THEN "UNKNOWN_ASN"
    ELSE IF known[prefix] = "inactive" THEN "EXPIRED"
    ELSE "VALID"
<1> DEFINE rows == <<
             <<ReservedAsn(prefix), "RESERVED_RANGE">>,
             <<known[prefix] = Unlisted, "UNKNOWN_ASN">>,
             <<known[prefix] = "inactive", "EXPIRED">>,
             <<TRUE, "VALID">> >>
<1>1. DOMAIN rows = 1 .. 4
  OBVIOUS
<1>2. /\ rows[1][1] <=> ReservedAsn(prefix)
      /\ rows[2][1] <=> known[prefix] = Unlisted
      /\ rows[3][1] <=> known[prefix] = "inactive"
      /\ rows[4][1] <=> TRUE
  OBVIOUS
<1>3. /\ rows[1][2] = "RESERVED_RANGE"
      /\ rows[2][2] = "UNKNOWN_ASN"
      /\ rows[3][2] = "EXPIRED"
      /\ rows[4][2] = "VALID"
  OBVIOUS
<1>4. ListingStatus(known, prefix) = FirstFit(rows)
  BY DEF ListingStatus
<1> HIDE DEF rows
<1>5. ASSUME NEW i \in 1 .. 4, Fits(rows, i) PROVE ListingStatus(known, prefix) = rows[i][2]
  BY <1>1, <1>4, <1>5, FirstFitIs
<1> QED  BY <1>2, <1>3, <1>5 DEF Fits


(* The kinds of prefix exclude each other.                                   *)
LEMMA Kinds ==
  ASSUME NEW a
  PROVE  /\ IsBroadcast(a) => IsMulticast(a)
         /\ IsMulticast(a) => /\ ~IsInternalZone(a) /\ ~IsRinePrefix(a) /\ ~IsPrivatePeeringAsn(a)
                              /\ ~IsDocumentationAsn(a) /\ ~IsIpv4Compatible(a)
         /\ IsInternalZone(a) => /\ ~IsRinePrefix(a) /\ ~IsPrivatePeeringAsn(a)
                                 /\ ~IsDocumentationAsn(a) /\ ~IsIpv4Compatible(a)
         /\ IsRinePrefix(a) => /\ ~IsPrivatePeeringAsn(a) /\ ~IsDocumentationAsn(a)
                               /\ ~IsIpv4Compatible(a)
         /\ IsPrivatePeeringAsn(a) => ~IsDocumentationAsn(a) /\ ~IsIpv4Compatible(a)
         /\ IsDocumentationAsn(a) => ~IsIpv4Compatible(a)
         /\ IsIntraAsnMulticast(a) => IsIpv4Compatible(a) /\ ~IsInteriorLink(a)
         /\ IsInteropPrefix(a) => IsInternalZone(a)
         /\ ReservedAsn(a.prefix) <=> \/ IsInternalZone(a) \/ IsRinePrefix(a)
                                      \/ IsPrivatePeeringAsn(a) \/ IsDocumentationAsn(a)
<1> USE DEF PeeringAsn, DocumentationAsn, ZeroOctets
<1>1. IsBroadcast(a) => IsMulticast(a)
  BY DEF IsBroadcast, IsMulticast
<1>2. IsMulticast(a) => a.prefix[1] = 255
  BY DEF IsMulticast
<1>3. IsInternalZone(a) <=> a.prefix[1] = 127
  BY DEF IsInternalZone
<1>4. IsRinePrefix(a) <=> a.prefix[1] = 100
  BY DEF IsRinePrefix
<1>5. IsPrivatePeeringAsn(a) => a.prefix[1] = 0 /\ a.prefix[4] = 254
  BY DEF IsPrivatePeeringAsn
<1>6. IsDocumentationAsn(a) => a.prefix[1] = 0 /\ a.prefix[4] = 253
  BY DEF IsDocumentationAsn
<1>7. IsIpv4Compatible(a) => a.prefix[1] = 0 /\ a.prefix[4] = 0
  BY DEF IsIpv4Compatible
<1>8. IsIntraAsnMulticast(a) => IsIpv4Compatible(a) /\ ~IsInteriorLink(a)
  BY DEF IsIntraAsnMulticast, IsInteriorLink
<1>9. IsInteropPrefix(a) => a.prefix[1] = 127
  BY DEF IsInteropPrefix
<1>10. ReservedAsn(a.prefix) <=> \/ IsInternalZone(a) \/ IsRinePrefix(a)
                                 \/ IsPrivatePeeringAsn(a) \/ IsDocumentationAsn(a)
  BY DEF ReservedAsn, IsInternalZone, IsRinePrefix, IsPrivatePeeringAsn, IsDocumentationAsn
<1> QED  BY <1>1, <1>2, <1>3, <1>4, <1>5, <1>6, <1>7, <1>8, <1>9, <1>10

LEMMA Protocols ==
  ASSUME NEW a, a.prefix \in ProtocolPrefixes
  PROVE  IsMulticast(a) /\ ~IsBroadcast(a) /\ a.prefix # <<255, 255, 0, 0>>
<1>1. PICK n \in 1 .. 5 : a.prefix = <<255, 255, 0, n>>
  BY DEF ProtocolPrefixes
<1>2. a.prefix[1] = 255 /\ a.prefix[2] = 255 /\ a.prefix[3] = 0 /\ a.prefix[4] = n
  BY <1>1
<1> QED  BY <1>2 DEF IsMulticast, IsBroadcast

(* Which sections a packet violates, one by one.                             *)
LEMMA EgressSections ==
  ASSUME NEW src, NEW dst
  PROVE  /\ EgressViolations(src, dst) \subseteq {"18.2", "18.3", "18.4", "12"}
         /\ "18.2" \in EgressViolations(src, dst) <=> IsInternalZone(src) \/ IsInternalZone(dst)
         /\ "18.3" \in EgressViolations(src, dst) <=> IsRinePrefix(src) \/ IsRinePrefix(dst)
         /\ "18.4" \in EgressViolations(src, dst) <=> IsInteriorLink(src) \/ IsInteriorLink(dst)
         /\ "12" \in EgressViolations(src, dst) <=> IsBroadcast(dst)
BY DEF EgressViolations

LEMMA IngressSections ==
  ASSUME NEW peer, NEW src, NEW dst
  PROVE  LET flagged == IngressViolations(peer, TRUE, src, dst) IN
         /\ flagged \subseteq {"18.1", "18.2", "18.3", "18.4", "18.6"}
         /\ "18.2" \in flagged <=> IsInternalZone(src) \/ IsInternalZone(dst)
         /\ "18.3" \in flagged <=> IsRinePrefix(src) \/ IsRinePrefix(dst)
         /\ "18.4" \in flagged <=> IsInteriorLink(src) \/ IsInteriorLink(dst)
         /\ "18.6" \in flagged <=> dst.prefix \in ProtocolPrefixes
         /\ IngressViolations(peer, FALSE, src, dst) = {}
BY DEF IngressViolations

LEMMA NeverLeavesAlways == ASSUME NEW src, NEW dst PROVE NeverLeaves(src, dst)
<1>1. ASSUME ExternalRouting(dst) = "never"
      PROVE  ~RoutableExternally(dst) /\ EgressViolations(src, dst) # {}
  BY <1>1, RoutingRows, ScopeRows, Kinds, EgressSections DEF RoutableExternally
<1>2. ASSUME EgressViolations(dst, dst) # {}
      PROVE  \/ ExternalRouting(dst) = "never" \/ IsInteropPrefix(dst)
             \/ IsMulticast(dst) /\ IsInteriorLink(dst)
  <2>1. IsInternalZone(dst) \/ IsRinePrefix(dst) \/ IsInteriorLink(dst) \/ IsBroadcast(dst)
    BY <1>2, EgressSections
  <2> QED  BY <2>1, RoutingRows, Kinds
<1>3. RoutableExternally(dst)
        <=> ExternalRouting(dst) \in {"global", "ipv4-only"} /\ ~IsIntraAsnMulticast(dst)
  BY RoutingRows, ScopeRows, Kinds DEF RoutableExternally
<1>4. RoutableExternally(dst) /\ ~IsMulticast(dst) => EgressViolations(dst, dst) = {}
  BY ScopeRows, Kinds, EgressSections DEF RoutableExternally
<1> QED  BY <1>1, <1>2, <1>3, <1>4 DEF NeverLeaves

LEMMA BothWaysAlways == ASSUME NEW src, NEW dst PROVE BothWays(src, dst)
<1>1. EgressViolations(src, dst) \ {"12"}
        = IngressViolations(PeerAsn, TRUE, src, dst) \ {"18.1", "18.6"}
  <2> DEFINE out == EgressViolations(src, dst)
             in == IngressViolations(PeerAsn, TRUE, src, dst)
  <2>1. /\ out \subseteq {"18.2", "18.3", "18.4", "12"}
        /\ "18.2" \in out <=> IsInternalZone(src) \/ IsInternalZone(dst)
        /\ "18.3" \in out <=> IsRinePrefix(src) \/ IsRinePrefix(dst)
        /\ "18.4" \in out <=> IsInteriorLink(src) \/ IsInteriorLink(dst)
    BY EgressSections
  <2>2. /\ in \subseteq {"18.1", "18.2", "18.3", "18.4", "18.6"}
        /\ "18.2" \in in <=> IsInternalZone(src) \/ IsInternalZone(dst)
        /\ "18.3" \in in <=> IsRinePrefix(src) \/ IsRinePrefix(dst)
        /\ "18.4" \in in <=> IsInteriorLink(src) \/ IsInteriorLink(dst)
    BY IngressSections
  <2> HIDE DEF out, in
  <2>3. out \ {"12"} = in \ {"18.1", "18.6"}
    BY <2>1, <2>2
  <2> QED  BY <2>3 DEF out, in
<1>2. ASSUME "18.6" \in IngressViolations(PeerAsn, TRUE, src, dst)
      PROVE  MulticastType(dst) = "protocol"
  <2>1. dst.prefix \in ProtocolPrefixes
    BY <1>2, IngressSections
  <2> QED  BY <2>1, Protocols, Kinds, MulticastRows
<1> QED  BY <1>1, <1>2, IngressSections DEF BothWays

LEMMA FiltersAgreeAlways == ASSUME NEW src, NEW dst PROVE FiltersAgree(src, dst)
<1>1. (\E a \in {src, dst} : RineDrops(a, "external")) <=> "18.3" \in EgressViolations(src, dst)
  BY EgressSections DEF RineDrops
<1>2. (\E a \in {src, dst} : LinkDrops(a)) <=> "18.4" \in EgressViolations(src, dst)
  BY EgressSections DEF LinkDrops
<1>3. CheckInteriorLinkEgress(dst) # {} =>
        ExternalRouting(dst) = "never" \/ IsMulticast(dst) \/ IsInteropPrefix(dst)
  BY RoutingRows, Kinds DEF CheckInteriorLinkEgress
<1> QED  BY <1>1, <1>2, <1>3 DEF FiltersAgree

LEMMA NamesAgreeAlways == ASSUME NEW dst PROVE NamesAgree(dst)
<1>1. ClassOf(dst) = "asn-unicast" <=> IsUnicast(dst)
  BY ClassRows, Kinds DEF IsUnicast
<1>2. RoutableBeyondAs(dst) => RoutableExternally(dst)
  BY MulticastRows, ScopeRows DEF RoutableBeyondAs, RoutableExternally
<1>3. ASSUME DeprecatedProtocol(dst)
      PROVE  RoutableBeyondAs(dst) /\ dst.prefix \in ProtocolPrefixes
  <2>1. dst.prefix \in ProtocolPrefixes
    BY <1>3 DEF DeprecatedProtocol, ProtocolPrefixes
  <2> QED  BY <2>1, Protocols, Kinds, MulticastRows DEF RoutableBeyondAs
<1>4. ASSUME IsUnicast(dst), NEW end \in 0 .. 1
      PROVE  LET link == InteriorLink(dst.prefix, 258)[end] IN
             InteriorLinkViolations(link) = {} /\ LinkDrops(link) /\ ~RoutableExternally(link)
  <2> DEFINE link == InteriorLink(dst.prefix, 258)[end]
  <2>1. link.prefix = dst.prefix /\ link.host[1] = 222
    BY DEF InteriorLink
  <2> HIDE DEF link
  <2>2. IsInteriorLink(link) /\ IsUnicast(link)
    BY <1>4, <2>1 DEF IsInteriorLink, IsUnicast, IsIpv4Compatible, IsInternalZone, IsRinePrefix,
                      IsBroadcast, IsMulticast
  <2>3. InteriorLinkViolations(link) = {}
    BY <2>2 DEF InteriorLinkViolations, IsUnicast
  <2>4. ~RoutableExternally(link)
    BY <2>2, ScopeRows DEF RoutableExternally, IsUnicast
  <2> QED  BY <2>2, <2>3, <2>4 DEF LinkDrops, link
<1> QED  BY <1>1, <1>2, <1>3, <1>4 DEF NamesAgree

LEMMA RegistryAgreesAlways ==
  ASSUME NEW dst, NEW length, ReservedAsn(dst.prefix) => listed[dst.prefix] = Unlisted
  PROVE  RegistryAgrees(dst, length)
<1>1. ASSUME ReservedAsn(dst.prefix) PROVE ~RoutableExternally(dst)
  BY <1>1, Kinds, ScopeRows DEF RoutableExternally
<1>2. ASSUME Scope(dst) \in {"private", "peering"}
      PROVE  DestinationStatus(listed, dst) = "RESERVED_RANGE"
  <2>1. ReservedAsn(dst.prefix) /\ ~IsIpv4Compatible(dst)
    BY <1>2, Kinds, ScopeRows
  <2> QED  BY <2>1, ListingRows DEF DestinationStatus
<1>3. CheckPrefixLength(<<dst.prefix, length>>) = {} <=> ~TooSpecific(length)
  BY DEF CheckPrefixLength, TooSpecific
<1>4. ASSUME RouteStatus(listed, dst.prefix, length) = "VALID"
      PROVE  DestinationStatus(listed, dst) = "VALID" /\ CheckPrefixLength(<<dst.prefix, length>>) = {}
  <2>1. ListingStatus(listed, dst.prefix) = "VALID" /\ ~TooSpecific(length)
    BY <1>4 DEF RouteStatus, TooSpecific
  <2> QED  BY <1>3, <2>1 DEF DestinationStatus
<1> QED  BY <1>1, <1>2, <1>3, <1>4 DEF RegistryAgrees

(* No reserved ASN gets on the list.                                         *)
BorderIInv ==
  /\ DOMAIN listed = AsPrefixes
  /\ \A p \in AsPrefixes : ReservedAsn(p) => listed[p] = Unlisted
  /\ judged # NoPacket =>
       judged \in [src : Sources, dst : Destinations, length : Lengths]

LEMMA BorderNextKeeps == BorderIInv /\ [BorderNext]_borderVars => BorderIInv'
<1> SUFFICES ASSUME BorderIInv, [BorderNext]_borderVars PROVE BorderIInv'
  OBVIOUS
<1>1. ASSUME NEW s \in Sources, NEW d \in Destinations, NEW n \in Lengths, JudgePacket(s, d, n)
      PROVE  BorderIInv'
  BY <1>1 DEF JudgePacket, BorderIInv
<1>2. CASE UNCHANGED listed /\ judged' = NoPacket
  BY <1>2 DEF BorderIInv
<1>3. CASE RegistryChanges
  <2>1. judged' = NoPacket
    BY <1>3 DEF RegistryChanges
  <2>2. ASSUME NEW p \in AsPrefixes, NEW state, ResolverRegister(p, state) PROVE BorderIInv'
    BY <2>1, <2>2 DEF ResolverRegister, WithRecord, BorderIInv
  <2>3. ASSUME NEW p \in AsPrefixes, ResolverUnregister(p) PROVE BorderIInv'
    BY <2>1, <2>3 DEF ResolverUnregister, BorderIInv
  <2> QED  BY <1>3, <2>2, <2>3 DEF RegistryChanges
<1>4. CASE UNCHANGED borderVars
  BY <1>4 DEF borderVars, BorderIInv
<1>5. ASSUME NEW a, NEW interface, RineFilterPacket(a, interface)
      PROVE  UNCHANGED listed /\ judged' = NoPacket
  BY <1>5 DEF RineFilterPacket
<1> QED
  BY <1>1, <1>2, <1>3, <1>4, <1>5
     DEF BorderNext, RineFilterAdvertisement, LinkFilter, FilterLength, ClearAlerts, Install,
         WithdrawPrefix

(* For every pair of addresses and every length, whatever was registered,   *)
(* dropped and cleared before, the verdicts of validate_prefix,             *)
(* classify_address, check_egress, the ingress filter, the RINE and link    *)
(* filters, the multicast types and the resolver fit each other             *)
(* (validation.py, addr_usage.py, security.py, multicast.py, whois8.py).    *)
THEOREM VerdictsFit == BorderSpec => []OneJudgement
<1>1. BorderInit => BorderIInv
  BY DEF BorderInit, EmptyRegistry, BorderIInv
<1>2. BorderIInv => OneJudgement
  <2> SUFFICES ASSUME BorderIInv, judged # NoPacket
               PROVE  /\ NeverLeaves(judged.src, judged.dst) /\ BothWays(judged.src, judged.dst)
                      /\ FiltersAgree(judged.src, judged.dst) /\ NamesAgree(judged.dst)
                      /\ RegistryAgrees(judged.dst, judged.length)
    BY DEF OneJudgement
  <2>1. judged.dst.prefix \in AsPrefixes
    BY BorderAssumption DEF BorderIInv
  <2>2. RegistryAgrees(judged.dst, judged.length)
    BY <2>1, RegistryAgreesAlways DEF BorderIInv
  <2> QED
    BY <2>2, NeverLeavesAlways, BothWaysAlways, FiltersAgreeAlways, NamesAgreeAlways
<1> QED  BY <1>1, <1>2, BorderNextKeeps, PTL DEF BorderSpec

--------------------------------------------------------------------------------
(***************************************************************************)
(* The full run.  What it starts from once the set-up and the destination  *)
(* are done, whatever was there; then what its steps find there.           *)
(***************************************************************************)
RunRegistry(p) ==
  IF p = Own THEN WithRecord(EmptyRegistry, Own, "active")
  ELSE WithRecord(WithRecord(EmptyRegistry, Own, "active"), p, "active")

RunTiers(p) == IF p = Own THEN <<RouteVia(Own)>> ELSE <<RouteVia(Own), RouteVia(p)>>

Ready(S, p) == Reachable(Registered(SetUp(Registered(S, p)), p), p)

ReadyFor(p) == Services(TRUE, PoolStart, RunRegistry(p), RunTiers(p))

RunEnd(S, c, p, t) == Permitted(Provisioned(Ready(S, p), c, t), c)

LEMMA SetUpForgets == ASSUME NEW S, NEW p PROVE Ready(S, p) = ReadyFor(p)
<1> DEFINE fresh == SetUp(Registered(S, p))
<1>1. fresh = Services(TRUE, PoolStart, WithRecord(EmptyRegistry, Own, "active"), <<RouteVia(Own)>>)
  BY DEF SetUp
<1>2. CASE p = Own
  BY <1>1, <1>2 DEF Ready, Registered, Reachable, ReadyFor, RunRegistry, RunTiers
<1>3. CASE p # Own
  <2> DEFINE first == WithRecord(EmptyRegistry, Own, "active")
             both == WithRecord(first, p, "active")
             none == [d \in ClientIds |-> NoLease]
             one == <<RouteVia(Own)>>
             two == <<RouteVia(Own), RouteVia(p)>>
  <2>1. fresh = [made |-> TRUE, next |-> PoolStart, leases |-> none, registry |-> first,
                 tiers |-> one, permitted |-> {}]
    BY <1>1 DEF Services
  <2>2. AddRoute(one, RouteVia(p)) = two
    <3> DEFINE x == RouteVia(Own)
               y == RouteVia(p)
    <3> HIDE DEF x, y
    <3>1. <<x>> \in Seq({x, y}) /\ Len(<<x>>) = 1 /\ <<x>>[1] = x
      OBVIOUS
    <3>2. Append(<<x>>, y) \in Seq({x, y}) /\ Len(Append(<<x>>, y)) = 2
          /\ Append(<<x>>, y)[1] = x /\ Append(<<x>>, y)[2] = y
      BY <3>1
    <3>3. <<x, y>> \in Seq({x, y}) /\ Len(<<x, y>>) = 2 /\ <<x, y>>[1] = x /\ <<x, y>>[2] = y
      OBVIOUS
    <3>4. \A i \in 1 .. 2 : Append(<<x>>, y)[i] = <<x, y>>[i]
      BY <3>2, <3>3
    <3>5. Append(<<x>>, y) = <<x, y>>
      BY <3>2, <3>3, <3>4, SeqEqual
    <3> QED  BY <3>5 DEF AddRoute, x, y
  <2>3. Registered(fresh, p) = [fresh EXCEPT !.registry = WithRecord(@, p, "active")]
    BY <1>3, <2>1 DEF Registered
  <2>4. Ready(S, p) = [Registered(fresh, p) EXCEPT !.tiers = AddRoute(@, RouteVia(p))]
    BY <1>3 DEF Ready, Reachable
  <2>5. both = WithRecord(first, p, "active")
    OBVIOUS
  <2>6. ReadyFor(p) = [made |-> TRUE, next |-> PoolStart, leases |-> none, registry |-> both,
                       tiers |-> two, permitted |-> {}]
    BY <1>3 DEF ReadyFor, Services, RunRegistry, RunTiers
  <2> HIDE DEF fresh, first, both, none, one, two
  <2>7. fresh.registry = first
    BY <2>1
  <2>8. Registered(fresh, p) = [fresh EXCEPT !.registry = both]
    BY <2>3, <2>5, <2>7
  <2>9. Registered(fresh, p) = [made |-> TRUE, next |-> PoolStart, leases |-> none,
                                registry |-> both, tiers |-> one, permitted |-> {}]
    BY <2>1, <2>8
  <2>10. Registered(fresh, p).tiers = one
    BY <2>9
  <2>11. Ready(S, p) = [Registered(fresh, p) EXCEPT !.tiers = two]
    <3>1. AddRoute(Registered(fresh, p).tiers, RouteVia(p)) = two
      BY <2>2, <2>10, Zenon
    <3> QED  BY <2>4, <3>1, Zenon
  <2>12. Ready(S, p) = [made |-> TRUE, next |-> PoolStart, leases |-> none, registry |-> both,
                        tiers |-> two, permitted |-> {}]
    <3> DEFINE r == Registered(fresh, p)
               q == Ready(S, p)
    <3>1. r = [made |-> TRUE, next |-> PoolStart, leases |-> none, registry |-> both,
               tiers |-> one, permitted |-> {}]
      BY <2>9
    <3>2. q = [r EXCEPT !.tiers = two]
      BY <2>11
    <3> HIDE DEF r, q
    <3>3. q = [made |-> TRUE, next |-> PoolStart, leases |-> none, registry |-> both,
               tiers |-> two, permitted |-> {}]
      BY <3>1, <3>2
    <3> QED  BY <3>3 DEF q
  <2> QED  BY <2>6, <2>12
<1> QED  BY <1>2, <1>3

(* The first client has the first address of the pool.                      *)
LEMMA RunEndIs ==
  ASSUME NEW S, NEW c \in ClientIds, NEW p, NEW t \in Nat
  PROVE  /\ ~NoneLeft(Ready(S, p), c, t)
         /\ RunEnd(S, c, p, t).made
         /\ RunEnd(S, c, p, t).registry = RunRegistry(p)
         /\ RunEnd(S, c, p, t).tiers = RunTiers(p)
         /\ c \in RunEnd(S, c, p, t).permitted
         /\ RunEnd(S, c, p, t).leases[c] = [octet |-> PoolStart, issuedAt |-> t]
<1> DEFINE ready == Ready(S, p)
           given == Provisioned(ready, c, t)
           lease == [octet |-> PoolStart, issuedAt |-> t]
<1>1. /\ ready.made /\ ready.next = PoolStart /\ ready.leases = [d \in ClientIds |-> NoLease]
      /\ ready.registry = RunRegistry(p) /\ ready.tiers = RunTiers(p) /\ ready.permitted = {}
  BY SetUpForgets DEF ReadyFor, Services
<1>2. ready = [made |-> TRUE, next |-> PoolStart, leases |-> [d \in ClientIds |-> NoLease],
               registry |-> RunRegistry(p), tiers |-> RunTiers(p), permitted |-> {}]
  BY SetUpForgets DEF ReadyFor, Services
<1> HIDE DEF ready
<1>3. ~HasLease(ready, c, t) /\ ~(ready.next > PoolEnd)
  BY <1>1, EndToEndAssumption DEF HasLease
<1>4. given = [ready EXCEPT !.next = PoolStart + 1, !.leases[c] = lease]
  BY <1>1, <1>3 DEF Provisioned
<1>5. /\ given.made /\ given.registry = RunRegistry(p) /\ given.tiers = RunTiers(p)
      /\ given.permitted = {} /\ given.leases[c] = lease
  BY <1>2, <1>4
<1>6. DOMAIN given = {"made", "next", "leases", "registry", "tiers", "permitted"}
  BY <1>2, <1>4
<1> HIDE DEF given
<1>7. RunEnd(S, c, p, t) = [given EXCEPT !.permitted = {c}]
  BY <1>5 DEF RunEnd, Permitted, given, ready
<1>8. /\ RunEnd(S, c, p, t).made /\ RunEnd(S, c, p, t).registry = RunRegistry(p)
      /\ RunEnd(S, c, p, t).tiers = RunTiers(p) /\ c \in RunEnd(S, c, p, t).permitted
      /\ RunEnd(S, c, p, t).leases[c] = lease
  BY <1>5, <1>6, <1>7
<1>9. ~NoneLeft(ready, c, t)
  BY <1>1, <1>3 DEF NoneLeft
<1> QED  BY <1>8, <1>9 DEF ready, lease

Passes(p) ==
  /\ LeaseDuration # 0
  /\ DestinationStatus(RunRegistry(p), HostAddress(p, 100)) = "VALID"
  /\ TwoTierFindRoute(RunTiers(p), << >>, HostAddress(p, 100)) # NoRoute
  /\ IngressViolations(Own, TRUE, HostAddress(Own, PoolStart), HostAddress(p, 100)) = {}

RunIInv ==
  /\ moment \in Nat
  /\ allPassed \in BOOLEAN
  /\ lastRun # NoRun =>
       /\ lastRun.dest \in AsPrefixes
       /\ lastRun.source = HostAddress(Own, PoolStart)
       /\ lastRun.failed = {} <=> Passes(lastRun.dest)
       /\ lastRun.passed <=> lastRun.before /\ lastRun.failed = {}
       /\ allPassed => lastRun.passed

LEMMA RunFinds ==
  ASSUME RunIInv, NEW c \in ClientIds, NEW p \in AsPrefixes, RunFullScenario(c, p)
  PROVE  RunIInv'
<1> DEFINE ready == Ready(services, p)
           last == RunEnd(services, c, p, moment)
           lease == last.leases[c]
           src == HostAddress(Own, lease.octet)
           dst == HostAddress(p, 100)
           early == {s \in {"dhcp8_provision", "oauth8_auth", "acl8_authorize"} :
                       CASE s = "dhcp8_provision" -> NoneLeft(ready, c, moment)
                         [] s = "oauth8_auth" -> NoToken(last)
                         [] s = "acl8_authorize" -> Denied(last, c)}
           late == {s \in {"whois8_validate", "routing", "ingress_filter"} :
                      lease # NoLease
                      /\ CASE s = "whois8_validate" -> Refused(last, dst)
                           [] s = "routing" -> NotFound(last, dst)
                           [] s = "ingress_filter" -> Stopped(last, src, dst)}
<1>1. /\ lastRun' = [dest |-> p, source |-> IF lease = NoLease THEN NoLease ELSE src,
                     before |-> allPassed, failed |-> early \cup late, passed |-> allPassed']
      /\ allPassed' = (allPassed /\ ~(early \cup late # {}))
      /\ moment' = moment
  BY Zenon DEF RunFullScenario, Note, RunEnd, Ready
<1>2. /\ ~NoneLeft(ready, c, moment) /\ last.made /\ last.registry = RunRegistry(p)
      /\ last.tiers = RunTiers(p) /\ c \in last.permitted
      /\ lease = [octet |-> PoolStart, issuedAt |-> moment]
  BY RunEndIs DEF RunIInv
<1>3. lease # NoLease /\ src = HostAddress(Own, PoolStart)
  <2>1. lease \in [octet : Nat, issuedAt : Nat] /\ lease.octet = PoolStart
    BY <1>2, EndToEndAssumption DEF RunIInv
  <2> QED  BY <2>1, EndToEndAssumption
<1>4. /\ "oauth8_auth" \in early <=> LeaseDuration = 0
      /\ early \subseteq {"oauth8_auth"}
  <2> HIDE DEF ready, last
  <2>1. NoToken(last) <=> LeaseDuration = 0
    BY <1>2 DEF NoToken
  <2>2. ~Denied(last, c)
    BY <1>2 DEF Denied
  <2> QED  BY <1>2, <2>1, <2>2
<1>5. /\ "whois8_validate" \in late <=> DestinationStatus(RunRegistry(p), dst) # "VALID"
      /\ "routing" \in late <=> TwoTierFindRoute(RunTiers(p), << >>, dst) = NoRoute
      /\ "ingress_filter" \in late <=> IngressViolations(Own, TRUE, src, dst) # {}
      /\ late \subseteq {"whois8_validate", "routing", "ingress_filter"}
  <2>1. /\ Refused(last, dst) <=> DestinationStatus(RunRegistry(p), dst) # "VALID"
        /\ NotFound(last, dst) <=> TwoTierFindRoute(RunTiers(p), << >>, dst) = NoRoute
        /\ Stopped(last, src, dst) <=> IngressViolations(Own, TRUE, src, dst) # {}
    <3> HIDE DEF last, src, dst
    <3> QED  BY <1>2 DEF Refused, NotFound, Stopped
  <2>2. /\ "whois8_validate" \in late <=> Refused(last, dst)
        /\ "routing" \in late <=> NotFound(last, dst)
        /\ "ingress_filter" \in late <=> Stopped(last, src, dst)
        /\ late \subseteq {"whois8_validate", "routing", "ingress_filter"}
    <3> HIDE DEF last, src, dst, lease
    <3> QED  BY <1>3
  <2> HIDE DEF late, last, src, dst
  <2> QED  BY <2>1, <2>2
<1> HIDE DEF early, late
<1>6. early \cup late = {} <=> /\ "oauth8_auth" \notin early /\ "whois8_validate" \notin late
                               /\ "routing" \notin late /\ "ingress_filter" \notin late
  BY <1>4, <1>5
<1>7. early \cup late = {} <=> Passes(p)
  BY <1>3, <1>4, <1>5, <1>6 DEF Passes
<1> HIDE DEF src, lease
<1>8. /\ lastRun'.dest = p /\ lastRun'.source = HostAddress(Own, PoolStart)
      /\ lastRun'.before = allPassed /\ lastRun'.failed = early \cup late
      /\ lastRun'.passed = allPassed'
  BY <1>1, <1>3
<1>9. allPassed' \in BOOLEAN /\ (allPassed' <=> allPassed /\ early \cup late = {})
  BY <1>1 DEF RunIInv
<1> QED  BY <1>1, <1>7, <1>8, <1>9 DEF RunIInv

LEMMA RunNext == RunIInv /\ [E2eNext]_e2eVars => RunIInv'
<1> SUFFICES ASSUME RunIInv, [E2eNext]_e2eVars PROVE RunIInv'
  OBVIOUS
<1>1. ASSUME NEW c \in ClientIds, NEW p \in AsPrefixes, RunFullScenario(c, p) PROVE RunIInv'
  BY <1>1, RunFinds
<1>2. ASSUME UNCHANGED <<moment, lastRun>>, allPassed' \in BOOLEAN, allPassed' => allPassed
      PROVE  RunIInv'
  BY <1>2 DEF RunIInv
<1>3. ASSUME NEW fails, Note(fails) PROVE allPassed' \in BOOLEAN /\ (allPassed' => allPassed)
  BY <1>3 DEF Note, RunIInv
<1>4. CASE SetupZone
  BY <1>2, <1>4 DEF SetupZone, RunIInv
<1>5. ASSUME NEW c \in ClientIds, ProvisionDevice(c) PROVE RunIInv'
  BY <1>2, <1>3, <1>5 DEF ProvisionDevice
<1>6. CASE Look
  <2>1. UNCHANGED <<moment, lastRun>> /\ \E fails : Note(fails)
    BY <1>6, Zenon DEF Look
  <2> QED  BY <1>2, <1>3, <2>1
<1>7. CASE E2eTick
  BY <1>7 DEF E2eTick, RunIInv
<1>8. CASE UNCHANGED e2eVars
  BY <1>2, <1>8 DEF e2eVars, RunIInv
<1> QED  BY <1>1, <1>4, <1>5, <1>6, <1>7, <1>8 DEF E2eNext

LEMMA RunRefuses ==
  ASSUME NEW p \in AsPrefixes
  PROVE  LET dst == HostAddress(p, 100) IN
         DestinationStatus(RunRegistry(p), dst) # "VALID" <=> ReservedAsn(p)
<1> DEFINE dst == HostAddress(p, 100)
<1>1. dst.prefix = p
  BY DEF HostAddress
<1> HIDE DEF dst
<1>2. IsIpv4Compatible(dst) => ~ReservedAsn(p)
  BY <1>1, Kinds
<1>3. ~ReservedAsn(p) => RunRegistry(p)[p] = "active"
  <2>1. /\ DOMAIN WithRecord(EmptyRegistry, Own, "active") = AsPrefixes
        /\ WithRecord(EmptyRegistry, Own, "active")[Own] = "active"
    BY EndToEndAssumption, SMTT(30) DEF WithRecord, EmptyRegistry
  <2> QED  BY <2>1 DEF RunRegistry, WithRecord
<1>4. ~ReservedAsn(p) => DestinationStatus(RunRegistry(p), dst) = "VALID"
  BY <1>1, <1>3, EndToEndAssumption, ListingRows DEF DestinationStatus
<1>5. ReservedAsn(p) => DestinationStatus(RunRegistry(p), dst) = "RESERVED_RANGE"
  BY <1>1, <1>2, ListingRows DEF DestinationStatus
<1> QED  BY <1>4, <1>5 DEF dst

LEMMA RunRoutes ==
  ASSUME NEW p \in AsPrefixes
  PROVE  LET dst == HostAddress(p, 100) IN
         TwoTierFindRoute(RunTiers(p), << >>, dst) = NoRoute <=> IsIpv4Compatible(dst)
<1> DEFINE dst == HostAddress(p, 100)
           tiers == RunTiers(p)
<1>1. dst.prefix = p /\ (IsIpv4Compatible(dst) <=> p = Zero)
  BY DEF HostAddress, IsIpv4Compatible, ZeroOctets, Zero
<1>2. Tier2Lookup(<< >>, dst.host) = NoRoute
  BY DEF Tier2Lookup, OrElse, First, Hits
<1>3. PICK i \in DOMAIN tiers : tiers[i] = [dest |-> p]
  <2>1. CASE p = Own
    <3>1. 1 \in DOMAIN tiers /\ tiers[1] = [dest |-> p]
      BY <2>1 DEF RunTiers, RouteVia
    <3> QED  BY <3>1
  <2>2. CASE p # Own
    <3>1. 2 \in DOMAIN tiers /\ tiers[2] = [dest |-> p]
      BY <2>2 DEF RunTiers, RouteVia
    <3> QED  BY <3>1
  <2> QED  BY <2>1, <2>2
<1>4. DOMAIN tiers \subseteq Nat /\ \A j \in DOMAIN tiers : tiers[j] \in {[dest |-> Own], [dest |-> p]}
  BY DEF RunTiers, RouteVia
<1> HIDE DEF dst, tiers
<1>5. Hits(tiers, p) # {} /\ Hits(tiers, p) \subseteq Nat
  BY <1>3, <1>4 DEF Hits
<1>6. Min(Hits(tiers, p)) \in Hits(tiers, p)
  BY <1>5, MinOfNats, SMTT(30)
<1>7. First(tiers, p) # NoRoute
  BY <1>4, <1>5, <1>6, EndToEndAssumption DEF First, Hits
<1>8. FindRoute(tiers, p) # NoRoute
  BY <1>7 DEF FindRoute, OrElse
<1>9. TwoTierFindRoute(tiers, << >>, dst) = NoRoute <=> p = Zero
  BY <1>1, <1>2, <1>8 DEF TwoTierFindRoute, OrElse
<1> QED  BY <1>1, <1>9 DEF dst, tiers

LEMMA AppendKeepsHead ==
  ASSUME NEW S, NEW net \in [1 .. 3 -> S], NEW octet
  PROVE  Append(net, octet)[1] = net[1]
<1>1. 3 \in Nat
  OBVIOUS
<1>2. net \in Seq(S)
  BY <1>1, SeqDef, Zenon
<1>3. Len(net) = 3
  BY <1>2
<1> QED  BY <1>2, <1>3

LEMMA RunStops ==
  ASSUME NEW p \in AsPrefixes
  PROVE  LET dst == HostAddress(p, 100) IN
         /\ IngressViolations(Own, TRUE, HostAddress(Own, PoolStart), dst) # {}
              <=> IsInternalZone(dst) \/ IsRinePrefix(dst) \/ p \in ProtocolPrefixes
         /\ ~IsInteriorLink(dst)
<1> DEFINE src == HostAddress(Own, PoolStart)
           dst == HostAddress(p, 100)
<1>1. src.prefix = Own /\ dst.prefix = p
  BY DEF HostAddress
<1>2. ~IsInteriorLink(src) /\ ~IsInteriorLink(dst)
  <2>1. Net \in [1 .. 3 -> 0 .. 255]
    BY EndToEndAssumption
  <2>2. \A octet : Append(Net, octet)[1] = Net[1]
    BY <2>1, AppendKeepsHead
  <2> QED  BY <2>2, EndToEndAssumption DEF IsInteriorLink, HostAddress
<1> HIDE DEF src, dst
<1>3. ~IsInternalZone(src) /\ ~IsRinePrefix(src)
  BY <1>1, EndToEndAssumption, Kinds
<1>4. "18.1" \notin IngressViolations(Own, TRUE, src, dst)
  BY <1>1 DEF IngressViolations
<1> DEFINE flagged == IngressViolations(Own, TRUE, src, dst)
<1>5. /\ flagged \subseteq {"18.1", "18.2", "18.3", "18.4", "18.6"}
      /\ "18.2" \in flagged <=> IsInternalZone(src) \/ IsInternalZone(dst)
      /\ "18.3" \in flagged <=> IsRinePrefix(src) \/ IsRinePrefix(dst)
      /\ "18.4" \in flagged <=> IsInteriorLink(src) \/ IsInteriorLink(dst)
      /\ "18.6" \in flagged <=> p \in ProtocolPrefixes
  BY <1>1, IngressSections
<1> HIDE DEF flagged
<1>6. flagged # {} <=> IsInternalZone(dst) \/ IsRinePrefix(dst) \/ p \in ProtocolPrefixes
  BY <1>2, <1>3, <1>4, <1>5 DEF flagged
<1> QED  BY <1>2, <1>6 DEF flagged, src, dst

(* For every destination prefix and whatever the scenario object did before: *)
(* what a full run adds to its result has no failure if and only if the      *)
(* validation of addresses lets the destination be routed - broadcast, IPv4  *)
(* and protocol multicasts apart - and the result it returns passes if and   *)
(* only if, besides, no step ever failed on the object (integration.py,      *)
(* run_full_scenario, IntegrationResult; validation.py).                     *)
THEOREM FullRunTells == E2eSpec => []RunTellsDestination
<1>1. E2eInit => RunIInv
  BY DEF E2eInit, RunIInv
<1>2. RunIInv => RunTellsDestination
  <2> SUFFICES ASSUME RunIInv, lastRun # NoRun PROVE RunTellsDestination
    BY DEF RunTellsDestination
  <2> DEFINE p == lastRun.dest
             dst == HostAddress(p, 100)
  <2>1. p \in AsPrefixes /\ (lastRun.failed = {} <=> Passes(p))
    BY DEF RunIInv
  <2>2. dst.prefix = p
    BY DEF HostAddress
  <2>3. Passes(p) <=> /\ LeaseDuration # 0 /\ ~ReservedAsn(p) /\ ~IsIpv4Compatible(dst)
                      /\ ~(IsInternalZone(dst) \/ IsRinePrefix(dst) \/ p \in ProtocolPrefixes)
    BY <2>1, RunRefuses, RunRoutes, RunStops DEF Passes
  <2>4. ~IsInteriorLink(dst)
    BY <2>1, RunStops
  <2> HIDE DEF dst
  <2>5. (/\ ~ReservedAsn(p) /\ ~IsIpv4Compatible(dst)
         /\ ~(IsInternalZone(dst) \/ IsRinePrefix(dst) \/ p \in ProtocolPrefixes))
          <=> Onward(dst)
    BY <2>2, <2>4, Kinds, Protocols, ScopeRows DEF RoutableExternally, Onward
  <2>6. \E octet \in PoolStart .. PoolEnd : lastRun.source = HostAddress(Own, octet)
    <3>1. PoolStart \in PoolStart .. PoolEnd
      BY EndToEndAssumption
    <3> QED  BY <3>1 DEF RunIInv
  <2>7. /\ lastRun.passed <=> lastRun.before /\ lastRun.failed = {}
        /\ allPassed => lastRun.passed
    BY DEF RunIInv
  <2> QED  BY <2>1, <2>3, <2>5, <2>6, <2>7 DEF RunTellsDestination, dst
<1> QED  BY <1>1, <1>2, RunNext, PTL DEF E2eSpec
================================================================================
