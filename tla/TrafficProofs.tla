------------------------------ MODULE TrafficProofs -----------------------------
(***************************************************************************)
(* Proofs about traffic control and telemetry, part by part: the buckets    *)
(* and the weighted share of Qos, the limiter and the windows of RateLimits, *)
(* the flow records of NetFlow8, the clients and collectors of NetLog8.     *)
(***************************************************************************)
EXTENDS MCTraffic, MinFacts, SequenceTheorems

(* The types without the queues.                                             *)
PolicerTypes ==
  /\ config \in [Classes -> Config]
  /\ bucket \in [Classes -> Bucket \cup {NoBucket}]
  /\ time \in Moments
  /\ sent \in [Classes -> [Moments -> Nat]]

(* A bucket that was used holds what is left of the allowance of the tightest *)
(* stretch that ends with its last use, and no more than any stretch leaves.  *)
Untouched(c) ==
  /\ bucket[c].tokens = config[c].burst
  /\ \A s \in Moments : sent[c][s] = 0

Grant(cfg, span) == cfg.burst + cfg.rate * span

Left(c, s) == Grant(config[c], bucket[c].last - s) - sent[c][s]

Used(c) ==
  /\ bucket[c].last \in 0 .. time
  /\ bucket[c].tokens <= config[c].burst
  /\ \A s \in 0 .. bucket[c].last : bucket[c].tokens <= Left(c, s)
  /\ \E s \in 0 .. bucket[c].last : bucket[c].tokens = Left(c, s)
  /\ \A s \in Moments : s > bucket[c].last => sent[c][s] = 0

Metered(c) ==
  IF bucket[c].last < 0 THEN Untouched(c) ELSE Used(c)

PolicerIInv ==
  /\ PolicerTypes
  /\ \A c \in Classes : bucket[c] # NoBucket => Metered(c)
  /\ PolicedOnlyWhenOver
  /\ verdict.code = "policed" => verdict.class \in Classes

LEMMA Product ==
  ASSUME NEW r \in Nat, NEW n \in Nat
  PROVE  n * r \in Nat /\ r * n \in Nat /\ n * r = r * n
OBVIOUS

LEMMA Stretch ==
  ASSUME NEW r \in Nat, NEW s \in Nat, NEW l \in Nat, NEW e \in Nat, s <= l, l <= e
  PROVE  /\ r * (e - s) = r * (l - s) + (e - l) * r
         /\ r * (l - s) \in Nat /\ (e - l) * r \in Nat
<1>1. e - l \in Nat /\ l - s \in Nat /\ e - s = (l - s) + (e - l)
  OBVIOUS
<1>2. \A m, n \in Nat : r * (m + n) = r * m + n * r
  OBVIOUS
<1>3. r * (e - s) = r * (l - s) + (e - l) * r
  BY <1>1, <1>2
<1> QED  BY <1>1, <1>3, Product

LEMMA PolicerBasics ==
  ASSUME PolicerTypes
  PROVE  /\ time \in Nat
         /\ \A c \in Classes :
              /\ config[c].rate \in Nat /\ config[c].burst \in Int
              /\ \A s \in Moments : sent[c][s] \in Nat
              /\ bucket[c] # NoBucket => bucket[c].tokens \in Nat /\ bucket[c].last \in Int
BY QosAssumption, SMTT(30) DEF PolicerTypes, Config, Bucket, Moments

(* Refilling: the bucket after refill, with nothing let in yet now.           *)
LEMMA RefillMeters ==
  ASSUME PolicerTypes, NEW c \in Classes, bucket[c] # NoBucket, Metered(c)
  PROVE  /\ Refilled(c) \in Bucket /\ Refilled(c).last = time
         /\ Refilled(c).tokens <= config[c].burst
         /\ \A s \in 0 .. time : Refilled(c).tokens <= Allowance(c, s) - sent[c][s]
         /\ \E s \in 0 .. time : Refilled(c).tokens = Allowance(c, s) - sent[c][s]
         /\ \A s \in Moments : s > time => sent[c][s] = 0
<1> DEFINE t == bucket[c].tokens
           l == bucket[c].last
           r == config[c].rate
           b == config[c].burst
<1>1. /\ time \in Nat /\ time \in Moments /\ r \in Nat /\ b \in Int /\ t \in Nat /\ l \in Int
      /\ \A s \in Moments : sent[c][s] \in Nat
      /\ \A s \in 0 .. time : s \in Moments
  BY PolicerBasics, QosAssumption DEF PolicerTypes, Moments
<1>2. \A s \in 0 .. time : Allowance(c, s) = b + r * (time - s) /\ r * (time - s) \in Nat
  BY <1>1 DEF Allowance
<1>0. Allowance(c, time) = b
  BY <1>1 DEF Allowance
<1>3. CASE l < 0
  <2>1. Refilled(c) = [tokens |-> t, last |-> time]
    BY <1>3 DEF Refilled
  <2>2. t = b /\ \A s \in Moments : sent[c][s] = 0
    BY <1>3 DEF Metered, Untouched
  <2>4. \A s \in 0 .. time : t <= Allowance(c, s) - sent[c][s]
    BY <1>1, <1>2, <2>2
  <2>5. t = Allowance(c, time) - sent[c][time] /\ time \in 0 .. time
    BY <1>0, <1>1, <2>2
  <2> QED  BY <1>1, <2>1, <2>2, <2>4, <2>5 DEF Bucket
<1>4. CASE ~(l < 0)
  <2> DEFINE g == t + (time - l) * r
  <2>1. /\ l \in 0 .. time /\ t <= b
        /\ \A s \in 0 .. l : t <= (b + r * (l - s)) - sent[c][s]
        /\ \E s \in 0 .. l : t = (b + r * (l - s)) - sent[c][s]
        /\ \A s \in Moments : s > l => sent[c][s] = 0
    <3>1. \A s \in 0 .. l : Left(c, s) = (b + r * (l - s)) - sent[c][s]
      BY DEF Left, Grant
    <3> HIDE DEF b, r, t
    <3>2. /\ l \in 0 .. time /\ bucket[c].tokens <= config[c].burst
          /\ \A s \in 0 .. l : bucket[c].tokens <= Left(c, s)
          /\ \E s \in 0 .. l : bucket[c].tokens = Left(c, s)
          /\ \A s \in Moments : s > l => sent[c][s] = 0
      BY <1>4 DEF Metered, Used
    <3> QED  BY <3>1, <3>2 DEF t, b
  <2>2. (time - l) * r \in Nat /\ g \in Nat
    <3>1. time - l \in Nat
      BY <1>1, <2>1
    <3> HIDE DEF l, r, t
    <3>2. (time - l) * r \in Nat
      BY <1>1, <3>1, Product
    <3> QED  BY <1>1, <3>2
  <2>3. Refilled(c) = [tokens |-> Smaller(g, b), last |-> time]
    BY <1>4 DEF Refilled
  <2>4. \A s \in 0 .. l : r * (time - s) = r * (l - s) + (time - l) * r /\ r * (l - s) \in Nat
    <3> HIDE DEF l, r, t
    <3> QED  BY <1>1, <2>1, Stretch
  <2> HIDE DEF t, l, r, b
  <2>5. Smaller(g, b) \in Nat /\ Smaller(g, b) <= b /\ Smaller(g, b) <= g /\ Smaller(g, b) \in {g, b}
    BY <1>1, <2>1, <2>2 DEF Smaller
  <2>6. \A s \in 0 .. time : Smaller(g, b) <= Allowance(c, s) - sent[c][s]
    <3> SUFFICES ASSUME NEW s \in 0 .. time
                 PROVE  Smaller(g, b) <= Allowance(c, s) - sent[c][s]
      OBVIOUS
    <3>1. CASE s <= l
      <4>1. t <= (b + r * (l - s)) - sent[c][s]
        BY <1>1, <2>1, <3>1
      <4>2. Allowance(c, s) = b + r * (l - s) + (time - l) * r
        BY <1>1, <1>2, <2>1, <2>4, <3>1
      <4> QED  BY <1>1, <2>1, <2>2, <2>4, <2>5, <3>1, <4>1, <4>2
    <3>2. CASE s > l
      <4>1. s \in Moments /\ sent[c][s] = 0 /\ time - s \in Nat
        BY <1>1, <1>2, <2>1, <3>2
      <4>2. r * (time - s) \in Nat
        BY <1>1, <4>1, Product
      <4>3. Allowance(c, s) = b + r * (time - s)
        BY <1>2
      <4> HIDE DEF g
      <4>4. Smaller(g, b) <= b + r * (time - s)
        BY <1>1, <2>5, <4>2
      <4> QED  BY <1>1, <2>5, <4>1, <4>2, <4>3, <4>4
    <3> QED  BY <1>1, <2>1, <3>1, <3>2
  <2>7. \E s \in 0 .. time : Smaller(g, b) = Allowance(c, s) - sent[c][s]
    <3>1. CASE Smaller(g, b) = g
      <4>1. PICK s \in 0 .. l : t = (b + r * (l - s)) - sent[c][s]
        BY <2>1
      <4>2. Allowance(c, s) = b + r * (l - s) + (time - l) * r /\ s \in 0 .. time
        BY <1>1, <1>2, <2>1, <2>4
      <4> QED  BY <1>1, <2>1, <2>2, <2>4, <3>1, <4>1, <4>2
    <3>2. CASE Smaller(g, b) = b /\ l < time
      <4>1. sent[c][time] = 0 /\ time \in 0 .. time
        BY <1>1, <2>1, <3>2
      <4> QED  BY <1>0, <1>1, <3>2, <4>1
    <3>3. CASE Smaller(g, b) = b /\ l = time
      <4>1. (time - l) * r = 0
        <5>1. time - l = 0 /\ \A x \in Nat : 0 * x = 0
          BY <1>1, <2>1, <3>3
        <5> QED  BY <1>1, <5>1
      <4>2. g = t
        BY <1>1, <4>1
      <4> QED  BY <1>1, <2>1, <2>5, <3>1, <3>3, <4>2
    <3>4. Smaller(g, b) = g \/ (Smaller(g, b) = b /\ l < time) \/ (Smaller(g, b) = b /\ l = time)
      <4>1. l < time \/ l = time
        BY <1>1, <2>1
      <4> QED  BY <2>5, <4>1
    <3> QED  BY ONLY <3>1, <3>2, <3>3, <3>4
  <2>8. \A s \in Moments : s > time => sent[c][s] = 0
    BY <1>1, <2>1 DEF Moments
  <2>9. Refilled(c) \in Bucket /\ Refilled(c).last = time /\ Refilled(c).tokens = Smaller(g, b)
    BY <1>1, <2>3, <2>5 DEF Bucket
  <2> QED  BY <1>1, <2>5, <2>6, <2>7, <2>8, <2>9 DEF b
<1> QED  BY <1>3, <1>4

LEMMA EnvelopeHolds == ASSUME PolicerIInv PROVE WithinEnvelope
<1> SUFFICES ASSUME NEW c \in Classes, bucket[c] # NoBucket, NEW s \in 0 .. time
             PROVE  sent[c][s] <= Allowance(c, s)
  BY DEF WithinEnvelope
<1>1. /\ Refilled(c).tokens \in Nat
      /\ Refilled(c).tokens <= Allowance(c, s) - sent[c][s]
  BY RefillMeters DEF PolicerIInv, Bucket
<1>2. /\ config[c].rate \in Nat /\ config[c].burst \in Int /\ sent[c][s] \in Nat
      /\ time - s \in Nat
  BY PolicerBasics, QosAssumption DEF PolicerIInv, PolicerTypes, Moments
<1>3. Allowance(c, s) \in Int
  BY <1>2, Product DEF Allowance
<1> QED  BY <1>1, <1>2, <1>3

LEMMA MeteredSame ==
  ASSUME PolicerTypes, NEW c \in Classes, bucket[c] # NoBucket, Metered(c), time' \in Nat, time <= time',
         config'[c] = config[c], bucket'[c] = bucket[c], sent'[c] = sent[c]
  PROVE  Metered(c)'
<1>1. time \in Nat /\ bucket[c].last \in Int
  BY PolicerBasics
<1>2. Untouched(c) => Untouched(c)'
  BY DEF Untouched
<1>3. \A s : Left(c, s)' = Left(c, s)
  BY DEF Left
<1>4. Used(c) => Used(c)'
  BY <1>1, <1>3 DEF Used
<1> QED  BY <1>2, <1>4 DEF Metered

LEMMA ConfiguredType ==
  ASSUME NEW o \in Options
  PROVE  Configured(o) \in Config /\ (o.rate > 0 => Configured(o).burst \in Nat)
<1>1. o.rate \in Nat /\ o.burst \in Int /\ o.weight \in Int /\ o.limit \in Nat
  BY QosAssumption
<1> QED  BY <1>1 DEF Configured, Config

LEMMA EnqueueMeters ==
  ASSUME PolicerIInv, NEW dscp, NEW size \in Sizes, Enqueue(dscp, size)
  PROVE  PolicerIInv'
<1> DEFINE c == Classify(dscp)
<1> USE DEF PolicerIInv
<1>1. c \in Classes /\ size \in Nat
  BY QosAssumption DEF Classify
<1> HIDE DEF c
<1>2. /\ time' = time /\ config' = config
      /\ Refuse(c, size) \/ Police(c, size) \/ Admit(c, size)
  BY DEF Enqueue, c
<1>3. \A s : Allowance(c, s)' = Allowance(c, s)
  BY <1>2 DEF Allowance
<1>4. /\ time \in Nat /\ time \in Moments
      /\ \A d \in Classes : \A s \in Moments : sent[d][s] \in Nat
      /\ \A s \in 0 .. time : s \in Moments
      /\ 0 .. time \subseteq Moments
  BY PolicerBasics, QosAssumption DEF PolicerTypes, Moments
<1>5. CASE Refuse(c, size)
  <2>1. bucket' = bucket /\ sent' = sent /\ verdict'.code = "full"
    BY <1>5 DEF Refuse, policerVars
  <2>2. PolicerTypes'
    BY <1>2, <2>1 DEF PolicerTypes
  <2>3. \A d \in Classes : bucket'[d] # NoBucket => Metered(d)'
    BY <1>2, <1>4, <2>1, MeteredSame
  <2> QED  BY <2>1, <2>2, <2>3 DEF PolicedOnlyWhenOver
<1>6. CASE Police(c, size)
  <2>1. /\ bucket' = [bucket EXCEPT ![c] = Refilled(c)] /\ sent' = sent
        /\ verdict' = [code |-> "policed", class |-> c, size |-> size]
        /\ bucket[c] # NoBucket /\ ~(Refilled(c).tokens >= size)
    BY <1>6 DEF Police, Affordable
  <2>2. /\ Refilled(c) \in Bucket /\ Refilled(c).last = time
        /\ Refilled(c).tokens <= config[c].burst
        /\ \A s \in 0 .. time : Refilled(c).tokens <= Allowance(c, s) - sent[c][s]
        /\ \E s \in 0 .. time : Refilled(c).tokens = Allowance(c, s) - sent[c][s]
        /\ \A s \in Moments : s > time => sent[c][s] = 0
    BY <1>1, <2>1, RefillMeters
  <2>3. PolicerTypes'
    BY <1>2, <2>1, <2>2 DEF PolicerTypes
  <2>4. ASSUME NEW d \in Classes, bucket'[d] # NoBucket PROVE Metered(d)'
    <3>1. CASE d # c
      <4>1. bucket'[d] = bucket[d]
        BY <2>1, <3>1 DEF PolicerTypes
      <4> QED  BY <1>2, <1>4, <2>1, <2>4, <4>1, MeteredSame
    <3>2. CASE d = c
      <4>1. bucket'[c] = Refilled(c)
        BY <1>1, <2>1 DEF PolicerTypes
      <4>2. \A s : Left(c, s)' = Allowance(c, s) - sent[c][s]
        <5>1. bucket'[c].last = time
          BY <2>2, <4>1
        <5>2. \A s : Allowance(c, s) = Grant(config[c], time - s)
          BY DEF Allowance, Grant
        <5> QED  BY <1>2, <2>1, <5>1, <5>2 DEF Left
      <4>3. Used(c)'
        BY <1>2, <1>4, <2>1, <2>2, <4>1, <4>2 DEF Used
      <4> QED  BY <1>4, <2>2, <3>2, <4>1, <4>3 DEF Metered
    <3> QED  BY <3>1, <3>2
  <2>5. PolicedOnlyWhenOver'
    <3>1. PICK s \in 0 .. time : Refilled(c).tokens = Allowance(c, s) - sent[c][s]
      BY <2>2
    <3>2. Allowance(c, s) \in Int
      <4>1. time - s \in Nat /\ config[c].rate \in Nat /\ config[c].burst \in Int
        BY <1>1, <1>4, PolicerBasics
      <4> QED  BY <4>1, Product DEF Allowance
    <3>3. sent[c][s] + size > Allowance(c, s)
      BY <1>1, <1>4, <2>1, <2>2, <3>1, <3>2 DEF Bucket
    <3>4. verdict'.class = c /\ verdict'.size = size
      BY <2>1
    <3> QED  BY <1>2, <1>3, <2>1, <3>3, <3>4 DEF PolicedOnlyWhenOver
  <2> QED  BY <1>1, <2>1, <2>3, <2>4, <2>5
<1>7. CASE Admit(c, size)
  <2>1. /\ verdict'.code = "queued"
        /\ bucket' = [bucket EXCEPT ![c] = IF bucket[c] = NoBucket THEN NoBucket
             ELSE [tokens |-> Refilled(c).tokens - size, last |-> time]]
        /\ sent' = [sent EXCEPT ![c] =
             [s \in Moments |-> IF s <= time THEN sent[c][s] + size ELSE sent[c][s]]]
        /\ bucket[c] # NoBucket => Refilled(c).tokens >= size
    BY <1>7 DEF Admit, Affordable
  <2>2. bucket[c] # NoBucket =>
          /\ Refilled(c) \in Bucket /\ Refilled(c).last = time
          /\ Refilled(c).tokens <= config[c].burst
          /\ \A s \in 0 .. time : Refilled(c).tokens <= Allowance(c, s) - sent[c][s]
          /\ \E s \in 0 .. time : Refilled(c).tokens = Allowance(c, s) - sent[c][s]
          /\ \A s \in Moments : s > time => sent[c][s] = 0
    BY <1>1, RefillMeters
  <2>3. sent' \in [Classes -> [Moments -> Nat]]
    <3>1. [s \in Moments |-> IF s <= time THEN sent[c][s] + size ELSE sent[c][s]] \in [Moments -> Nat]
      <4>1. \A s \in Moments : sent[c][s] + size \in Nat
        BY <1>1, <1>4
      <4> QED  BY <1>1, <1>4, <4>1
    <3> QED  BY <1>1, <2>1, <3>1 DEF PolicerTypes
  <2>4. bucket[c] # NoBucket =>
          /\ bucket'[c] = [tokens |-> Refilled(c).tokens - size, last |-> time]
          /\ bucket'[c] \in Bucket
    BY <1>1, <1>4, <2>1, <2>2 DEF PolicerTypes, Bucket
  <2>5. bucket[c] = NoBucket => bucket'[c] = NoBucket
    BY <1>1, <2>1 DEF PolicerTypes
  <2>6. \A d \in Classes : d # c => bucket'[d] = bucket[d] /\ sent'[d] = sent[d]
    BY <2>1 DEF PolicerTypes
  <2>7. bucket' \in [Classes -> Bucket \cup {NoBucket}]
    BY <1>1, <2>1, <2>4, <2>5, <2>6 DEF PolicerTypes
  <2>8. PolicerTypes'
    BY <1>2, <2>3, <2>7 DEF PolicerTypes
  <2>9. ASSUME NEW d \in Classes, bucket'[d] # NoBucket PROVE Metered(d)'
    <3>1. CASE d # c
      BY <1>2, <1>4, <2>6, <2>9, <3>1, MeteredSame
    <3>2. CASE d = c
      <4>1. bucket[c] # NoBucket
        BY <2>5, <2>9, <3>2
      <4>2. /\ bucket'[c].tokens = Refilled(c).tokens - size /\ bucket'[c].last = time
            /\ Refilled(c).tokens \in Nat /\ config[c].burst \in Int /\ config[c].rate \in Nat
        BY <1>1, <2>2, <2>4, <4>1, PolicerBasics DEF Bucket
      <4>3. \A s \in Moments : sent'[c][s] = IF s <= time THEN sent[c][s] + size ELSE sent[c][s]
        BY <1>1, <2>1 DEF PolicerTypes
      <4>4. \A s \in 0 .. time : Allowance(c, s) \in Int
        <5> SUFFICES ASSUME NEW s \in 0 .. time PROVE Allowance(c, s) \in Int
          OBVIOUS
        <5>1. time - s \in Nat
          BY <1>4
        <5> QED  BY <4>2, <5>1, Product DEF Allowance
      <4>5. \A s \in 0 .. time : Left(c, s)' = Allowance(c, s) - (sent[c][s] + size)
        <5> SUFFICES ASSUME NEW s \in 0 .. time
                     PROVE  Left(c, s)' = Allowance(c, s) - (sent[c][s] + size)
          OBVIOUS
        <5>1. sent'[c][s] = sent[c][s] + size
          BY <1>4, <4>3
        <5>2. bucket'[c].last = time
          BY <4>2
        <5>3. Allowance(c, s) = Grant(config[c], time - s)
          BY DEF Allowance, Grant
        <5> QED  BY <1>2, <5>1, <5>2, <5>3 DEF Left
      <4>6. \A s \in 0 .. time : bucket'[c].tokens <= Left(c, s)'
        BY <1>1, <1>4, <2>2, <4>1, <4>2, <4>4, <4>5
      <4>7. \E s \in 0 .. time : bucket'[c].tokens = Left(c, s)'
        <5>1. PICK s \in 0 .. time : Refilled(c).tokens = Allowance(c, s) - sent[c][s]
          BY <2>2, <4>1
        <5>2. bucket'[c].tokens = Left(c, s)'
          BY <1>1, <1>4, <4>2, <4>4, <4>5, <5>1
        <5> QED  BY <5>2
      <4>8. \A s \in Moments : s > time => sent'[c][s] = 0
        <5>1. \A s \in Moments : s > time => ~(s <= time) /\ sent[c][s] = 0
          BY <1>4, <2>2, <4>1, QosAssumption DEF Moments
        <5> QED  BY <4>3, <5>1
      <4>9. bucket'[c].tokens <= config[c].burst
        BY <1>1, <2>2, <4>1, <4>2
      <4>10. Used(c)'
        BY <1>2, <1>4, <4>2, <4>6, <4>7, <4>8, <4>9 DEF Used
      <4> QED  BY <1>4, <3>2, <4>2, <4>10 DEF Metered
    <3> QED  BY <3>1, <3>2
  <2> QED  BY <2>1, <2>8, <2>9 DEF PolicedOnlyWhenOver
<1> QED  BY <1>2, <1>5, <1>6, <1>7

LEMMA ConfigureMeters ==
  ASSUME PolicerIInv, NEW c \in Classes, NEW o \in Options, ConfigureClass(c, o)
  PROVE  PolicerIInv'
<1> USE DEF PolicerIInv
<1>1. /\ config' = [config EXCEPT ![c] = Configured(o)]
      /\ bucket' = [bucket EXCEPT ![c] =
           IF o.rate > 0 THEN [tokens |-> Configured(o).burst, last |-> -1] ELSE NoBucket]
      /\ sent' = [sent EXCEPT ![c] = NoneSent]
      /\ verdict'.code = "none" /\ time' = time
  BY DEF ConfigureClass, Nothing
<1>2. Configured(o) \in Config /\ (o.rate > 0 => Configured(o).burst \in Nat)
  BY ConfiguredType
<1>3. NoneSent \in [Moments -> Nat] /\ \A s \in Moments : NoneSent[s] = 0
  BY DEF NoneSent
<1>4. o.rate > 0 => [tokens |-> Configured(o).burst, last |-> -1] \in Bucket
  BY <1>2 DEF Bucket
<1>5. PolicerTypes'
  BY <1>1, <1>2, <1>3, <1>4 DEF PolicerTypes
<1>6. ASSUME NEW d \in Classes, bucket'[d] # NoBucket PROVE Metered(d)'
  <2>1. CASE d # c
    <3>1. config'[d] = config[d] /\ bucket'[d] = bucket[d] /\ sent'[d] = sent[d]
      BY <1>1, <2>1 DEF PolicerTypes
    <3>2. time \in Nat
      BY PolicerBasics
    <3> QED  BY <1>1, <1>6, <3>1, <3>2, MeteredSame
  <2>2. CASE d = c
    <3>1. /\ bucket'[c] = [tokens |-> Configured(o).burst, last |-> -1]
          /\ config'[c] = Configured(o) /\ sent'[c] = NoneSent
      BY <1>1, <1>6, <2>2 DEF PolicerTypes
    <3>2. Untouched(c)'
      BY <1>3, <3>1 DEF Untouched
    <3> QED  BY <2>2, <3>1, <3>2 DEF Metered
  <2> QED  BY <2>1, <2>2
<1> QED  BY <1>1, <1>5, <1>6 DEF PolicedOnlyWhenOver

LEMMA OthersMeter ==
  ASSUME PolicerIInv, [ShaperNext]_shaperVars,
         \/ UNCHANGED shaperVars \/ Dequeue \/ ShaperTick \/ ShaperClear
  PROVE  PolicerIInv'
<1> USE DEF PolicerIInv
<1>0. time \in Nat /\ time \in Moments
  BY PolicerBasics DEF PolicerTypes
<1>1. CASE ShaperClear
  <2>1. /\ config' = [c \in Classes |-> Default] /\ bucket' = [c \in Classes |-> NoBucket]
        /\ sent' = [c \in Classes |-> NoneSent] /\ verdict'.code = "none" /\ time' = time
    BY <1>1 DEF ShaperClear, ShaperState, Nothing
  <2>2. Default \in Config /\ NoneSent \in [Moments -> Nat]
    BY QosAssumption DEF Default, Config, NoneSent
  <2> QED  BY <2>1, <2>2 DEF PolicerTypes, PolicedOnlyWhenOver
<1>2. CASE Dequeue \/ ShaperTick
  <2>1. /\ config' = config /\ bucket' = bucket /\ sent' = sent
        /\ verdict'.code # "policed" /\ time' \in Moments /\ time <= time' /\ time' \in Nat
    BY <1>0, <1>2, QosAssumption DEF Dequeue, ShaperTick, policerVars, Nothing, Moments
  <2>2. PolicerTypes'
    BY <2>1 DEF PolicerTypes
  <2>3. \A d \in Classes : bucket'[d] # NoBucket => Metered(d)'
    BY <2>1, MeteredSame
  <2> QED  BY <2>1, <2>2, <2>3 DEF PolicedOnlyWhenOver
<1>3. CASE UNCHANGED shaperVars
  <2>1. config' = config /\ bucket' = bucket /\ sent' = sent /\ verdict' = verdict /\ time' = time
    BY <1>3 DEF shaperVars, policerVars
  <2>2. PolicerTypes'
    BY <2>1 DEF PolicerTypes
  <2>3. \A d \in Classes : bucket'[d] # NoBucket => Metered(d)'
    BY <1>0, <2>1, MeteredSame
  <2>4. PolicedOnlyWhenOver'
    BY <2>1 DEF PolicedOnlyWhenOver, Allowance
  <2> QED  BY <2>1, <2>2, <2>3, <2>4
<1> QED  BY <1>1, <1>2, <1>3

LEMMA PolicerInvariant == ShaperSpec => []PolicerIInv
<1>1. ShaperInit => PolicerIInv
  <2> SUFFICES ASSUME ShaperInit PROVE PolicerIInv
    OBVIOUS
  <2>1. /\ config = [c \in Classes |-> Default] /\ bucket = [c \in Classes |-> NoBucket]
        /\ sent = [c \in Classes |-> NoneSent] /\ verdict.code = "none" /\ time = 0
    BY DEF ShaperInit, ShaperState, Nothing
  <2>2. Default \in Config /\ NoneSent \in [Moments -> Nat] /\ 0 \in Moments
    BY QosAssumption DEF Default, Config, NoneSent, Moments
  <2> QED  BY <2>1, <2>2 DEF PolicerIInv, PolicerTypes, PolicedOnlyWhenOver
<1>2. PolicerIInv /\ [ShaperNext]_shaperVars => PolicerIInv'
  <2> SUFFICES ASSUME PolicerIInv, [ShaperNext]_shaperVars PROVE PolicerIInv'
    OBVIOUS
  <2>1. ASSUME NEW dscp \in Dscps, NEW size \in Sizes, Enqueue(dscp, size) PROVE PolicerIInv'
    BY <2>1, EnqueueMeters
  <2>2. ASSUME NEW c \in Classes, NEW o \in Options, ConfigureClass(c, o) PROVE PolicerIInv'
    BY <2>2, ConfigureMeters
  <2> QED  BY <2>1, <2>2, OthersMeter DEF ShaperNext, ShaperStep
<1> QED  BY <1>1, <1>2, PTL DEF ShaperSpec

(* A policed class lets in, over any stretch of time, no more than its burst  *)
(* and its rate allow (TokenBucket.consume behind enqueue).                   *)
THEOREM EnvelopeKept == ShaperSpec => []WithinEnvelope
<1>1. PolicerIInv => WithinEnvelope
  BY EnvelopeHolds
<1> QED  BY <1>1, PolicerInvariant, PTL

(* A packet is policed only if some stretch would have exceeded its allowance.*)
THEOREM NoConformingPacketPoliced == ShaperSpec => []PolicedOnlyWhenOver
<1>1. PolicerIInv => PolicedOnlyWhenOver
  BY DEF PolicerIInv
<1> QED  BY <1>1, PolicerInvariant, PTL

--------------------------------------------------------------------------------
(* The weighted share of the classes that wait.                              *)
ServedTypes ==
  /\ config \in [Classes -> Config]
  /\ served \in [Classes -> Nat]
  /\ start \in [Classes -> [Classes -> Int]]

FairIInv == ServedTypes /\ FairWhileWaiting

LEMMA LeadIsInt ==
  ASSUME ServedTypes, NEW c \in Classes, NEW d \in Classes
  PROVE  /\ served[c] \in Nat /\ config[c].weight \in Nat \ {0}
         /\ served[d] * config[c].weight \in Nat /\ Lead(d, c) \in Int /\ Lead(c, c) = 0
<1>1. /\ served[c] \in Nat /\ config[c].weight \in Nat \ {0}
      /\ served[d] \in Nat /\ config[d].weight \in Nat \ {0}
  BY DEF ServedTypes, Config
<1>2. \A m, n \in Nat : m * n \in Nat
  OBVIOUS
<1> QED  BY <1>1, <1>2 DEF Lead

(* Shares a : p, b : q and e : r compare as numbers do.                       *)
NotAhead(a, p, b, q) == a * q - b * p <= 0

LEMMA SharesCompare ==
  ASSUME NEW a \in Nat, NEW b \in Nat, NEW e \in Nat,
         NEW p \in Nat \ {0}, NEW q \in Nat \ {0}, NEW r \in Nat \ {0},
         NotAhead(a, p, b, q), NotAhead(b, q, e, r)
  PROVE  NotAhead(a, p, e, r)
<1>1. a * q <= b * p /\ b * r <= e * q
  BY DEF NotAhead
<1>2. (a * q) * r <= (b * p) * r
  BY <1>1, SMTT(30)
<1>3. (b * r) * p <= (e * q) * p
  BY <1>1, SMTT(30)
<1>4. (a * r) * q <= (e * p) * q
  <2>1. (a * q) * r = (a * r) * q /\ (b * p) * r = (b * r) * p /\ (e * q) * p = (e * p) * q
    OBVIOUS
  <2> QED  BY <1>2, <1>3, <2>1
<1>5. a * r \in Nat /\ e * p \in Nat
  OBVIOUS
<1>6. \A x, y \in Nat : x * q <= y * q => x <= y
  BY SMTT(30)
<1> QED  BY <1>4, <1>5, <1>6 DEF NotAhead

LEMMA LeadOrders ==
  ASSUME ServedTypes, NEW c \in Classes, NEW d \in Classes
  PROVE  /\ Lead(c, d) = - Lead(d, c)
         /\ \A e \in Classes : Lead(c, d) <= 0 /\ Lead(d, e) <= 0 => Lead(c, e) <= 0
<1>1. Lead(c, d) = - Lead(d, c)
  BY LeadIsInt DEF Lead
<1>2. ASSUME NEW e \in Classes, Lead(c, d) <= 0, Lead(d, e) <= 0 PROVE Lead(c, e) <= 0
  <2>1. /\ served[c] \in Nat /\ served[d] \in Nat /\ served[e] \in Nat
        /\ config[c].weight \in Nat \ {0} /\ config[d].weight \in Nat \ {0}
        /\ config[e].weight \in Nat \ {0}
    BY LeadIsInt
  <2>2. /\ NotAhead(served[c], config[c].weight, served[d], config[d].weight)
        /\ NotAhead(served[d], config[d].weight, served[e], config[e].weight)
    BY <1>2 DEF Lead, NotAhead
  <2>3. NotAhead(served[c], config[c].weight, served[e], config[e].weight)
    BY <2>1, <2>2, SharesCompare
  <2> QED  BY <2>3 DEF Lead, NotAhead
<1> QED  BY <1>1, <1>2

(* Of any classes that wait there is one that none is behind: otherwise take *)
(* the shortest beginning of ClassOrder that holds some, but no such one.     *)
Among(S, n) == {c \in S : \E i \in 1 .. n : ClassOrder[i] = c}

Leaderless(S, n) ==
  Among(S, n) # {} /\ ~ \E c \in Among(S, n) : \A d \in Among(S, n) : Lead(c, d) <= 0

LEMMA AmongGrows ==
  ASSUME NEW S \in SUBSET Classes
  PROVE  /\ Among(S, 0) = {} /\ Among(S, Len(ClassOrder)) = S
         /\ \A n \in 1 .. Len(ClassOrder) :
              /\ ClassOrder[n] \in Classes
              /\ Among(S, n) = Among(S, n - 1) \cup (S \cap {ClassOrder[n]})
<1>1. Len(ClassOrder) \in Nat /\ DOMAIN ClassOrder = 1 .. Len(ClassOrder)
  BY QosAssumption
<1>2. \A c \in Classes : \E i \in 1 .. Len(ClassOrder) : ClassOrder[i] = c
  BY <1>1 DEF Classes
<1>3. \A n \in 1 .. Len(ClassOrder) : ClassOrder[n] \in Classes
  BY <1>1 DEF Classes
<1>4. Among(S, 0) = {} /\ Among(S, Len(ClassOrder)) = S
  BY <1>2 DEF Among
<1>5. ASSUME NEW n \in 1 .. Len(ClassOrder)
      PROVE  Among(S, n) = Among(S, n - 1) \cup (S \cap {ClassOrder[n]})
  <2>1. \A i : i \in 1 .. n <=> i \in 1 .. n - 1 \/ i = n
    BY <1>1
  <2> QED  BY <2>1 DEF Among
<1> QED  BY <1>3, <1>4, <1>5

LEMMA LeastShare ==
  ASSUME ServedTypes, NEW S \in SUBSET Classes, S # {}
  PROVE  \E c \in S : \A d \in S : Lead(c, d) <= 0
<1> SUFFICES ASSUME ~ \E c \in S : \A d \in S : Lead(c, d) <= 0 PROVE FALSE
  OBVIOUS
<1> DEFINE Bad == {n \in 0 .. Len(ClassOrder) : Leaderless(S, n)}
           n == Min(Bad)
<1>1. Len(ClassOrder) \in Nat
  BY QosAssumption
<1>2. Len(ClassOrder) \in Bad
  BY <1>1, AmongGrows DEF Leaderless
<1>3. Bad \subseteq Nat
  OBVIOUS
<1> HIDE DEF Bad
<1>4. n \in Bad /\ \A m \in Bad : n <= m
  BY <1>2, <1>3, MinOfNats
<1> HIDE DEF n
<1>5. n \in 0 .. Len(ClassOrder) /\ Leaderless(S, n)
  BY <1>4 DEF Bad
<1>6. n \in 1 .. Len(ClassOrder) /\ n - 1 \in 0 .. Len(ClassOrder)
  BY <1>1, <1>5, AmongGrows DEF Leaderless
<1>7. ~Leaderless(S, n - 1)
  BY <1>1, <1>4, <1>6 DEF Bad
<1> DEFINE new == ClassOrder[n]
           A == Among(S, n - 1)
           B == Among(S, n)
<1>8. new \in Classes /\ B = A \cup (S \cap {new}) /\ B \subseteq Classes
  BY <1>6, AmongGrows DEF Among
<1>9. B # {} /\ \A c \in B : \E d \in B : ~ (Lead(c, d) <= 0)
  BY <1>5 DEF Leaderless
<1>10. A = {} \/ \E c \in A : \A d \in A : Lead(c, d) <= 0
  BY <1>7 DEF Leaderless
<1> HIDE DEF new, A, B
<1>11. \A c \in Classes : Lead(c, c) = 0
  BY LeadIsInt
<1>12. A # {}
  BY <1>8, <1>9, <1>11
<1>13. PICK c \in A : \A d \in A : Lead(c, d) <= 0
  BY <1>10, <1>12
<1>14. PICK d \in B : ~ (Lead(c, d) <= 0)
  BY <1>8, <1>9, <1>13
<1>15. d = new /\ new \in B /\ c \in Classes
  BY <1>8, <1>13, <1>14
<1>16. Lead(new, c) <= 0
  BY <1>8, <1>14, <1>15, LeadIsInt, LeadOrders
<1>17. ASSUME NEW e \in B PROVE Lead(new, e) <= 0
  BY <1>8, <1>11, <1>13, <1>15, <1>16, LeadOrders
<1> QED  BY <1>9, <1>15, <1>17

LEMMA FirstOfIn ==
  ASSUME NEW S \in SUBSET Classes, S # {}
  PROVE  FirstOf(S) \in S
<1> DEFINE P == {Place(c) : c \in S}
<1>1. \A c \in Classes : Place(c) \in Nat
  BY QosAssumption DEF Place, Classes
<1>2. P \subseteq Nat /\ P # {}
  BY <1>1
<1>3. Min(P) \in P /\ \A y \in P : Min(P) <= y
  BY <1>2, MinOfNats
<1>4. \E c \in S : \A d \in S : Place(c) <= Place(d)
  BY <1>3
<1> QED  BY <1>4 DEF FirstOf

LEMMA LeastServedBehind ==
  ASSUME ServedTypes, NEW S \in SUBSET Classes, S # {}
  PROVE  LeastServed(S) \in S /\ \A d \in S : Lead(LeastServed(S), d) <= 0
<1> DEFINE T == {c \in S : \A d \in S : Lead(c, d) <= 0}
<1>1. T \in SUBSET Classes /\ T # {}
  BY LeastShare
<1>2. LeastServed(S) \in T
  BY <1>1, FirstOfIn DEF LeastServed
<1> QED  BY <1>2

(* What NoteStart notes: the lead at which two classes began to wait together. *)
LEMMA NotedStart ==
  ASSUME ServedTypes, ServedTypes', NoteStart, NEW c \in Classes, NEW d \in Classes
  PROVE  \/ start'[c][d] = Lead(d, c)'
         \/ /\ Waiting(c) /\ Waiting(c)' /\ Waiting(d) /\ Waiting(d)'
            /\ config'[c] = config[c] /\ config'[d] = config[d]
            /\ start'[c][d] = start[c][d]
BY DEF NoteStart

LEMMA ServedTypesKept ==
  ASSUME ServedTypes, ShaperNext
  PROVE  ServedTypes'
<1>1. config' \in [Classes -> Config] /\ served' \in [Classes -> Nat]
  <2>1. CASE Dequeue
    <3>1. config' = config /\ (served' = served \/ served' = [served EXCEPT ![Chosen] = @ + 1])
      BY <2>1 DEF Dequeue
    <3> QED  BY <3>1 DEF ServedTypes
  <2>2. ASSUME NEW c \in Classes, NEW o \in Options, ConfigureClass(c, o)
        PROVE  config' \in [Classes -> Config] /\ served' \in [Classes -> Nat]
    <3>1. Configured(o) \in Config
      BY QosAssumption DEF Configured, Config
    <3> QED  BY <2>2, <3>1 DEF ConfigureClass, ServedTypes, queueVars
  <2>3. CASE ShaperClear
    <3>1. Default \in Config
      BY QosAssumption DEF Default, Config
    <3> QED  BY <2>3, <3>1 DEF ShaperClear, ShaperState
  <2>4. ASSUME NEW dscp \in Dscps, NEW size \in Sizes, Enqueue(dscp, size)
        PROVE  config' \in [Classes -> Config] /\ served' \in [Classes -> Nat]
    BY <2>4 DEF Enqueue, Refuse, Police, Admit, queueVars, ServedTypes
  <2>5. CASE ShaperTick
    BY <2>5 DEF ShaperTick, queueVars, ServedTypes
  <2> QED  BY <2>1, <2>2, <2>3, <2>4, <2>5 DEF ShaperNext, ShaperStep
<1>2. start' \in [Classes -> [Classes -> Int]]
  <2>1. \A c, d \in Classes : Lead(d, c)' \in Int
    <3>1. \A c \in Classes : served'[c] \in Nat /\ config'[c].weight \in Nat
      BY <1>1 DEF Config
    <3>2. \A m, n \in Nat : m * n \in Nat
      OBVIOUS
    <3> QED  BY <3>1, <3>2 DEF Lead
  <2> QED  BY <2>1 DEF ShaperNext, NoteStart, ServedTypes
<1> QED  BY <1>1, <1>2 DEF ServedTypes

(* While two classes wait and are not configured, a step changes the lead of  *)
(* one over the other only by sending from one of them, and sends from the one *)
(* that is behind.                                                            *)
LEMMA LeadMoves ==
  ASSUME ServedTypes, ServedTypes', ShaperStep, NEW c \in Classes, NEW d \in Classes,
         Waiting(c), Waiting(c)', Waiting(d), config'[c] = config[c], config'[d] = config[d]
  PROVE  Lead(d, c)' <= Lead(d, c) \/ Lead(d, c)' <= config[c].weight
<1>1. /\ served[c] \in Nat /\ served[d] \in Nat /\ Lead(d, c) \in Int
      /\ config[c].weight \in Nat \ {0} /\ config[d].weight \in Nat \ {0}
  BY LeadIsInt
<1>2. CASE served' = served
  BY <1>1, <1>2 DEF Lead
<1>3. CASE ShaperClear
  BY <1>3 DEF ShaperClear, ShaperState, Waiting
<1>4. CASE Dequeue /\ policy = "WFQ"
  <2> DEFINE S == {e \in Classes : Waiting(e)}
             ch == LeastServed(S)
  <2>1. Chosen = ch
    BY <1>4 DEF Chosen
  <2>2. S \in SUBSET Classes /\ S # {} /\ c \in S /\ d \in S
    OBVIOUS
  <2>3. ch \in Classes /\ Lead(ch, c) <= 0 /\ Lead(ch, d) <= 0
    BY <2>2, LeastServedBehind
  <2>4. served' = [served EXCEPT ![ch] = @ + 1]
    BY <1>4, <2>1 DEF Dequeue
  <2> HIDE DEF ch, S
  <2>5. \A e \in Classes : served'[e] = IF e = ch THEN served[e] + 1 ELSE served[e]
    BY <2>4 DEF ServedTypes
  <2>6. CASE c = d
    <3>1. Lead(d, c)' = 0
      BY <2>6, LeadIsInt, <1>1, <2>5 DEF Lead
    <3> QED  BY <1>1, <3>1
  <2>7. CASE ch = d /\ c # d
    <3>1. served'[d] = served[d] + 1 /\ served'[c] = served[c]
      BY <2>5, <2>7
    <3>2. Lead(d, c)' = Lead(d, c) + config[c].weight
      <4>1. \A n, w \in Nat : (n + 1) * w = n * w + w /\ n * w \in Nat
        OBVIOUS
      <4>2. Lead(d, c)' = (served[d] + 1) * config[c].weight - served[c] * config[d].weight
        BY <3>1 DEF Lead
      <4>3. (served[d] + 1) * config[c].weight = served[d] * config[c].weight + config[c].weight
        BY <1>1, <4>1
      <4>4. served[d] * config[c].weight \in Nat /\ served[c] * config[d].weight \in Nat
        BY <1>1, <4>1
      <4> QED  BY <1>1, <4>2, <4>3, <4>4 DEF Lead
    <3> QED  BY <1>1, <2>3, <2>7, <3>2
  <2>8. CASE ch = c /\ c # d
    <3>1. served'[d] = served[d] /\ served'[c] = served[c] + 1
      BY <2>5, <2>8
    <3>2. Lead(d, c)' = Lead(d, c) - config[d].weight
      <4>1. \A n, w \in Nat : (n + 1) * w = n * w + w /\ n * w \in Nat
        OBVIOUS
      <4> QED  BY <1>1, <3>1, <4>1 DEF Lead
    <3> QED  BY <1>1, <3>2
  <2>9. CASE ch # c /\ ch # d
    <3>1. served'[d] = served[d] /\ served'[c] = served[c]
      BY <2>5, <2>9
    <3> QED  BY <1>1, <3>1 DEF Lead
  <2> QED  BY <2>6, <2>7, <2>8, <2>9
<1>5. served' = served \/ ShaperClear \/ (Dequeue /\ policy = "WFQ")
  BY DEF ShaperStep, Dequeue, Enqueue, Refuse, Police, Admit, ConfigureClass, ShaperTick, queueVars
<1> QED  BY <1>2, <1>3, <1>4, <1>5

(* Whatever is offered, sent, configured and cleared, weighted queuing sends  *)
(* from no class more than a packet ahead of its share while another waits,    *)
(* but for the lead it had (qos.py, dequeue).                                 *)
THEOREM WeightedQueuingIsFair == ShaperSpec => []FairWhileWaiting
<1>1. ShaperInit => FairIInv
  <2> SUFFICES ASSUME ShaperInit PROVE FairIInv
    OBVIOUS
  <2>1. Default \in Config /\ Default.weight = 1
    BY QosAssumption DEF Default, Config
  <2>2. /\ config = [c \in Classes |-> Default] /\ served = [c \in Classes |-> 0]
        /\ start = [c \in Classes |-> [d \in Classes |-> 0]]
    BY DEF ShaperInit, ShaperState
  <2>3. ServedTypes
    BY <2>1, <2>2 DEF ServedTypes
  <2>4. \A c, d \in Classes : Lead(d, c) <= start[c][d]
    BY <2>1, <2>2 DEF Lead
  <2> QED  BY <2>3, <2>4 DEF FairIInv, FairWhileWaiting
<1>2. FairIInv /\ [ShaperNext]_shaperVars => FairIInv'
  <2> SUFFICES ASSUME FairIInv, [ShaperNext]_shaperVars PROVE FairIInv'
    OBVIOUS
  <2>1. CASE UNCHANGED shaperVars
    BY <2>1 DEF FairIInv, ServedTypes, FairWhileWaiting, Lead, shaperVars, queueVars
  <2>2. CASE ShaperNext
    <3>1. ServedTypes /\ ServedTypes' /\ ShaperStep /\ NoteStart
      BY <2>2, ServedTypesKept DEF FairIInv, ShaperNext
    <3>2. ASSUME NEW c \in Classes, NEW d \in Classes
          PROVE  Lead(d, c)' <= start'[c][d] \/ Lead(d, c)' <= config'[c].weight
      <4>1. CASE start'[c][d] = Lead(d, c)'
        <5>1. start'[c][d] \in Int
          BY <3>1 DEF ServedTypes
        <5> QED  BY <4>1, <5>1
      <4>2. CASE /\ Waiting(c) /\ Waiting(c)' /\ Waiting(d) /\ Waiting(d)'
                 /\ config'[c] = config[c] /\ config'[d] = config[d]
                 /\ start'[c][d] = start[c][d]
        <5>1. Lead(d, c)' <= Lead(d, c) \/ Lead(d, c)' <= config[c].weight
          BY <3>1, <4>2, LeadMoves
        <5>2. Lead(d, c) <= start[c][d] \/ Lead(d, c) <= config[c].weight
          BY DEF FairIInv, FairWhileWaiting
        <5>3. Lead(d, c) \in Int /\ start[c][d] \in Int /\ config[c].weight \in Nat
          BY <3>1, LeadIsInt DEF ServedTypes
        <5>4. Lead(d, c)' \in Int
          <6>1. \A e \in Classes : served'[e] \in Nat /\ config'[e].weight \in Nat
            BY <3>1 DEF ServedTypes, Config
          <6>2. \A m, n \in Nat : m * n \in Nat
            OBVIOUS
          <6> QED  BY <6>1, <6>2 DEF Lead
        <5> HIDE DEF Lead
        <5> QED  BY <4>2, <5>1, <5>2, <5>3, <5>4
      <4> QED  BY <3>1, <4>1, <4>2, NotedStart
    <3> QED  BY <3>1, <3>2 DEF FairIInv, FairWhileWaiting
  <2> QED  BY <2>1, <2>2
<1>3. FairIInv => FairWhileWaiting
  BY DEF FairIInv
<1> QED  BY <1>1, <1>2, <1>3, PTL DEF ShaperSpec

--------------------------------------------------------------------------------
(* The limiter of RateLimits, whose clock may be turned back and forth.        *)
LimiterTypes ==
  /\ tokens \in Int /\ lastRefill \in LogMoments /\ allowed \in BOOLEAN
  /\ passed \in [LogMoments -> Int]

(* What the rate gives from s to t, less than nothing if t is earlier.         *)
Given(s, t) == (t - s) * LogRate

(* The tokens left are among those the stretch from s on has not used; a full  *)
(* bucket forgets what ran over.                                               *)
Covered(s) == passed[s] >= 0 => passed[s] <= (LogBurst + Given(s, lastRefill)) - tokens

LimiterIInv ==
  /\ LimiterTypes
  /\ tokens <= LogBurst
  /\ allowed => tokens >= 0
  /\ \A s \in LogMoments : Covered(s)

LEMMA GivenAdds ==
  ASSUME NEW s \in Int, NEW l \in Int, NEW t \in Int
  PROVE  /\ Given(s, l) \in Int
         /\ Given(s, t) = Given(s, l) + Given(l, t)
         /\ Given(s, s) = 0
<1>1. LogRate \in Int
  BY LogLimiterAssumption
<1>2. \A m, n \in Int : m * LogRate \in Int /\ (m + n) * LogRate = m * LogRate + n * LogRate
  BY <1>1
<1>3. l - s \in Int /\ t - l \in Int /\ t - s = (l - s) + (t - l) /\ s - s = 0
  OBVIOUS
<1> QED  BY <1>1, <1>2, <1>3 DEF Given

(* A refill is capped, so it adds at most what the rate gives.                 *)
LEMMA RefillCapped ==
  ASSUME LimiterTypes, NEW t \in LogMoments
  PROVE  /\ RefilledTo(t) \in Int /\ RefilledTo(t) <= LogBurst
         /\ RefilledTo(t) <= tokens + Given(lastRefill, t)
<1>1. t \in Int /\ lastRefill \in Int /\ tokens \in Int /\ LogBurst \in Int
  BY LogLimiterAssumption DEF LimiterTypes, LogMoments
<1>2. Given(lastRefill, t) \in Int
  BY <1>1, GivenAdds
<1> QED  BY <1>1, <1>2 DEF RefilledTo, Given

LEMMA AllowCovers ==
  ASSUME LimiterIInv, NEW t \in LogMoments, Allow(t)
  PROVE  LimiterIInv'
<1> DEFINE ok == RefilledTo(t) >= 1
           spent == IF ok THEN 1 ELSE 0
<1>1. /\ tokens' = RefilledTo(t) - spent /\ lastRefill' = t /\ allowed' = ok
      /\ passed' = [s \in LogMoments |->
           IF s = t /\ passed[s] < 0 THEN spent
           ELSE IF passed[s] >= 0 /\ ok THEN passed[s] + 1 ELSE passed[s]]
  BY DEF Allow
<1>2. /\ RefilledTo(t) \in Int /\ RefilledTo(t) <= LogBurst
      /\ RefilledTo(t) <= tokens + Given(lastRefill, t)
  BY RefillCapped DEF LimiterIInv
<1>3. LogMoments \subseteq Int /\ LogBurst \in Int /\ t \in Int /\ lastRefill \in Int
  BY LogLimiterAssumption DEF LogMoments, LimiterIInv, LimiterTypes
<1>4. /\ spent \in 0 .. 1 /\ (ok => spent = 1) /\ (~ok => spent = 0) /\ ok \in BOOLEAN
      /\ ok => RefilledTo(t) >= 1
  OBVIOUS
<1>5. \A s \in LogMoments : passed[s] \in Int
  BY DEF LimiterIInv, LimiterTypes
<1>6. tokens \in Int
  BY DEF LimiterIInv, LimiterTypes
<1> HIDE DEF ok, spent
<1>7. LimiterTypes'
  <2>1. tokens' \in Int
    BY <1>1, <1>2, <1>4
  <2>2. passed' \in [LogMoments -> Int]
    BY <1>1, <1>4, <1>5
  <2> QED  BY <1>1, <1>4, <2>1, <2>2 DEF LimiterTypes
<1>8. tokens' <= LogBurst
  BY <1>1, <1>2, <1>3, <1>4
<1>9. allowed' => tokens' >= 0
  <2>1. ok => RefilledTo(t) - spent >= 0
    BY <1>2, <1>4
  <2> QED  BY <1>1, <2>1
<1>10. ASSUME NEW s \in LogMoments
       PROVE  Covered(s)'
  <2>1. s \in Int /\ Given(s, lastRefill) \in Int /\ Given(lastRefill, t) \in Int
        /\ Given(s, t) = Given(s, lastRefill) + Given(lastRefill, t)
    <3>1. s \in Int
      BY <1>3
    <3> QED  BY <1>3, <3>1, GivenAdds
  <2>2. CASE s = t /\ passed[s] < 0
    <3>1. passed'[s] = spent
      BY <1>1, <2>2
    <3>2. Given(s, t) = 0
      BY <1>3, <2>2, GivenAdds
    <3>3. spent <= (LogBurst + 0) - (RefilledTo(t) - spent)
      BY <1>2, <1>3, <1>4
    <3> QED  BY <1>1, <3>1, <3>2, <3>3 DEF Covered, Given
  <2>3. CASE ~(s = t /\ passed[s] < 0) /\ passed[s] >= 0
    <3>1. passed'[s] = passed[s] + spent
      BY <1>1, <1>4, <1>5, <2>3
    <3>2. passed[s] <= (LogBurst + Given(s, lastRefill)) - tokens
      BY <2>3 DEF LimiterIInv, Covered
    <3>3. passed[s] + spent <= (LogBurst + Given(s, t)) - (RefilledTo(t) - spent)
      BY <1>2, <1>3, <1>4, <1>5, <1>6, <2>1, <3>2
    <3> QED  BY <1>1, <3>1, <3>3 DEF Covered, Given
  <2>4. CASE ~(s = t /\ passed[s] < 0) /\ ~(passed[s] >= 0)
    <3>1. passed'[s] = passed[s]
      BY <1>1, <2>4
    <3> QED  BY <2>4, <3>1 DEF Covered
  <2> QED  BY <2>2, <2>3, <2>4
<1>11. LogMoments' = LogMoments
  BY DEF LogMoments
<1> QED  BY <1>7, <1>8, <1>9, <1>10 DEF LimiterIInv

LEMMA LimiterInvariant == LimiterSpec => []LimiterIInv
<1>1. LimiterInit => LimiterIInv
  <2> SUFFICES ASSUME LimiterInit PROVE LimiterIInv
    OBVIOUS
  <2>1. tokens = LogBurst /\ LogBurst \in Int /\ allowed = FALSE /\ lastRefill \in LogMoments
    BY LogLimiterAssumption DEF LimiterInit
  <2>2. passed \in [LogMoments -> Int] /\ \A s \in LogMoments : passed[s] = -1
    BY DEF LimiterInit
  <2>3. \A s \in LogMoments : Covered(s)
    BY <2>2 DEF Covered
  <2>4. LimiterTypes
    BY <2>1, <2>2 DEF LimiterTypes
  <2>5. tokens <= LogBurst /\ ~allowed
    BY <2>1
  <2> QED  BY <2>3, <2>4, <2>5 DEF LimiterIInv
<1>2. LimiterIInv /\ [LimiterNext]_limiterVars => LimiterIInv'
  <2> SUFFICES ASSUME LimiterIInv, [LimiterNext]_limiterVars PROVE LimiterIInv'
    OBVIOUS
  <2>1. CASE LimiterNext
    BY <2>1, AllowCovers DEF LimiterNext
  <2>2. CASE UNCHANGED limiterVars
    BY <2>2 DEF limiterVars, LimiterIInv, LimiterTypes, Covered, Given
  <2> QED  BY <2>1, <2>2
<1> QED  BY <1>1, <1>2, PTL DEF LimiterSpec

(* In front of a collector, whatever the clock does: as many messages pass    *)
(* since the first call at a moment as the burst and what the rate gives from *)
(* then to now, and no more, for every rate, burst and order of calls.        *)
THEOREM LogEnvelopeKept == LimiterSpec => []LogEnvelope
<1>1. LimiterIInv => LogEnvelope
  <2> SUFFICES ASSUME LimiterIInv, allowed, NEW s \in LogMoments, passed[s] >= 0
               PROVE  passed[s] <= LogBurst + Given(s, lastRefill)
    BY DEF LogEnvelope, Given
  <2>1. passed[s] <= (LogBurst + Given(s, lastRefill)) - tokens /\ tokens >= 0
    BY DEF LimiterIInv, Covered
  <2>2. s \in Int /\ lastRefill \in Int /\ tokens \in Int /\ LogBurst \in Int /\ passed[s] \in Int
    BY LogLimiterAssumption DEF LimiterIInv, LimiterTypes, LogMoments
  <2>3. Given(s, lastRefill) \in Int
    BY <2>2, GivenAdds
  <2> HIDE DEF Given
  <2> QED  BY <2>1, <2>2, <2>3
<1> QED  BY <1>1, LimiterInvariant, PTL

--------------------------------------------------------------------------------
(***************************************************************************)
(* The windows of RateLimits.  P[t] is what a class let through up to t; a   *)
(* window of W ticks that holds t begins at Floor(t, W).                     *)
(***************************************************************************)
Floor(t, W) == (t \div W) * W

SameWindow(s, t, W) == s \div W = t \div W

LEMMA FloorArithmetic ==
  ASSUME NEW W \in Nat \ {0}, NEW t \in Nat
  PROVE  /\ Floor(t, W) \in 0 .. t /\ t < Floor(t, W) + W
         /\ Floor(t, W) = t - (t % W)
         /\ Floor(t, W) \div W = t \div W
         /\ \A s \in Nat : s \div W = t \div W => Floor(s, W) = Floor(t, W)
         /\ \A s \in Nat : s <= t /\ s \div W # t \div W => Floor(s, W) + W <= Floor(t, W)
<1> DEFINE q == t \div W
<1>1. q \in Nat /\ t = q * W + (t % W) /\ t % W \in 0 .. W - 1
  BY SMTT(30)
<1>2. q * W \in Nat
  BY <1>1
<1>3. (q * W) \div W = q
  BY <1>1, SMTT(30)
<1>4. ASSUME NEW s \in Nat, s <= t, s \div W # q PROVE (s \div W) * W + W <= q * W
  <2>1. s \div W \in Nat /\ s = (s \div W) * W + (s % W) /\ s % W \in 0 .. W - 1
    BY SMTT(30)
  <2>2. s \div W < q
    <3> SUFFICES ASSUME q < s \div W PROVE FALSE
      BY <1>1, <1>4, <2>1
    <3>1. \A a, b \in Nat : a < b => a * W + W <= b * W
      BY SMTT(30)
    <3> QED  BY <1>1, <1>2, <1>4, <2>1, <3>1
  <2>3. \A a, b \in Nat : a < b => a * W + W <= b * W
    BY SMTT(30)
  <2> QED  BY <1>1, <2>1, <2>2, <2>3
<1> QED  BY <1>1, <1>2, <1>3, <1>4 DEF Floor

LEMMA FloorFacts ==
  ASSUME NEW W \in Nat \ {0}, NEW t \in Nat
  PROVE  /\ Floor(t, W) \in Nat /\ Floor(t, W) <= t /\ t < Floor(t, W) + W
         /\ SameWindow(Floor(t, W), t, W)
<1>1. Floor(t, W) \in 0 .. t
  BY FloorArithmetic
<1> HIDE DEF Floor
<1>2. Floor(t, W) \in Nat /\ Floor(t, W) <= t
  BY <1>1
<1> QED  BY <1>2, FloorArithmetic DEF SameWindow

LEMMA FloorCompare ==
  ASSUME NEW W \in Nat \ {0}, NEW s \in Nat, NEW t \in Nat
  PROVE  /\ SameWindow(s, t, W) => Floor(s, W) = Floor(t, W)
         /\ s <= t /\ ~SameWindow(s, t, W) => Floor(s, W) + W <= Floor(t, W)
BY FloorArithmetic DEF SameWindow

(* The window before one that does not begin at 0.                           *)
LEMMA FloorBefore ==
  ASSUME NEW W \in Nat \ {0}, NEW t \in Nat, Floor(t, W) # 0
  PROVE  Floor(t, W) - 1 \in Nat /\ Floor(Floor(t, W) - 1, W) = Floor(t, W) - W
<1> DEFINE f == Floor(t, W)
<1>1. f \in Nat /\ f - 1 \in Nat
  <2>1. f \in Nat
    BY FloorFacts
  <2> QED  BY <2>1
<1>2. f = (t \div W) * W /\ t \div W \in Nat
  BY SMTT(30) DEF Floor
<1>3. t \div W # 0
  BY <1>1, <1>2
<1> DEFINE q == t \div W - 1
<1>4. q \in Nat
  BY <1>2, <1>3
<1> HIDE DEF f
<1>5. f - W = q * W /\ q * W \in Nat
  <2>1. \A a \in Nat \ {0} : a * W - W = (a - 1) * W
    OBVIOUS
  <2> QED  BY <1>2, <1>3, <1>4, <2>1
<1> HIDE DEF q
<1>6. f - 1 = q * W + (W - 1)
  BY <1>1, <1>5
<1>7. (q * W + (W - 1)) \div W = q
  BY <1>4, SMTT(30)
<1> QED  BY <1>1, <1>5, <1>6, <1>7 DEF f, Floor

Tallies == [-1 .. MaxTick -> Nat]

LEMMA TallyFacts ==
  ASSUME NEW P \in Tallies, NEW t \in -1 .. MaxTick
  PROVE  P[t] \in Nat
BY DEF Tallies

IsTally(P, f) ==
  /\ P \in Tallies /\ P[-1] = 0
  /\ \A t \in 0 .. MaxTick : f[t] \in Nat /\ P[t] = P[t - 1] + f[t]
  /\ \A s, t \in -1 .. MaxTick : s <= t => P[s] <= P[t]

(* Total takes differences of P: they are one solution of its recursion, and  *)
(* no other differs, or it would at a first moment.                          *)
LEMMA TotalOf ==
  ASSUME NEW c, NEW P, IsTally(P, through[c]),
         NEW a \in 0 .. MaxTick, NEW b \in a .. MaxTick
  PROVE  Total(c, a, b) = P[b] - P[a - 1]
<1> DEFINE Sums(f) == f = [t \in a - 1 .. b |-> IF t = a - 1 THEN 0 ELSE f[t - 1] + through[c][t]]
           sum == CHOOSE f : Sums(f)
           diff == [t \in a - 1 .. b |-> P[t] - P[a - 1]]
<1>1. MaxTick \in Nat /\ a \in Nat /\ b \in Nat /\ a <= b /\ b <= MaxTick
  BY RateLimitAssumption
<1>2. \A t \in a - 1 .. b : P[t] \in Nat
  BY <1>1, TallyFacts DEF IsTally
<1>3. Sums(diff)
  <2>1. ASSUME NEW t \in a - 1 .. b
        PROVE  diff[t] = IF t = a - 1 THEN 0 ELSE diff[t - 1] + through[c][t]
    <3>1. CASE t = a - 1
      BY <1>1, <1>2, <3>1
    <3>2. CASE t # a - 1
      <4>1. t \in 0 .. MaxTick /\ t - 1 \in a - 1 .. b
        BY <1>1, <3>2
      <4>2. P[t] = P[t - 1] + through[c][t]
        BY <4>1 DEF IsTally
      <4>3. diff[t] = P[t] - P[a - 1] /\ diff[t - 1] = P[t - 1] - P[a - 1]
        BY <4>1
      <4>4. P[t] \in Nat /\ P[t - 1] \in Nat /\ P[a - 1] \in Nat
        BY <1>1, <1>2, <4>1
      <4>5. through[c][t] = P[t] - P[t - 1]
        <5>1. through[c][t] \in Nat
          BY <4>1 DEF IsTally
        <5> QED  BY <4>2, <4>4, <5>1
      <4> QED  BY <3>2, <4>3, <4>4, <4>5
    <3> QED  BY <3>1, <3>2
  <2> HIDE DEF diff
  <2>2. diff = [t \in a - 1 .. b |-> diff[t]]
    BY DEF diff
  <2> QED  BY <2>1, <2>2
<1>4. Total(c, a, b) = sum[b]
  BY DEF Total
<1>5. Sums(sum)
  <2> HIDE DEF Sums, diff
  <2> QED  BY <1>3
<1> HIDE DEF sum
<1> DEFINE bad == {k \in 0 .. b - a + 1 : sum[a - 1 + k] # P[a - 1 + k] - P[a - 1]}
<1>6. bad = {}
  <2> SUFFICES ASSUME bad # {} PROVE FALSE
    OBVIOUS
  <2> DEFINE k == Min(bad)
  <2>1. bad \subseteq Nat
    BY <1>1
  <2> HIDE DEF bad
  <2>2. k \in bad /\ \A m \in bad : k <= m
    BY <2>1, MinOfNats
  <2> HIDE DEF k
  <2>3. k \in 0 .. b - a + 1 /\ sum[a - 1 + k] # P[a - 1 + k] - P[a - 1]
    BY <2>2 DEF bad
  <2> DEFINE t == a - 1 + k
  <2>4. t \in a - 1 .. b /\ k \in Nat
    BY <1>1, <2>3
  <2>5. k # 0
    BY <1>1, <1>2, <1>5, <2>3, <2>4
  <2>6. sum[t - 1] = P[t - 1] - P[a - 1]
    <3>1. k - 1 \notin bad /\ k - 1 \in 0 .. b - a + 1
      BY <1>1, <2>1, <2>2, <2>3, <2>5
    <3> QED  BY <1>1, <2>4, <3>1 DEF bad
  <2>7. t # a - 1 /\ t \in 0 .. MaxTick /\ t - 1 \in a - 1 .. b
    BY <1>1, <2>4, <2>5
  <2>8. sum[t] = sum[t - 1] + through[c][t]
    BY <1>5, <2>4, <2>7
  <2>9. P[t] = P[t - 1] + through[c][t]
    BY <2>7 DEF IsTally
  <2>10. P[t] \in Nat /\ P[t - 1] \in Nat /\ P[a - 1] \in Nat /\ through[c][t] \in Nat
    BY <1>1, <1>2, <2>4, <2>7 DEF IsTally
  <2> HIDE DEF t
  <2>11. sum[t] = P[t] - P[a - 1]
    BY <2>6, <2>8, <2>9, <2>10
  <2> QED  BY <2>3, <2>11 DEF t
<1>7. b - a + 1 \in 0 .. b - a + 1 /\ a - 1 + (b - a + 1) = b
  BY <1>1
<1> QED  BY <1>4, <1>6, <1>7

(* A counter n of a window of W ticks, started anew at l, and the limit L.     *)
Windowed(P, W, L, n, l) ==
  /\ n \in Nat /\ n <= L /\ l \in 0 .. tick
  /\ P[MaxTick] - P[Floor(l, W) - 1] = n
  /\ \A t \in 0 .. MaxTick : t >= tick \/ t >= Floor(l, W) + W - 1 => P[t] = P[MaxTick]
  /\ \A t \in 0 .. MaxTick : P[t] - P[Floor(t, W) - 1] <= L

Minute == Ticks * Seconds

Counted(P, c) ==
  /\ IsTally(P, through[c])
  /\ Windowed(P, Ticks, PerSecond[c], window[c].seconds, window[c].lastSecond)
  /\ Windowed(P, Minute, PerMinute[c], window[c].minutes, window[c].lastMinute)

UsedUp(c) ==
  \/ /\ SameWindow(window[c].lastSecond, tick, Ticks)
     /\ window[c].seconds >= PerSecond[c]
  \/ /\ SameWindow(window[c].lastMinute, tick, Minute)
     /\ window[c].minutes >= PerMinute[c]

WindowRecord == [seconds : Nat, minutes : Nat, lastSecond : Nat, lastMinute : Nat]

WindowIInv ==
  /\ tick \in 0 .. MaxTick
  /\ window \in [LimitedClasses -> WindowRecord]
  /\ through \in [LimitedClasses -> [0 .. MaxTick -> Nat]]
  /\ refusedNow \subseteq LimitedClasses
  /\ \A c \in LimitedClasses : \E P : Counted(P, c)
  /\ \A c \in refusedNow : UsedUp(c)

LEMMA LimitFacts ==
  /\ MaxTick \in Nat /\ Ticks \in Nat \ {0} /\ Minute \in Nat \ {0}
  /\ \A c \in LimitedClasses : PerSecond[c] \in Nat /\ PerMinute[c] \in Nat
<1>1. \A m, n \in Nat \ {0} : m * n \in Nat \ {0}
  OBVIOUS
<1> QED  BY <1>1, RateLimitAssumption DEF Minute

(* The counter as a packet finds it.                                         *)
LEMMA WindowTurns ==
  ASSUME NEW W \in Nat \ {0}, NEW L \in Nat, NEW P \in Tallies, NEW n, NEW l,
         tick \in 0 .. MaxTick, Windowed(P, W, L, n, l), ~SameWindow(l, tick, W)
  PROVE  Windowed(P, W, L, 0, tick)
<1>1. MaxTick \in Nat /\ tick \in Nat /\ l \in Nat /\ l <= tick
  BY LimitFacts DEF Windowed
<1>2. /\ Floor(l, W) + W <= Floor(tick, W) /\ Floor(l, W) \in Nat
      /\ Floor(tick, W) \in Nat /\ Floor(tick, W) <= tick /\ tick < Floor(tick, W) + W
  BY <1>1, FloorFacts, FloorCompare
<1>4. Floor(tick, W) - 1 \in 0 .. MaxTick /\ Floor(tick, W) - 1 >= Floor(l, W) + W - 1
  BY <1>1, <1>2
<1>5. P[Floor(tick, W) - 1] = P[MaxTick] /\ P[MaxTick] \in Nat
  BY <1>1, <1>4, TallyFacts DEF Windowed
<1>6. P[MaxTick] - P[Floor(tick, W) - 1] = 0
  BY <1>5
<1>7. \A t \in 0 .. MaxTick : t >= tick \/ t >= Floor(tick, W) + W - 1 => P[t] = P[MaxTick]
  <2> SUFFICES ASSUME NEW t \in 0 .. MaxTick, t >= tick \/ t >= Floor(tick, W) + W - 1
               PROVE  P[t] = P[MaxTick]
    OBVIOUS
  <2>1. t >= tick
    BY <1>1, <1>2
  <2> QED  BY <2>1 DEF Windowed
<1> QED  BY <1>1, <1>6, <1>7 DEF Windowed

(* A packet let through, in the window of this tick.                         *)
MorePassed(P) == [t \in -1 .. MaxTick |-> P[t] + (IF t >= tick THEN 1 ELSE 0)]

LEMMA WindowFills ==
  ASSUME NEW W \in Nat \ {0}, NEW L \in Nat, NEW P \in Tallies, NEW n, NEW l,
         tick \in 0 .. MaxTick, Windowed(P, W, L, n, l), SameWindow(l, tick, W), n < L
  PROVE  Windowed(MorePassed(P), W, L, n + 1, l)
<1> DEFINE Q == MorePassed(P)
<1>1. MaxTick \in Nat /\ tick \in Nat /\ l \in Nat /\ n \in Nat
  BY LimitFacts DEF Windowed
<1>2. /\ Floor(l, W) = Floor(tick, W) /\ Floor(tick, W) \in Nat
      /\ Floor(tick, W) <= tick /\ tick < Floor(tick, W) + W
  BY <1>1, FloorFacts, FloorCompare
<1>3. \A t \in -1 .. MaxTick :
        /\ P[t] \in Nat
        /\ t >= tick => Q[t] = P[t] + 1
        /\ t < tick => Q[t] = P[t]
  BY <1>1, TallyFacts DEF MorePassed
<1>4. \A t \in 0 .. MaxTick : t >= tick => P[t] = P[MaxTick]
  BY DEF Windowed
<1> HIDE DEF Q
<1>5. Q[MaxTick] = P[MaxTick] + 1 /\ Q[Floor(tick, W) - 1] = P[Floor(tick, W) - 1]
  BY <1>1, <1>2, <1>3
<1>6. Q[MaxTick] - Q[Floor(l, W) - 1] = n + 1
  <2>1. P[MaxTick] - P[Floor(l, W) - 1] = n
    BY DEF Windowed
  <2>2. P[MaxTick] \in Nat /\ P[Floor(l, W) - 1] \in Nat
    BY <1>1, <1>2, <1>3
  <2> QED  BY <1>1, <1>2, <1>5, <2>1, <2>2
<1>7. ASSUME NEW t \in 0 .. MaxTick, t >= tick \/ t >= Floor(l, W) + W - 1
      PROVE  Q[t] = Q[MaxTick]
  <2>1. t >= tick
    BY <1>1, <1>2, <1>7
  <2> QED  BY <1>1, <1>3, <1>4, <1>5, <2>1
<1>8. ASSUME NEW t \in 0 .. MaxTick PROVE Q[t] - Q[Floor(t, W) - 1] <= L
  <2>1. t \in Nat /\ Floor(t, W) \in Nat /\ Floor(t, W) <= t
    <3>1. t \in Nat
      BY <1>1
    <3> QED  BY <3>1, FloorFacts
  <2>2. CASE t < tick
    <3>1. Q[t] = P[t] /\ Q[Floor(t, W) - 1] = P[Floor(t, W) - 1]
      BY <1>1, <1>3, <2>1, <2>2
    <3> QED  BY <3>1 DEF Windowed
  <2>3. CASE t >= tick /\ SameWindow(tick, t, W)
    <3>1. Floor(t, W) = Floor(tick, W) /\ Q[t] = Q[MaxTick]
      BY <1>1, <1>7, <2>1, <2>3, FloorCompare
    <3> QED  BY <1>1, <1>2, <1>6, <3>1
  <2>4. CASE t >= tick /\ ~SameWindow(tick, t, W)
    <3>1. Floor(tick, W) + W <= Floor(t, W)
      BY <1>1, <2>1, <2>4, FloorCompare
    <3>2. Floor(t, W) - 1 \in 0 .. MaxTick /\ Floor(t, W) - 1 >= tick
      BY <1>1, <1>2, <2>1, <3>1
    <3>3. Q[t] = Q[MaxTick] /\ Q[Floor(t, W) - 1] = Q[MaxTick] /\ Q[MaxTick] \in Nat
      BY <1>1, <1>3, <1>5, <1>7, <2>4, <3>2
    <3> QED  BY <3>3
  <2> QED  BY <1>1, <2>2, <2>3, <2>4
<1>9. n + 1 \in Nat /\ n + 1 <= L /\ l \in 0 .. tick
  BY <1>1 DEF Windowed
<1> QED  BY <1>6, <1>7, <1>8, <1>9 DEF Windowed, Q

LEMMA PrefixGrows ==
  ASSUME NEW f \in [0 .. MaxTick -> Nat], NEW P, IsTally(P, f), tick \in 0 .. MaxTick
  PROVE  IsTally(MorePassed(P), [f EXCEPT ![tick] = @ + 1])
<1> DEFINE Q == MorePassed(P)
           g == [f EXCEPT ![tick] = @ + 1]
<1>1. MaxTick \in Nat /\ tick \in Nat
  BY LimitFacts
<1>2. \A t \in -1 .. MaxTick :
        /\ P[t] \in Nat
        /\ t >= tick => Q[t] = P[t] + 1
        /\ t < tick => Q[t] = P[t]
  BY <1>1, TallyFacts DEF MorePassed, IsTally
<1>3. \A t \in 0 .. MaxTick : g[t] = IF t = tick THEN f[t] + 1 ELSE f[t]
  OBVIOUS
<1>4. Q \in Tallies
  <2>1. \A t \in -1 .. MaxTick : Q[t] \in Nat
    BY <1>1, <1>2
  <2> QED  BY <2>1 DEF MorePassed, Tallies
<1> HIDE DEF Q, g
<1>5. Q[-1] = 0
  BY <1>1, <1>2 DEF IsTally
<1>6. ASSUME NEW t \in 0 .. MaxTick PROVE g[t] \in Nat /\ Q[t] = Q[t - 1] + g[t]
  <2>1. t \in -1 .. MaxTick /\ t - 1 \in -1 .. MaxTick
    BY <1>1
  <2>2. P[t] = P[t - 1] + f[t] /\ f[t] \in Nat
    BY DEF IsTally
  <2>3. P[t] \in Nat /\ P[t - 1] \in Nat
    BY <1>2, <2>1
  <2>4. CASE t = tick
    <3>1. Q[t] = P[t] + 1 /\ Q[t - 1] = P[t - 1] /\ g[t] = f[t] + 1
      BY <1>1, <1>2, <1>3, <2>1, <2>4
    <3> QED  BY <2>2, <2>3, <3>1, SMTT(30)
  <2>5. CASE t < tick
    <3>1. Q[t] = P[t] /\ Q[t - 1] = P[t - 1] /\ g[t] = f[t]
      BY <1>1, <1>2, <1>3, <2>1, <2>5
    <3> QED  BY <2>2, <2>3, <3>1
  <2>6. CASE t > tick
    <3>1. Q[t] = P[t] + 1 /\ Q[t - 1] = P[t - 1] + 1 /\ g[t] = f[t]
      BY <1>1, <1>2, <1>3, <2>1, <2>6
    <3> QED  BY <2>2, <2>3, <3>1
  <2> QED  BY <1>1, <2>4, <2>5, <2>6
<1>7. ASSUME NEW s \in -1 .. MaxTick, NEW t \in -1 .. MaxTick, s <= t PROVE Q[s] <= Q[t]
  <2>1. P[s] <= P[t]
    BY <1>7 DEF IsTally
  <2> QED  BY <1>1, <1>2, <1>7, <2>1
<1> QED  BY <1>4, <1>5, <1>6, <1>7 DEF IsTally, Q, g

LEMMA CountedNow ==
  ASSUME NEW Q, NEW c, tick' = tick, IsTally(Q, through'[c]),
         Windowed(Q, Ticks, PerSecond[c], window'[c].seconds, window'[c].lastSecond),
         Windowed(Q, Minute, PerMinute[c], window'[c].minutes, window'[c].lastMinute)
  PROVE  Counted(Q, c)'
BY DEF Counted, Windowed

LEMMA LimitAllowCounts ==
  ASSUME WindowIInv, NEW c \in LimitedClasses, LimitAllow(c)
  PROVE  WindowIInv'
<1> DEFINE w == Turned(window[c])
           ok == w.seconds < PerSecond[c] /\ w.minutes < PerMinute[c]
           filled == [w EXCEPT !.seconds = @ + 1, !.minutes = @ + 1]
<1>1. /\ MaxTick \in Nat /\ Ticks \in Nat \ {0} /\ Minute \in Nat \ {0}
      /\ PerSecond[c] \in Nat /\ PerMinute[c] \in Nat /\ tick \in 0 .. MaxTick /\ tick \in Nat
  BY LimitFacts DEF WindowIInv
<1>2. PICK P : Counted(P, c)
  BY DEF WindowIInv
<1>3. P \in Tallies /\ IsTally(P, through[c]) /\ through[c] \in [0 .. MaxTick -> Nat]
  BY <1>2 DEF Counted, IsTally, WindowIInv
<1>4. window[c] \in WindowRecord
  BY DEF WindowIInv
<1>5. /\ w.seconds = IF ~SameWindow(window[c].lastSecond, tick, Ticks) THEN 0 ELSE window[c].seconds
      /\ w.minutes = IF ~SameWindow(window[c].lastMinute, tick, Minute) THEN 0 ELSE window[c].minutes
      /\ w.lastSecond = IF ~SameWindow(window[c].lastSecond, tick, Ticks) THEN tick ELSE window[c].lastSecond
      /\ w.lastMinute = IF ~SameWindow(window[c].lastMinute, tick, Minute) THEN tick ELSE window[c].lastMinute
      /\ w \in WindowRecord
  BY <1>1, <1>4 DEF Turned, WindowRecord, SecondOf, MinuteOf, Minute, SameWindow
<1>6. /\ window' = [window EXCEPT ![c] = IF ok THEN filled ELSE w]
      /\ through' = IF ok THEN [through EXCEPT ![c][tick] = @ + 1] ELSE through
      /\ refusedNow' = (IF ok THEN {} ELSE {c}) /\ tick' = tick
  BY DEF LimitAllow
<1> HIDE DEF w
<1>7. Windowed(P, Ticks, PerSecond[c], w.seconds, w.lastSecond) /\ SameWindow(w.lastSecond, tick, Ticks)
  <2>1. Windowed(P, Ticks, PerSecond[c], window[c].seconds, window[c].lastSecond)
    BY <1>2 DEF Counted
  <2>2. CASE SameWindow(window[c].lastSecond, tick, Ticks)
    BY <1>5, <2>1, <2>2
  <2>3. CASE ~SameWindow(window[c].lastSecond, tick, Ticks)
    <3>1. Windowed(P, Ticks, PerSecond[c], 0, tick)
      BY <1>1, <1>3, <2>1, <2>3, WindowTurns
    <3> QED  BY <1>5, <2>3, <3>1 DEF SameWindow
  <2> QED  BY <2>2, <2>3
<1>8. Windowed(P, Minute, PerMinute[c], w.minutes, w.lastMinute) /\ SameWindow(w.lastMinute, tick, Minute)
  <2>1. Windowed(P, Minute, PerMinute[c], window[c].minutes, window[c].lastMinute)
    BY <1>2 DEF Counted
  <2>2. CASE SameWindow(window[c].lastMinute, tick, Minute)
    BY <1>5, <2>1, <2>2
  <2>3. CASE ~SameWindow(window[c].lastMinute, tick, Minute)
    <3>1. Windowed(P, Minute, PerMinute[c], 0, tick)
      BY <1>1, <1>3, <2>1, <2>3, WindowTurns
    <3> QED  BY <1>5, <2>3, <3>1 DEF SameWindow
  <2> QED  BY <2>2, <2>3
<1>9. \A d \in LimitedClasses \ {c} : window'[d] = window[d] /\ through'[d] = through[d]
  BY <1>6 DEF WindowIInv
<1>10. \A d \in LimitedClasses \ {c} : \E Q : Counted(Q, d)'
  <2> SUFFICES ASSUME NEW d \in LimitedClasses \ {c} PROVE \E Q : Counted(Q, d)'
    OBVIOUS
  <2>1. PICK Q : Counted(Q, d)
    BY DEF WindowIInv
  <2>2. Counted(Q, d)'
    BY <1>6, <1>9, <2>1, CountedNow DEF Counted
  <2> QED  BY <2>2
<1>11. CASE ok
  <2>1. /\ filled \in WindowRecord
        /\ filled.seconds = w.seconds + 1 /\ filled.minutes = w.minutes + 1
        /\ filled.lastSecond = w.lastSecond /\ filled.lastMinute = w.lastMinute
    <3> DEFINE half == [w EXCEPT !.seconds = @ + 1]
    <3>1. /\ half \in WindowRecord /\ half.seconds = w.seconds + 1 /\ half.minutes = w.minutes
          /\ half.lastSecond = w.lastSecond /\ half.lastMinute = w.lastMinute
      BY <1>5 DEF WindowRecord
    <3>2. filled = [half EXCEPT !.minutes = @ + 1]
      BY <3>1
    <3> HIDE DEF half, filled
    <3> QED  BY <3>1, <3>2 DEF WindowRecord
  <2>2. window'[c] = filled /\ through'[c] = [through[c] EXCEPT ![tick] = @ + 1]
    BY <1>6, <1>11 DEF WindowIInv
  <2> HIDE DEF filled
  <2>3. /\ Windowed(MorePassed(P), Ticks, PerSecond[c], w.seconds + 1, w.lastSecond)
        /\ Windowed(MorePassed(P), Minute, PerMinute[c], w.minutes + 1, w.lastMinute)
    BY <1>1, <1>3, <1>7, <1>8, <1>11, WindowFills
  <2>4. IsTally(MorePassed(P), through'[c])
    BY <1>1, <1>3, <2>2, PrefixGrows
  <2> PICK Q : Q = MorePassed(P)
    OBVIOUS
  <2>5. Counted(Q, c)'
    <3>1. Windowed(Q, Ticks, PerSecond[c], window'[c].seconds, window'[c].lastSecond)
      BY <2>1, <2>2, <2>3, Zenon
    <3>2. Windowed(Q, Minute, PerMinute[c], window'[c].minutes, window'[c].lastMinute)
      BY <2>1, <2>2, <2>3, Zenon
    <3>3. IsTally(Q, through'[c])
      BY <2>4
    <3>4. tick' = tick
      BY <1>6
    <3> HIDE DEF filled, ok
    <3> QED  BY <3>1, <3>2, <3>3, <3>4, CountedNow
  <2>6. \A d \in LimitedClasses : \E R : Counted(R, d)'
    BY <1>10, <2>5
  <2>7. window' \in [LimitedClasses -> WindowRecord] /\ refusedNow' = {}
    BY <1>6, <1>11, <2>1 DEF WindowIInv
  <2>8. through' \in [LimitedClasses -> [0 .. MaxTick -> Nat]]
    <3>1. through[c][tick] + 1 \in Nat
      BY <1>1, <1>3
    <3> QED  BY <1>1, <1>3, <1>6, <1>11, <3>1 DEF WindowIInv
  <2> QED  BY <1>1, <1>6, <2>6, <2>7, <2>8 DEF WindowIInv
<1>12. CASE ~ok
  <2>1. window'[c] = w /\ through' = through /\ refusedNow' = {c} /\ tick' = tick
    BY <1>6, <1>12 DEF WindowIInv
  <2>2. Counted(P, c)'
    BY <1>3, <1>7, <1>8, <2>1, CountedNow
  <2>3. \A d \in LimitedClasses : \E R : Counted(R, d)'
    BY <1>10, <2>2
  <2>4. window' \in [LimitedClasses -> WindowRecord]
    BY <1>5, <1>6, <1>12 DEF WindowIInv
  <2>5. UsedUp(c)'
    <3>1. w.seconds \in Nat /\ w.minutes \in Nat
      BY <1>5 DEF WindowRecord
    <3> QED  BY <1>1, <1>7, <1>8, <1>12, <2>1, <3>1 DEF UsedUp
  <2> QED  BY <1>1, <2>1, <2>3, <2>4, <2>5 DEF WindowIInv
<1> QED  BY <1>11, <1>12

LEMMA WindowNext == WindowIInv /\ [LimitNext]_limitVars => WindowIInv'
<1> SUFFICES ASSUME WindowIInv, [LimitNext]_limitVars PROVE WindowIInv'
  OBVIOUS
<1>1. ASSUME NEW c \in LimitedClasses, LimitAllow(c) PROVE WindowIInv'
  BY <1>1, LimitAllowCounts
<1>2. CASE LimitTick \/ UNCHANGED limitVars
  <2>1. /\ window' = window /\ through' = through /\ tick' \in 0 .. MaxTick /\ tick <= tick'
        /\ refusedNow' = {} \/ (refusedNow' = refusedNow /\ tick' = tick)
    BY <1>2, LimitFacts DEF LimitTick, limitVars, WindowIInv
  <2>2. ASSUME NEW P, NEW W, NEW L, NEW n, NEW l, Windowed(P, W, L, n, l) PROVE Windowed(P, W, L, n, l)'
    <3>1. tick \in Nat /\ tick' \in Nat
      BY <2>1, LimitFacts DEF WindowIInv
    <3>2. l \in 0 .. tick'
      BY <2>1, <2>2, <3>1 DEF Windowed
    <3>3. \A t \in 0 .. MaxTick : t >= tick' => t >= tick
      BY <2>1, <3>1, LimitFacts
    <3> QED  BY <2>2, <3>2, <3>3 DEF Windowed
  <2>3. ASSUME NEW c \in LimitedClasses PROVE \E P : Counted(P, c)'
    <3>1. PICK P : Counted(P, c)
      BY DEF WindowIInv
    <3>2. /\ Windowed(P, Ticks, PerSecond[c], window[c].seconds, window[c].lastSecond)'
          /\ Windowed(P, Minute, PerMinute[c], window[c].minutes, window[c].lastMinute)'
      BY <2>1, <2>2, <3>1, Zenon DEF Counted
    <3>3. Counted(P, c)'
      BY <2>1, <3>1, <3>2 DEF Counted
    <3> QED  BY <3>3
  <2>4. \A c \in refusedNow' : UsedUp(c)'
    BY <2>1 DEF WindowIInv, UsedUp
  <2> QED  BY <2>1, <2>3, <2>4 DEF WindowIInv
<1> QED  BY <1>1, <1>2 DEF LimitNext

LEMMA WindowStart == LimitInit => WindowIInv
<1> SUFFICES ASSUME LimitInit PROVE WindowIInv
  OBVIOUS
<1> DEFINE P == [t \in -1 .. MaxTick |-> 0]
<1>1. /\ window = [c \in LimitedClasses |->
            [seconds |-> 0, minutes |-> 0, lastSecond |-> 0, lastMinute |-> 0]]
      /\ tick = 0 /\ refusedNow = {} /\ through = [c \in LimitedClasses |-> [t \in 0 .. MaxTick |-> 0]]
  BY DEF LimitInit
<1>2. P \in Tallies /\ \A t \in -1 .. MaxTick : P[t] = 0
  BY DEF Tallies
<1> HIDE DEF P
<1>3. IsTally(P, [t \in 0 .. MaxTick |-> 0])
  <2>1. MaxTick \in Nat /\ -1 \in -1 .. MaxTick
    BY LimitFacts
  <2>2. \A t \in 0 .. MaxTick : t \in -1 .. MaxTick /\ t - 1 \in -1 .. MaxTick
    BY <2>1
  <2> QED  BY <1>2, <2>1, <2>2 DEF IsTally
<1>4. ASSUME NEW W \in Nat \ {0}, NEW L \in Nat PROVE Windowed(P, W, L, 0, 0)
  <2>1. MaxTick \in Nat
    BY LimitFacts
  <2>2. ASSUME NEW t \in 0 .. MaxTick PROVE P[t] = 0 /\ P[Floor(t, W) - 1] = 0
    <3>1. t \in Nat /\ t <= MaxTick
      BY <2>1
    <3>2. Floor(t, W) \in Nat /\ Floor(t, W) <= t
      BY <3>1, FloorFacts
    <3>3. Floor(t, W) - 1 \in -1 .. MaxTick /\ t \in -1 .. MaxTick
      BY <2>1, <3>1, <3>2
    <3> QED  BY <1>2, <3>3
  <2>3. 0 \in 0 .. MaxTick /\ MaxTick \in 0 .. MaxTick
    BY <2>1
  <2>4. P[MaxTick] = 0 /\ P[Floor(0, W) - 1] = 0
    BY <2>2, <2>3
  <2> QED  BY <1>1, <2>2, <2>4 DEF Windowed
<1>5. ASSUME NEW c \in LimitedClasses PROVE Counted(P, c)
  <2>1. /\ through[c] = [t \in 0 .. MaxTick |-> 0]
        /\ window[c].seconds = 0 /\ window[c].lastSecond = 0
        /\ window[c].minutes = 0 /\ window[c].lastMinute = 0
    BY <1>1
  <2>2. Windowed(P, Ticks, PerSecond[c], 0, 0) /\ Windowed(P, Minute, PerMinute[c], 0, 0)
    BY <1>4, LimitFacts
  <2> QED  BY <1>3, <2>1, <2>2 DEF Counted
<1>6. /\ tick \in 0 .. MaxTick /\ window \in [LimitedClasses -> WindowRecord]
      /\ through \in [LimitedClasses -> [0 .. MaxTick -> Nat]] /\ refusedNow = {}
  BY <1>1, LimitFacts DEF WindowRecord
<1> QED  BY <1>5, <1>6 DEF WindowIInv

(* What passes in the window of this tick, and in any W ticks up to now.      *)
LEMMA WindowTotals ==
  ASSUME NEW W \in Nat \ {0}, NEW L \in Nat, NEW c, NEW P, NEW n, NEW l,
         IsTally(P, through[c]), Windowed(P, W, L, n, l), tick \in 0 .. MaxTick
  PROVE  /\ Floor(tick, W) \in 0 .. tick
         /\ Total(c, Floor(tick, W), tick) \in Int /\ Total(c, Floor(tick, W), tick) <= L
         /\ LET from == tick - W + 1 IN
            /\ Total(c, IF from < 0 THEN 0 ELSE from, tick) \in Int
            /\ Total(c, IF from < 0 THEN 0 ELSE from, tick) <= 2 * L
         /\ SameWindow(l, tick, W) => Total(c, Floor(tick, W), tick) = n
<1> DEFINE f == Floor(tick, W)
           a == IF tick - W + 1 < 0 THEN 0 ELSE tick - W + 1
<1>1. /\ MaxTick \in Nat /\ tick \in Nat /\ tick <= MaxTick /\ n \in Nat /\ l \in Nat
      /\ P \in Tallies
  BY LimitFacts DEF Windowed, IsTally
<1>2. f \in Nat /\ f <= tick /\ tick < f + W
  BY <1>1, FloorFacts
<1>3. P[tick] - P[f - 1] <= L
  BY DEF Windowed
<1>4. f # 0 => f - 1 \in Nat /\ Floor(f - 1, W) = f - W
  BY <1>1, FloorBefore
<1>5. f # 0 => P[f - 1] - P[f - W - 1] <= L
  <2>1. f # 0 => f - 1 \in 0 .. MaxTick
    BY <1>1, <1>2
  <2>2. f # 0 => P[f - 1] - P[Floor(f - 1, W) - 1] <= L
    BY <2>1 DEF Windowed
  <2> QED  BY <1>4, <2>2
<1> HIDE DEF f
<1>6. a \in 0 .. MaxTick /\ tick \in a .. MaxTick /\ a - 1 >= f - W /\ a \in Nat
  BY <1>1, <1>2
<1>7. f \in 0 .. MaxTick /\ tick \in f .. MaxTick /\ f \in 0 .. tick
  BY <1>1, <1>2
<1>8. Total(c, f, tick) = P[tick] - P[f - 1] /\ Total(c, a, tick) = P[tick] - P[a - 1]
  BY <1>6, <1>7, TotalOf
<1> HIDE DEF a
<1>9. P[tick] \in Nat /\ P[f - 1] \in Nat /\ P[a - 1] \in Nat
  BY <1>1, <1>2, <1>6, TallyFacts
<1>10. P[tick] - P[a - 1] <= 2 * L
  <2>1. CASE a - 1 >= f - 1
    <3>1. P[f - 1] <= P[a - 1]
      BY <1>1, <1>2, <1>6, <2>1 DEF IsTally
    <3> QED  BY <1>3, <1>9, <3>1
  <2>2. CASE a - 1 < f - 1
    <3>1. f # 0 /\ f - W >= 0
      <4>1. f # 0 /\ f - 1 \in Nat /\ Floor(f - 1, W) = f - W
        BY <1>2, <1>4, <1>6, <2>2
      <4>2. Floor(f - 1, W) \in Nat
        BY <4>1, FloorFacts
      <4> QED  BY <4>1, <4>2
    <3>2. P[f - W - 1] <= P[a - 1] /\ P[f - W - 1] \in Nat
      <4>1. f - W - 1 \in -1 .. MaxTick /\ a - 1 \in -1 .. MaxTick /\ f - W - 1 <= a - 1
        BY <1>1, <1>2, <1>6, <3>1
      <4> QED  BY <1>1, <4>1, TallyFacts DEF IsTally
    <3>3. P[f - 1] - P[f - W - 1] <= L
      BY <1>5, <3>1
    <3> QED  BY <1>3, <1>9, <3>2, <3>3
  <2> QED  BY <1>2, <1>6, <2>1, <2>2
<1>11. SameWindow(l, tick, W) => P[tick] - P[f - 1] = n
  <2> SUFFICES ASSUME SameWindow(l, tick, W) PROVE P[tick] - P[f - 1] = n
    OBVIOUS
  <2>1. Floor(l, W) = f
    BY <1>1, FloorCompare DEF f
  <2>2. P[tick] = P[MaxTick] /\ P[MaxTick] - P[Floor(l, W) - 1] = n
    BY <1>1 DEF Windowed
  <2> QED  BY <2>1, <2>2
<1> QED  BY <1>3, <1>7, <1>8, <1>9, <1>10, <1>11 DEF f, a

(* The first tick of the window.                                             *)
LEMMA FirstOfWindow ==
  ASSUME NEW W \in Nat \ {0}, tick \in 0 .. MaxTick
  PROVE  (CHOOSE t \in {t \in 0 .. MaxTick : t \div W = tick \div W} :
            \A u \in {v \in 0 .. MaxTick : v \div W = tick \div W} : t <= u) = Floor(tick, W)
<1> DEFINE S == {t \in 0 .. MaxTick : SameWindow(t, tick, W)}
<1>1. MaxTick \in Nat /\ tick \in Nat /\ tick <= MaxTick
  BY LimitFacts
<1>2. Floor(tick, W) \in Nat /\ Floor(tick, W) <= tick /\ SameWindow(Floor(tick, W), tick, W)
  BY <1>1, FloorFacts
<1>3. Floor(tick, W) \in S
  BY <1>1, <1>2
<1>4. ASSUME NEW u \in S PROVE u \in Nat /\ Floor(tick, W) <= u
  <2>1. u \in Nat /\ Floor(u, W) = Floor(tick, W)
    BY <1>1, FloorCompare
  <2> QED  BY <2>1, FloorFacts
<1> HIDE DEF S
<1>5. (CHOOSE t \in S : \A u \in S : t <= u) = Floor(tick, W)
  <2>1. \A t \in S : (\A u \in S : t <= u) => t = Floor(tick, W)
    BY <1>2, <1>3, <1>4
  <2>2. \E t \in S : \A u \in S : t <= u
    BY <1>3, <1>4
  <2> QED  BY <2>1, <2>2
<1> QED  BY <1>5 DEF S, SameWindow

(* For all limits and ticks: a window lets through what it may and refuses      *)
(* only when that is used up, and no stretch of its length sees more than two   *)
(* windows' worth (ratelimit.py, allow, remaining).                            *)
THEOREM LimitsHold == LimitSpec => []WindowsHold
<1>1. ASSUME WindowIInv PROVE WindowsHold
  <2> SUFFICES ASSUME NEW c \in LimitedClasses
      PROVE  LET second == {t \in 0 .. MaxTick : SecondOf(t) = SecondOf(tick)}
                 minute == {t \in 0 .. MaxTick : MinuteOf(t) = MinuteOf(tick)}
                 over(from, limit) == Total(c, IF from < 0 THEN 0 ELSE from, tick) > limit
                 used(S, limit) == Total(c, CHOOSE t \in S : \A u \in S : t <= u, tick) >= limit
             IN /\ ~over(tick - Ticks + 1, 2 * PerSecond[c])
                /\ ~over(tick - Ticks * Seconds + 1, 2 * PerMinute[c])
                /\ ~over(tick - (tick % (Ticks * Seconds)), PerMinute[c])
                /\ ~over(tick - (tick % Ticks), PerSecond[c])
                /\ LET told == Remaining(c) w == Turned(window[c])
                   IN /\ told.seconds <= PerSecond[c] - w.seconds
                      /\ told.minutes <= PerMinute[c] - w.minutes
                /\ c \in refusedNow => used(second, PerSecond[c]) \/ used(minute, PerMinute[c])
    BY DEF WindowsHold
  <2>1. /\ MaxTick \in Nat /\ tick \in 0 .. MaxTick /\ tick \in Nat
        /\ Ticks \in Nat \ {0} /\ Minute \in Nat \ {0}
        /\ PerSecond[c] \in Nat /\ PerMinute[c] \in Nat
    BY <1>1, LimitFacts DEF WindowIInv
  <2>2. PICK P : Counted(P, c)
    BY <1>1 DEF WindowIInv
  <2>3. /\ IsTally(P, through[c])
        /\ Windowed(P, Ticks, PerSecond[c], window[c].seconds, window[c].lastSecond)
        /\ Windowed(P, Minute, PerMinute[c], window[c].minutes, window[c].lastMinute)
    BY <2>2 DEF Counted
  <2> DEFINE fs == Floor(tick, Ticks)
             fm == Floor(tick, Minute)
             as == IF tick - Ticks + 1 < 0 THEN 0 ELSE tick - Ticks + 1
             am == IF tick - Minute + 1 < 0 THEN 0 ELSE tick - Minute + 1
  <2>4. /\ fs \in 0 .. tick /\ Total(c, fs, tick) \in Int /\ Total(c, fs, tick) <= PerSecond[c]
        /\ Total(c, as, tick) \in Int /\ Total(c, as, tick) <= 2 * PerSecond[c]
        /\ SameWindow(window[c].lastSecond, tick, Ticks) => Total(c, fs, tick) = window[c].seconds
    BY <2>1, <2>3, WindowTotals
  <2>5. /\ fm \in 0 .. tick /\ Total(c, fm, tick) \in Int /\ Total(c, fm, tick) <= PerMinute[c]
        /\ Total(c, am, tick) \in Int /\ Total(c, am, tick) <= 2 * PerMinute[c]
        /\ SameWindow(window[c].lastMinute, tick, Minute) => Total(c, fm, tick) = window[c].minutes
    BY <2>1, <2>3, WindowTotals
  <2>6. tick - (tick % Ticks) = fs /\ tick - (tick % Minute) = fm
    BY <2>1, FloorArithmetic
  <2>7. /\ Remaining(c).seconds <= PerSecond[c] - Turned(window[c]).seconds
        /\ Remaining(c).minutes <= PerMinute[c] - Turned(window[c]).minutes
    <3>1. /\ window[c].seconds \in Nat /\ window[c].seconds <= PerSecond[c]
          /\ window[c].minutes \in Nat /\ window[c].minutes <= PerMinute[c]
      BY <2>3 DEF Windowed
    <3>2. /\ Turned(window[c]).seconds \in {0, window[c].seconds}
          /\ Turned(window[c]).minutes \in {0, window[c].minutes}
      BY DEF Turned
    <3>3. /\ Remaining(c).seconds = PerSecond[c] - window[c].seconds
          /\ Remaining(c).minutes = PerMinute[c] - window[c].minutes
      BY <2>1, <3>1 DEF Remaining
    <3> QED  BY <2>1, <3>1, <3>2, <3>3
  <2>8. /\ (CHOOSE t \in {u \in 0 .. MaxTick : SecondOf(u) = SecondOf(tick)} :
             \A v \in {u \in 0 .. MaxTick : SecondOf(u) = SecondOf(tick)} : t <= v) = fs
        /\ (CHOOSE t \in {u \in 0 .. MaxTick : MinuteOf(u) = MinuteOf(tick)} :
             \A v \in {u \in 0 .. MaxTick : MinuteOf(u) = MinuteOf(tick)} : t <= v) = fm
    BY <2>1, FirstOfWindow DEF SecondOf, MinuteOf, Minute
  <2>9. c \in refusedNow =>
          \/ Total(c, fs, tick) >= PerSecond[c]
          \/ Total(c, fm, tick) >= PerMinute[c]
    BY <1>1, <2>4, <2>5 DEF WindowIInv, UsedUp
  <2>10. ~ (Total(c, as, tick) > 2 * PerSecond[c]) /\ ~ (Total(c, am, tick) > 2 * PerMinute[c])
    <3> HIDE DEF as, am, fs, fm
    <3>1. /\ Total(c, as, tick) \in Int /\ Total(c, as, tick) <= 2 * PerSecond[c]
          /\ Total(c, am, tick) \in Int /\ Total(c, am, tick) <= 2 * PerMinute[c]
      BY <2>4, <2>5
    <3>2. PerSecond[c] \in Nat /\ PerMinute[c] \in Nat
      BY <2>1
    <3>3. \A x \in Int, limit \in Nat : x <= 2 * limit => ~ (x > 2 * limit)
      OBVIOUS
    <3> QED  BY <3>1, <3>2, <3>3
  <2>11. /\ ~ (fs < 0) /\ ~ (Total(c, fs, tick) > PerSecond[c])
         /\ ~ (fm < 0) /\ ~ (Total(c, fm, tick) > PerMinute[c])
    <3> HIDE DEF fs, fm
    <3> QED  BY <2>1, <2>4, <2>5
  <2> DEFINE over(from, limit) == Total(c, IF from < 0 THEN 0 ELSE from, tick) > limit
             second == {t \in 0 .. MaxTick : SecondOf(t) = SecondOf(tick)}
             minute == {t \in 0 .. MaxTick : MinuteOf(t) = MinuteOf(tick)}
             used(S, limit) == Total(c, CHOOSE t \in S : \A u \in S : t <= u, tick) >= limit
  <2>12. ~over(tick - Ticks + 1, 2 * PerSecond[c])
    BY <2>10
  <2>13. ~over(tick - Ticks * Seconds + 1, 2 * PerMinute[c])
    BY <2>10 DEF Minute
  <2> HIDE DEF fs, fm
  <2>14. ~over(tick - (tick % Ticks), PerSecond[c])
    BY <2>6, <2>11
  <2>15. ~over(tick - (tick % (Ticks * Seconds)), PerMinute[c])
    BY <2>6, <2>11 DEF Minute
  <2>16. c \in refusedNow => used(second, PerSecond[c]) \/ used(minute, PerMinute[c])
    BY <2>8, <2>9, Zenon
  <2> HIDE DEF over, used, second, minute
  <2>17. LET told == Remaining(c) w == Turned(window[c])
         IN /\ told.seconds <= PerSecond[c] - w.seconds
            /\ told.minutes <= PerMinute[c] - w.minutes
    BY <2>7
  <2> QED  BY <2>12, <2>13, <2>14, <2>15, <2>16, <2>17 DEF over, used, second, minute
<1> QED  BY <1>1, WindowStart, WindowNext, PTL DEF LimitSpec

--------------------------------------------------------------------------------
(***************************************************************************)
(* The flow records of NetFlow8.  Each flow's packets are cut into stretches *)
(* by the records told of them, one after the other; what is not told yet is  *)
(* the entry that is still open.                                            *)
(***************************************************************************)

(* A sum, number by number.                                                 *)
SumSteps(sum, s) == sum[0] = 0 /\ \A i \in 1 .. Len(s) : sum[i] = sum[i - 1] + s[i]

LEMMA SumBySteps ==
  ASSUME NEW s \in Seq(Nat)
  PROVE  \E sum : SumSteps(sum, s) /\ SumOf(s) = sum[Len(s)]
<1> DEFINE n == Len(s)
           Next1(x, i) == x + s[i]
           All(f) == f = [i \in 0 .. n |-> IF i = 0 THEN 0 ELSE Next1(f[i - 1], i)]
           step == [i \in 1 .. n |-> [x \in Nat |-> Next1(x, i)]]
           sum == CHOOSE f : All(f)
<1>1. n \in Nat /\ \A i \in 1 .. n : s[i] \in Nat
  OBVIOUS
<1>2. step \in Steps(n, Nat)
  <2>1. \A i \in 1 .. n, x \in Nat : Next1(x, i) \in Nat
    BY <1>1
  <2> HIDE DEF Next1
  <2> QED  BY <2>1 DEF Steps
<1>3. \E f : All(f)
  <2> HIDE DEF Next1, n
  <2>1. PICK f \in Runs(n, Nat) : Iterated(f, 0, step, n)
    <3> HIDE DEF step
    <3> QED  BY <1>1, <1>2, Iterates
  <2>2. ASSUME NEW i \in 0 .. n PROVE f[i] = IF i = 0 THEN 0 ELSE Next1(f[i - 1], i)
    <3>1. i # 0 => i \in 1 .. n /\ i - 1 \in 0 .. n
      BY <1>1
    <3>2. i # 0 => f[i - 1] \in Nat
      BY <2>1, <3>1 DEF Runs
    <3> QED  BY <2>1, <3>1, <3>2 DEF Iterated
  <2> HIDE DEF step
  <2>3. f = [i \in 0 .. n |-> f[i]]
    BY <2>1 DEF Runs
  <2>4. f = [i \in 0 .. n |-> IF i = 0 THEN 0 ELSE Next1(f[i - 1], i)]
    BY <2>2, <2>3
  <2> QED  BY <2>4
<1>4. All(sum)
  <2> HIDE DEF All
  <2> QED  BY <1>3
<1>5. SumOf(s) = sum[n]
  BY DEF SumOf
<1> HIDE DEF sum, n
<1>6. sum[0] = 0 /\ \A i \in 1 .. n : sum[i] = Next1(sum[i - 1], i)
  <2> HIDE DEF Next1
  <2>1. 0 \in 0 .. n /\ \A i \in 1 .. n : i \in 0 .. n /\ i # 0
    BY <1>1
  <2> QED  BY <1>4, <2>1
<1> QED  BY <1>5, <1>6 DEF SumSteps, n

(* Sums of the same numbers agree.                                          *)
Climbs(f, s, n) == \A i \in 1 .. n : f[i] = f[i - 1] + s[i]
Alike(s, t, n) == \A i \in 1 .. n : s[i] = t[i]

LEMMA SumsAgree ==
  ASSUME NEW n \in Nat, NEW f, NEW g, NEW s, NEW t,
         f[0] = g[0], Climbs(f, s, n), Climbs(g, t, n), Alike(s, t, n)
  PROVE  f[n] = g[n]
<1> DEFINE S == {k \in 0 .. n : f[k] = g[k]}
<1>1. 0 \in S
  OBVIOUS
<1>2. ASSUME NEW k \in 0 .. n - 1, k \in S PROVE k + 1 \in S
  <2>1. k + 1 \in 1 .. n /\ (k + 1) - 1 = k /\ k + 1 \in 0 .. n
    OBVIOUS
  <2>2. f[k + 1] = f[k] + s[k + 1] /\ g[k + 1] = g[k] + t[k + 1] /\ s[k + 1] = t[k + 1]
    BY <2>1 DEF Climbs, Alike
  <2> QED  BY <1>2, <2>1, <2>2
<1>3. \A k \in 0 .. n : k \in S
  <2> HIDE DEF S
  <2>1. 0 \in Int /\ n \in Int
    OBVIOUS
  <2> QED  BY <1>1, <1>2, <2>1, UpFrom
<1> QED  BY <1>3

LEMMA SumTypes ==
  ASSUME NEW s \in Seq(Nat) PROVE SumOf(s) \in Nat
<1>1. PICK sum : SumSteps(sum, s) /\ SumOf(s) = sum[Len(s)]
  BY SumBySteps
<1> DEFINE n == Len(s)
           S == {k \in 0 .. n : sum[k] \in Nat}
<1>2. n \in Nat /\ \A i \in 1 .. n : s[i] \in Nat
  OBVIOUS
<1> HIDE DEF n
<1>3. sum[0] = 0 /\ \A i \in 1 .. n : sum[i] = sum[i - 1] + s[i]
  BY <1>1 DEF SumSteps, n
<1>4. 0 \in S
  BY <1>2, <1>3
<1>5. ASSUME NEW k \in 0 .. n - 1, k \in S PROVE k + 1 \in S
  <2>1. k + 1 \in 1 .. n /\ (k + 1) - 1 = k /\ k + 1 \in 0 .. n
    BY <1>2
  <2>2. sum[k + 1] = sum[k] + s[k + 1] /\ s[k + 1] \in Nat
    BY <1>2, <1>3, <2>1
  <2> QED  BY <1>5, <2>1, <2>2
<1>6. \A k \in 0 .. n : k \in S
  <2> HIDE DEF S
  <2>1. 0 \in Int /\ n \in Int
    BY <1>2
  <2> QED  BY <1>4, <1>5, <2>1, UpFrom
<1>7. n \in 0 .. n
  BY <1>2
<1> QED  BY <1>1, <1>6, <1>7 DEF n

LEMMA SumAppend ==
  ASSUME NEW s \in Seq(Nat), NEW x \in Nat
  PROVE  SumOf(<< >>) = 0 /\ SumOf(Append(s, x)) = SumOf(s) + x
<1>1. SumOf(<< >>) = 0
  <2>1. << >> \in Seq(Nat) /\ Len(<< >>) = 0
    OBVIOUS
  <2>2. PICK sum : SumSteps(sum, << >>) /\ SumOf(<< >>) = sum[Len(<< >>)]
    BY <2>1, SumBySteps
  <2> QED  BY <2>1, <2>2 DEF SumSteps
<1> DEFINE u == Append(s, x)  n == Len(s)
<1>2. u \in Seq(Nat) /\ Len(u) = n + 1 /\ u[n + 1] = x /\ n \in Nat
      /\ \A i \in 1 .. n : u[i] = s[i]
  BY AppendProperties
<1> HIDE DEF u, n
<1>3. PICK f : SumSteps(f, s) /\ SumOf(s) = f[n]
  BY SumBySteps DEF n
<1>4. PICK g : SumSteps(g, u) /\ SumOf(u) = g[n + 1]
  <2>1. \E g : SumSteps(g, u) /\ SumOf(u) = g[Len(u)]
    BY <1>2, SumBySteps
  <2> QED  BY <1>2, <2>1
<1>5. f[0] = g[0] /\ Climbs(f, s, n)
  BY <1>3, <1>4 DEF SumSteps, Climbs, n
<1>6. \A i \in 1 .. n + 1 : g[i] = g[i - 1] + u[i]
  BY <1>2, <1>4 DEF SumSteps
<1>7. Climbs(g, u, n) /\ Alike(s, u, n)
  BY <1>2, <1>6 DEF Climbs, Alike
<1>8. f[n] = g[n]
  BY <1>2, <1>5, <1>7, SumsAgree
<1>9. g[n + 1] = g[n] + x
  <2>1. n + 1 \in 1 .. n + 1 /\ (n + 1) - 1 = n
    BY <1>2
  <2> QED  BY <1>2, <1>6, <2>1
<1> QED  BY <1>1, <1>3, <1>4, <1>8, <1>9 DEF u

Sighting == [at : Nat, size : Nat]

LEMMA PacketsAppend ==
  ASSUME NEW X \in Seq(Flow), NEW r \in Flow
  PROVE  PacketsOf(<< >>) = 0 /\ PacketsOf(X) \in Nat
         /\ PacketsOf(Append(X, r)) = PacketsOf(X) + r.packets
<1> DEFINE nums(s) == [i \in DOMAIN s |-> s[i].packets]  u == Append(X, r)  n == Len(X)
<1>1. n \in Nat /\ DOMAIN X = 1 .. n /\ \A i \in 1 .. n : X[i] \in Flow
  OBVIOUS
<1>2. u \in Seq(Flow) /\ Len(u) = n + 1 /\ u[n + 1] = r /\ \A i \in 1 .. n : u[i] = X[i]
  BY AppendProperties
<1>3. DOMAIN u = 1 .. n + 1
  BY <1>2
<1> HIDE DEF u
<1>4. nums(X) \in Seq(Nat) /\ r.packets \in Nat
  BY <1>1 DEF Flow
<1> DEFINE v == Append(nums(X), r.packets)
<1>5. Len(nums(X)) = n
  BY <1>1
<1>6. DOMAIN v = 1 .. n + 1 /\ v \in Seq(Nat) /\ v[n + 1] = r.packets
      /\ \A i \in 1 .. n : v[i] = X[i].packets
  <2> DEFINE w == nums(X)
  <2>1. w \in Seq(Nat) /\ Len(w) = n /\ \A i \in 1 .. n : w[i] = X[i].packets
    BY <1>1, <1>4, <1>5
  <2> HIDE DEF w
  <2>2. Append(w, r.packets) \in Seq(Nat) /\ Len(Append(w, r.packets)) = n + 1
        /\ Append(w, r.packets)[n + 1] = r.packets /\ \A i \in 1 .. n : Append(w, r.packets)[i] = w[i]
    BY <1>4, <2>1, AppendProperties
  <2> DEFINE z == Append(w, r.packets)
  <2> HIDE DEF z
  <2>3. z \in Seq(Nat) /\ Len(z) = n + 1 /\ z[n + 1] = r.packets /\ \A i \in 1 .. n : z[i] = X[i].packets
    BY <2>1, <2>2 DEF z
  <2>4. DOMAIN z = 1 .. n + 1
    BY <2>3
  <2> QED  BY <2>3, <2>4 DEF z, w
<1>7. nums(u) = v
  <2> HIDE DEF v
  <2>1. \A i \in 1 .. n + 1 : v[i] = u[i].packets
    <3> SUFFICES ASSUME NEW i \in 1 .. n + 1 PROVE v[i] = u[i].packets
      OBVIOUS
    <3>1. CASE i = n + 1
      BY <1>2, <1>6, <3>1
    <3>2. CASE i # n + 1
      <4>1. i \in 1 .. n
        BY <1>1, <3>2
      <4> QED  BY <1>2, <1>6, <4>1
    <3> QED  BY <3>1, <3>2
  <2>2. v = [i \in 1 .. n + 1 |-> v[i]]
    BY <1>6
  <2> QED  BY <1>3, <2>1, <2>2
<1>8. nums(<< >>) = << >>
  OBVIOUS
<1>9. PacketsOf(u) = SumOf(nums(X)) + r.packets
  BY <1>4, <1>7, SumAppend DEF PacketsOf
<1> QED  BY <1>4, <1>8, <1>9, SumAppend, SumTypes DEF PacketsOf, u

LEMMA OctetsAppend ==
  ASSUME NEW X \in Seq(Sighting), NEW r \in Sighting
  PROVE  OctetsOf(<< >>) = 0 /\ OctetsOf(X) \in Nat
         /\ OctetsOf(Append(X, r)) = OctetsOf(X) + r.size
<1> DEFINE nums(s) == [i \in DOMAIN s |-> s[i].size]  u == Append(X, r)  n == Len(X)
<1>1. n \in Nat /\ DOMAIN X = 1 .. n /\ \A i \in 1 .. n : X[i] \in Sighting
  OBVIOUS
<1>2. u \in Seq(Sighting) /\ Len(u) = n + 1 /\ u[n + 1] = r /\ \A i \in 1 .. n : u[i] = X[i]
  BY AppendProperties
<1>3. DOMAIN u = 1 .. n + 1
  BY <1>2
<1> HIDE DEF u
<1>4. nums(X) \in Seq(Nat) /\ r.size \in Nat
  BY <1>1 DEF Sighting
<1> DEFINE v == Append(nums(X), r.size)
<1>5. Len(nums(X)) = n
  BY <1>1
<1>6. DOMAIN v = 1 .. n + 1 /\ v \in Seq(Nat) /\ v[n + 1] = r.size
      /\ \A i \in 1 .. n : v[i] = X[i].size
  <2> DEFINE w == nums(X)
  <2>1. w \in Seq(Nat) /\ Len(w) = n /\ \A i \in 1 .. n : w[i] = X[i].size
    BY <1>1, <1>4, <1>5
  <2> HIDE DEF w
  <2>2. Append(w, r.size) \in Seq(Nat) /\ Len(Append(w, r.size)) = n + 1
        /\ Append(w, r.size)[n + 1] = r.size /\ \A i \in 1 .. n : Append(w, r.size)[i] = w[i]
    BY <1>4, <2>1, AppendProperties
  <2> DEFINE z == Append(w, r.size)
  <2> HIDE DEF z
  <2>3. z \in Seq(Nat) /\ Len(z) = n + 1 /\ z[n + 1] = r.size /\ \A i \in 1 .. n : z[i] = X[i].size
    BY <2>1, <2>2 DEF z
  <2>4. DOMAIN z = 1 .. n + 1
    BY <2>3
  <2> QED  BY <2>3, <2>4 DEF z, w
<1>7. nums(u) = v
  <2> HIDE DEF v
  <2>1. \A i \in 1 .. n + 1 : v[i] = u[i].size
    <3> SUFFICES ASSUME NEW i \in 1 .. n + 1 PROVE v[i] = u[i].size
      OBVIOUS
    <3>1. CASE i = n + 1
      BY <1>2, <1>6, <3>1
    <3>2. CASE i # n + 1
      <4>1. i \in 1 .. n
        BY <1>1, <3>2
      <4> QED  BY <1>2, <1>6, <4>1
    <3> QED  BY <3>1, <3>2
  <2>2. v = [i \in 1 .. n + 1 |-> v[i]]
    BY <1>6
  <2> QED  BY <1>3, <2>1, <2>2
<1>8. nums(<< >>) = << >>
  OBVIOUS
<1>9. OctetsOf(u) = SumOf(nums(X)) + r.size
  BY <1>4, <1>7, SumAppend DEF OctetsOf
<1> QED  BY <1>4, <1>8, <1>9, SumAppend, SumTypes DEF OctetsOf, u

(* A stretch of a sequence that grows, and one that grows with it.          *)
LEMMA StretchOf ==
  ASSUME NEW P, NEW s \in Seq(P), NEW x \in P, NEW a \in 0 .. Len(s)
  PROVE  LET u == Append(s, x) IN
         /\ \A b \in a .. Len(s) : SubSeq(u, a + 1, b) = SubSeq(s, a + 1, b) /\ SubSeq(s, a + 1, b) \in Seq(P)
         /\ SubSeq(u, a + 1, Len(s) + 1) = Append(SubSeq(s, a + 1, Len(s)), x)
<1> DEFINE u == Append(s, x)  n == Len(s)
<1>1. n \in Nat /\ a \in Nat /\ a <= n /\ \A i \in 1 .. n : s[i] \in P
  OBVIOUS
<1>2. u \in Seq(P) /\ Len(u) = n + 1 /\ u[n + 1] = x /\ \A i \in 1 .. n : u[i] = s[i]
  BY AppendProperties
<1> HIDE DEF u, n
<1>3. ASSUME NEW b \in a .. n
      PROVE  SubSeq(u, a + 1, b) = SubSeq(s, a + 1, b) /\ SubSeq(s, a + 1, b) \in Seq(P)
  <2>1. a + 1 \in Int /\ b \in Int /\ \A i \in a + 1 .. b : i \in 1 .. n
    BY <1>1
  <2>2. \A i \in a + 1 .. b : s[i] \in P /\ u[i] \in P /\ u[i] = s[i]
    BY <1>1, <1>2, <2>1
  <2> DEFINE v == SubSeq(s, a + 1, b)  w == SubSeq(u, a + 1, b)
             m == IF a + 1 <= b THEN b - (a + 1) + 1 ELSE 0
  <2>3. /\ v \in Seq(P) /\ Len(v) = m
        /\ \A i \in 1 .. b - (a + 1) + 1 : v[i] = s[a + 1 + i - 1]
    BY <2>1, <2>2, SubSeqProperties
  <2>4. /\ w \in Seq(P) /\ Len(w) = m
        /\ \A i \in 1 .. b - (a + 1) + 1 : w[i] = u[a + 1 + i - 1]
    BY <2>1, <2>2, SubSeqProperties
  <2> HIDE DEF v, w
  <2>5. m \in Nat /\ \A i \in 1 .. m : i \in 1 .. b - (a + 1) + 1 /\ a + 1 + i - 1 \in a + 1 .. b
    BY <1>1
  <2> HIDE DEF m
  <2>6. \A i \in 1 .. m : v[i] = w[i]
    BY <2>2, <2>3, <2>4, <2>5
  <2>7. v = w
    BY <2>3, <2>4, <2>6, SeqEqual
  <2> QED  BY <2>3, <2>7 DEF v, w
<1>4. SubSeq(u, a + 1, n + 1) = Append(SubSeq(s, a + 1, n), x)
  <2>1. a + 1 \in 1 .. Len(u) /\ n + 1 \in a + 1 .. Len(u) /\ (n + 1) - 1 = n /\ n \in a .. n
    BY <1>1, <1>2
  <2>2. SubSeq(u, a + 1, n + 1) = SubSeq(u, a + 1, n) \o <<u[n + 1]>>
    <3>1. SubSeq(u, a + 1, n + 1) = SubSeq(u, a + 1, (n + 1) - 1) \o <<u[n + 1]>>
      BY <1>2, <2>1, SubSeqRecursiveSecond
    <3> QED  BY <2>1, <3>1
  <2> DEFINE v == SubSeq(s, a + 1, n)
  <2>3. v \in Seq(P) /\ SubSeq(u, a + 1, n) = v
    BY <1>3, <2>1
  <2> HIDE DEF v
  <2>4. Append(v, x) = v \o <<x>>
    BY <2>3, AppendIsConcat
  <2> QED  BY <1>2, <2>2, <2>3, <2>4 DEF v
<1> QED  BY <1>3, <1>4 DEF u, n

(* Record r tells the packets of O after number a up to number b.           *)
Tells(r, O, a, b) ==
  /\ a \in 0 .. Len(O) /\ b \in a + 1 .. Len(O)
  /\ r.packets = b - a
  /\ r.first = O[a + 1].at /\ r.last = O[b].at
  /\ r.octets = OctetsOf(SubSeq(O, a + 1, b))

(* Records X tell the first m packets of O, cut up at c.                    *)
CutAt(c, X, O) ==
  /\ c \in [0 .. Len(X) -> Nat] /\ c[0] = 0
  /\ \A i \in 1 .. Len(X) : Tells(X[i], O, c[i - 1], c[i])
TellFirst(X, O, m) == \E c : CutAt(c, X, O) /\ c[Len(X)] = m

KeyTold(X, f, O) ==
  \E m \in 0 .. Len(O) :
    TellFirst(X, O, m) /\ IF f = NoFlow THEN m = Len(O) ELSE Tells(f, O, m, Len(O))

LEMMA StillTells ==
  ASSUME NEW O \in Seq(Sighting), NEW p \in Sighting, NEW r, NEW a, NEW b, Tells(r, O, a, b)
  PROVE  Tells(r, Append(O, p), a, b)
<1> DEFINE u == Append(O, p)  n == Len(O)
<1>1. a \in 0 .. n /\ b \in a .. n /\ n \in Nat /\ b \in a + 1 .. n
  BY DEF Tells
<1>2. u \in Seq(Sighting) /\ Len(u) = n + 1 /\ \A i \in 1 .. n : u[i] = O[i]
  BY AppendProperties
<1>3. SubSeq(u, a + 1, b) = SubSeq(O, a + 1, b)
  BY <1>1, StretchOf
<1> HIDE DEF u, n
<1>4. a \in 0 .. n + 1 /\ b \in a + 1 .. n + 1 /\ a + 1 \in 1 .. n /\ b \in 1 .. n
  BY <1>1
<1> QED  BY <1>2, <1>3, <1>4 DEF Tells, u, n

LEMMA TellsOneMore ==
  ASSUME NEW O \in Seq(Sighting), NEW p \in Sighting, NEW r \in Flow, NEW q, NEW a, Tells(r, O, a, Len(O)),
         q = [packets |-> r.packets + 1, octets |-> r.octets + p.size, first |-> r.first, last |-> p.at]
  PROVE  Tells(q, Append(O, p), a, Len(O) + 1)
<1> DEFINE u == Append(O, p)  n == Len(O)  v == SubSeq(O, a + 1, n)
<1>1. a \in 0 .. n /\ n \in a .. n /\ n \in Nat /\ n \in a + 1 .. n
      /\ r.packets = n - a /\ r.first = O[a + 1].at /\ r.octets = OctetsOf(v)
  BY DEF Tells
<1>2. u \in Seq(Sighting) /\ Len(u) = n + 1 /\ u[n + 1] = p /\ \A i \in 1 .. n : u[i] = O[i]
  BY AppendProperties
<1>3. SubSeq(u, a + 1, n + 1) = Append(v, p) /\ v \in Seq(Sighting)
  BY <1>1, StretchOf
<1> HIDE DEF u, v, n
<1>4. OctetsOf(SubSeq(u, a + 1, n + 1)) = OctetsOf(v) + p.size
  BY <1>3, OctetsAppend
<1>5. a \in 0 .. n + 1 /\ n + 1 \in a + 1 .. n + 1 /\ a + 1 \in 1 .. n /\ (n - a) + 1 = (n + 1) - a
  BY <1>1
<1>6. q.packets = r.packets + 1 /\ q.octets = r.octets + p.size /\ q.first = r.first /\ q.last = p.at
  OBVIOUS
<1>7. u[a + 1] = O[a + 1]
  BY <1>2, <1>5
<1>8. q.packets = (n + 1) - a
  BY <1>1, <1>5, <1>6
<1>9. Tells(q, u, a, n + 1)
  BY <1>1, <1>2, <1>4, <1>5, <1>6, <1>7, <1>8 DEF Tells
<1> QED  BY <1>9 DEF u, n

LEMMA TellsFirstOne ==
  ASSUME NEW O \in Seq(Sighting), NEW p \in Sighting, NEW q,
         q = [packets |-> 1, octets |-> p.size, first |-> p.at, last |-> p.at]
  PROVE  Tells(q, Append(O, p), Len(O), Len(O) + 1)
<1> DEFINE u == Append(O, p)  n == Len(O)  v == SubSeq(O, n + 1, n)
<1>1. n \in Nat /\ n \in 0 .. n /\ n \in n .. n
  OBVIOUS
<1>2. u \in Seq(Sighting) /\ Len(u) = n + 1 /\ u[n + 1] = p
  BY AppendProperties
<1>3. SubSeq(u, n + 1, n + 1) = Append(v, p) /\ v \in Seq(Sighting)
  BY <1>1, StretchOf
<1>4. v = << >>
  <2>1. n + 1 \in Int /\ n \in Int /\ n < n + 1
    BY <1>1
  <2> QED  BY <2>1, SubSeqEmpty
<1> HIDE DEF u, v, n
<1>5. OctetsOf(SubSeq(u, n + 1, n + 1)) = p.size
  <2>1. OctetsOf(Append(v, p)) = OctetsOf(v) + p.size /\ OctetsOf(v) = 0
    BY <1>3, <1>4, OctetsAppend
  <2>2. 0 + p.size = p.size
    BY DEF Sighting
  <2>3. OctetsOf(Append(v, p)) = p.size
    BY <2>1, <2>2
  <2> QED  BY <1>3, <2>3
<1>6. n \in 0 .. n + 1 /\ n + 1 \in n + 1 .. n + 1 /\ (n + 1) - n = 1
  BY <1>1
<1>7. Tells(q, u, n, n + 1)
  BY <1>2, <1>5, <1>6 DEF Tells
<1> QED  BY <1>7 DEF u, n

LEMMA StillTellFirst ==
  ASSUME NEW O \in Seq(Sighting), NEW p \in Sighting, NEW X, NEW m, TellFirst(X, O, m)
  PROVE  TellFirst(X, Append(O, p), m)
<1>1. PICK c : CutAt(c, X, O) /\ c[Len(X)] = m
  BY DEF TellFirst
<1>2. \A i \in 1 .. Len(X) : Tells(X[i], Append(O, p), c[i - 1], c[i])
  BY <1>1, StillTells DEF CutAt
<1>3. CutAt(c, X, Append(O, p))
  BY <1>1, <1>2 DEF CutAt
<1> QED  BY <1>1, <1>3 DEF TellFirst

LEMMA TellFirstMore ==
  ASSUME NEW O \in Seq(Sighting), NEW X \in Seq(Flow), NEW r \in Flow, NEW a, NEW b,
         TellFirst(X, O, a), Tells(r, O, a, b)
  PROVE  TellFirst(Append(X, r), O, b)
<1> DEFINE u == Append(X, r)  n == Len(X)
<1>1. PICK c : CutAt(c, X, O) /\ c[n] = a
  BY DEF TellFirst
<1>2. u \in Seq(Flow) /\ Len(u) = n + 1 /\ u[n + 1] = r /\ n \in Nat /\ \A i \in 1 .. n : u[i] = X[i]
  BY AppendProperties
<1>3. c \in [0 .. n -> Nat] /\ c[0] = 0 /\ \A i \in 1 .. n : Tells(X[i], O, c[i - 1], c[i])
  BY <1>1 DEF CutAt
<1>4. b \in Nat
  BY DEF Tells
<1> HIDE DEF u, n
<1> DEFINE d == [i \in 0 .. n + 1 |-> IF i = n + 1 THEN b ELSE c[i]]
<1>5. d \in [0 .. n + 1 -> Nat]
  <2>1. \A i \in 0 .. n + 1 : (IF i = n + 1 THEN b ELSE c[i]) \in Nat
    <3> SUFFICES ASSUME NEW i \in 0 .. n + 1 PROVE (IF i = n + 1 THEN b ELSE c[i]) \in Nat
      OBVIOUS
    <3>1. i # n + 1 => i \in 0 .. n
      BY <1>2
    <3> QED  BY <1>3, <1>4, <3>1
  <2> QED  BY <2>1
<1>6. \A i \in 0 .. n : d[i] = c[i] /\ d[n + 1] = b
  BY <1>2
<1> HIDE DEF d
<1>7. \A i \in 1 .. n + 1 : Tells(u[i], O, d[i - 1], d[i])
  <2> SUFFICES ASSUME NEW i \in 1 .. n + 1 PROVE Tells(u[i], O, d[i - 1], d[i])
    OBVIOUS
  <2>1. CASE i = n + 1
    <3>1. n \in 0 .. n /\ i - 1 = n
      BY <1>2, <2>1
    <3> QED  BY <1>1, <1>2, <1>6, <2>1, <3>1
  <2>2. CASE i # n + 1
    <3>1. i \in 1 .. n /\ i \in 0 .. n /\ i - 1 \in 0 .. n
      BY <1>2, <2>2
    <3> QED  BY <1>2, <1>3, <1>6, <3>1
  <2> QED  BY <2>1, <2>2
<1>8. 0 \in 0 .. n
  BY <1>2
<1>9. CutAt(d, u, O) /\ d[Len(u)] = b
  BY <1>2, <1>3, <1>5, <1>6, <1>7, <1>8 DEF CutAt
<1> QED  BY <1>9 DEF TellFirst, u

(* The sums of the records are where they were cut.                         *)
LEMMA CutSums ==
  ASSUME NEW X \in Seq(Flow), NEW O, NEW c, CutAt(c, X, O)
  PROVE  \A i \in 0 .. Len(X) : PacketsOf(SubSeq(X, 1, i)) = c[i]
<1> DEFINE n == Len(X)  S == {k \in 0 .. n : PacketsOf(SubSeq(X, 1, k)) = c[k]}
<1>1. n \in Nat /\ \A i \in 1 .. n : X[i] \in Flow
  OBVIOUS
<1>2. /\ c[0] = 0 /\ c \in [0 .. n -> Nat]
      /\ \A i \in 1 .. n : Tells(X[i], O, c[i - 1], c[i])
  BY DEF CutAt
<1>3. 0 \in S
  <2>1. SubSeq(X, 1, 0) = << >>
    <3>1. 1 \in Int /\ 0 \in Int /\ 0 < 1
      OBVIOUS
    <3> QED  BY <3>1, SubSeqEmpty
  <2>2. PacketsOf(<< >>) = 0
    <3>1. << >> \in Seq(Flow) /\ [packets |-> 0, octets |-> 0, first |-> 0, last |-> 0] \in Flow
      BY DEF Flow
    <3> QED  BY <3>1, PacketsAppend
  <2>3. 0 \in 0 .. n
    BY <1>1
  <2> QED  BY <1>2, <2>1, <2>2, <2>3
<1>4. ASSUME NEW k \in 0 .. n - 1, k \in S PROVE k + 1 \in S
  <2>1. k + 1 \in 1 .. n /\ (k + 1) - 1 = k /\ k + 1 \in 0 .. n /\ k \in 0 .. n
        /\ k + 1 \in 1 .. Len(X) /\ 1 \in 1 .. Len(X)
    BY <1>1
  <2> DEFINE s == SubSeq(X, 1, k)  r == X[k + 1]
  <2>2. SubSeq(X, 1, k + 1) = SubSeq(X, 1, (k + 1) - 1) \o <<r>>
    BY <2>1, SubSeqRecursiveSecond
  <2>3. r \in Flow
    BY <1>1, <2>1
  <2>4. s \in Seq(Flow)
    <3>1. \A i \in 1 .. k : X[i] \in Flow
      <4>1. \A i \in 1 .. k : i \in 1 .. n
        BY <1>1
      <4> QED  BY <1>1, <4>1
    <3>2. 1 \in Int /\ k \in Int
      OBVIOUS
    <3> QED  BY <3>1, <3>2, SubSeqProperties
  <2>5. Tells(r, O, c[k], c[k + 1])
    BY <1>2, <2>1
  <2>6. PacketsOf(s) = c[k]
    BY <1>4
  <2> HIDE DEF s, r
  <2>7. Append(s, r) = s \o <<r>>
    BY <2>3, <2>4, AppendIsConcat
  <2>8. SubSeq(X, 1, k + 1) = Append(s, r)
    BY <2>1, <2>2, <2>7 DEF s
  <2>9. PacketsOf(Append(s, r)) = PacketsOf(s) + r.packets
    BY <2>3, <2>4, PacketsAppend
  <2>10. r.packets = c[k + 1] - c[k]
    BY <2>5 DEF Tells
  <2>11. c[k] \in Nat /\ c[k + 1] \in Nat
    BY <1>2, <2>1
  <2>12. c[k] + (c[k + 1] - c[k]) = c[k + 1]
    BY <2>11
  <2>13. PacketsOf(SubSeq(X, 1, k + 1)) = c[k + 1]
    BY <2>6, <2>8, <2>9, <2>10, <2>12
  <2> QED  BY <2>1, <2>13
<1>5. \A k \in 0 .. n : k \in S
  <2> HIDE DEF S
  <2>1. 0 \in Int /\ n \in Int
    BY <1>1
  <2> QED  BY <1>3, <1>4, <2>1, UpFrom
<1> QED  BY <1>5

FlowTypes ==
  /\ now \in Nat
  /\ flows \in [Keys -> Flow \cup {NoFlow}]
  /\ exported \in [Keys -> Seq(Flow)]
  /\ observed \in [Keys -> Seq(Sighting)]

(* The inductive invariant of the flow collector.                           *)
FlowInv ==
  FlowTypes /\ \A key \in Keys : KeyTold(exported[key], flows[key], observed[key])

LEMMA NothingTold == KeyTold(<< >>, NoFlow, << >>)
<1>1. Len(<< >>) = 0
  OBVIOUS
<1> DEFINE c == [i \in 0 .. 0 |-> 0]
<1>2. c \in [0 .. 0 -> Nat] /\ c[0] = 0
  OBVIOUS
<1>3. CutAt(c, << >>, << >>)
  BY <1>1, <1>2 DEF CutAt
<1>4. TellFirst(<< >>, << >>, 0)
  BY <1>1, <1>2, <1>3 DEF TellFirst
<1>5. 0 \in 0 .. 0
  OBVIOUS
<1> QED  BY <1>1, <1>4, <1>5 DEF KeyTold

LEMMA FlowInvInit == FlowInit => FlowInv
<1> SUFFICES ASSUME FlowInit PROVE FlowInv
  OBVIOUS
<1>1. << >> \in Seq(Flow) /\ << >> \in Seq(Sighting) /\ 0 \in Nat
  OBVIOUS
<1>2. FlowTypes
  BY <1>1 DEF FlowInit, FlowTypes
<1>3. ASSUME NEW key \in Keys PROVE KeyTold(exported[key], flows[key], observed[key])
  <2>1. exported[key] = << >> /\ flows[key] = NoFlow /\ observed[key] = << >>
    BY DEF FlowInit
  <2> QED  BY <2>1, NothingTold
<1> QED  BY <1>2, <1>3 DEF FlowInv

LEMMA ObserveInv ==
  ASSUME FlowInv, NEW key \in Keys, NEW size \in Octets, Observe(key, size)
  PROVE  FlowInv'
<1> DEFINE O == observed[key]  X == exported[key]  f == flows[key]
           p == [at |-> now, size |-> size]
           g == Updated(IF f = NoFlow THEN Fresh ELSE f, size)
<1>1. /\ FlowTypes /\ KeyTold(X, f, O)
      /\ flows' = [flows EXCEPT ![key] = g]
      /\ observed' = [observed EXCEPT ![key] = Append(O, p)]
      /\ exported' = exported /\ now' = now
  BY DEF FlowInv, Observe
<1>2. p \in Sighting /\ now \in Nat /\ size \in Nat /\ O \in Seq(Sighting) /\ X \in Seq(Flow)
      /\ f \in Flow \cup {NoFlow}
  BY <1>1, NetFlowAssumption DEF FlowTypes, Sighting
<1>3. /\ f = NoFlow => g = [packets |-> 1, octets |-> p.size, first |-> p.at, last |-> p.at]
      /\ f \in Flow /\ f.packets # 0 =>
           g = [packets |-> f.packets + 1, octets |-> f.octets + p.size, first |-> f.first, last |-> p.at]
  <2>1. CASE f = NoFlow
    <3>1. g = [packets |-> 0 + 1, octets |-> 0 + size, first |-> now, last |-> now]
      BY <2>1 DEF Updated, Fresh
    <3>2. f \notin Flow
      BY <2>1, NetFlowAssumption
    <3>3. 0 + 1 = 1 /\ 0 + size = size
      BY <1>2
    <3> QED  BY <2>1, <3>1, <3>2, <3>3
  <2>2. CASE f # NoFlow
    BY <2>2 DEF Updated
  <2> QED  BY <2>1, <2>2
<1>4. PICK m \in 0 .. Len(O) : TellFirst(X, O, m)
                               /\ IF f = NoFlow THEN m = Len(O) ELSE Tells(f, O, m, Len(O))
  BY <1>1 DEF KeyTold
<1> HIDE DEF p, g, O, X, f
<1>5. Len(Append(O, p)) = Len(O) + 1 /\ Append(O, p) \in Seq(Sighting) /\ Len(O) \in Nat
  BY <1>2, AppendProperties
<1>6. Tells(g, Append(O, p), m, Len(O) + 1)
  <2>1. CASE f = NoFlow
    BY <1>2, <1>3, <1>4, <2>1, TellsFirstOne
  <2>2. CASE f # NoFlow
    <3>1. Tells(f, O, m, Len(O)) /\ f \in Flow
      BY <1>2, <1>4, <2>2
    <3>2. f.packets # 0
      BY <1>5, <3>1 DEF Tells
    <3> QED  BY <1>2, <1>3, <3>1, <3>2, TellsOneMore
  <2> QED  BY <2>1, <2>2
<1>7. g \in Flow
  <2>1. f # NoFlow => f \in Flow /\ f.packets # 0
    BY <1>2, <1>4, <1>5 DEF Tells
  <2> QED  BY <1>2, <1>3, <2>1 DEF Flow, Sighting
<1>8. g # NoFlow
  BY <1>7, NetFlowAssumption
<1>9. KeyTold(X, g, Append(O, p))
  <2>1. TellFirst(X, Append(O, p), m)
    BY <1>2, <1>4, StillTellFirst
  <2>2. m \in 0 .. Len(Append(O, p))
    BY <1>5
  <2> QED  BY <1>5, <1>6, <1>8, <2>1, <2>2 DEF KeyTold
<1>10. FlowTypes'
  BY <1>1, <1>5, <1>7 DEF FlowTypes
<1>11. ASSUME NEW k \in Keys PROVE KeyTold(exported'[k], flows'[k], observed'[k])
  <2>1. CASE k = key
    BY <1>1, <1>9, <2>1 DEF FlowTypes, X
  <2>2. CASE k # key
    <3>1. exported'[k] = exported[k] /\ flows'[k] = flows[k] /\ observed'[k] = observed[k]
      BY <1>1, <2>2 DEF FlowTypes
    <3> QED  BY <3>1 DEF FlowInv
  <2> QED  BY <2>1, <2>2
<1> QED  BY <1>10, <1>11 DEF FlowInv

LEMMA EntryTold ==
  ASSUME NEW X \in Seq(Flow), NEW f \in Flow, NEW O \in Seq(Sighting), KeyTold(X, f, O)
  PROVE  TellFirst(Append(X, f), O, Len(O)) /\ KeyTold(Append(X, f), NoFlow, O)
<1>1. f # NoFlow
  BY NetFlowAssumption
<1>2. PICK m \in 0 .. Len(O) : TellFirst(X, O, m) /\ Tells(f, O, m, Len(O))
  BY <1>1 DEF KeyTold
<1>3. TellFirst(Append(X, f), O, Len(O))
  BY <1>2, TellFirstMore
<1>4. Len(O) \in 0 .. Len(O)
  OBVIOUS
<1> QED  BY <1>3, <1>4 DEF KeyTold

(* What is in S is turned into records.                                     *)
LEMMA ExportInv ==
  ASSUME FlowInv, NEW S, S \subseteq Active, exported' = ExportedWith(S), flows' = Without(S),
         now' = now, observed' = observed
  PROVE  FlowInv'
<1>1. /\ flows \in [Keys -> Flow \cup {NoFlow}]
      /\ exported \in [Keys -> Seq(Flow)]
      /\ observed \in [Keys -> Seq(Sighting)] /\ now \in Nat
      /\ \A k \in Keys : KeyTold(exported[k], flows[k], observed[k])
  BY DEF FlowInv, FlowTypes
<1>2. ASSUME NEW k \in Keys
      PROVE  /\ exported'[k] \in Seq(Flow) /\ flows'[k] \in Flow \cup {NoFlow}
             /\ KeyTold(exported'[k], flows'[k], observed'[k])
  <2> DEFINE X == exported[k]  f == flows[k]  O == observed[k]
  <2>1. CASE k \in S
    <3>1. exported'[k] = Append(X, f) /\ flows'[k] = NoFlow
      BY <2>1 DEF ExportedWith, Without
    <3>2. X \in Seq(Flow) /\ f \in Flow /\ O \in Seq(Sighting) /\ KeyTold(X, f, O)
      BY <1>1, <2>1 DEF Active
    <3> HIDE DEF X, f, O
    <3>3. Append(X, f) \in Seq(Flow)
      BY <3>2
    <3>4. KeyTold(Append(X, f), NoFlow, O)
      BY <3>2, EntryTold
    <3> QED  BY <3>1, <3>3, <3>4 DEF O
  <2>2. CASE k \notin S
    BY <1>1, <2>2 DEF ExportedWith, Without
  <2> QED  BY <2>1, <2>2
<1>3. exported' = [k \in Keys |-> exported'[k]] /\ flows' = [k \in Keys |-> flows'[k]]
  BY DEF ExportedWith, Without
<1>4. exported' \in [Keys -> Seq(Flow)] /\ flows' \in [Keys -> Flow \cup {NoFlow}]
  <2> DEFINE E == exported'  F == flows'
  <2>1. \A k \in Keys : E[k] \in Seq(Flow) /\ F[k] \in Flow \cup {NoFlow}
    BY <1>2
  <2>2. E = [k \in Keys |-> E[k]] /\ F = [k \in Keys |-> F[k]]
    BY <1>3
  <2> HIDE DEF E, F
  <2>3. E \in [Keys -> Seq(Flow)] /\ F \in [Keys -> Flow \cup {NoFlow}]
    BY <2>1, <2>2
  <2> QED  BY <2>3 DEF E, F
<1> QED  BY <1>1, <1>2, <1>4 DEF FlowInv, FlowTypes

LEMMA FlowInvStep == FlowInv /\ [FlowNext]_flowVars => FlowInv'
<1> SUFFICES ASSUME FlowInv, [FlowNext]_flowVars PROVE FlowInv'
  OBVIOUS
<1>1. CASE \E key \in Keys, size \in Octets : Observe(key, size)
  BY <1>1, ObserveInv
<1>2. CASE ExportExpired
  <2>1. Expired \subseteq Active
    BY DEF Expired
  <2> QED  BY <1>2, <2>1, ExportInv DEF ExportExpired
<1>3. CASE ExportAll
  <2>1. flows' = Without(Active)
    BY <1>3 DEF ExportAll, Without, Active
  <2> QED  BY <1>3, <2>1, ExportInv DEF ExportAll
<1>4. CASE FlowClear
  <2>1. << >> \in Seq(Flow) /\ << >> \in Seq(Sighting)
    OBVIOUS
  <2>2. FlowTypes'
    BY <1>4, <2>1 DEF FlowClear, FlowInv, FlowTypes
  <2>3. ASSUME NEW k \in Keys PROVE KeyTold(exported'[k], flows'[k], observed'[k])
    <3>1. exported'[k] = << >> /\ flows'[k] = NoFlow /\ observed'[k] = << >>
      BY <1>4 DEF FlowClear
    <3> QED  BY <3>1, NothingTold
  <2> QED  BY <2>2, <2>3 DEF FlowInv
<1>5. CASE FlowTick
  <2>1. now + 1 \in Nat
    BY DEF FlowInv, FlowTypes
  <2> QED  BY <1>5, <2>1 DEF FlowTick, FlowInv, FlowTypes
<1>6. CASE UNCHANGED flowVars
  BY <1>6 DEF flowVars, FlowInv, FlowTypes
<1> QED  BY <1>1, <1>2, <1>3, <1>4, <1>5, <1>6 DEF FlowNext

LEMMA FlowInvTells == FlowInv => RecordsTellTraffic
<1> SUFFICES ASSUME FlowInv PROVE RecordsTellTraffic
  OBVIOUS
<1>1. ASSUME NEW key \in Keys
      PROVE  LET records == Records(key)
                 From(i) == PacketsOf(SubSeq(records, 1, i - 1)) + 1
                 To(i) == PacketsOf(SubSeq(records, 1, i))
             IN  /\ PacketsOf(records) = Len(observed[key])
                 /\ \A i \in DOMAIN records :
                      /\ From(i) <= To(i)
                      /\ records[i].first = observed[key][From(i)].at
                      /\ records[i].last = observed[key][To(i)].at
                      /\ records[i].octets = OctetsOf(SubSeq(observed[key], From(i), To(i)))
  <2> DEFINE X == exported[key]  f == flows[key]  O == observed[key]  R == Records(key)
  <2>1. X \in Seq(Flow) /\ f \in Flow \cup {NoFlow} /\ O \in Seq(Sighting) /\ KeyTold(X, f, O)
    BY DEF FlowInv, FlowTypes
  <2>2. R = IF f = NoFlow THEN X ELSE Append(X, f)
    BY DEF Records
  <2> HIDE DEF X, f, O, R
  <2>3. R \in Seq(Flow) /\ TellFirst(R, O, Len(O))
    <3>1. CASE f = NoFlow
      BY <2>1, <2>2, <3>1 DEF KeyTold
    <3>2. CASE f # NoFlow
      <4>1. f \in Flow
        BY <2>1, <3>2
      <4>2. Append(X, f) \in Seq(Flow)
        BY <2>1, <4>1
      <4> QED  BY <2>1, <2>2, <3>2, <4>1, <4>2, EntryTold
    <3> QED  BY <3>1, <3>2
  <2>4. PICK c : CutAt(c, R, O) /\ c[Len(R)] = Len(O)
    BY <2>3 DEF TellFirst
  <2>5. \A i \in 0 .. Len(R) : PacketsOf(SubSeq(R, 1, i)) = c[i]
    BY <2>3, <2>4, CutSums
  <2>6. Len(R) \in Nat /\ DOMAIN R = 1 .. Len(R) /\ Len(R) \in 0 .. Len(R)
    BY <2>3
  <2>7. PacketsOf(R) = Len(O)
    <3>1. SubSeq(R, 1, Len(R)) = R
      BY <2>3, SubSeqFull
    <3> QED  BY <2>4, <2>5, <2>6, <3>1
  <2>8. ASSUME NEW i \in 1 .. Len(R)
        PROVE  /\ PacketsOf(SubSeq(R, 1, i - 1)) + 1 <= PacketsOf(SubSeq(R, 1, i))
               /\ R[i].first = O[PacketsOf(SubSeq(R, 1, i - 1)) + 1].at
               /\ R[i].last = O[PacketsOf(SubSeq(R, 1, i))].at
               /\ R[i].octets =
                    OctetsOf(SubSeq(O, PacketsOf(SubSeq(R, 1, i - 1)) + 1, PacketsOf(SubSeq(R, 1, i))))
    <3>1. i \in 0 .. Len(R) /\ i - 1 \in 0 .. Len(R)
      BY <2>6
    <3>2. PacketsOf(SubSeq(R, 1, i - 1)) = c[i - 1] /\ PacketsOf(SubSeq(R, 1, i)) = c[i]
      BY <2>5, <3>1
    <3>3. Tells(R[i], O, c[i - 1], c[i])
      BY <2>4 DEF CutAt
    <3>4. c[i - 1] + 1 <= c[i]
      <4>1. Len(O) \in Nat
        BY <2>1
      <4> QED  BY <3>3, <4>1 DEF Tells
    <3> QED  BY <3>2, <3>3, <3>4 DEF Tells
  <2> QED  BY <2>6, <2>7, <2>8 DEF R, O
<1>2. RecordsEachFlow
  BY <1>1 DEF RecordsEachFlow
<1>3. [key \in Keys |-> PacketsOf(Records(key))] = [key \in Keys |-> Len(observed[key])]
  BY <1>1
<1> QED  BY <1>2, <1>3 DEF RecordsTellTraffic, ProtocolBreakdown

(* For all keys, sizes, timeouts and orders of calls: the records, those     *)
(* exported and those still open, tell every packet of every flow once, its  *)
(* octets and its moment, and the totals by protocol add up (netflow8.py,     *)
(* observe, expire, protocol_breakdown).                                     *)
THEOREM FlowsTold == FlowSpec => []RecordsTellTraffic
BY FlowInvInit, FlowInvStep, FlowInvTells, PTL DEF FlowSpec

--------------------------------------------------------------------------------
(***************************************************************************)
(* The clients and collectors of NetLog8.  A collector keeps, of all it was  *)
(* handed since it was cleared, the newest entries, a count by severity and  *)
(* the alerts called for; each hand-over keeps that so, and so does the      *)
(* relay, which hands the same entry to each of its collectors in turn.     *)
(***************************************************************************)

(* What holds of the empty sequence, and of a longer one if of a shorter,   *)
(* holds of all.                                                            *)
LEMMA AppendInduct ==
  ASSUME NEW P, NEW Z, << >> \in Z, \A s \in Seq(P), x \in P : s \in Z => Append(s, x) \in Z
  PROVE  \A s \in Seq(P) : s \in Z
<1> SUFFICES ASSUME NEW s \in Seq(P) PROVE s \in Z
  OBVIOUS
<1> DEFINE n == Len(s)  S == {k \in 0 .. n : SubSeq(s, 1, k) \in Z}
<1>1. n \in Nat /\ \A i \in 1 .. n : s[i] \in P
  OBVIOUS
<1>2. 0 \in S
  <2>1. SubSeq(s, 1, 0) = << >>
    <3>1. 1 \in Int /\ 0 \in Int /\ 0 < 1
      OBVIOUS
    <3> QED  BY <3>1, SubSeqEmpty
  <2>2. 0 \in 0 .. n
    BY <1>1
  <2> QED  BY <2>1, <2>2
<1>3. ASSUME NEW k \in 0 .. n - 1, k \in S PROVE k + 1 \in S
  <2>1. k + 1 \in 1 .. Len(s) /\ (k + 1) - 1 = k /\ k + 1 \in 0 .. n /\ 1 \in 1 .. Len(s)
        /\ 1 \in Int /\ k \in Int
    BY <1>1
  <2> DEFINE u == SubSeq(s, 1, k)  x == s[k + 1]
  <2>2. SubSeq(s, 1, k + 1) = SubSeq(s, 1, (k + 1) - 1) \o <<x>>
    BY <2>1, SubSeqRecursiveSecond
  <2>3. x \in P
    BY <1>1, <2>1
  <2>4. u \in Seq(P)
    <3>1. \A i \in 1 .. k : s[i] \in P
      <4>1. \A i \in 1 .. k : i \in 1 .. n
        BY <1>1
      <4> QED  BY <1>1, <4>1
    <3> QED  BY <2>1, <3>1, SubSeqProperties
  <2>5. u \in Z
    BY <1>3
  <2> HIDE DEF u, x
  <2>6. Append(u, x) = u \o <<x>>
    BY <2>3, <2>4, AppendIsConcat
  <2>7. SubSeq(s, 1, k + 1) = Append(u, x)
    BY <2>1, <2>2, <2>6 DEF u
  <2>8. Append(u, x) \in Z
    BY <2>3, <2>4, <2>5
  <2> QED  BY <2>1, <2>7, <2>8
<1>4. \A k \in 0 .. n : k \in S
  <2> HIDE DEF S
  <2>1. 0 \in Int /\ n \in Int
    BY <1>1
  <2> QED  BY <1>2, <1>3, <2>1, UpFrom
<1>5. n \in S
  BY <1>1, <1>4
<1> QED  BY <1>5, SubSeqFull, ZenonT(60)

(* The elements in S, one by one.                                           *)
OnlySteps(kept, s, S) ==
  /\ kept[0] = << >>
  /\ \A i \in 1 .. Len(s) : kept[i] = IF s[i] \in S THEN Append(kept[i - 1], s[i]) ELSE kept[i - 1]

LEMMA OnlyBySteps ==
  ASSUME NEW P, NEW s \in Seq(P), NEW S
  PROVE  \E kept : OnlySteps(kept, s, S) /\ Only(s, S) = kept[Len(s)]
<1> DEFINE n == Len(s)
           T == Seq(P)
           Next1(x, i) == IF s[i] \in S THEN Append(x, s[i]) ELSE x
           All(f) == f = [i \in 0 .. n |-> IF i = 0 THEN << >> ELSE Next1(f[i - 1], i)]
           step == [i \in 1 .. n |-> [x \in T |-> Next1(x, i)]]
           kept == CHOOSE f : All(f)
<1>1. n \in Nat /\ \A i \in 1 .. n : s[i] \in P
  OBVIOUS
<1>2. \A i \in 1 .. n, x \in T : Next1(x, i) \in T
  <2> HIDE DEF n
  <2> QED  BY <1>1
<1>3. << >> \in T
  OBVIOUS
<1> HIDE DEF T
<1>4. step \in Steps(n, T)
  <2> HIDE DEF Next1
  <2> QED  BY <1>2 DEF Steps
<1>5. \E f : All(f)
  <2> HIDE DEF Next1, n
  <2>1. PICK f \in Runs(n, T) : Iterated(f, << >>, step, n)
    <3> HIDE DEF step
    <3> QED  BY <1>1, <1>3, <1>4, Iterates
  <2>2. ASSUME NEW i \in 0 .. n PROVE f[i] = IF i = 0 THEN << >> ELSE Next1(f[i - 1], i)
    <3>1. i # 0 => i \in 1 .. n /\ i - 1 \in 0 .. n
      BY <1>1
    <3>2. i # 0 => f[i - 1] \in T
      BY <2>1, <3>1 DEF Runs
    <3> QED  BY <2>1, <3>1, <3>2 DEF Iterated
  <2> HIDE DEF step
  <2>3. f = [i \in 0 .. n |-> f[i]]
    BY <2>1 DEF Runs
  <2>4. f = [i \in 0 .. n |-> IF i = 0 THEN << >> ELSE Next1(f[i - 1], i)]
    BY <2>2, <2>3
  <2> QED  BY <2>4
<1>6. All(kept)
  <2> HIDE DEF All
  <2> QED  BY <1>5
<1>7. Only(s, S) = kept[n]
  BY DEF Only
<1> HIDE DEF kept, n
<1>8. kept[0] = << >> /\ \A i \in 1 .. n : kept[i] = Next1(kept[i - 1], i)
  <2> HIDE DEF Next1
  <2>1. 0 \in 0 .. n /\ \A i \in 1 .. n : i \in 0 .. n /\ i # 0
    BY <1>1
  <2> QED  BY <1>6, <2>1
<1> QED  BY <1>7, <1>8 DEF OnlySteps, n

LEMMA OnlyAppend ==
  ASSUME NEW P, NEW s \in Seq(P), NEW x \in P, NEW S
  PROVE  /\ Only(<< >>, S) = << >>
         /\ Only(Append(s, x), S) = IF x \in S THEN Append(Only(s, S), x) ELSE Only(s, S)
<1>1. Only(<< >>, S) = << >>
  <2>1. << >> \in Seq(P) /\ Len(<< >>) = 0
    OBVIOUS
  <2>2. PICK kept : OnlySteps(kept, << >>, S) /\ Only(<< >>, S) = kept[Len(<< >>)]
    BY <2>1, OnlyBySteps
  <2> QED  BY <2>1, <2>2 DEF OnlySteps
<1> DEFINE u == Append(s, x)  n == Len(s)
<1>2. u \in Seq(P) /\ Len(u) = n + 1 /\ u[n + 1] = x /\ n \in Nat
      /\ \A i \in 1 .. n : u[i] = s[i]
  BY AppendProperties
<1> HIDE DEF u, n
<1>3. PICK f : OnlySteps(f, s, S) /\ Only(s, S) = f[n]
  BY OnlyBySteps DEF n
<1>4. PICK g : OnlySteps(g, u, S) /\ Only(u, S) = g[n + 1]
  <2>1. \E g : OnlySteps(g, u, S) /\ Only(u, S) = g[Len(u)]
    BY <1>2, OnlyBySteps
  <2> QED  BY <1>2, <2>1
<1>5. /\ f[0] = << >>
      /\ \A i \in 1 .. n : f[i] = IF s[i] \in S THEN Append(f[i - 1], s[i]) ELSE f[i - 1]
  BY <1>3 DEF OnlySteps, n
<1>6. /\ g[0] = << >>
      /\ \A i \in 1 .. n + 1 : g[i] = IF u[i] \in S THEN Append(g[i - 1], u[i]) ELSE g[i - 1]
  BY <1>2, <1>4 DEF OnlySteps
<1> DEFINE K == {k \in 0 .. n : f[k] = g[k]}
<1>7. 0 \in K
  BY <1>2, <1>5, <1>6
<1>8. ASSUME NEW k \in 0 .. n - 1, k \in K PROVE k + 1 \in K
  <2>1. k + 1 \in 1 .. n /\ k + 1 \in 1 .. n + 1 /\ (k + 1) - 1 = k /\ k + 1 \in 0 .. n
    BY <1>2
  <2>2. u[k + 1] = s[k + 1] /\ f[k] = g[k]
    BY <1>2, <1>8, <2>1
  <2>3. f[k + 1] = IF s[k + 1] \in S THEN Append(f[k], s[k + 1]) ELSE f[k]
    BY <1>5, <2>1
  <2>4. g[k + 1] = IF u[k + 1] \in S THEN Append(g[k], u[k + 1]) ELSE g[k]
    BY <1>6, <2>1
  <2>5. f[k + 1] = g[k + 1]
    BY <2>2, <2>3, <2>4
  <2> QED  BY <2>1, <2>5
<1>9. \A k \in 0 .. n : k \in K
  <2> HIDE DEF K
  <2>1. 0 \in Int /\ n \in Int
    BY <1>2
  <2> QED  BY <1>7, <1>8, <2>1, UpFrom
<1>10. f[n] = g[n]
  BY <1>2, <1>9
<1>11. g[n + 1] = IF x \in S THEN Append(g[n], x) ELSE g[n]
  <2>1. n + 1 \in 1 .. n + 1 /\ (n + 1) - 1 = n
    BY <1>2
  <2> QED  BY <1>2, <1>6, <2>1
<1>12. Only(u, S) = IF x \in S THEN Append(Only(s, S), x) ELSE Only(s, S)
  BY <1>3, <1>4, <1>10, <1>11
<1> QED  BY <1>1, <1>12 DEF u

LEMMA OnlyTypes ==
  ASSUME NEW P, NEW s \in Seq(P), NEW S
  PROVE  Only(s, S) \in Seq(P) /\ Only(s, S) \in Seq(P \cap S) /\ Len(Only(s, S)) <= Len(s)
<1> DEFINE Good(u) == Only(u, S) \in Seq(P) /\ Only(u, S) \in Seq(P \cap S) /\ Len(Only(u, S)) <= Len(u)
           Z == {u \in Seq(P) : Good(u)}
<1>1. << >> \in Z
  <2>1. Only(<< >>, S) = << >>
    <3>1. CASE P = {}
      <4>1. << >> \in Seq(P) /\ Len(<< >>) = 0
        OBVIOUS
      <4>2. PICK kept : OnlySteps(kept, << >>, S) /\ Only(<< >>, S) = kept[Len(<< >>)]
        BY <4>1, OnlyBySteps
      <4> QED  BY <4>1, <4>2 DEF OnlySteps
    <3>2. CASE P # {}
      <4>1. << >> \in Seq(P)
        OBVIOUS
      <4> QED  BY <3>2, <4>1, OnlyAppend
    <3> QED  BY <3>1, <3>2
  <2>2. << >> \in Seq(P) /\ << >> \in Seq(P \cap S) /\ Len(<< >>) <= Len(<< >>)
    OBVIOUS
  <2> QED  BY <2>1, <2>2
<1>2. ASSUME NEW u \in Seq(P), NEW x \in P, u \in Z PROVE Append(u, x) \in Z
  <2>1. Only(Append(u, x), S) = IF x \in S THEN Append(Only(u, S), x) ELSE Only(u, S)
    BY OnlyAppend
  <2> DEFINE v == Only(u, S)
  <2>2. v \in Seq(P) /\ v \in Seq(P \cap S) /\ Len(v) <= Len(u)
    BY <1>2
  <2> HIDE DEF v
  <2>3. Append(u, x) \in Seq(P) /\ Len(Append(u, x)) = Len(u) + 1
    BY AppendProperties
  <2>4. Append(v, x) \in Seq(P) /\ Len(Append(v, x)) = Len(v) + 1
    BY <2>2, AppendProperties
  <2>5. x \in S => Append(v, x) \in Seq(P \cap S)
    BY <2>2
  <2>6. Len(v) \in Nat /\ Len(u) \in Nat
    BY <2>2
  <2>7. Good(Append(u, x))
    <3>1. CASE x \in S
      <4>1. Only(Append(u, x), S) = Append(v, x)
        BY <2>1, <3>1 DEF v
      <4>2. Len(v) + 1 <= Len(u) + 1
        BY <2>2, <2>6
      <4> QED  BY <2>3, <2>4, <2>5, <3>1, <4>1, <4>2
    <3>2. CASE x \notin S
      <4>1. Only(Append(u, x), S) = v
        BY <2>1, <3>2 DEF v
      <4>2. Len(v) <= Len(u) + 1
        BY <2>2, <2>6
      <4> QED  BY <2>2, <2>3, <4>1, <4>2
    <3> QED  BY <3>1, <3>2
  <2> QED  BY <2>3, <2>7
<1>3. \A u \in Seq(P) : u \in Z
  <2> HIDE DEF Z
  <2> QED  BY <1>1, <1>2, AppendInduct
<1> QED  BY <1>3

LEMMA OnlyNothing ==
  ASSUME NEW S PROVE Only(<< >>, S) = << >>
<1>1. << >> \in Seq({}) /\ Len(<< >>) = 0
  OBVIOUS
<1>2. PICK kept : OnlySteps(kept, << >>, S) /\ Only(<< >>, S) = kept[Len(<< >>)]
  BY <1>1, OnlyBySteps
<1> QED  BY <1>1, <1>2 DEF OnlySteps

(* Sets that agree on what is in a sequence.                                *)
LEMMA OnlyAlike ==
  ASSUME NEW P, NEW s \in Seq(P), NEW S, NEW T, \A i \in 1 .. Len(s) : s[i] \in S <=> s[i] \in T
  PROVE  Only(s, S) = Only(s, T)
<1> DEFINE Agree(u) == \A i \in 1 .. Len(u) : u[i] \in S <=> u[i] \in T
           Z == {u \in Seq(P) : Agree(u) => Only(u, S) = Only(u, T)}
<1>1. << >> \in Z
  BY OnlyNothing
<1>2. ASSUME NEW u \in Seq(P), NEW x \in P, u \in Z PROVE Append(u, x) \in Z
  <2>1. /\ Only(Append(u, x), S) = IF x \in S THEN Append(Only(u, S), x) ELSE Only(u, S)
        /\ Only(Append(u, x), T) = IF x \in T THEN Append(Only(u, T), x) ELSE Only(u, T)
    BY OnlyAppend
  <2> DEFINE v == Append(u, x)  n == Len(u)
  <2>2. v \in Seq(P) /\ Len(v) = n + 1 /\ n \in Nat /\ v[n + 1] = x /\ \A i \in 1 .. n : v[i] = u[i]
    BY AppendProperties
  <2> HIDE DEF v, n
  <2>3. ASSUME Agree(v) PROVE Agree(u) /\ (x \in S <=> x \in T)
    <3>1. n + 1 \in 1 .. n + 1 /\ \A i \in 1 .. n : i \in 1 .. n + 1
      BY <2>2
    <3> QED  BY <2>2, <2>3, <3>1 DEF n
  <2>4. Agree(u) => Only(u, S) = Only(u, T)
    BY <1>2
  <2>5. Agree(v) => Only(v, S) = Only(v, T)
    <3> HIDE DEF Agree
    <3> QED  BY <2>1, <2>3, <2>4 DEF v
  <2> QED  BY <2>2, <2>5 DEF v
<1>3. \A u \in Seq(P) : u \in Z
  <2> HIDE DEF Z
  <2> QED  BY <1>1, <1>2, AppendInduct
<1> QED  BY <1>3

LEMMA OnlyAll ==
  ASSUME NEW P, NEW s \in Seq(P), NEW S, \A i \in 1 .. Len(s) : s[i] \in S
  PROVE  Only(s, S) = s
<1> DEFINE Z == {u \in Seq(P) : Only(u, P) = u}
<1>1. << >> \in Z
  BY OnlyNothing
<1>2. ASSUME NEW u \in Seq(P), NEW x \in P, u \in Z PROVE Append(u, x) \in Z
  <2>1. Only(Append(u, x), P) = Append(Only(u, P), x)
    BY OnlyAppend
  <2>2. Append(u, x) \in Seq(P)
    OBVIOUS
  <2> QED  BY <1>2, <2>1, <2>2
<1>3. \A u \in Seq(P) : u \in Z
  <2> HIDE DEF Z
  <2> QED  BY <1>1, <1>2, AppendInduct
<1>4. \A i \in 1 .. Len(s) : s[i] \in S <=> s[i] \in P
  OBVIOUS
<1>5. Only(s, S) = Only(s, P)
  BY <1>4, OnlyAlike
<1> QED  BY <1>3, <1>5

(* Sequences of one set, joined or not.                                      *)
LEMMA JoinedFacts ==
  ASSUME NEW P
  PROVE  /\ \A u, v, w \in Seq(P) : (u \o v) \o w = u \o (v \o w)
         /\ \A u, v \in Seq(P) : u \o v \in Seq(P) /\ Len(u \o v) = Len(u) + Len(v)
         /\ \A u \in Seq(P) : << >> \o u = u /\ u \o << >> = u
         /\ \A x \in P : <<x>> \in Seq(P)
         /\ \A u \in Seq(P), x \in P : Append(u, x) = u \o <<x>> /\ Append(u, x) \in Seq(P)
<1>1. ASSUME NEW u \in Seq(P), NEW v \in Seq(P), NEW w \in Seq(P) PROVE (u \o v) \o w = u \o (v \o w)
  BY ConcatAssociative, SMTT(30)
<1>2. ASSUME NEW u \in Seq(P), NEW v \in Seq(P) PROVE u \o v \in Seq(P) /\ Len(u \o v) = Len(u) + Len(v)
  BY ConcatProperties
<1>3. ASSUME NEW u \in Seq(P) PROVE << >> \o u = u /\ u \o << >> = u
  OBVIOUS
<1>4. ASSUME NEW x \in P PROVE <<x>> \in Seq(P)
  OBVIOUS
<1>5. ASSUME NEW u \in Seq(P), NEW x \in P PROVE Append(u, x) = u \o <<x>> /\ Append(u, x) \in Seq(P)
  BY AppendIsConcat
<1> QED  BY <1>1, <1>2, <1>3, <1>4, <1>5

(* One more element after a joined sequence.                                *)
LEMMA AppendJoined ==
  ASSUME NEW P
  PROVE  \A u, v \in Seq(P), x \in P : u \o Append(v, x) = Append(u \o v, x)
<1> SUFFICES ASSUME NEW u \in Seq(P), NEW v \in Seq(P), NEW x \in P
             PROVE  u \o Append(v, x) = Append(u \o v, x)
  OBVIOUS
<1> DEFINE o == <<x>>  w == u \o v
<1>1. o \in Seq(P) /\ w \in Seq(P)
  BY JoinedFacts
<1>2. Append(v, x) = v \o o /\ Append(w, x) = w \o o
  <2> HIDE DEF w
  <2> QED  BY <1>1, JoinedFacts
<1>3. w \o o = u \o (v \o o)
  <2> HIDE DEF o
  <2> QED  BY <1>1, JoinedFacts
<1> QED  BY <1>2, <1>3

LEMMA OnlyJoined ==
  ASSUME NEW P, NEW u \in Seq(P), NEW s \in Seq(P), NEW S
  PROVE  Only(u \o s, S) = Only(u, S) \o Only(s, S)
<1> DEFINE Z == {v \in Seq(P) : Only(u \o v, S) = Only(u, S) \o Only(v, S)}
           U == Only(u, S)
<1>0. U \in Seq(P)
  BY OnlyTypes
<1>1. << >> \in Z
  <2>1. u \o << >> = u
    OBVIOUS
  <2> HIDE DEF U
  <2>2. U \o << >> = U
    BY <1>0
  <2>3. Only(u \o << >>, S) = U \o Only(<< >>, S)
    BY <2>1, <2>2, OnlyNothing DEF U
  <2>4. << >> \in Seq(P)
    OBVIOUS
  <2> QED  BY <2>3, <2>4 DEF U
<1>2. ASSUME NEW v \in Seq(P), NEW x \in P, v \in Z PROVE Append(v, x) \in Z
  <2> DEFINE V == Only(v, S)  w == u \o v  W == Only(w, S)
  <2>1. u \o Append(v, x) = Append(w, x) /\ w \in Seq(P) /\ Append(v, x) \in Seq(P)
    BY AppendJoined, JoinedFacts
  <2>2. V \in Seq(P)
    BY OnlyTypes
  <2>3. W = U \o V
    BY <1>2
  <2> HIDE DEF w
  <2>4. Only(Append(w, x), S) = IF x \in S THEN Append(W, x) ELSE W
    BY <2>1, OnlyAppend
  <2>5. Only(Append(v, x), S) = IF x \in S THEN Append(V, x) ELSE V
    BY OnlyAppend
  <2> HIDE DEF U, V, W
  <2>6. Append(U \o V, x) = U \o Append(V, x)
    <3>1. \A b, c \in Seq(P), y \in P : b \o Append(c, y) = Append(b \o c, y)
      BY ONLY AppendJoined
    <3>2. U \in Seq(P) /\ V \in Seq(P) /\ x \in P
      BY <1>0, <2>2
    <3> QED  BY ONLY <3>1, <3>2
  <2>7. Only(u \o Append(v, x), S) = U \o Only(Append(v, x), S)
    BY <2>1, <2>3, <2>4, <2>5, <2>6
  <2> QED  BY <2>1, <2>7 DEF U
<1>3. \A v \in Seq(P) : v \in Z
  <2> HIDE DEF Z
  <2> QED  BY <1>1, <1>2, AppendInduct
<1> QED  BY <1>3

LEMMA ReverseFacts ==
  ASSUME NEW P, NEW s \in Seq(P)
  PROVE  Reverse(s) \in Seq(P) /\ Len(Reverse(s)) = Len(s)
         /\ \A i \in 1 .. Len(s) : Reverse(s)[i] = s[(Len(s) - i) + 1]
<1> DEFINE n == Len(s)
<1>1. n \in Nat /\ \A i \in 1 .. n : s[i] \in P
  OBVIOUS
<1>2. Reverse(s) = [i \in 1 .. n |-> s[(n - i) + 1]]
  BY DEF Reverse
<1> HIDE DEF n
<1>3. \A i \in 1 .. n : s[(n - i) + 1] \in P
  <2>1. \A i \in 1 .. n : (n - i) + 1 \in 1 .. n
    BY <1>1
  <2> QED  BY <1>1, <2>1
<1> DEFINE e(i) == s[(n - i) + 1]
<1> HIDE DEF e
<1>4. \A x : x = [i \in 1 .. n |-> e(i)] => x \in Seq(P) /\ Len(x) = n /\ \A i \in 1 .. n : x[i] = e(i)
  BY <1>1, <1>3 DEF e
<1>5. Reverse(s) \in Seq(P) /\ Len(Reverse(s)) = n /\ \A i \in 1 .. n : Reverse(s)[i] = e(i)
  <2> DEFINE x == Reverse(s)
  <2>1. x = [i \in 1 .. n |-> e(i)]
    BY <1>2 DEF e
  <2> HIDE DEF x
  <2>2. x \in Seq(P) /\ Len(x) = n /\ \A i \in 1 .. n : x[i] = e(i)
    BY <1>4, <2>1
  <2> QED  BY <2>2 DEF x
<1> QED  BY <1>5 DEF e, n

LEMMA ReverseAppend ==
  ASSUME NEW P, NEW s \in Seq(P), NEW x \in P
  PROVE  Reverse(Append(s, x)) = <<x>> \o Reverse(s)
<1> DEFINE u == Append(s, x)  n == Len(s)  v == <<x>> \o Reverse(s)  w == Reverse(u)  r == Reverse(s)
<1>1. u \in Seq(P) /\ Len(u) = n + 1 /\ u[n + 1] = x /\ n \in Nat
      /\ \A i \in 1 .. n : u[i] = s[i]
  BY AppendProperties
<1>2. r \in Seq(P) /\ Len(r) = n /\ \A i \in 1 .. n : r[i] = s[(n - i) + 1]
  BY ReverseFacts
<1> HIDE DEF u
<1>3. w \in Seq(P) /\ Len(w) = n + 1 /\ \A i \in 1 .. n + 1 : w[i] = u[((n + 1) - i) + 1]
  <2>1. w \in Seq(P) /\ Len(w) = Len(u) /\ \A i \in 1 .. Len(u) : w[i] = u[(Len(u) - i) + 1]
    BY <1>1, ReverseFacts
  <2> HIDE DEF w, n
  <2> QED  BY <1>1, <2>1
<1> HIDE DEF w, r
<1>4. v \in Seq(P) /\ Len(v) = n + 1 /\ v[1] = x /\ \A i \in 2 .. n + 1 : v[i] = r[i - 1]
  <2> DEFINE o == <<x>>
  <2>1. o \in Seq(P) /\ Len(o) = 1 /\ o[1] = x
    OBVIOUS
  <2> HIDE DEF o, n, v
  <2>2. o \o r \in Seq(P) /\ Len(o \o r) = Len(o) + Len(r)
        /\ \A i \in 1 .. Len(o) + Len(r) : (o \o r)[i] = IF i <= Len(o) THEN o[i] ELSE r[i - Len(o)]
    <3>1. \A b \in Seq(P), c \in Seq(P) :
             b \o c \in Seq(P) /\ Len(b \o c) = Len(b) + Len(c)
             /\ \A i \in 1 .. Len(b) + Len(c) : (b \o c)[i] = IF i <= Len(b) THEN b[i] ELSE c[i - Len(b)]
      BY ONLY ConcatProperties
    <3>2. o \in Seq(P) /\ r \in Seq(P)
      BY <1>2, <2>1
    <3> QED  BY ONLY <3>1, <3>2
  <2>3. 1 + n = n + 1 /\ 1 \in 1 .. 1 + n /\ 1 <= 1 /\ \A i \in 2 .. n + 1 : i \in 1 .. 1 + n /\ ~(i <= 1)
    BY <1>1
  <2>4. v = o \o r
    BY DEF o, r, v
  <2> QED  BY <1>2, <2>1, <2>2, <2>3, <2>4
<1> HIDE DEF v, n
<1>5. \A i \in 1 .. n + 1 : w[i] = v[i]
  <2> SUFFICES ASSUME NEW i \in 1 .. n + 1 PROVE w[i] = v[i]
    OBVIOUS
  <2>1. CASE i = 1
    <3>1. ((n + 1) - i) + 1 = n + 1
      BY <1>1, <2>1
    <3> QED  BY <1>1, <1>3, <1>4, <2>1, <3>1
  <2>2. CASE i # 1
    <3>1. i \in 2 .. n + 1 /\ i - 1 \in 1 .. n /\ ((n + 1) - i) + 1 \in 1 .. n
          /\ (n - (i - 1)) + 1 = ((n + 1) - i) + 1
      BY <1>1, <2>2
    <3>2. v[i] = s[(n - (i - 1)) + 1]
      BY <1>2, <1>4, <3>1
    <3> QED  BY <1>1, <1>3, <3>1, <3>2
  <2> QED  BY <2>1, <2>2
<1>6. w = v
  BY <1>3, <1>4, <1>5, SeqEqual
<1> QED  BY <1>6 DEF w, v, u

LEMMA OnlyReversed ==
  ASSUME NEW P, NEW s \in Seq(P), NEW S
  PROVE  Only(Reverse(s), S) = Reverse(Only(s, S))
<1> DEFINE Z == {u \in Seq(P) : Only(Reverse(u), S) = Reverse(Only(u, S))}
<1>1. << >> \in Z
  <2>1. Reverse(<< >>) = << >>
    BY DEF Reverse
  <2> QED  BY <2>1, OnlyNothing
<1>2. ASSUME NEW u \in Seq(P), NEW x \in P, u \in Z PROVE Append(u, x) \in Z
  <2> DEFINE r == Reverse(u)  v == Only(u, S)
  <2>1. r \in Seq(P) /\ <<x>> \in Seq(P) /\ v \in Seq(P) /\ Append(u, x) \in Seq(P)
    <3>1. r \in Seq(P)
      BY ReverseFacts
    <3>2. v \in Seq(P)
      BY OnlyTypes
    <3> QED  BY <3>1, <3>2, JoinedFacts
  <2>2. Reverse(Append(u, x)) = <<x>> \o r
    BY ReverseAppend
  <2>3. Only(<<x>> \o r, S) = Only(<<x>>, S) \o Only(r, S)
    <3> DEFINE o == <<x>>
    <3> HIDE DEF o, r
    <3>1. o \in Seq(P) /\ r \in Seq(P)
      BY <2>1 DEF o
    <3>2. Only(o \o r, S) = Only(o, S) \o Only(r, S)
      BY <3>1, OnlyJoined, SMTT(30)
    <3> QED  BY <3>2 DEF o
  <2>4. Only(<<x>>, S) = IF x \in S THEN <<x>> ELSE << >>
    <3>1. << >> \in Seq(P) /\ Append(<< >>, x) = <<x>>
      OBVIOUS
    <3>2. Only(Append(<< >>, x), S) = IF x \in S THEN Append(Only(<< >>, S), x) ELSE Only(<< >>, S)
      BY <3>1, OnlyAppend, ZenonT(60)
    <3> QED  BY <3>1, <3>2, OnlyNothing
  <2>5. Only(r, S) = Reverse(v)
    BY <1>2
  <2>6. Only(Append(u, x), S) = IF x \in S THEN Append(v, x) ELSE v
    BY OnlyAppend
  <2>7. Reverse(v) \in Seq(P)
    BY <2>1, ReverseFacts
  <2> DEFINE rv == Reverse(v)
  <2> HIDE DEF r, v, rv
  <2>8. << >> \o rv = rv
    BY <2>7 DEF rv
  <2>9. x \in S => Reverse(Append(v, x)) = <<x>> \o rv
    BY <2>1, ReverseAppend DEF rv
  <2>10. Only(Reverse(Append(u, x)), S) = Reverse(Only(Append(u, x), S))
    BY <2>2, <2>3, <2>4, <2>5, <2>6, <2>8, <2>9 DEF rv
  <2> QED  BY <2>1, <2>10
<1>3. \A u \in Seq(P) : u \in Z
  <2> HIDE DEF Z
  <2> QED  BY <1>1, <1>2, AppendInduct
<1> QED  BY <1>3

(* An entry of a log, and one a collector was handed, with the rules it had. *)
Entry == {e \in [kind : LogKinds, source : LogSources, number : Nat] : e.number < MaxLogged}
Handing == [entry : Entry, rules : Seq(AlertRules)]

LEMMA HandingEntry == \A h \in Handing : h.entry \in Entry
BY DEF Handing

(* What collectors were handed, entry by entry.                             *)
EntriesOf(hs) == [i \in DOMAIN hs |-> hs[i].entry]

LEMMA EntriesFacts ==
  ASSUME NEW hs \in Seq(Handing)
  PROVE  EntriesOf(hs) \in Seq(Entry) /\ Len(EntriesOf(hs)) = Len(hs)
         /\ \A i \in 1 .. Len(hs) : EntriesOf(hs)[i] = hs[i].entry
<1> DEFINE n == Len(hs)  e(i) == hs[i].entry  x == EntriesOf(hs)
<1>1. n \in Nat /\ \A i \in 1 .. n : e(i) \in Entry
  BY HandingEntry
<1>2. x = [i \in 1 .. n |-> e(i)]
  BY DEF EntriesOf
<1> HIDE DEF n, e, x
<1>3. x \in Seq(Entry) /\ Len(x) = n /\ \A i \in 1 .. n : x[i] = e(i)
  BY <1>1, <1>2
<1> QED  BY <1>3 DEF n, e, x

LEMMA EntriesAppend ==
  ASSUME NEW hs \in Seq(Handing), NEW h \in Handing
  PROVE  /\ EntriesOf(<< >>) = << >>
         /\ EntriesOf(Append(hs, h)) = Append(EntriesOf(hs), h.entry)
<1>1. EntriesOf(<< >>) = << >>
  BY DEF EntriesOf
<1> DEFINE n == Len(hs)  u == Append(hs, h)  e == EntriesOf(hs)  x == h.entry
           v == EntriesOf(u)  w == Append(e, x)
<1>2. u \in Seq(Handing) /\ Len(u) = n + 1 /\ u[n + 1] = h /\ n \in Nat /\ \A i \in 1 .. n : u[i] = hs[i]
  BY AppendProperties
<1>3. e \in Seq(Entry) /\ Len(e) = n /\ x \in Entry /\ \A i \in 1 .. n : e[i] = hs[i].entry
  <2> HIDE DEF u
  <2> QED  BY EntriesFacts, HandingEntry
<1> HIDE DEF u, n, e
<1>4. v \in Seq(Entry) /\ Len(v) = n + 1 /\ \A i \in 1 .. n + 1 : v[i] = u[i].entry
  <2>1. v \in Seq(Entry) /\ Len(v) = Len(u) /\ \A i \in 1 .. Len(u) : v[i] = u[i].entry
    BY <1>2, EntriesFacts
  <2> QED  BY <1>2, <2>1
<1>5. w \in Seq(Entry) /\ Len(w) = n + 1 /\ w[n + 1] = x /\ \A i \in 1 .. n : w[i] = e[i]
  <2> HIDE DEF x
  <2> QED  BY <1>3, AppendProperties
<1> HIDE DEF v, w
<1>6. \A i \in 1 .. n + 1 : v[i] = w[i]
  <2> SUFFICES ASSUME NEW i \in 1 .. n + 1 PROVE v[i] = w[i]
    OBVIOUS
  <2>1. i = n + 1 \/ i \in 1 .. n
    BY <1>2
  <2> QED  BY <1>2, <1>3, <1>4, <1>5, <2>1
<1>7. v = w
  BY <1>4, <1>5, <1>6, SeqEqual
<1> QED  BY <1>1, <1>7 DEF v, w, u, e

(* Those of some hand-overs are the entries they carry.                     *)
LEMMA OnlyEntries ==
  ASSUME NEW hs \in Seq(Handing), NEW S, NEW T,
         \A h \in Handing : h \in S <=> h.entry \in T
  PROVE  Only(EntriesOf(hs), T) = EntriesOf(Only(hs, S))
<1> DEFINE Z == {u \in Seq(Handing) : Only(EntriesOf(u), T) = EntriesOf(Only(u, S))}
<1>1. << >> \in Z
  <2>1. EntriesOf(<< >>) = << >> /\ << >> \in Seq(Handing)
    BY DEF EntriesOf
  <2> QED  BY <2>1, OnlyNothing
<1>2. ASSUME NEW u \in Seq(Handing), NEW h \in Handing, u \in Z PROVE Append(u, h) \in Z
  <2> DEFINE e == EntriesOf(u)  o == Only(u, S)  x == h.entry  v == Append(u, h)
  <2>1. e \in Seq(Entry) /\ x \in Entry /\ o \in Seq(Handing) /\ v \in Seq(Handing)
    <3>1. o \in Seq(Handing)
      BY OnlyTypes
    <3> QED  BY <3>1, EntriesFacts, HandingEntry
  <2>2. EntriesOf(v) = Append(e, x)
    BY EntriesAppend
  <2>3. Only(v, S) = IF h \in S THEN Append(o, h) ELSE o
    BY OnlyAppend
  <2>4. Only(e, T) = EntriesOf(o)
    BY <1>2
  <2> HIDE DEF e, o, v
  <2>5. Only(Append(e, x), T) = IF x \in T THEN Append(Only(e, T), x) ELSE Only(e, T)
    <3> HIDE DEF x
    <3> QED  BY <2>1, OnlyAppend
  <2>6. EntriesOf(Append(o, h)) = Append(EntriesOf(o), x)
    BY <2>1, EntriesAppend
  <2>7. Only(EntriesOf(v), T) = EntriesOf(Only(v, S))
    BY <2>2, <2>3, <2>4, <2>5, <2>6
  <2> QED  BY <2>1, <2>7 DEF v
<1>3. \A u \in Seq(Handing) : u \in Z
  <2> HIDE DEF Z
  <2> QED  BY <1>1, <1>2, AppendInduct
<1> QED  BY <1>3

LEMMA EntriesReversed ==
  ASSUME NEW hs \in Seq(Handing)
  PROVE  Reverse(EntriesOf(hs)) = EntriesOf(Reverse(hs))
<1> DEFINE n == Len(hs)  e == EntriesOf(hs)  r == Reverse(hs)  v == Reverse(e)  w == EntriesOf(r)
<1>1. e \in Seq(Entry) /\ Len(e) = n /\ \A i \in 1 .. n : e[i] = hs[i].entry
  BY EntriesFacts
<1>2. r \in Seq(Handing) /\ Len(r) = n /\ n \in Nat /\ \A i \in 1 .. n : r[i] = hs[(n - i) + 1]
  BY ReverseFacts
<1> HIDE DEF n, e, r
<1>3. v \in Seq(Entry) /\ Len(v) = n /\ \A i \in 1 .. n : v[i] = e[(n - i) + 1]
  <2>1. v \in Seq(Entry) /\ Len(v) = Len(e) /\ \A i \in 1 .. Len(e) : v[i] = e[(Len(e) - i) + 1]
    BY <1>1, ReverseFacts
  <2> QED  BY <1>1, <2>1
<1>4. w \in Seq(Entry) /\ Len(w) = n /\ \A i \in 1 .. n : w[i] = r[i].entry
  <2>1. w \in Seq(Entry) /\ Len(w) = Len(r) /\ \A i \in 1 .. Len(r) : w[i] = r[i].entry
    BY <1>2, EntriesFacts
  <2> QED  BY <1>2, <2>1
<1> HIDE DEF v, w
<1>5. \A i \in 1 .. n : v[i] = w[i]
  <2>1. \A i \in 1 .. n : (n - i) + 1 \in 1 .. n
    BY <1>2
  <2> QED  BY <1>1, <1>2, <1>3, <1>4, <2>1
<1>6. v = w
  BY <1>3, <1>4, <1>5, SeqEqual
<1> QED  BY <1>6 DEF v, w, e, r

(* How many of the oldest go.                                               *)
Gone(s, room) == IF Len(s) > room THEN Len(s) - room ELSE 0

LEMMA GoneNumber ==
  ASSUME NEW P, NEW s \in Seq(P), NEW room \in Nat
  PROVE  /\ Len(s) \in Nat /\ Gone(s, room) \in 0 .. Len(s)
         /\ Len(s) - Gone(s, room) = IF Len(s) > room THEN room ELSE Len(s)
<1>1. Len(s) \in Nat
  OBVIOUS
<1> QED  BY <1>1 DEF Gone

(* What is between two places of a sequence.                                *)
LEMMA BetweenFacts ==
  ASSUME NEW P, NEW s \in Seq(P), NEW a \in Nat, NEW b \in Nat, a <= b, b <= Len(s)
  PROVE  /\ SubSeq(s, a + 1, b) \in Seq(P) /\ Len(SubSeq(s, a + 1, b)) = b - a
         /\ \A i \in 1 .. b - a : SubSeq(s, a + 1, b)[i] = s[a + i]
<1> DEFINE h == a + 1  u == SubSeq(s, h, b)
<1>1. h \in Int /\ b \in Int /\ \A i \in h .. b : s[i] \in P
  <2>1. \A i \in 1 .. Len(s) : s[i] \in P
    OBVIOUS
  <2>2. Len(s) \in Nat
    OBVIOUS
  <2> DEFINE n == Len(s)
  <2> HIDE DEF n
  <2>3. \A i \in h .. b : i \in 1 .. n
    BY <2>2 DEF n
  <2> QED  BY <2>1, <2>3 DEF n
<1>2. (b - h) + 1 = b - a /\ \A i \in 1 .. b - a : (h + i) - 1 = a + i
  OBVIOUS
<1>3. (h <= b \/ b - a = 0) /\ (IF h <= b THEN (b - h) + 1 ELSE 0) = b - a
  OBVIOUS
<1> HIDE DEF h
<1>4. /\ u \in Seq(P) /\ Len(u) = (IF h <= b THEN (b - h) + 1 ELSE 0)
      /\ \A i \in 1 .. (b - h) + 1 : u[i] = s[(h + i) - 1]
  BY <1>1, SubSeqProperties
<1> HIDE DEF u
<1>5. u \in Seq(P) /\ Len(u) = b - a /\ \A i \in 1 .. b - a : u[i] = s[a + i]
  BY <1>2, <1>3, <1>4
<1> QED  BY <1>5 DEF u, h

LEMMA NewestFacts ==
  ASSUME NEW P, NEW s \in Seq(P), NEW room \in Nat
  PROVE  /\ Newest(s, room) \in Seq(P) /\ Len(Newest(s, room)) = Len(s) - Gone(s, room)
         /\ \A i \in 1 .. Len(s) - Gone(s, room) : Newest(s, room)[i] = s[Gone(s, room) + i]
<1> DEFINE n == Len(s)  g == Gone(s, room)  w == Newest(s, room)  e(i) == s[g + i]
<1>1. n \in Nat /\ g \in 0 .. n /\ n - g \in Nat /\ g \in Nat
  <2>1. n \in Nat /\ g \in 0 .. n
    BY GoneNumber
  <2> HIDE DEF n, g
  <2> QED  BY <2>1
<1>2. \A i \in 1 .. n - g : e(i) \in P
  <2>1. \A i \in 1 .. n - g : g + i \in 1 .. n
    <3> HIDE DEF n, g
    <3> QED  BY <1>1
  <2>2. \A i \in 1 .. n : s[i] \in P
    OBVIOUS
  <2> HIDE DEF n, g
  <2> QED  BY <2>1, <2>2
<1>3. w = SubSeq(s, g + 1, n)
  <2>1. (IF n > room THEN n - room + 1 ELSE 1) = g + 1
    <3>1. n \in Nat
      OBVIOUS
    <3> HIDE DEF n
    <3> QED  BY <3>1 DEF Gone, n
  <2> QED  BY <2>1 DEF Newest
<1>5. w \in Seq(P) /\ Len(w) = n - g /\ \A i \in 1 .. n - g : w[i] = e(i)
  <2>1. n \in Nat /\ g \in Nat /\ g <= n /\ n <= Len(s)
    <3> HIDE DEF g
    <3> QED  BY <1>1
  <2> HIDE DEF w, n, g
  <2> QED  BY <1>3, <2>1, BetweenFacts
<1> QED  BY <1>5

(* The newest of what is kept of a sequence and one more are those of all.   *)
LEMMA NewestAppend ==
  ASSUME NEW P, NEW s \in Seq(P), NEW x \in P, NEW room \in Nat
  PROVE  Newest(Append(Newest(s, room), x), room) = Newest(Append(s, x), room)
<1> DEFINE w == Newest(s, room)  n == Len(s)  g == Gone(s, room)  m == n - g
<1>1. n \in Nat /\ g \in 0 .. n /\ m = (IF n > room THEN room ELSE n)
  BY GoneNumber
<1>2. w \in Seq(P) /\ Len(w) = m /\ \A i \in 1 .. m : w[i] = s[g + i]
  BY NewestFacts
<1>g. g = (IF n > room THEN n - room ELSE 0)
  BY DEF Gone
<1> HIDE DEF w, g, m
<1> DEFINE a == Append(w, x)  b == Append(s, x)
<1>3. b \in Seq(P) /\ Len(b) = n + 1 /\ b[n + 1] = x /\ \A i \in 1 .. n : b[i] = s[i]
  BY AppendProperties
<1>4. a \in Seq(P) /\ Len(a) = m + 1 /\ a[m + 1] = x /\ \A i \in 1 .. m : a[i] = w[i]
  <2>1. a \in Seq(P) /\ Len(a) = Len(w) + 1 /\ a[Len(w) + 1] = x /\ \A i \in 1 .. Len(w) : a[i] = w[i]
    BY <1>2, AppendProperties
  <2> HIDE DEF a
  <2> QED  BY <1>2, <2>1
<1>n. n \in Nat /\ m \in Nat
  <2> HIDE DEF n
  <2> QED  BY <1>1
<1> HIDE DEF a, b, n
<1>k. \A z \in Seq(P) : /\ Newest(z, room) \in Seq(P) /\ Len(Newest(z, room)) = Len(z) - Gone(z, room)
                        /\ \A i \in 1 .. Len(z) - Gone(z, room) : Newest(z, room)[i] = z[Gone(z, room) + i]
  BY NewestFacts
<1> DEFINE u == Newest(a, room)  v == Newest(b, room)  ga == Gone(a, room)  gb == Gone(b, room)
<1>a. ga = (IF m + 1 > room THEN m + 1 - room ELSE 0) /\ gb = (IF n + 1 > room THEN n + 1 - room ELSE 0)
  BY <1>3, <1>4, <1>n DEF Gone
<1>5. u \in Seq(P) /\ Len(u) = (m + 1) - ga /\ \A i \in 1 .. (m + 1) - ga : u[i] = a[ga + i]
  <2> DEFINE k == Len(a) - ga
  <2>1. u \in Seq(P) /\ Len(u) = k /\ \A i \in 1 .. k : u[i] = a[ga + i]
    <3> HIDE DEF v, gb
    <3> QED  BY <1>4, <1>k
  <2> HIDE DEF u, v, ga, gb
  <2>2. k = (m + 1) - ga
    BY <1>4
  <2> HIDE DEF k
  <2> QED  BY <2>1, <2>2
<1>6. v \in Seq(P) /\ Len(v) = (n + 1) - gb /\ \A i \in 1 .. (n + 1) - gb : v[i] = b[gb + i]
  <2> DEFINE k == Len(b) - gb
  <2>1. v \in Seq(P) /\ Len(v) = k /\ \A i \in 1 .. k : v[i] = b[gb + i]
    <3> HIDE DEF u, ga
    <3> QED  BY <1>3, <1>k
  <2> HIDE DEF u, v, ga, gb
  <2>2. k = (n + 1) - gb
    BY <1>3
  <2> HIDE DEF k
  <2> QED  BY <2>1, <2>2
<1> HIDE DEF u, v, ga, gb
<1>7. (m + 1) - ga = (n + 1) - gb /\ ga + g = gb /\ ga \in Nat /\ gb \in Nat /\ m \in Nat /\ (m + 1) - ga \in Nat /\ n = m + g
  <2>1. n \in Nat /\ g \in Nat /\ room \in Nat /\ m = n - g
    BY <1>1 DEF m
  <2> QED  BY <1>1, <1>g, <1>a, <2>1
<1>8. Len(u) = (m + 1) - ga /\ Len(v) = (m + 1) - ga
  BY <1>5, <1>6, <1>7
<1>9. \A i \in 1 .. (m + 1) - ga : u[i] = v[i]
  <2> SUFFICES ASSUME NEW i \in 1 .. (m + 1) - ga PROVE u[i] = v[i]
    OBVIOUS
  <2>1. u[i] = a[ga + i] /\ v[i] = b[gb + i]
    BY <1>5, <1>6, <1>7
  <2>2. ga + i \in 1 .. m + 1 /\ gb + i \in 1 .. n + 1 /\ gb + i = g + (ga + i)
    BY <1>1, <1>7
  <2>3. CASE ga + i = m + 1
    <3>1. gb + i = n + 1
      BY <1>1, <1>7, <2>2, <2>3
    <3> QED  BY <1>3, <1>4, <2>1, <2>3, <3>1
  <2>4. CASE ga + i # m + 1
    <3>1. ga + i \in 1 .. m /\ gb + i \in 1 .. n
      BY <1>1, <1>7, <2>2, <2>4
    <3>2. w[ga + i] = s[g + (ga + i)] /\ a[ga + i] = w[ga + i] /\ b[gb + i] = s[gb + i]
      BY <1>2, <1>3, <1>4, <3>1
    <3> QED  BY <2>1, <2>2, <3>2
  <2> QED  BY <2>3, <2>4
<1>10. u = v
  <2>1. \A i \in 1 .. Len(u) : u[i] = v[i]
    BY <1>8, <1>9
  <2>2. Len(u) = Len(v)
    BY <1>8
  <2> QED  BY <1>5, <1>6, <2>1, <2>2, SeqEqual
<1> QED  BY <1>10 DEF u, v, a, b, w

LEMMA EntriesNewest ==
  ASSUME NEW hs \in Seq(Handing), NEW room \in Nat
  PROVE  Newest(EntriesOf(hs), room) = EntriesOf(Newest(hs, room))
<1> DEFINE n == Len(hs)  e == EntriesOf(hs)  r == Newest(hs, room)  v == Newest(e, room)  w == EntriesOf(r)
           g == Gone(hs, room)
<1>1. e \in Seq(Entry) /\ Len(e) = n /\ \A i \in 1 .. n : e[i] = hs[i].entry
  BY EntriesFacts
<1>2. n \in Nat /\ g \in 0 .. n
  BY GoneNumber
<1>3. r \in Seq(Handing) /\ Len(r) = n - g /\ \A i \in 1 .. n - g : r[i] = hs[g + i]
  BY NewestFacts
<1>4. Gone(e, room) = g
  BY <1>1 DEF Gone
<1> HIDE DEF n, e, r, g
<1>5. v \in Seq(Entry) /\ Len(v) = n - g /\ \A i \in 1 .. n - g : v[i] = e[g + i]
  <2>1. v \in Seq(Entry) /\ Len(v) = Len(e) - Gone(e, room)
        /\ \A i \in 1 .. Len(e) - Gone(e, room) : v[i] = e[Gone(e, room) + i]
    BY <1>1, NewestFacts
  <2> HIDE DEF v
  <2> QED  BY <1>1, <1>4, <2>1
<1>6. w \in Seq(Entry) /\ Len(w) = n - g /\ \A i \in 1 .. n - g : w[i] = r[i].entry
  <2>1. w \in Seq(Entry) /\ Len(w) = Len(r) /\ \A i \in 1 .. Len(r) : w[i] = r[i].entry
    BY <1>3, EntriesFacts
  <2> QED  BY <1>3, <2>1
<1> HIDE DEF v, w
<1>7. \A i \in 1 .. n - g : v[i] = w[i]
  <2>1. \A i \in 1 .. n - g : g + i \in 1 .. n
    BY <1>2
  <2> QED  BY <1>1, <1>3, <1>5, <1>6, <2>1
<1>8. v = w
  BY <1>5, <1>6, <1>7, SeqEqual
<1> QED  BY <1>8 DEF v, w, e, r

(* Of what goes, no more is lost than it holds.                             *)
LEMMA OnlyNewest ==
  ASSUME NEW P, NEW s \in Seq(P), NEW room \in Nat, NEW S
  PROVE  Len(Only(Newest(s, room), S)) <= Len(Only(s, S))
<1> DEFINE n == Len(s)  g == Gone(s, room)  w == Newest(s, room)  o == SubSeq(s, 1, g)
<1>1. n \in Nat /\ g \in 0 .. n
  BY GoneNumber
<1>2. w \in Seq(P) /\ Len(w) = n - g /\ \A i \in 1 .. n - g : w[i] = s[g + i]
  BY NewestFacts
<1> HIDE DEF w, g
<1>3. o \in Seq(P) /\ Len(o) = g /\ \A i \in 1 .. g : o[i] = s[i]
  <2>1. 0 \in Nat /\ g \in Nat /\ 0 <= g /\ g <= Len(s) /\ g - 0 = g /\ \A i \in 1 .. g : 0 + i = i
    <3> HIDE DEF n
    <3> QED  BY <1>1 DEF n
  <2> DEFINE z == SubSeq(s, 0 + 1, g)
  <2>2. z \in Seq(P) /\ Len(z) = g - 0 /\ \A i \in 1 .. g - 0 : z[i] = s[0 + i]
    BY <2>1, BetweenFacts
  <2>3. z = o
    OBVIOUS
  <2> HIDE DEF z, o
  <2> QED  BY <2>1, <2>2, <2>3
<1> HIDE DEF o
<1>4. s = o \o w
  <2> DEFINE v == o \o w
  <2>1. v \in Seq(P) /\ Len(v) = Len(o) + Len(w)
        /\ \A i \in 1 .. Len(o) + Len(w) : v[i] = IF i <= Len(o) THEN o[i] ELSE w[i - Len(o)]
    BY <1>2, <1>3, ConcatProperties
  <2> HIDE DEF v, n
  <2>2. Len(o) + Len(w) = n /\ Len(v) = n
    BY <1>1, <1>2, <1>3, <2>1
  <2>3. \A i \in 1 .. n : s[i] = v[i]
    <3> SUFFICES ASSUME NEW i \in 1 .. n PROVE s[i] = v[i]
      OBVIOUS
    <3>1. v[i] = IF i <= g THEN o[i] ELSE w[i - g]
      BY <1>3, <2>1, <2>2
    <3>2. CASE i <= g
      <4>1. i \in 1 .. g
        BY <1>1, <3>2
      <4> QED  BY <1>3, <3>1, <3>2, <4>1
    <3>3. CASE ~(i <= g)
      <4>1. i - g \in 1 .. n - g /\ g + (i - g) = i
        BY <1>1, <3>3
      <4> QED  BY <1>2, <3>1, <3>3, <4>1
    <3> QED  BY <3>2, <3>3
  <2>4. s = v
    BY <2>1, <2>2, <2>3, SeqEqual DEF n
  <2> QED  BY <2>4 DEF v
<1>5. Only(o \o w, S) = Only(o, S) \o Only(w, S)
  BY <1>2, <1>3, OnlyJoined
<1> DEFINE oo == Only(o, S)  ow == Only(w, S)
<1>6. oo \in Seq(P) /\ ow \in Seq(P)
  BY <1>2, <1>3, OnlyTypes
<1>7. Only(s, S) = oo \o ow
  BY <1>4, <1>5
<1> HIDE DEF oo, ow
<1>8. Len(oo \o ow) = Len(oo) + Len(ow) /\ Len(oo) \in Nat /\ Len(ow) \in Nat
  BY <1>6, JoinedFacts
<1>9. Len(ow) <= Len(Only(s, S))
  BY <1>7, <1>8
<1> QED  BY <1>9 DEF ow, w

(* A flattened sequence, piece by piece.                                    *)
FlattenSteps(f, ss) == f[0] = << >> /\ \A i \in 1 .. Len(ss) : f[i] = f[i - 1] \o ss[i]

LEMMA FlattenBySteps ==
  ASSUME NEW A, NEW ss \in Seq(Seq(A))
  PROVE  \E f : FlattenSteps(f, ss) /\ FlattenSeq(ss) = f[Len(ss)]
<1> DEFINE n == Len(ss)
           T == Seq(A)
           Next1(x, i) == x \o ss[i]
           First(g, i) == IF i = 1 THEN ss[i] ELSE Next1(g[i - 1], i)
           All(g) == g = [i \in 1 .. n |-> First(g, i)]
           step == [i \in 1 .. n |-> [x \in T |-> Next1(x, i)]]
           flat == CHOOSE g : All(g)
           f == [i \in 0 .. n |-> IF i = 0 THEN << >> ELSE flat[i]]
<1>1. n \in Nat /\ \A i \in 1 .. n : ss[i] \in T
  OBVIOUS
<1>2. \A i \in 1 .. n, x \in T : Next1(x, i) \in T
  <2> HIDE DEF n
  <2>1. \A x, y \in Seq(A) : x \o y \in Seq(A)
    BY ONLY JoinedFacts
  <2> QED  BY <1>1, <2>1
<1>3. << >> \in T /\ \A x \in T : << >> \o x = x
  BY JoinedFacts
<1> HIDE DEF T
<1>4. step \in Steps(n, T)
  <2> HIDE DEF Next1
  <2> QED  BY <1>2 DEF Steps
<1>5. \E g : All(g)
  <2> HIDE DEF Next1, n
  <2>1. PICK h \in Runs(n, T) : Iterated(h, << >>, step, n)
    <3> HIDE DEF step
    <3> QED  BY <1>1, <1>3, <1>4, Iterates
  <2> DEFINE g == [i \in 1 .. n |-> h[i]]
  <2>2. ASSUME NEW i \in 1 .. n PROVE g[i] = First(g, i)
    <3>1. i - 1 \in 0 .. n /\ (i # 1 => i - 1 \in 1 .. n) /\ (i = 1 => i - 1 = 0) /\ i \in 0 .. n
      BY <1>1
    <3>2. h[i - 1] \in T
      BY <2>1, <3>1 DEF Runs
    <3>3. h[i] = Next1(h[i - 1], i)
      BY <2>1, <3>2 DEF Iterated
    <3>4. CASE i = 1
      <4>1. h[i] = << >> \o ss[i]
        BY <2>1, <3>1, <3>3, <3>4 DEF Next1, Iterated
      <4> QED  BY <1>1, <1>3, <3>4, <4>1
    <3>5. CASE i # 1
      BY <3>1, <3>3, <3>5
    <3> QED  BY <3>4, <3>5
  <2> HIDE DEF step
  <2>3. g = [i \in 1 .. n |-> g[i]]
    OBVIOUS
  <2> HIDE DEF g
  <2>4. g = [i \in 1 .. n |-> First(g, i)]
    <3> HIDE DEF First
    <3> QED  BY <2>2, <2>3
  <2> QED  BY <2>4
<1>6. All(flat)
  <2> HIDE DEF All
  <2> QED  BY <1>5
<1>7. FlattenSeq(ss) = IF n = 0 THEN ss ELSE flat[n]
  BY DEF FlattenSeq
<1>8. n = 0 => ss = << >>
  OBVIOUS
<1> HIDE DEF flat, n
<1>9. \A i \in 1 .. n : flat[i] = First(flat, i)
  <2> HIDE DEF First
  <2> QED  BY <1>6
<1>10. f[0] = << >> /\ \A i \in 1 .. n : f[i] = f[i - 1] \o ss[i]
  <2> DEFINE e == << >>
  <2>0. \A x \in T : e \o x = x
    BY <1>3
  <2> HIDE DEF e
  <2>1. f[0] = e
    BY <1>1 DEF e
  <2>2. \A i \in 1 .. n : f[i] = flat[i]
    BY <1>1
  <2> HIDE DEF f
  <2>3. ASSUME NEW i \in 1 .. n PROVE f[i] = f[i - 1] \o ss[i]
    <3>1. CASE i = 1
      <4>1. flat[i] = ss[i] /\ i - 1 = 0
        BY <1>9, <3>1
      <4>2. f[i - 1] \o ss[i] = ss[i]
        BY <1>1, <2>0, <2>1, <4>1
      <4> QED  BY <2>2, <4>1, <4>2
    <3>2. CASE i # 1
      <4>1. i - 1 \in 1 .. n
        BY <1>1, <3>2
      <4>2. flat[i] = flat[i - 1] \o ss[i]
        BY <1>9, <3>2
      <4> QED  BY <2>2, <4>1, <4>2
    <3> QED  BY <3>1, <3>2
  <2> QED  BY <2>1, <2>3 DEF e
<1>11. FlattenSeq(ss) = f[n]
  BY <1>1, <1>7, <1>8
<1> HIDE DEF f
<1>12. FlattenSteps(f, ss) /\ FlattenSeq(ss) = f[Len(ss)]
  BY <1>10, <1>11 DEF FlattenSteps, n
<1> QED  BY <1>12

LEMMA FlattenAppend ==
  ASSUME NEW A, NEW ss \in Seq(Seq(A)), NEW s \in Seq(A)
  PROVE  FlattenSeq(<< >>) = << >> /\ FlattenSeq(Append(ss, s)) = FlattenSeq(ss) \o s
<1>1. FlattenSeq(<< >>) = << >>
  <2>1. Len(<< >>) = 0
    OBVIOUS
  <2> QED  BY <2>1 DEF FlattenSeq
<1> DEFINE u == Append(ss, s)  n == Len(ss)  T == Seq(A)
<1>2. u \in Seq(T) /\ Len(u) = n + 1 /\ u[n + 1] = s /\ n \in Nat
      /\ \A i \in 1 .. n : u[i] = ss[i]
  BY AppendProperties
<1> HIDE DEF u, n
<1>3. PICK f : FlattenSteps(f, ss) /\ FlattenSeq(ss) = f[n]
  BY FlattenBySteps DEF n
<1>4. PICK g : FlattenSteps(g, u) /\ FlattenSeq(u) = g[n + 1]
  <2>1. \E g : FlattenSteps(g, u) /\ FlattenSeq(u) = g[Len(u)]
    BY <1>2, FlattenBySteps
  <2> QED  BY <1>2, <2>1
<1>5. f[0] = << >> /\ \A i \in 1 .. n : f[i] = f[i - 1] \o ss[i]
  BY <1>3 DEF FlattenSteps, n
<1>6. g[0] = << >> /\ \A i \in 1 .. n + 1 : g[i] = g[i - 1] \o u[i]
  BY <1>2, <1>4 DEF FlattenSteps
<1> DEFINE K == {k \in 0 .. n : f[k] = g[k]}
<1>7. 0 \in K
  BY <1>2, <1>5, <1>6
<1>8. ASSUME NEW k \in 0 .. n - 1, k \in K PROVE k + 1 \in K
  <2>1. k + 1 \in 1 .. n /\ k + 1 \in 1 .. n + 1 /\ (k + 1) - 1 = k /\ k + 1 \in 0 .. n
    BY <1>2
  <2>2. u[k + 1] = ss[k + 1] /\ f[k] = g[k]
    BY <1>2, <1>8, <2>1
  <2>3. f[k + 1] = f[k] \o ss[k + 1]
    BY <1>5, <2>1
  <2>4. g[k + 1] = g[k] \o u[k + 1]
    BY <1>6, <2>1
  <2>5. f[k + 1] = g[k + 1]
    BY <2>2, <2>3, <2>4
  <2> QED  BY <2>1, <2>5
<1>9. \A k \in 0 .. n : k \in K
  <2> HIDE DEF K
  <2>1. 0 \in Int /\ n \in Int
    BY <1>2
  <2> QED  BY <1>7, <1>8, <2>1, UpFrom
<1>10. f[n] = g[n]
  BY <1>2, <1>9
<1>11. g[n + 1] = g[n] \o s
  <2>1. n + 1 \in 1 .. n + 1 /\ (n + 1) - 1 = n
    BY <1>2
  <2> QED  BY <1>2, <1>6, <2>1
<1>12. FlattenSeq(u) = FlattenSeq(ss) \o s
  BY <1>3, <1>4, <1>10, <1>11
<1> QED  BY <1>1, <1>12 DEF u

(* What a query finds.                                                      *)
LEMMA QueryAll ==
  ASSUME NEW P, NEW s \in Seq(P), NEW wanted, NEW limit \in Nat, Len(s) <= limit
  PROVE  LogQuery(s, wanted, limit) = Reverse(Only(s, wanted))
<1> DEFINE o == Only(s, wanted)  r == Reverse(o)  most == IF limit < 1 THEN 1 ELSE limit
           k == Len(r)
<1>1. o \in Seq(P) /\ Len(o) <= Len(s)
  BY OnlyTypes
<1>2. Only(Reverse(s), wanted) = r
  BY OnlyReversed
<1> HIDE DEF o
<1>3. r \in Seq(P) /\ k = Len(o)
  BY <1>1, ReverseFacts
<1> HIDE DEF r
<1>4. LogQuery(s, wanted, limit) = SubSeq(r, 1, IF most < k THEN most ELSE k)
  BY <1>2 DEF LogQuery
<1>5. k \in Nat /\ Len(s) \in Nat
  BY <1>3
<1> HIDE DEF k
<1>6. (IF most < k THEN most ELSE k) = k
  BY <1>1, <1>3, <1>5
<1>7. SubSeq(r, 1, k) = r
  BY <1>3, SubSeqFull DEF k
<1> QED  BY <1>4, <1>6, <1>7 DEF r, o

LEMMA QueryOne ==
  ASSUME NEW P, NEW s \in Seq(P), NEW wanted
  PROVE  LogQuery(s, wanted, 1) =
           IF Only(s, wanted) = << >> THEN << >> ELSE <<Last(Only(s, wanted))>>
<1> DEFINE o == Only(s, wanted)  r == Reverse(o)  k == Len(r)
<1>1. o \in Seq(P)
  BY OnlyTypes
<1>2. Only(Reverse(s), wanted) = r
  BY OnlyReversed
<1> HIDE DEF o
<1>3. r \in Seq(P) /\ k = Len(o) /\ \A i \in 1 .. Len(o) : r[i] = o[(Len(o) - i) + 1]
  BY <1>1, ReverseFacts
<1> HIDE DEF r
<1>4. LogQuery(s, wanted, 1) = SubSeq(r, 1, IF 1 < k THEN 1 ELSE k)
  <2>1. (IF 1 < 1 THEN 1 ELSE 1) = 1
    OBVIOUS
  <2> QED  BY <1>2, <2>1 DEF LogQuery
<1>5. k \in Nat
  BY <1>3
<1>6. CASE o = << >>
  <2>1. k = 0 /\ (IF 1 < k THEN 1 ELSE k) = 0
    <3>1. Len(<< >>) = 0
      OBVIOUS
    <3>2. k = 0
      <4> HIDE DEF k
      <4> QED  BY <1>3, <1>6, <3>1
    <3> QED  BY <3>2
  <2>2. SubSeq(r, 1, 0) = << >>
    <3>1. 1 \in Int /\ 0 \in Int /\ 0 < 1
      OBVIOUS
    <3> QED  BY <3>1, SubSeqEmpty
  <2> HIDE DEF k
  <2> QED  BY <1>4, <1>6, <2>1, <2>2 DEF o
<1>7. CASE o # << >>
  <2>1. Len(o) # 0
    BY <1>1, <1>7, EmptySeq
  <2>2. (IF 1 < k THEN 1 ELSE k) = 1 /\ 1 \in 1 .. k /\ (k - 1) + 1 = k
    <3> HIDE DEF k
    <3> QED  BY <1>3, <1>5, <2>1
  <2>3. 0 \in Nat /\ 1 \in Nat /\ 0 <= 1 /\ 1 <= k /\ 0 + 1 = 1 /\ 1 - 0 = 1 /\ 1 \in 1 .. 1
    <3> HIDE DEF k
    <3> QED  BY <2>2, <1>5
  <2> DEFINE u == SubSeq(r, 1, 1)  v == <<Last(o)>>
  <2>4. u \in Seq(P) /\ Len(u) = 1 /\ u[1] = r[1]
    <3> DEFINE z == SubSeq(r, 0 + 1, 1)
    <3>1. z \in Seq(P) /\ Len(z) = 1 - 0 /\ \A i \in 1 .. 1 - 0 : z[i] = r[0 + i]
      BY <1>3, <2>3, BetweenFacts
    <3>2. z = u
      OBVIOUS
    <3> HIDE DEF z, u
    <3> QED  BY <2>3, <3>1, <3>2
  <2>5. r[1] = o[Len(o)]
    <3> HIDE DEF k
    <3> QED  BY <1>3, <2>2
  <2>6. Last(o) \in P
    <3>1. Len(o) \in 1 .. Len(o)
      BY <1>1, <2>1
    <3> QED  BY <1>1, <3>1 DEF Last
  <2>7. v \in Seq(P) /\ Len(v) = 1 /\ v[1] = o[Len(o)]
    <3>1. Last(o) = o[Len(o)]
      BY DEF Last
    <3> DEFINE x == Last(o)
    <3> HIDE DEF x
    <3>2. <<x>> \in Seq(P) /\ Len(<<x>>) = 1 /\ <<x>>[1] = x
      BY <2>6 DEF x
    <3> QED  BY <3>1, <3>2 DEF x
  <2> HIDE DEF u, v
  <2>8. \A i \in 1 .. Len(u) : u[i] = v[i]
    BY <2>4, <2>5, <2>7
  <2>9. Len(u) = Len(v)
    BY <2>4, <2>7
  <2>10. u = v
    BY <2>4, <2>7, <2>8, <2>9, SeqEqual
  <2> HIDE DEF k
  <2> QED  BY <1>4, <1>7, <2>2, <2>10 DEF u, v, o
<1> QED  BY <1>6, <1>7

Alert == [rule : AlertRules, entry : Entry]

CollectorState ==
  [buffer : Seq(Entry), counters : [Severities -> Nat], received : Nat, sources : SUBSET LogSources,
   rules : Seq(AlertRules), alerts : Seq(Alert)]

(* An entry is told of by each rule it matches.                             *)
LEMMA AlertsAreCalledFor ==
  ASSUME NEW rules \in Seq(AlertRules), NEW e \in Entry
  PROVE  /\ Triggered(rules, e) \in Seq(Alert)
         /\ CalledFor([entry |-> e, rules |-> rules]) = Triggered(rules, e)
<1> DEFINE S == {r \in ToSet(rules) : Matches(r, e)}
           T == {r \in ToSet(rules) : /\ e.kind.severity <= r.severity
                                      /\ Empty8Or(r.events, e.kind.event)
                                      /\ Empty8Or(r.facilities, e.kind.facility)}
           hits == Only(rules, S)
           told(h) == [i \in DOMAIN h |-> [rule |-> h[i], entry |-> e]]
<1>1. S = T
  BY Zenon DEF Matches, Empty8Or
<1>2. Triggered(rules, e) = told(hits)
  BY DEF Triggered
<1>3. CalledFor([entry |-> e, rules |-> rules]) = told(Only(rules, T))
  BY DEF CalledFor
<1>4. hits \in Seq(AlertRules)
  BY OnlyTypes
<1>5. told(hits) \in Seq(Alert)
  <2> HIDE DEF hits
  <2>1. \A i \in 1 .. Len(hits) : [rule |-> hits[i], entry |-> e] \in Alert
    BY <1>4 DEF Alert
  <2>2. told(hits) = [i \in 1 .. Len(hits) |-> [rule |-> hits[i], entry |-> e]] /\ Len(hits) \in Nat
    BY <1>4
  <2> DEFINE f(i) == [rule |-> hits[i], entry |-> e]
  <2>3. \A i \in 1 .. Len(hits) : f(i) \in Alert
    BY <2>1
  <2>4. told(hits) = [i \in 1 .. Len(hits) |-> f(i)]
    BY <2>2
  <2> HIDE DEF f
  <2>5. [i \in 1 .. Len(hits) |-> f(i)] \in Seq(Alert)
    BY <2>2, <2>3
  <2> QED  BY <2>4, <2>5
<1> HIDE DEF S, T, told, hits
<1>6. CalledFor([entry |-> e, rules |-> rules]) = told(hits)
  BY <1>1, <1>3 DEF hits
<1> QED  BY <1>2, <1>5, <1>6

(* The alerts that each of some hand-overs calls for.                       *)
Calls(hs) == [i \in DOMAIN hs |-> CalledFor(hs[i])]

LEMMA CallsFacts ==
  ASSUME NEW hs \in Seq(Handing)
  PROVE  Calls(hs) \in Seq(Seq(Alert)) /\ Len(Calls(hs)) = Len(hs)
         /\ \A i \in 1 .. Len(hs) : Calls(hs)[i] = CalledFor(hs[i])
<1> DEFINE n == Len(hs)  e(i) == CalledFor(hs[i])  x == Calls(hs)  T == Seq(Alert)
<1>1. \A h \in Handing : CalledFor(h) \in T
  <2> SUFFICES ASSUME NEW h \in Handing PROVE CalledFor(h) \in T
    OBVIOUS
  <2>1. h.rules \in Seq(AlertRules) /\ h.entry \in Entry /\ h = [entry |-> h.entry, rules |-> h.rules]
    BY DEF Handing
  <2> DEFINE a == h.rules  b == h.entry
  <2>2. CalledFor([entry |-> b, rules |-> a]) \in T
    <3> HIDE DEF a, b
    <3> QED  BY <2>1, AlertsAreCalledFor DEF a, b
  <2> QED  BY <2>1, <2>2
<1>2. n \in Nat /\ \A i \in 1 .. n : e(i) \in T
  BY <1>1
<1>3. x = [i \in 1 .. n |-> e(i)]
  BY DEF Calls
<1> HIDE DEF n, e, x, T
<1>4. x \in Seq(T) /\ Len(x) = n /\ \A i \in 1 .. n : x[i] = e(i)
  BY <1>2, <1>3
<1> QED  BY <1>4 DEF n, e, x, T

LEMMA CallsAppend ==
  ASSUME NEW hs \in Seq(Handing), NEW h \in Handing
  PROVE  /\ Calls(<< >>) = << >> /\ Calls(hs) \in Seq(Seq(Alert)) /\ CalledFor(h) \in Seq(Alert)
         /\ Calls(Append(hs, h)) = Append(Calls(hs), CalledFor(h))
<1>1. Calls(<< >>) = << >>
  BY DEF Calls
<1> DEFINE n == Len(hs)  u == Append(hs, h)  e == Calls(hs)  x == CalledFor(h)  T == Seq(Alert)
           v == Calls(u)  w == Append(e, x)
<1>2. u \in Seq(Handing) /\ Len(u) = n + 1 /\ u[n + 1] = h /\ n \in Nat /\ \A i \in 1 .. n : u[i] = hs[i]
  BY AppendProperties
<1>3. e \in Seq(T) /\ Len(e) = n /\ \A i \in 1 .. n : e[i] = CalledFor(hs[i])
  <2> HIDE DEF u
  <2> QED  BY CallsFacts
<1> HIDE DEF u, n, e
<1>4. v \in Seq(T) /\ Len(v) = n + 1 /\ \A i \in 1 .. n + 1 : v[i] = CalledFor(u[i])
  <2>1. v \in Seq(T) /\ Len(v) = Len(u) /\ \A i \in 1 .. Len(u) : v[i] = CalledFor(u[i])
    BY <1>2, CallsFacts
  <2> QED  BY <1>2, <2>1
<1>5. x \in T
  <2>1. n + 1 \in 1 .. n + 1
    BY <1>2
  <2> HIDE DEF T, v, x
  <2>2. v[n + 1] \in T
    BY <1>4, <2>1
  <2> QED  BY <1>2, <1>4, <2>1, <2>2 DEF x
<1>6. w \in Seq(T) /\ Len(w) = n + 1 /\ w[n + 1] = x /\ \A i \in 1 .. n : w[i] = e[i]
  <2> HIDE DEF x, T
  <2> QED  BY <1>3, <1>5, AppendProperties
<1> HIDE DEF v, w, T
<1>7. \A i \in 1 .. n + 1 : v[i] = w[i]
  <2> SUFFICES ASSUME NEW i \in 1 .. n + 1 PROVE v[i] = w[i]
    OBVIOUS
  <2>1. i = n + 1 \/ i \in 1 .. n
    BY <1>2
  <2> QED  BY <1>2, <1>3, <1>4, <1>6, <2>1
<1>8. v = w
  BY <1>4, <1>6, <1>7, SeqEqual
<1> QED  BY <1>1, <1>3, <1>5, <1>8 DEF v, w, u, e, T

(* What a collector keeps of the entries it was handed: buffer tells, of      *)
(* those in B, and alerts, of those in W.                                   *)
AtSev(s) == {h \in Handing : h.entry.kind.severity = s}

Kept(cc, B, W) ==
  /\ cc \in CollectorState /\ B \in Seq(Handing) /\ W \in Seq(Handing)
  /\ cc.buffer = Newest(EntriesOf(B), CollectorRoom)
  /\ \A s \in Severities : cc.counters[s] = Len(Only(B, AtSev(s)))
  /\ cc.alerts = FlattenSeq(Calls(W))

LEMMA CollectorChanged ==
  ASSUME NEW A, NEW C, NEW N, NEW S, NEW R, NEW L,
         NEW cc \in [buffer : A, counters : C, received : N, sources : S, rules : R, alerts : L],
         NEW b \in A, NEW k \in C, NEW n \in N, NEW s \in S, NEW a \in L, NEW i,
         i = [cc EXCEPT !.buffer = b, !.received = n, !.sources = s, !.counters = k, !.alerts = a]
  PROVE  /\ i \in [buffer : A, counters : C, received : N, sources : S, rules : R, alerts : L]
         /\ i.buffer = b /\ i.counters = k /\ i.rules = cc.rules /\ i.alerts = a
OBVIOUS

LEMMA IngestedFacts ==
  ASSUME NEW cc \in CollectorState, NEW e \in Entry
  PROVE  /\ Ingested(cc, e) \in CollectorState
         /\ Ingested(cc, e).buffer = Newest(Append(cc.buffer, e), CollectorRoom)
         /\ Ingested(cc, e).counters = [cc.counters EXCEPT ![e.kind.severity] = @ + 1]
         /\ Ingested(cc, e).rules = cc.rules
         /\ Ingested(cc, e).alerts = cc.alerts \o Triggered(cc.rules, e)
<1>0. CollectorRoom \in Nat
  BY LogAssumption
<1> DEFINE b == Newest(Append(cc.buffer, e), CollectorRoom)
           k == [cc.counters EXCEPT ![e.kind.severity] = @ + 1]
           r == cc.received + 1  s == cc.sources \union {e.source}
           a == cc.alerts \o Triggered(cc.rules, e)
           i == Ingested(cc, e)
<1>1. /\ cc.buffer \in Seq(Entry) /\ cc.counters \in [Severities -> Nat] /\ cc.received \in Nat
      /\ cc.sources \in SUBSET LogSources /\ cc.rules \in Seq(AlertRules) /\ cc.alerts \in Seq(Alert)
  BY DEF CollectorState
<1>2. e.kind.severity \in Severities /\ e.source \in LogSources
  BY DEF Entry, Severities
<1>3. b \in Seq(Entry)
  <2> DEFINE c == Append(cc.buffer, e)
  <2>1. c \in Seq(Entry)
    BY <1>1
  <2>2. b = Newest(c, CollectorRoom)
    OBVIOUS
  <2> HIDE DEF b, c
  <2>3. Newest(c, CollectorRoom) \in Seq(Entry)
    BY <1>0, <2>1, NewestFacts
  <2> QED  BY <2>2, <2>3
<1>4. k \in [Severities -> Nat]
  BY <1>1, <1>2
<1>5. r \in Nat /\ s \in SUBSET LogSources
  BY <1>1, <1>2
<1>6. a \in Seq(Alert)
  <2> DEFINE t == Triggered(cc.rules, e)  d == cc.alerts
  <2>1. t \in Seq(Alert)
    <3> DEFINE q == cc.rules
    <3> HIDE DEF q
    <3>1. Triggered(q, e) \in Seq(Alert)
      BY <1>1, AlertsAreCalledFor DEF q
    <3> QED  BY <3>1 DEF q
  <2> HIDE DEF t, d
  <2> QED  BY <1>1, <2>1, JoinedFacts DEF d, t
<1>7. i = [cc EXCEPT !.buffer = b, !.received = r, !.sources = s, !.counters = k, !.alerts = a]
  BY DEF Ingested
<1> HIDE DEF b, k, r, s, a, i
<1>8. i \in CollectorState /\ i.buffer = b /\ i.counters = k /\ i.rules = cc.rules /\ i.alerts = a
  <2> DEFINE A == Seq(Entry)  C == [Severities -> Nat]  S == SUBSET LogSources
             Q == Seq(AlertRules)  L == Seq(Alert)
             Z == [buffer : A, counters : C, received : Nat, sources : S, rules : Q, alerts : L]
  <2>1. CollectorState = Z
    BY DEF CollectorState
  <2>2. b \in A /\ k \in C /\ r \in Nat /\ s \in S /\ a \in L /\ cc \in Z
    BY <1>3, <1>4, <1>5, <1>6, <2>1
  <2> HIDE DEF A, C, S, Q, L
  <2>3. i \in Z /\ i.buffer = b /\ i.counters = k /\ i.rules = cc.rules /\ i.alerts = a
    BY ONLY <1>7, <2>2, CollectorChanged
  <2> QED  BY <2>1, <2>3
<1> QED  BY <1>8 DEF b, k, a, i

LEMMA IngestedKeeps ==
  ASSUME NEW cc, NEW B, NEW W, Kept(cc, B, W), NEW e \in Entry,
         NEW h, h = [entry |-> e, rules |-> cc.rules]
  PROVE  h \in Handing /\ Kept(Ingested(cc, e), Append(B, h), Append(W, h))
<1>0. CollectorRoom \in Nat
  BY LogAssumption
<1> DEFINE i == Ingested(cc, e)  R == CollectorRoom  be == EntriesOf(B)
<1>1. /\ cc \in CollectorState /\ B \in Seq(Handing) /\ W \in Seq(Handing)
      /\ cc.buffer = Newest(be, R) /\ cc.alerts = FlattenSeq(Calls(W))
      /\ \A s \in Severities : cc.counters[s] = Len(Only(B, AtSev(s)))
  BY DEF Kept
<1>2. cc.rules \in Seq(AlertRules) /\ cc.counters \in [Severities -> Nat]
  BY <1>1 DEF CollectorState
<1>3. h \in Handing /\ h.entry = e /\ h.rules = cc.rules
  BY <1>2 DEF Handing
<1>4. /\ i \in CollectorState /\ i.buffer = Newest(Append(cc.buffer, e), CollectorRoom)
      /\ i.counters = [cc.counters EXCEPT ![e.kind.severity] = @ + 1]
      /\ i.rules = cc.rules /\ i.alerts = cc.alerts \o Triggered(cc.rules, e)
  <2> HIDE DEF be
  <2> QED  BY <1>1, IngestedFacts, Zenon
<1> HIDE DEF i
<1>5. Append(B, h) \in Seq(Handing) /\ Append(W, h) \in Seq(Handing)
  BY <1>1, <1>3
<1>6. i.buffer = Newest(EntriesOf(Append(B, h)), R)
  <2>1. be \in Seq(Entry)
    BY <1>1, EntriesFacts
  <2>2. EntriesOf(Append(B, h)) = Append(be, e)
    BY <1>1, <1>3, EntriesAppend
  <2> HIDE DEF be
  <2>3. Newest(Append(Newest(be, R), e), R) = Newest(Append(be, e), R)
    BY <1>0, <2>1, NewestAppend
  <2>4. cc.buffer = Newest(be, R) /\ i.buffer = Newest(Append(cc.buffer, e), R)
    BY <1>1, <1>4 DEF be
  <2> HIDE DEF R
  <2> QED  BY ONLY <2>2, <2>3, <2>4
<1>7. \A s \in Severities : i.counters[s] = Len(Only(Append(B, h), AtSev(s)))
  <2> SUFFICES ASSUME NEW s \in Severities PROVE i.counters[s] = Len(Only(Append(B, h), AtSev(s)))
    OBVIOUS
  <2> DEFINE S == AtSev(s)  o == Only(B, S)
  <2>1. Only(Append(B, h), S) = IF h \in S THEN Append(o, h) ELSE o
    BY <1>1, <1>3, OnlyAppend
  <2>2. o \in Seq(Handing)
    <3>1. B \in Seq(Handing)
      BY <1>1
    <3> HIDE DEF S
    <3> QED  BY ONLY <3>1, OnlyTypes DEF o
  <2>3. cc.counters[s] = Len(o) /\ (h \in S <=> e.kind.severity = s)
    BY <1>1, <1>3 DEF AtSev
  <2> HIDE DEF S, o
  <2>4. Len(Append(o, h)) = Len(o) + 1
    BY <1>3, <2>2, AppendProperties
  <2>5. i.counters[s] = IF e.kind.severity = s THEN cc.counters[s] + 1 ELSE cc.counters[s]
    BY <1>2, <1>4
  <2> QED  BY <2>1, <2>3, <2>4, <2>5 DEF S
<1>8. i.alerts = FlattenSeq(Calls(Append(W, h)))
  <2> DEFINE cs == Calls(W)  c == CalledFor(h)
  <2>1. cs \in Seq(Seq(Alert)) /\ c \in Seq(Alert) /\ Calls(Append(W, h)) = Append(cs, c)
    BY <1>1, <1>3, CallsAppend
  <2>2. c = Triggered(cc.rules, e)
    <3> DEFINE a == cc.rules
    <3>1. c = CalledFor([entry |-> e, rules |-> a])
      OBVIOUS
    <3> HIDE DEF a
    <3>2. a \in Seq(AlertRules)
      BY <1>2 DEF a
    <3> QED  BY <3>1, <3>2, AlertsAreCalledFor DEF a
  <2> HIDE DEF c, cs
  <2>3. FlattenSeq(Append(cs, c)) = FlattenSeq(cs) \o c
    BY <2>1, FlattenAppend
  <2>4. cc.alerts = FlattenSeq(cs) /\ i.alerts = cc.alerts \o Triggered(cc.rules, e)
    BY <1>1, <1>4 DEF cs
  <2> QED  BY ONLY <2>1, <2>2, <2>3, <2>4
<1> QED  BY <1>3, <1>4, <1>5, <1>6, <1>7, <1>8 DEF Kept, i

EntrySev(s) == {e \in Entry : e.kind.severity = s}

(* Where a set is drawn from the sequence itself.                           *)
LEMMA OnlyOfSeverity ==
  ASSUME NEW hs \in Seq(Handing), NEW s
  PROVE  OfSeverity(hs, s) = Only(hs, AtSev(s))
<1> DEFINE S == {h \in ToSet(hs) : h.entry.kind.severity = s}  T == AtSev(s)
<1>1. ASSUME NEW i \in 1 .. Len(hs) PROVE hs[i] \in S <=> hs[i] \in T
  <2>1. hs[i] \in Handing /\ hs[i] \in ToSet(hs)
    BY DEF ToSet
  <2> QED  BY <2>1 DEF AtSev
<1> HIDE DEF S, T
<1>2. Only(hs, S) = Only(hs, T)
  BY <1>1, OnlyAlike
<1> QED  BY <1>2 DEF S, T, OfSeverity

LEMMA OnlyAtSeverity ==
  ASSUME NEW es \in Seq(Entry), NEW s
  PROVE  Only(es, AtSeverity(es, s)) = Only(es, EntrySev(s))
<1> DEFINE S == AtSeverity(es, s)  T == EntrySev(s)
<1>1. ASSUME NEW i \in 1 .. Len(es) PROVE es[i] \in S <=> es[i] \in T
  <2>1. es[i] \in Entry /\ es[i] \in ToSet(es)
    BY DEF ToSet
  <2> QED  BY <2>1 DEF AtSeverity, EntrySev
<1> HIDE DEF S, T
<1>2. Only(es, S) = Only(es, T)
  BY <1>1, OnlyAlike
<1> QED  BY <1>2 DEF S, T

(* What is asked of a collector, it answers from what it was handed.        *)
LEMMA KeptTells ==
  ASSUME NEW cc, NEW B, NEW W, Kept(cc, B, W)
  PROVE  /\ cc.alerts = FlattenSeq([i \in DOMAIN W |-> CalledFor(W[i])])
         /\ \A s \in Severities :
              /\ cc.counters[s] = Len(OfSeverity(B, s))
              /\ LET recent == Reverse(OfSeverity(Newest(B, CollectorRoom), s))
                 IN LogQuery(cc.buffer, AtSeverity(cc.buffer, s), CollectorRoom) =
                      [i \in DOMAIN recent |-> recent[i].entry]
         /\ \A S : LogQuery(cc.alerts, S, 1) =
                     IF Only(cc.alerts, S) = << >> THEN << >> ELSE <<Last(Only(cc.alerts, S))>>
<1> DEFINE R == CollectorRoom
<1>0. R \in Nat
  BY LogAssumption
<1>1. /\ cc \in CollectorState /\ B \in Seq(Handing) /\ W \in Seq(Handing)
      /\ cc.buffer = Newest(EntriesOf(B), R)
      /\ \A s \in Severities : cc.counters[s] = Len(Only(B, AtSev(s)))
      /\ cc.alerts = FlattenSeq(Calls(W))
  BY DEF Kept
<1> HIDE DEF R
<1>2. cc.alerts = FlattenSeq([i \in DOMAIN W |-> CalledFor(W[i])])
  BY <1>1 DEF Calls
<1>3. ASSUME NEW s \in Severities PROVE cc.counters[s] = Len(OfSeverity(B, s))
  BY <1>1, OnlyOfSeverity
<1>4. ASSUME NEW s \in Severities
      PROVE  LogQuery(cc.buffer, AtSeverity(cc.buffer, s), R)
               = EntriesOf(Reverse(OfSeverity(Newest(B, R), s)))
  <2> DEFINE b == cc.buffer  N == Newest(B, R)  o == OfSeverity(N, s)
  <2>1. N \in Seq(Handing) /\ Len(N) = Len(B) - Gone(B, R) /\ Len(B) - Gone(B, R) <= R
    <3>1. Len(B) - Gone(B, R) = IF Len(B) > R THEN R ELSE Len(B)
      BY <1>0, <1>1, GoneNumber
    <3>2. Len(B) \in Nat
      BY <1>1
    <3>3. (IF Len(B) > R THEN R ELSE Len(B)) <= R
      BY <1>0, <3>2
    <3>4. N \in Seq(Handing) /\ Len(N) = Len(B) - Gone(B, R)
      BY <1>0, <1>1, NewestFacts
    <3> QED  BY <3>1, <3>3, <3>4
  <2>2. b = EntriesOf(N)
    BY <1>0, <1>1, EntriesNewest
  <2> HIDE DEF N
  <2>3. b \in Seq(Entry) /\ Len(b) = Len(N)
    BY <2>1, <2>2, EntriesFacts
  <2>4. Len(b) <= R
    BY <2>1, <2>3
  <2> HIDE DEF b
  <2> DEFINE A == AtSeverity(b, s)
  <2>5. LogQuery(b, A, R) = Reverse(Only(b, A))
    <3> HIDE DEF A
    <3> QED  BY <1>0, <2>3, <2>4, QueryAll
  <2>6. Only(b, A) = Only(b, EntrySev(s))
    BY <2>3, OnlyAtSeverity
  <2> HIDE DEF A
  <2>7. o = Only(N, AtSev(s))
    BY <2>1, OnlyOfSeverity
  <2>8. Only(EntriesOf(N), EntrySev(s)) = EntriesOf(Only(N, AtSev(s)))
    <3> DEFINE S == AtSev(s)  T == EntrySev(s)
    <3>1. \A h \in Handing : h \in S <=> h.entry \in T
      BY HandingEntry DEF AtSev, EntrySev
    <3> HIDE DEF S, T
    <3>2. Only(EntriesOf(N), T) = EntriesOf(Only(N, S))
      BY <2>1, <3>1, OnlyEntries
    <3> QED  BY <3>2 DEF S, T
  <2>9. o \in Seq(Handing)
    <3> DEFINE S == AtSev(s)
    <3> HIDE DEF S
    <3>1. Only(N, S) \in Seq(Handing)
      BY <2>1, OnlyTypes
    <3> QED  BY <2>7, <3>1 DEF S
  <2>10. Reverse(EntriesOf(o)) = EntriesOf(Reverse(o))
    <3> HIDE DEF o
    <3> QED  BY <2>9, EntriesReversed
  <2> HIDE DEF o
  <2>11. LogQuery(b, A, R) = EntriesOf(Reverse(o))
    BY ONLY <2>2, <2>5, <2>6, <2>7, <2>8, <2>10
  <2> QED  BY <2>11 DEF b, A, o, N
<1>5. ASSUME NEW S
      PROVE  LogQuery(cc.alerts, S, 1) =
               IF Only(cc.alerts, S) = << >> THEN << >> ELSE <<Last(Only(cc.alerts, S))>>
  <2> DEFINE a == cc.alerts
  <2>1. a \in Seq(Alert)
    BY <1>1 DEF CollectorState
  <2> HIDE DEF a
  <2>2. LogQuery(a, S, 1) = IF Only(a, S) = << >> THEN << >> ELSE <<Last(Only(a, S))>>
    BY <2>1, QueryOne
  <2> QED  BY <2>2 DEF a
<1> QED  BY <1>2, <1>3, <1>4, <1>5 DEF EntriesOf, R

(* ---------------------------------------------------------- handed on *)
LEMMA FannedBySteps ==
  ASSUME NEW cs \in Seq(Collectors), NEW e \in Entry, collector \in [Collectors -> CollectorState]
  PROVE  \E f : /\ f[0] = collector
                /\ \A i \in 1 .. Len(cs) : f[i] = [f[i - 1] EXCEPT ![cs[i]] = Ingested(@, e)]
                /\ FannedOut(cs, e) = f[Len(cs)]
<1> DEFINE n == Len(cs)
           T == [Collectors -> CollectorState]
           Next1(x, i) == [x EXCEPT ![cs[i]] = Ingested(@, e)]
           All(f) == f = [i \in 0 .. n |-> IF i = 0 THEN collector ELSE Next1(f[i - 1], i)]
           step == [i \in 1 .. n |-> [x \in T |-> Next1(x, i)]]
           after == CHOOSE f : All(f)
<1>1. n \in Nat /\ \A i \in 1 .. n : cs[i] \in Collectors
  OBVIOUS
<1>2. \A i \in 1 .. n, x \in T : Next1(x, i) \in T
  <2> SUFFICES ASSUME NEW i \in 1 .. n, NEW x \in T PROVE Next1(x, i) \in T
    OBVIOUS
  <2>1. Ingested(x[cs[i]], e) \in CollectorState
    BY <1>1, IngestedFacts
  <2> QED  BY <1>1, <2>1
<1>3. collector \in T
  OBVIOUS
<1> HIDE DEF T
<1>4. step \in Steps(n, T)
  <2> HIDE DEF Next1
  <2> QED  BY <1>2 DEF Steps
<1>5. \E f : All(f)
  <2> HIDE DEF Next1, n
  <2>1. PICK f \in Runs(n, T) : Iterated(f, collector, step, n)
    <3> HIDE DEF step
    <3> QED  BY <1>1, <1>3, <1>4, Iterates
  <2>2. ASSUME NEW i \in 0 .. n PROVE f[i] = IF i = 0 THEN collector ELSE Next1(f[i - 1], i)
    <3>1. i # 0 => i \in 1 .. n /\ i - 1 \in 0 .. n
      BY <1>1
    <3>2. i # 0 => f[i - 1] \in T
      BY <2>1, <3>1 DEF Runs
    <3> QED  BY <2>1, <3>1, <3>2 DEF Iterated
  <2> HIDE DEF step
  <2>3. f = [i \in 0 .. n |-> f[i]]
    BY <2>1 DEF Runs
  <2>4. f = [i \in 0 .. n |-> IF i = 0 THEN collector ELSE Next1(f[i - 1], i)]
    BY <2>2, <2>3
  <2> QED  BY <2>4
<1>6. All(after)
  <2> HIDE DEF All
  <2> QED  BY <1>5
<1>7. FannedOut(cs, e) = after[n]
  BY DEF FannedOut
<1> HIDE DEF after, n
<1>8. after[0] = collector /\ \A i \in 1 .. n : after[i] = Next1(after[i - 1], i)
  <2> HIDE DEF Next1
  <2>1. 0 \in 0 .. n /\ \A i \in 1 .. n : i \in 0 .. n /\ i # 0
    BY <1>1
  <2> QED  BY <1>6, <2>1
<1> QED  BY <1>7, <1>8 DEF n

LEMMA FannedAppend ==
  ASSUME NEW cs \in Seq(Collectors), NEW c \in Collectors, NEW e \in Entry,
         collector \in [Collectors -> CollectorState]
  PROVE  /\ FannedOut(<< >>, e) = collector
         /\ FannedOut(Append(cs, c), e) = [FannedOut(cs, e) EXCEPT ![c] = Ingested(@, e)]
<1>1. FannedOut(<< >>, e) = collector
  <2>1. << >> \in Seq(Collectors) /\ Len(<< >>) = 0
    OBVIOUS
  <2>2. PICK f : f[0] = collector /\ FannedOut(<< >>, e) = f[Len(<< >>)]
    BY <2>1, FannedBySteps, ZenonT(60)
  <2> QED  BY <2>1, <2>2
<1> DEFINE u == Append(cs, c)  n == Len(cs)  More(x, d) == [x EXCEPT ![d] = Ingested(@, e)]
<1>2. u \in Seq(Collectors) /\ Len(u) = n + 1 /\ u[n + 1] = c /\ n \in Nat
      /\ \A i \in 1 .. n : u[i] = cs[i]
  BY AppendProperties
<1> HIDE DEF u, n
<1>3. PICK f : /\ f[0] = collector /\ \A i \in 1 .. n : f[i] = More(f[i - 1], cs[i])
               /\ FannedOut(cs, e) = f[n]
  BY FannedBySteps DEF n
<1>4. PICK g : /\ g[0] = collector /\ \A i \in 1 .. n + 1 : g[i] = More(g[i - 1], u[i])
               /\ FannedOut(u, e) = g[n + 1]
  <2>1. \E g : /\ g[0] = collector /\ \A i \in 1 .. Len(u) : g[i] = More(g[i - 1], u[i])
               /\ FannedOut(u, e) = g[Len(u)]
    BY <1>2, FannedBySteps, ZenonT(60)
  <2> QED  BY <1>2, <2>1
<1> HIDE DEF More
<1> DEFINE K == {k \in 0 .. n : f[k] = g[k]}
<1>7. 0 \in K
  BY <1>2, <1>3, <1>4
<1>8. ASSUME NEW k \in 0 .. n - 1, k \in K PROVE k + 1 \in K
  <2>1. k + 1 \in 1 .. n /\ k + 1 \in 1 .. n + 1 /\ (k + 1) - 1 = k /\ k + 1 \in 0 .. n
    BY <1>2
  <2>2. u[k + 1] = cs[k + 1] /\ f[k] = g[k]
    BY <1>2, <1>8, <2>1
  <2>3. f[k + 1] = More(f[k], cs[k + 1])
    BY <1>3, <2>1
  <2>4. g[k + 1] = More(g[k], u[k + 1])
    BY <1>4, <2>1
  <2>5. f[k + 1] = g[k + 1]
    BY <2>2, <2>3, <2>4
  <2> QED  BY <2>1, <2>5
<1>9. \A k \in 0 .. n : k \in K
  <2> HIDE DEF K
  <2>1. 0 \in Int /\ n \in Int
    BY <1>2
  <2> QED  BY <1>7, <1>8, <2>1, UpFrom
<1>10. f[n] = g[n]
  BY <1>2, <1>9
<1>11. g[n + 1] = More(g[n], c)
  <2>1. n + 1 \in 1 .. n + 1 /\ (n + 1) - 1 = n
    BY <1>2
  <2> QED  BY <1>2, <1>4, <2>1
<1>12. FannedOut(u, e) = More(FannedOut(cs, e), c)
  BY <1>3, <1>4, <1>10, <1>11
<1> QED  BY <1>1, <1>12 DEF u, More

(* A hand-over, as often as a collector is among those handed to.           *)
Copies(cs, c, h) == [i \in DOMAIN Only(cs, {c}) |-> h]

Hand(c, e) == [entry |-> e, rules |-> collector[c].rules]

LEMMA CopiesAppend ==
  ASSUME NEW cs \in Seq(Collectors), NEW c \in Collectors, NEW d \in Collectors, NEW h \in Handing
  PROVE  /\ Copies(<< >>, c, h) = << >> /\ Copies(cs, c, h) \in Seq(Handing)
         /\ Copies(Append(cs, d), c, h) =
              IF d = c THEN Append(Copies(cs, c, h), h) ELSE Copies(cs, c, h)
<1> DEFINE S == {c}  o == Only(cs, S)  k == Copies(cs, c, h)  P == Collectors
<1>1. Copies(<< >>, c, h) = << >>
  BY OnlyNothing DEF Copies
<1>2. o \in Seq(P)
  BY OnlyTypes
<1>3. Only(Append(cs, d), S) = IF d \in S THEN Append(o, d) ELSE o
  BY OnlyAppend
<1> HIDE DEF o
<1>4. k = [i \in 1 .. Len(o) |-> h] /\ Len(o) \in Nat
  BY <1>2 DEF Copies, o
<1> HIDE DEF k
<1>5. k \in Seq(Handing) /\ Len(k) = Len(o)
  BY <1>4
<1>6. CASE d = c
  <2> DEFINE a == Append(o, d)  v == Copies(Append(cs, d), c, h)  w == Append(k, h)  n == Len(o)
  <2>1. Only(Append(cs, d), S) = a
    BY <1>3, <1>6
  <2>2. a \in Seq(P) /\ Len(a) = n + 1
    BY <1>2, AppendProperties
  <2>3. w \in Seq(Handing) /\ Len(w) = n + 1 /\ w[n + 1] = h /\ \A i \in 1 .. n : w[i] = k[i]
    <3>1. w \in Seq(Handing) /\ Len(w) = Len(k) + 1 /\ w[Len(k) + 1] = h /\ \A i \in 1 .. Len(k) : w[i] = k[i]
      BY <1>5, AppendProperties
    <3> HIDE DEF w
    <3> QED  BY <1>5, <3>1
  <2> HIDE DEF a, n
  <2>4. v = [i \in 1 .. n + 1 |-> h] /\ n \in Nat
    <3>1. v = [i \in DOMAIN a |-> h]
      BY <2>1 DEF Copies
    <3>2. DOMAIN a = 1 .. Len(a)
      BY <2>2
    <3> HIDE DEF v
    <3> QED  BY <1>4, <2>2, <3>1, <3>2 DEF n
  <2> HIDE DEF v, w
  <2>5. v \in Seq(Handing) /\ Len(v) = n + 1 /\ \A i \in 1 .. n + 1 : v[i] = h
    BY <2>4
  <2>6. \A i \in 1 .. n + 1 : w[i] = h
    <3>1. \A i \in 1 .. n : k[i] = h
      BY <1>4 DEF n
    <3>2. \A i \in 1 .. n + 1 : i = n + 1 \/ i \in 1 .. n
      BY <2>4
    <3> QED  BY <2>3, <3>1, <3>2
  <2>7. \A i \in 1 .. Len(v) : v[i] = w[i]
    BY <2>5, <2>6
  <2>8. v = w
    BY <2>3, <2>5, <2>7, SeqEqual
  <2> QED  BY <1>1, <1>5, <1>6, <2>8 DEF k, v, w
<1>7. CASE d # c
  <2>1. Only(Append(cs, d), S) = o
    BY <1>3, <1>7
  <2>2. Copies(Append(cs, d), c, h) = k
    BY <2>1 DEF Copies, k, o
  <2> QED  BY <1>1, <1>5, <1>7, <2>2 DEF k
<1> QED  BY <1>6, <1>7

KeptAll == /\ collector \in [Collectors -> CollectorState]
           /\ \A c \in Collectors : Kept(collector[c], since8[c].buffer, since8[c].alerts)

(* Each of those handed to keeps what the others do not change.             *)
LEMMA FanOutKeeps ==
  ASSUME KeptAll, NEW e \in Entry, NEW cs \in Seq(Collectors)
  PROVE  /\ FannedOut(cs, e) \in [Collectors -> CollectorState]
         /\ \A c \in Collectors :
              Kept(FannedOut(cs, e)[c], since8[c].buffer \o Copies(cs, c, Hand(c, e)),
                   since8[c].alerts \o Copies(cs, c, Hand(c, e)))
<1> DEFINE P == Collectors
           Good(F, u) == /\ F \in [Collectors -> CollectorState]
                         /\ \A c \in Collectors :
                              /\ F[c].rules = collector[c].rules
                              /\ Kept(F[c], since8[c].buffer \o Copies(u, c, Hand(c, e)),
                                      since8[c].alerts \o Copies(u, c, Hand(c, e)))
           Z == {u \in Seq(P) : Good(FannedOut(u, e), u)}
<1>0. collector \in [Collectors -> CollectorState]
  BY DEF KeptAll
<1>1. \A c \in Collectors : /\ Kept(collector[c], since8[c].buffer, since8[c].alerts)
                            /\ since8[c].buffer \in Seq(Handing) /\ since8[c].alerts \in Seq(Handing)
                            /\ Hand(c, e) \in Handing
  <2> SUFFICES ASSUME NEW c \in Collectors
               PROVE  /\ Kept(collector[c], since8[c].buffer, since8[c].alerts)
                      /\ since8[c].buffer \in Seq(Handing) /\ since8[c].alerts \in Seq(Handing)
                      /\ Hand(c, e) \in Handing
    OBVIOUS
  <2>1. Kept(collector[c], since8[c].buffer, since8[c].alerts)
    BY DEF KeptAll
  <2>2. collector[c].rules \in Seq(AlertRules)
    BY <1>0 DEF CollectorState
  <2> QED  BY <2>1, <2>2 DEF Kept, Hand, Handing
<1>2. << >> \in Z
  <2>1. FannedOut(<< >>, e) = collector
    <3>1. CASE P = {}
      <4>1. << >> \in Seq(Collectors) /\ Len(<< >>) = 0
        OBVIOUS
      <4>2. PICK f : f[0] = collector /\ FannedOut(<< >>, e) = f[Len(<< >>)]
        BY <1>0, <4>1, FannedBySteps, ZenonT(60)
      <4> QED  BY <4>1, <4>2
    <3>2. CASE P # {}
      BY <1>0, <3>2, FannedAppend
    <3> QED  BY <3>1, <3>2
  <2>2. ASSUME NEW c \in Collectors
        PROVE  Kept(collector[c], since8[c].buffer \o Copies(<< >>, c, Hand(c, e)),
                    since8[c].alerts \o Copies(<< >>, c, Hand(c, e)))
    <3>1. Copies(<< >>, c, Hand(c, e)) = << >>
      BY OnlyNothing DEF Copies
    <3>2. since8[c].buffer \o << >> = since8[c].buffer /\ since8[c].alerts \o << >> = since8[c].alerts
      BY <1>1, JoinedFacts
    <3> QED  BY <1>1, <3>1, <3>2
  <2>3. << >> \in Seq(P)
    OBVIOUS
  <2> QED  BY <1>0, <2>1, <2>2, <2>3
<1>3. ASSUME NEW u \in Seq(P), NEW d \in P, u \in Z PROVE Append(u, d) \in Z
  <2> DEFINE F == FannedOut(u, e)  v == Append(u, d)  G == FannedOut(v, e)
  <2>1. Good(F, u)
    BY <1>3
  <2>2. G = [F EXCEPT ![d] = Ingested(@, e)]
    BY <1>0, FannedAppend
  <2>3. v \in Seq(P)
    OBVIOUS
  <2> HIDE DEF F, G, v
  <2>4. Ingested(F[d], e) \in CollectorState /\ Ingested(F[d], e).rules = F[d].rules
    BY <2>1, IngestedFacts
  <2>5. G \in [Collectors -> CollectorState]
    BY <2>1, <2>2, <2>4
  <2>6. ASSUME NEW c \in Collectors
        PROVE  /\ G[c].rules = collector[c].rules
               /\ Kept(G[c], since8[c].buffer \o Copies(v, c, Hand(c, e)),
                       since8[c].alerts \o Copies(v, c, Hand(c, e)))
    <3> DEFINE h == Hand(c, e)  C == Copies(u, c, h)  D == Copies(v, c, h)
               b == since8[c].buffer  a == since8[c].alerts
    <3>1. h \in Handing /\ b \in Seq(Handing) /\ a \in Seq(Handing)
      BY <1>1
    <3>2. C \in Seq(Handing) /\ D = IF d = c THEN Append(C, h) ELSE C
      <4> HIDE DEF h
      <4> QED  BY <3>1, CopiesAppend DEF v
    <3>3. F[c].rules = collector[c].rules /\ Kept(F[c], b \o C, a \o C)
      BY <2>1
    <3>4. CASE d # c
      <4>1. G[c] = F[c]
        BY <2>1, <2>2, <3>4
      <4>2. D = C
        BY <3>2, <3>4
      <4> HIDE DEF C, D
      <4>3. G[c].rules = collector[c].rules /\ Kept(G[c], b \o D, a \o D)
        BY ONLY <3>3, <4>1, <4>2
      <4> QED  BY <4>3 DEF D
    <3>5. CASE d = c
      <4> DEFINE cc == F[c]
      <4>1. G[c] = Ingested(cc, e)
        BY <2>1, <2>2, <3>5
      <4>2. h = [entry |-> e, rules |-> cc.rules]
        BY <3>3 DEF Hand
      <4>3. D = Append(C, h)
        BY <3>2, <3>5
      <4>4. b \o Append(C, h) = Append(b \o C, h) /\ a \o Append(C, h) = Append(a \o C, h)
        <5> HIDE DEF C, h, a, b
        <5> QED  BY <3>1, <3>2, AppendJoined, SMTT(30)
      <4> DEFINE B == b \o C  W == a \o C
      <4>5. Kept(cc, B, W)
        BY <3>3
      <4> HIDE DEF cc, B, W, h
      <4>6. Kept(Ingested(cc, e), Append(B, h), Append(W, h))
        BY <4>2, <4>5, IngestedKeeps
      <4>7. Kept(G[c], b \o D, a \o D)
        BY <4>1, <4>3, <4>4, <4>6 DEF B, W
      <4>8. G[c].rules = collector[c].rules
        BY <2>4, <3>3, <3>5, <4>1 DEF cc
      <4> QED  BY <4>7, <4>8 DEF h
    <3> QED  BY <3>4, <3>5
  <2> QED  BY <2>3, <2>5, <2>6 DEF G, v
<1>4. \A u \in Seq(P) : u \in Z
  <2> HIDE DEF Z
  <2> QED  BY <1>2, <1>3, AppendInduct
<1> QED  BY <1>4

LEMMA HandedKeeps ==
  ASSUME KeptAll, NEW e \in Entry, NEW cs \in Seq(Collectors),
         collector' = FannedOut(cs, e), HandedTo(cs, e)
  PROVE  KeptAll'
<1> DEFINE Handed(c) == Copies(cs, c, Hand(c, e))
<1>1. since8' = [c \in Collectors |-> [buffer |-> since8[c].buffer \o Handed(c),
                                      alerts |-> since8[c].alerts \o Handed(c)]]
  BY DEF HandedTo, Copies, Hand
<1>2. /\ FannedOut(cs, e) \in [Collectors -> CollectorState]
      /\ \A c \in Collectors : Kept(FannedOut(cs, e)[c], since8[c].buffer \o Handed(c), since8[c].alerts \o Handed(c))
  BY FanOutKeeps
<1> HIDE DEF Handed
<1>3. ASSUME NEW c \in Collectors PROVE Kept(collector'[c], since8'[c].buffer, since8'[c].alerts)
  <2>1. since8'[c].buffer = since8[c].buffer \o Handed(c) /\ since8'[c].alerts = since8[c].alerts \o Handed(c)
    BY <1>1
  <2> QED  BY <1>2, <2>1, SMTT(30)
<1> QED  BY <1>2, <1>3 DEF KeptAll

(* What a client keeps of the entries it made: too few only once full.        *)
ClientKept(b, count) ==
  /\ b \in Seq(Entry) /\ Len(b) <= ClientRoom
  /\ \A v \in Severities : Len(Only(b, EntrySev(v))) <= count[v]
  /\ Len(b) = ClientRoom \/ \A v \in Severities : Len(Only(b, EntrySev(v))) = count[v]

LogInv ==
  /\ KeptAll /\ relay \in Seq(Collectors)
  /\ logged \in Nat /\ logBuffer \in [LogSources -> Seq(Entry)]
  /\ logCount \in [LogSources -> [Severities -> Nat]]
  /\ since8 \in [Collectors -> [buffer : Seq(Handing), alerts : Seq(Handing)]]
  /\ \A s \in LogSources : ClientKept(logBuffer[s], logCount[s])

LEMMA NothingKept ==
  ASSUME NEW cc \in CollectorState, cc.buffer = << >>, cc.alerts = << >>,
         \A s \in Severities : cc.counters[s] = 0
  PROVE  Kept(cc, << >>, << >>)
<1>0. CollectorRoom \in Nat
  BY LogAssumption
<1>1. << >> \in Seq(Handing) /\ EntriesOf(<< >>) = << >> /\ Calls(<< >>) = << >>
  BY DEF EntriesOf, Calls
<1>2. FlattenSeq(<< >>) = << >>
  BY DEF FlattenSeq
<1>3. Newest(<< >>, CollectorRoom) = << >>
  <2> DEFINE e == << >>  w == Newest(e, CollectorRoom)
  <2>1. e \in Seq(Handing) /\ Len(e) = 0
    OBVIOUS
  <2> HIDE DEF e
  <2>2. w \in Seq(Handing) /\ Len(w) = Len(e) - Gone(e, CollectorRoom)
    BY <1>0, <2>1, NewestFacts
  <2>3. Len(w) = 0
    <3>1. Gone(e, CollectorRoom) = 0
      BY <1>0, <2>1 DEF Gone
    <3> QED  BY <2>1, <2>2, <3>1
  <2> HIDE DEF w
  <2>4. w = << >>
    BY <2>2, <2>3, EmptySeq
  <2> QED  BY <2>4 DEF w, e
<1>4. \A s \in Severities : Len(Only(<< >>, AtSev(s))) = 0
  <2>1. Len(<< >>) = 0
    OBVIOUS
  <2> QED  BY <2>1, OnlyNothing
<1> QED  BY <1>1, <1>2, <1>3, <1>4 DEF Kept

LEMMA NoEntries ==
  ASSUME NEW count \in [Severities -> Nat], \A v \in Severities : count[v] = 0
  PROVE  ClientKept(<< >>, count)
<1>1. << >> \in Seq(Entry) /\ Len(<< >>) = 0
  OBVIOUS
<1>2. Len(<< >>) <= ClientRoom
  BY <1>1, LogAssumption
<1>3. \A v \in Severities : Len(Only(<< >>, EntrySev(v))) = 0
  BY <1>1, OnlyNothing
<1> QED  BY <1>1, <1>2, <1>3 DEF ClientKept

LEMMA Fresh8Kept == Fresh8 \in CollectorState /\ Kept(Fresh8, << >>, << >>)
<1>1. << >> \in Seq(Entry) /\ << >> \in Seq(AlertRules) /\ << >> \in Seq(Alert)
  OBVIOUS
<1>2. [s \in Severities |-> 0] \in [Severities -> Nat]
  OBVIOUS
<1>3. Fresh8 \in CollectorState
  <2> DEFINE A == Seq(Entry)  B == Seq(AlertRules)  C == Seq(Alert)  k == [s \in Severities |-> 0]
             K == [Severities -> Nat]
  <2>1. << >> \in A /\ << >> \in B /\ << >> \in C /\ k \in K
    BY <1>1
  <2> HIDE DEF A, B, C, k, K
  <2>2. [buffer |-> << >>, counters |-> k, received |-> 0, sources |-> {}, rules |-> << >>, alerts |-> << >>]
          \in [buffer : A, counters : K, received : Nat, sources : SUBSET LogSources, rules : B, alerts : C]
    BY <2>1
  <2> QED  BY <2>2 DEF Fresh8, CollectorState, A, B, C, k, K
<1>4. /\ Fresh8.buffer = << >> /\ Fresh8.alerts = << >>
      /\ \A s \in Severities : Fresh8.counters[s] = 0
  BY DEF Fresh8
<1> HIDE DEF Fresh8
<1> QED  BY <1>3, <1>4, NothingKept

LEMMA LogInvInit == LogInit => LogInv
<1> SUFFICES ASSUME LogInit PROVE LogInv
  OBVIOUS
<1>1. /\ logBuffer = [s \in LogSources |-> << >>]
      /\ logCount = [s \in LogSources |-> [v \in Severities |-> 0]]
      /\ collector = [c \in Collectors |-> Fresh8]
      /\ relay = << >> /\ logged = 0
      /\ since8 = [c \in Collectors |-> [buffer |-> << >>, alerts |-> << >>]]
  BY DEF LogInit
<1>2. KeptAll
  <2>1. \A c \in Collectors : collector[c] = Fresh8 /\ since8[c].buffer = << >> /\ since8[c].alerts = << >>
    BY <1>1
  <2>2. collector \in [Collectors -> CollectorState]
    BY <1>1, Fresh8Kept
  <2> QED  BY <2>1, <2>2, Fresh8Kept DEF KeptAll
<1>3. << >> \in Seq(Entry) /\ << >> \in Seq(Handing) /\ << >> \in Seq(Collectors)
  OBVIOUS
<1>4. \A s \in LogSources : ClientKept(logBuffer[s], logCount[s])
  <2> DEFINE z == [v \in Severities |-> 0]
  <2>1. z \in [Severities -> Nat] /\ \A v \in Severities : z[v] = 0
    OBVIOUS
  <2>2. \A s \in LogSources : logBuffer[s] = << >> /\ logCount[s] = z
    BY <1>1
  <2> HIDE DEF z
  <2>3. ClientKept(<< >>, z)
    BY <2>1, NoEntries
  <2> QED  BY <2>2, <2>3
<1>5. logBuffer \in [LogSources -> Seq(Entry)] /\ logCount \in [LogSources -> [Severities -> Nat]]
  BY <1>1, <1>3
<1>6. since8 \in [Collectors -> [buffer : Seq(Handing), alerts : Seq(Handing)]]
  BY <1>1, <1>3
<1> QED  BY <1>1, <1>2, <1>3, <1>4, <1>5, <1>6 DEF LogInv

(* An entry made is counted, and pushes out no more than there is no room for. *)
LEMMA LogKeeps ==
  ASSUME NEW b, NEW count \in [Severities -> Nat], ClientKept(b, count), NEW x \in Entry, NEW more,
         more = [count EXCEPT ![x.kind.severity] = @ + 1]
  PROVE  ClientKept(Newest(Append(b, x), ClientRoom), more)
<1> DEFINE R == ClientRoom  n == Len(b)
<1>0. R \in Nat
  BY LogAssumption
<1> HIDE DEF R
<1>1. /\ b \in Seq(Entry) /\ n <= R
      /\ \A v \in Severities : Len(Only(b, EntrySev(v))) <= count[v]
      /\ n = R \/ \A v \in Severities : Len(Only(b, EntrySev(v))) = count[v]
  BY DEF ClientKept, R
<1>2. x.kind.severity \in Severities
  BY DEF Entry, Severities
<1> DEFINE u == Append(b, x)  w == Newest(u, R)  g == Gone(u, R)
<1>3. u \in Seq(Entry) /\ Len(u) = n + 1 /\ n \in Nat
  BY <1>1, AppendProperties
<1> HIDE DEF u, n
<1>4. w \in Seq(Entry) /\ Len(w) = Len(u) - g
  BY <1>0, <1>3, NewestFacts
<1>5. Len(u) - g = (IF n + 1 > R THEN R ELSE n + 1)
  BY <1>0, <1>3, GoneNumber
<1>6. Len(w) <= R
  BY <1>0, <1>1, <1>3, <1>4, <1>5
<1> HIDE DEF g
<1>7. ASSUME NEW v \in Severities
      PROVE  /\ Len(Only(w, EntrySev(v))) <= more[v]
             /\ Len(Only(b, EntrySev(v))) = count[v] => Len(Only(u, EntrySev(v))) = more[v]
  <2> DEFINE S == EntrySev(v)  o == Only(b, S)
  <2>1. Only(u, S) = IF x \in S THEN Append(o, x) ELSE o
    BY <1>1, OnlyAppend DEF u
  <2>2. o \in Seq(Entry) /\ Len(o) \in Nat
    <3>1. o \in Seq(Entry)
      <4> HIDE DEF S
      <4> QED  BY <1>1, OnlyTypes
    <3> HIDE DEF o
    <3> QED  BY <3>1
  <2>3. x \in S <=> x.kind.severity = v
    BY DEF EntrySev
  <2>4. more[v] = (IF x.kind.severity = v THEN count[v] + 1 ELSE count[v]) /\ count[v] \in Nat
    BY <1>2
  <2>5. Len(o) <= count[v]
    BY <1>1
  <2> HIDE DEF S, o
  <2>6. Len(Append(o, x)) = Len(o) + 1
    BY <2>2, AppendProperties
  <2>7. Len(Only(u, S)) = (IF x.kind.severity = v THEN Len(o) + 1 ELSE Len(o))
    BY <2>1, <2>3, <2>6
  <2>8. Len(Only(w, S)) <= Len(Only(u, S))
    BY <1>0, <1>3, OnlyNewest
  <2>9. Len(Only(w, S)) \in Nat
    <3> HIDE DEF w
    <3>1. Only(w, S) \in Seq(Entry)
      BY <1>4, OnlyTypes
    <3> DEFINE q == Only(w, S)
    <3> HIDE DEF q
    <3> QED  BY <3>1 DEF q
  <2>10. Len(Only(w, S)) <= more[v]
    BY <2>2, <2>4, <2>5, <2>7, <2>8, <2>9
  <2>11. Len(o) = count[v] => Len(Only(u, S)) = more[v]
    BY <2>4, <2>7
  <2> QED  BY <2>10, <2>11 DEF S, o
<1>8. Len(w) = R \/ \A v \in Severities : Len(Only(w, EntrySev(v))) = more[v]
  <2>1. CASE n + 1 > R
    BY <1>4, <1>5, <2>1
  <2>2. CASE ~(n + 1 > R)
    <3>1. w = u
      <4>1. (IF Len(u) > R THEN Len(u) - R + 1 ELSE 1) = 1
        BY <1>3, <2>2
      <4> QED  BY <1>3, <4>1, SubSeqFull DEF Newest
    <3>2. n # R
      BY <1>0, <1>3, <2>2
    <3>3. \A v \in Severities : Len(Only(b, EntrySev(v))) = count[v]
      BY <1>1, <3>2
    <3> QED  BY <1>7, <3>1, <3>3
  <2> QED  BY <2>1, <2>2
<1> HIDE DEF w
<1>9. ClientKept(w, more)
  BY <1>4, <1>6, <1>7, <1>8 DEF ClientKept, R
<1> QED  BY <1>9 DEF w, u, R

(* A sequence and what is put after it.                                     *)
(* A sequence starts with another, or goes on with one after m elements.     *)
Follows(u, t, m) == \A i \in Nat : 1 <= i /\ i <= Len(t) => u[m + i] = t[i]

Starts(u, s, k) == \A i \in Nat : 1 <= i /\ i <= k => u[i] = s[i]

LEMMA PutAfter ==
  ASSUME NEW s \in Seq(Nat), NEW t \in Seq(Nat), NEW m \in Nat, Len(s) = m
  PROVE  /\ s \o t \in Seq(Nat) /\ Len(s \o t) = m + Len(t) /\ Starts(s \o t, s, m)
         /\ Follows(s \o t, t, m)
<1> DEFINE u == s \o t  n == Len(t)
<1>1. u \in Seq(Nat) /\ Len(u) = m + n
      /\ \A i \in 1 .. m + n : u[i] = IF i <= m THEN s[i] ELSE t[i - m]
  BY ConcatProperties
<1>2. m \in Nat /\ n \in Nat
  OBVIOUS
<1> HIDE DEF u, n
<1>3. ASSUME NEW i \in Nat, 1 <= i, i <= m PROVE u[i] = s[i]
  <2>1. i \in 1 .. m + n /\ i <= m
    BY <1>2, <1>3
  <2> QED  BY <1>1, <2>1
<1>4. ASSUME NEW i \in Nat, 1 <= i, i <= n PROVE u[m + i] = t[i]
  <2>1. m + i \in 1 .. m + n /\ ~(m + i <= m) /\ (m + i) - m = i
    BY <1>2, <1>4
  <2> QED  BY <1>1, <2>1
<1> QED  BY <1>1, <1>3, <1>4 DEF u, n, Starts, Follows

High(n) == (n \div 256) % 256
Low(n) == n % 256

LEMMA TwoOctets ==
  ASSUME NEW n \in Nat
  PROVE  /\ BigEndian(n) \in Seq(Nat) /\ Len(BigEndian(n)) = 2
         /\ BigEndian(n)[1] = High(n) /\ BigEndian(n)[2] = Low(n)
<1>1. High(n) \in Nat /\ Low(n) \in Nat
  BY DEF High, Low
<1>2. BigEndian(n) = <<High(n), Low(n)>>
  BY DEF BigEndian, High, Low
<1> QED  BY <1>1, <1>2

LEMMA PutTwo ==
  ASSUME NEW s \in Seq(Nat), NEW n \in Nat, NEW m \in Nat, Len(s) = m
  PROVE  /\ s \o BigEndian(n) \in Seq(Nat) /\ Len(s \o BigEndian(n)) = m + 2
         /\ Starts(s \o BigEndian(n), s, m)
         /\ (s \o BigEndian(n))[m + 1] = High(n) /\ (s \o BigEndian(n))[m + 2] = Low(n)
<1> DEFINE t == BigEndian(n)  u == s \o t
<1>1. t \in Seq(Nat) /\ Len(t) = 2 /\ t[1] = High(n) /\ t[2] = Low(n)
  BY TwoOctets
<1> HIDE DEF t
<1>2. /\ u \in Seq(Nat) /\ Len(u) = m + Len(t) /\ Starts(u, s, m)
      /\ Follows(u, t, m)
  <2>1. \A x \in Seq(Nat), y \in Seq(Nat), k \in Nat : Len(x) = k =>
          /\ x \o y \in Seq(Nat) /\ Len(x \o y) = k + Len(y) /\ Starts(x \o y, x, k)
          /\ Follows(x \o y, y, k)
    BY ONLY PutAfter
  <2>2. s \in Seq(Nat) /\ t \in Seq(Nat) /\ m \in Nat /\ Len(s) = m
    BY <1>1
  <2> QED  BY ONLY <2>1, <2>2
<1> HIDE DEF u
<1>3. u[m + 1] = t[1] /\ u[m + 2] = t[2]
  <2>1. Follows(u, t, m) /\ Len(t) = 2
    BY <1>1, <1>2
  <2> QED  BY ONLY <2>1 DEF Follows
<1> QED  BY <1>1, <1>2, <1>3 DEF u, t

(* The octets of a header.                                                  *)
HeaderOctets(w, s, f, n) ==
  /\ w[1] = 78 /\ w[2] = 76 /\ w[3] = 56 /\ w[4] = 1 /\ w[5] = 1 /\ w[6] = s
  /\ w[7] = High(f) /\ w[8] = Low(f)
  /\ w[9] = High(n \div 65536) /\ w[10] = Low(n \div 65536)
  /\ w[11] = High(n % 65536) /\ w[12] = Low(n % 65536)

LEMMA PackedHeader ==
  ASSUME NEW s \in Nat, NEW f \in Nat, NEW n \in Nat
  PROVE  /\ PackHeader(LogHeader(s, f, n)) \in Seq(Nat) /\ Len(PackHeader(LogHeader(s, f, n))) = 12
         /\ HeaderOctets(PackHeader(LogHeader(s, f, n)), s, f, n)
<1> DEFINE w == PackHeader(LogHeader(s, f, n))
           hi == n \div 65536  lo == n % 65536  o == <<1, s>>
           a == HeaderMagic \o o  b == a \o BigEndian(f)  c == b \o BigEndian(hi)  d == c \o BigEndian(lo)
<1>1. hi \in Nat /\ lo \in Nat
  OBVIOUS
<1>2. w = d
  BY DEF PackHeader, LogHeader
<1> HIDE DEF hi, lo, w
<1>3. /\ HeaderMagic \in Seq(Nat) /\ Len(HeaderMagic) = 4 /\ HeaderMagic[1] = 78
      /\ HeaderMagic[2] = 76 /\ HeaderMagic[3] = 56 /\ HeaderMagic[4] = 1
  BY DEF HeaderMagic
<1>4. o \in Seq(Nat) /\ Len(o) = 2 /\ o[1] = 1 /\ o[2] = s
  OBVIOUS
<1> HIDE DEF o
<1>5. /\ a \in Seq(Nat) /\ Len(a) = 6
      /\ a[1] = 78 /\ a[2] = 76 /\ a[3] = 56 /\ a[4] = 1 /\ a[5] = 1 /\ a[6] = s
  <2>1. /\ a \in Seq(Nat) /\ Len(a) = 4 + Len(o) /\ Starts(a, HeaderMagic, 4)
        /\ Follows(a, o, 4)
    <3>1. \A x \in Seq(Nat), y \in Seq(Nat), k \in Nat : Len(x) = k =>
            /\ x \o y \in Seq(Nat) /\ Len(x \o y) = k + Len(y) /\ Starts(x \o y, x, k)
            /\ Follows(x \o y, y, k)
      BY ONLY PutAfter
    <3>2. HeaderMagic \in Seq(Nat) /\ o \in Seq(Nat) /\ 4 \in Nat /\ Len(HeaderMagic) = 4
      BY <1>3, <1>4
    <3> QED  BY ONLY <3>1, <3>2
  <2> HIDE DEF a
  <2>2. a[4 + 1] = o[1] /\ a[4 + 2] = o[2] /\ 4 + 1 = 5 /\ 4 + 2 = 6
    BY <1>4, <2>1 DEF Follows
  <2>3. a[1] = HeaderMagic[1] /\ a[2] = HeaderMagic[2] /\ a[3] = HeaderMagic[3] /\ a[4] = HeaderMagic[4]
    BY <2>1 DEF Starts
  <2> QED  BY <1>3, <1>4, <2>1, <2>2, <2>3
<1> HIDE DEF a
<1>p. \A x \in Seq(Nat), v \in Nat, m \in Nat : Len(x) = m =>
         /\ x \o BigEndian(v) \in Seq(Nat) /\ Len(x \o BigEndian(v)) = m + 2
         /\ Starts(x \o BigEndian(v), x, m)
         /\ (x \o BigEndian(v))[m + 1] = High(v) /\ (x \o BigEndian(v))[m + 2] = Low(v)
  BY ONLY PutTwo
<1>6. /\ b \in Seq(Nat) /\ Len(b) = 8 /\ Starts(b, a, 6) /\ b[7] = High(f) /\ b[8] = Low(f)
  <2>1. /\ b \in Seq(Nat) /\ Len(b) = 6 + 2 /\ Starts(b, a, 6)
        /\ b[6 + 1] = High(f) /\ b[6 + 2] = Low(f)
    <3>1. a \in Seq(Nat) /\ f \in Nat /\ 6 \in Nat /\ Len(a) = 6
      BY <1>5
    <3> QED  BY ONLY <1>p, <3>1, ZenonT(60)
  <2> HIDE DEF b
  <2> QED  BY ONLY <2>1
<1> HIDE DEF b
<1>7. /\ c \in Seq(Nat) /\ Len(c) = 10 /\ Starts(c, b, 8) /\ c[9] = High(hi) /\ c[10] = Low(hi)
  <2>1. /\ c \in Seq(Nat) /\ Len(c) = 8 + 2 /\ Starts(c, b, 8)
        /\ c[8 + 1] = High(hi) /\ c[8 + 2] = Low(hi)
    <3>1. b \in Seq(Nat) /\ hi \in Nat /\ 8 \in Nat /\ Len(b) = 8
      BY <1>1, <1>6
    <3> QED  BY ONLY <1>p, <3>1, ZenonT(60)
  <2> HIDE DEF c
  <2> QED  BY ONLY <2>1
<1> HIDE DEF c
<1>8. /\ d \in Seq(Nat) /\ Len(d) = 12 /\ Starts(d, c, 10) /\ d[11] = High(lo) /\ d[12] = Low(lo)
  <2>1. /\ d \in Seq(Nat) /\ Len(d) = 10 + 2 /\ Starts(d, c, 10)
        /\ d[10 + 1] = High(lo) /\ d[10 + 2] = Low(lo)
    <3>1. c \in Seq(Nat) /\ lo \in Nat /\ 10 \in Nat /\ Len(c) = 10
      BY <1>1, <1>7
    <3> QED  BY ONLY <1>p, <3>1, ZenonT(60)
  <2> HIDE DEF d
  <2> QED  BY ONLY <2>1
<1> HIDE DEF d
<1>9. Starts(b, a, 6) /\ Starts(c, b, 8) /\ Starts(d, c, 10)
  BY <1>6, <1>7, <1>8
<1>10. d[1] = a[1] /\ d[2] = a[2] /\ d[3] = a[3] /\ d[4] = a[4] /\ d[5] = a[5] /\ d[6] = a[6]
  BY ONLY <1>9 DEF Starts
<1>11. d[7] = b[7] /\ d[8] = b[8] /\ d[9] = c[9] /\ d[10] = c[10]
  BY ONLY <1>9 DEF Starts
<1>12. HeaderOctets(w, s, f, n)
  BY <1>2, <1>5, <1>6, <1>7, <1>8, <1>10, <1>11 DEF hi, lo, HeaderOctets
<1> QED  BY <1>2, <1>8, <1>12 DEF w

(* A header says on the wire what it was made with, whatever comes after.     *)
LEMMA HeaderRead ==
  ASSUME NEW s \in Nat, NEW f \in Nat, f < 65536, NEW n \in Nat, n \div 65536 < 65536, NEW z \in Seq(Nat)
  PROVE  /\ UnpackHeader(PackHeader(LogHeader(s, f, n)) \o z) = LogHeader(s, f, n)
         /\ UnpackHeader(Front(PackHeader(LogHeader(s, f, n)))) = Unreadable
<1> DEFINE w == PackHeader(LogHeader(s, f, n))  d == w \o z  k == Len(z)
<1>1. k \in Nat
  OBVIOUS
<1>2. w \in Seq(Nat) /\ Len(w) = 12 /\ HeaderOctets(w, s, f, n)
  BY PackedHeader
<1> HIDE DEF w, k
<1>3. d \in Seq(Nat) /\ Len(d) = 12 + k /\ Starts(d, w, 12)
  <2>1. \A x \in Seq(Nat), y \in Seq(Nat), m \in Nat : Len(x) = m =>
          x \o y \in Seq(Nat) /\ Len(x \o y) = m + Len(y) /\ Starts(x \o y, x, m)
    BY ONLY PutAfter
  <2>2. w \in Seq(Nat) /\ z \in Seq(Nat) /\ 12 \in Nat /\ Len(w) = 12
    BY <1>2
  <2> QED  BY ONLY <2>1, <2>2 DEF d, k
<1> HIDE DEF d
<1>b. /\ d[1] = w[1] /\ d[2] = w[2] /\ d[3] = w[3] /\ d[4] = w[4] /\ d[5] = w[5] /\ d[6] = w[6]
      /\ d[7] = w[7] /\ d[8] = w[8] /\ d[9] = w[9] /\ d[10] = w[10] /\ d[11] = w[11] /\ d[12] = w[12]
  <2>1. Starts(d, w, 12)
    BY <1>3
  <2>2. d[1] = w[1] /\ d[2] = w[2] /\ d[3] = w[3] /\ d[4] = w[4]
    BY ONLY <2>1 DEF Starts
  <2>3. d[5] = w[5] /\ d[6] = w[6] /\ d[7] = w[7] /\ d[8] = w[8]
    BY ONLY <2>1 DEF Starts
  <2>4. d[9] = w[9] /\ d[10] = w[10] /\ d[11] = w[11] /\ d[12] = w[12]
    BY ONLY <2>1 DEF Starts
  <2> QED  BY ONLY <2>2, <2>3, <2>4
<1>4. HeaderOctets(d, s, f, n)
  BY <1>2, <1>b DEF HeaderOctets
<1>5. ~(Len(d) < 12) /\ 4 <= Len(d)
  BY ONLY <1>1, <1>3
<1>6. SubSeq(d, 1, 4) = HeaderMagic
  <2> DEFINE u == SubSeq(d, 0 + 1, 4)  v == HeaderMagic
  <2>1. 0 \in Nat /\ 4 \in Nat /\ 0 <= 4
    OBVIOUS
  <2>2. u \in Seq(Nat) /\ Len(u) = 4 - 0 /\ \A i \in 1 .. 4 - 0 : u[i] = d[0 + i]
    BY <1>3, <1>5, <2>1, BetweenFacts, SMTT(30)
  <2>3. SubSeq(d, 1, 4) = u
    OBVIOUS
  <2> HIDE DEF u
  <2>4. Len(u) = 4 /\ u[1] = d[1] /\ u[2] = d[2] /\ u[3] = d[3] /\ u[4] = d[4]
    BY ONLY <2>2
  <2>5. v \in Seq(Nat) /\ Len(v) = 4 /\ v[1] = 78 /\ v[2] = 76 /\ v[3] = 56 /\ v[4] = 1
    BY DEF HeaderMagic
  <2> HIDE DEF v
  <2>6. u[1] = 78 /\ u[2] = 76 /\ u[3] = 56 /\ u[4] = 1
    BY <1>4, <2>4 DEF HeaderOctets
  <2>7. \A i \in 1 .. 4 : u[i] = v[i]
    <3>1. \A i \in 1 .. 4 : i = 1 \/ i = 2 \/ i = 3 \/ i = 4
      OBVIOUS
    <3> QED  BY <2>5, <2>6, <3>1
  <2>8. \A i \in 1 .. Len(u) : u[i] = v[i]
    BY <2>4, <2>7
  <2>9. Len(u) = Len(v)
    BY <2>4, <2>5
  <2>10. u = v
    <3>1. u \in Seq(Nat) /\ v \in Seq(Nat)
      BY <2>2, <2>5
    <3> QED  BY ONLY <2>8, <2>9, <3>1, SeqEqual
  <2> QED  BY <2>3, <2>10 DEF v
<1>7. UnpackHeader(d) = [version |-> d[5], severity |-> d[6], facility |-> d[7] * 256 + d[8],
                         length |-> ((d[9] * 256 + d[10]) * 256 + d[11]) * 256 + d[12]]
  BY <1>5, <1>6 DEF UnpackHeader, LogHeaderSize
<1>8. d[7] * 256 + d[8] = f
  <2>1. High(f) * 256 + Low(f) = f
    BY DEF High, Low
  <2> QED  BY <1>4, <2>1 DEF HeaderOctets
<1>9. ((d[9] * 256 + d[10]) * 256 + d[11]) * 256 + d[12] = n
  <2> DEFINE hi == n \div 65536  lo == n % 65536
  <2>1. ((High(hi) * 256 + Low(hi)) * 256 + High(lo)) * 256 + Low(lo) = n
    BY DEF High, Low
  <2> HIDE DEF hi, lo
  <2> QED  BY <1>4, <2>1 DEF HeaderOctets, hi, lo
<1>10. UnpackHeader(d) = LogHeader(s, f, n)
  <2>1. d[5] = 1 /\ d[6] = s
    BY <1>4 DEF HeaderOctets
  <2> QED  BY <1>7, <1>8, <1>9, <2>1 DEF LogHeader
<1>11. UnpackHeader(Front(w)) = Unreadable
  <2> DEFINE u == SubSeq(w, 0 + 1, 11)
  <2>1. 0 \in Nat /\ 11 \in Nat /\ 0 <= 11 /\ 11 - 0 = 11 /\ 11 <= Len(w) /\ Len(w) - 1 = 11
    BY <1>2
  <2>2. Len(u) = 11 - 0
    BY <1>2, <2>1, BetweenFacts
  <2>3. Front(w) = u
    <3> DEFINE k11 == 11
    <3>1. Len(w) - 1 = k11 /\ u = SubSeq(w, 1, k11)
      BY <2>1
    <3> HIDE DEF u, k11
    <3> QED  BY ONLY <3>1 DEF Front
  <2> HIDE DEF u
  <2>4. Len(Front(w)) < 12
    <3>1. Len(Front(w)) = Len(u)
      BY ONLY <2>3, Zenon
    <3>2. 11 - 0 < 12
      OBVIOUS
    <3> QED  BY ONLY <2>2, <3>1, <3>2
  <2> QED  BY <2>4 DEF UnpackHeader, LogHeaderSize
<1> QED  BY <1>10, <1>11 DEF d, w

LEMMA EntryFramed ==
  ASSUME NEW e \in Entry
  PROVE  LET framed == FrameEntry(e.kind, MessageOctets * e.number)
             read == UnpackHeader(PackHeader(framed) \o <<0>>)
         IN /\ read = framed
            /\ read.severity = e.kind.severity
            /\ Facilities[read.facility + 1] = e.kind.facility
            /\ UnpackHeader(Front(PackHeader(framed))) = Unreadable
<1> DEFINE k == e.kind  n == MessageOctets * e.number  f == FacilityNumber(k.facility)  s == k.severity
           framed == LogHeader(s, f, n)
<1>1. k \in LogKinds /\ e.number \in Nat /\ e.number < MaxLogged
  BY DEF Entry
<1>2. s \in Nat /\ k.facility \in ToSet(Facilities)
  <2>1. k.severity \in 0 .. 7 /\ k.facility \in ToSet(Facilities)
    BY <1>1, LogAssumption
  <2> QED  BY <2>1
<1>3. f \in Nat /\ f < 65536 /\ Facilities[f + 1] = k.facility
  <2> DEFINE c == k.facility  i == CHOOSE j \in DOMAIN Facilities : Facilities[j] = c
  <2>1. \E j \in DOMAIN Facilities : Facilities[j] = c
    BY <1>2 DEF ToSet
  <2>2. i \in DOMAIN Facilities /\ Facilities[i] = c
    BY <2>1
  <2>3. DOMAIN Facilities = 1 .. 14
    BY DEF Facilities
  <2>4. f = i - 1
    BY DEF FacilityNumber
  <2> HIDE DEF i, f
  <2>5. i \in Nat /\ 1 <= i /\ i <= 14
    BY <2>2, <2>3
  <2>6. f \in Nat /\ f < 65536 /\ f + 1 = i
    BY <2>4, <2>5
  <2> QED  BY <2>2, <2>6
<1>4. n \in Nat /\ n \div 65536 < 65536
  <2> DEFINE m == e.number  o == MessageOctets  l == MaxLogged  p == o * l
  <2>1. o \in Nat /\ l \in Nat /\ m \in Nat /\ m <= l /\ p \div 65536 < 65536
    BY <1>1, LogAssumption
  <2> HIDE DEF m, o, l
  <2>2. o * m \in Nat /\ o * l \in Nat /\ o * m <= o * l
    BY <2>1
  <2> DEFINE q == o * m
  <2>3. q \in Nat /\ p \in Nat /\ q <= p /\ p \div 65536 < 65536
    BY <2>1, <2>2
  <2> HIDE DEF p, q
  <2>4. q \div 65536 < 65536
    BY <2>3
  <2> QED  BY <2>3, <2>4 DEF q, o, m
<1>5. FrameEntry(k, n) = framed
  BY DEF FrameEntry
<1> HIDE DEF n, f, s
<1>6. <<0>> \in Seq(Nat)
  OBVIOUS
<1> DEFINE z == <<0>>
<1> HIDE DEF z
<1>7. /\ UnpackHeader(PackHeader(LogHeader(s, f, n)) \o z) = LogHeader(s, f, n)
      /\ UnpackHeader(Front(PackHeader(LogHeader(s, f, n)))) = Unreadable
  <2>1. s \in Nat /\ f \in Nat /\ f < 65536 /\ n \in Nat /\ n \div 65536 < 65536 /\ z \in Seq(Nat)
    BY <1>2, <1>3, <1>4, <1>6 DEF z
  <2> HIDE DEF framed
  <2>2. \A x \in Nat, y \in Nat, l \in Nat, t \in Seq(Nat) : y < 65536 /\ l \div 65536 < 65536 =>
           /\ UnpackHeader(PackHeader(LogHeader(x, y, l)) \o t) = LogHeader(x, y, l)
           /\ UnpackHeader(Front(PackHeader(LogHeader(x, y, l)))) = Unreadable
    BY ONLY HeaderRead
  <2> QED  BY ONLY <2>1, <2>2
<1>8. framed.severity = s /\ framed.facility = f
  BY DEF LogHeader
<1> HIDE DEF framed
<1>9. /\ UnpackHeader(PackHeader(framed) \o z) = framed
      /\ UnpackHeader(Front(PackHeader(framed))) = Unreadable
  BY <1>7 DEF framed
<1>10. Facilities[framed.facility + 1] = k.facility
  BY <1>3, <1>8
<1> QED  BY <1>5, <1>8, <1>9, <1>10 DEF z, n, s

LEMMA ClientsTold == LogInv => ClientsAccount
<1> SUFFICES ASSUME LogInv, NEW s \in LogSources
             PROVE  LET Found(v) == Len(ClientQuery(s, AtSeverity(logBuffer[s], v), ClientRoom))
                        full == Len(ClientQuery(s, ToSet(logBuffer[s]), ClientRoom)) = ClientRoom
                    IN /\ \A v \in Severities : Found(v) <= logCount[s][v]
                       /\ full \/ \A v \in Severities : Found(v) = logCount[s][v]
                       /\ \A e \in ToSet(logBuffer[s]) :
                            LET framed == FrameEntry(e.kind, MessageOctets * e.number)
                                read == UnpackHeader(PackHeader(framed) \o <<0>>)
                            IN /\ read = framed
                               /\ read.severity = e.kind.severity
                               /\ Facilities[read.facility + 1] = e.kind.facility
                               /\ UnpackHeader(Front(PackHeader(framed))) = Unreadable
  BY DEF ClientsAccount
<1> DEFINE b == logBuffer[s]  count == logCount[s]  R == ClientRoom
<1>0. R \in Nat
  BY LogAssumption
<1>1. ClientKept(b, count)
  BY DEF LogInv
<1> HIDE DEF b, count, R
<1>2. /\ b \in Seq(Entry) /\ Len(b) <= R
      /\ \A v \in Severities : Len(Only(b, EntrySev(v))) <= count[v]
      /\ Len(b) = R \/ \A v \in Severities : Len(Only(b, EntrySev(v))) = count[v]
  BY <1>1 DEF ClientKept, R
<1>3. ASSUME NEW v PROVE Len(LogQuery(b, AtSeverity(b, v), R)) = Len(Only(b, EntrySev(v)))
  <2> DEFINE A == AtSeverity(b, v)  E == EntrySev(v)  o == Only(b, E)
  <2>1. Only(b, A) = o
    BY <1>2, OnlyAtSeverity
  <2> HIDE DEF A, E
  <2>2. LogQuery(b, A, R) = Reverse(Only(b, A))
    BY <1>0, <1>2, QueryAll
  <2>3. o \in Seq(Entry)
    BY <1>2, OnlyTypes
  <2> HIDE DEF o
  <2>4. Len(Reverse(o)) = Len(o)
    BY <2>3, ReverseFacts
  <2> QED  BY <2>1, <2>2, <2>4 DEF o, A, E
<1>4. Len(LogQuery(b, ToSet(b), R)) = Len(b)
  <2> DEFINE A == ToSet(b)
  <2>1. \A i \in 1 .. Len(b) : b[i] \in A
    BY <1>2 DEF ToSet
  <2> HIDE DEF A
  <2>2. Only(b, A) = b
    BY <1>2, <2>1, OnlyAll
  <2>3. LogQuery(b, A, R) = Reverse(Only(b, A))
    BY <1>0, <1>2, QueryAll
  <2>4. Len(Reverse(b)) = Len(b)
    BY <1>2, ReverseFacts
  <2> QED  BY <2>2, <2>3, <2>4 DEF A
<1>5. \A e \in ToSet(b) : e \in Entry
  BY <1>2 DEF ToSet
<1>6. /\ \A v \in Severities : Len(ClientQuery(s, AtSeverity(b, v), R)) <= count[v]
      /\ \/ Len(ClientQuery(s, ToSet(b), R)) = R
         \/ \A v \in Severities : Len(ClientQuery(s, AtSeverity(b, v), R)) = count[v]
  <2>1. \A wanted : ClientQuery(s, wanted, R) = LogQuery(b, wanted, R)
    BY DEF ClientQuery, b
  <2> QED  BY <1>2, <1>3, <1>4, <2>1
<1> QED  BY <1>5, <1>6, EntryFramed DEF b, count, R

LEMMA CollectorsTold == LogInv => CollectorsAccount
<1> SUFFICES ASSUME LogInv, NEW c \in Collectors
             PROVE  LET entries == since8[c].buffer
                        watched == since8[c].alerts
                    IN /\ collector[c].alerts = FlattenSeq([i \in DOMAIN watched |-> CalledFor(watched[i])])
                       /\ \A s \in Severities :
                            /\ collector[c].counters[s] = Len(OfSeverity(entries, s))
                            /\ LET recent == Reverse(OfSeverity(Newest(entries, CollectorRoom), s))
                               IN LogQuery(collector[c].buffer, AtSeverity(collector[c].buffer, s), CollectorRoom) =
                                    [i \in DOMAIN recent |-> recent[i].entry]
                       /\ \A r \in ToSet(collector[c].rules) :
                            LET alerts == QueryAlerts(c, r, 1)
                                raised == Only(collector[c].alerts,
                                               {a \in ToSet(collector[c].alerts) : a.rule = r})
                            IN alerts = IF raised = << >> THEN << >> ELSE <<Last(raised)>>
  BY DEF CollectorsAccount
<1> DEFINE cc == collector[c]  B == since8[c].buffer  W == since8[c].alerts
<1>1. Kept(cc, B, W)
  BY DEF LogInv, KeptAll
<1> HIDE DEF cc, B, W
<1>2. /\ cc.alerts = FlattenSeq([i \in DOMAIN W |-> CalledFor(W[i])])
      /\ \A s \in Severities :
           /\ cc.counters[s] = Len(OfSeverity(B, s))
           /\ LET recent == Reverse(OfSeverity(Newest(B, CollectorRoom), s))
              IN LogQuery(cc.buffer, AtSeverity(cc.buffer, s), CollectorRoom) =
                   [i \in DOMAIN recent |-> recent[i].entry]
      /\ \A S : LogQuery(cc.alerts, S, 1) =
                  IF Only(cc.alerts, S) = << >> THEN << >> ELSE <<Last(Only(cc.alerts, S))>>
  BY <1>1, KeptTells
<1>3. ASSUME NEW r
      PROVE  LET raised == Only(cc.alerts, {a \in ToSet(cc.alerts) : a.rule = r})
             IN QueryAlerts(c, r, 1) = IF raised = << >> THEN << >> ELSE <<Last(raised)>>
  <2> DEFINE S == {a \in ToSet(cc.alerts) : a.rule = r}
  <2>1. QueryAlerts(c, r, 1) = LogQuery(cc.alerts, S, 1)
    BY DEF QueryAlerts, cc
  <2> HIDE DEF S
  <2>2. LogQuery(cc.alerts, S, 1) = IF Only(cc.alerts, S) = << >> THEN << >> ELSE <<Last(Only(cc.alerts, S))>>
    BY <1>2
  <2> QED  BY <2>1, <2>2 DEF S
<1> QED  BY <1>2, <1>3 DEF cc, B, W

LEMMA LogStep ==
  ASSUME LogInv, NEW s \in LogSources, NEW kind \in LogKinds, Log(s, kind)
  PROVE  LogInv'
<1>1. /\ logged < MaxLogged
      /\ logBuffer' = [logBuffer EXCEPT ![s] =
           Newest(Append(@, [kind |-> kind, source |-> s, number |-> logged]), ClientRoom)]
      /\ logCount' = [logCount EXCEPT ![s][kind.severity] = @ + 1]
      /\ logged' = logged + 1
      /\ UNCHANGED <<collector, relay, handled, since8>>
  BY DEF Log
<1>2. /\ KeptAll /\ relay \in Seq(Collectors)
      /\ logged \in Nat /\ logBuffer \in [LogSources -> Seq(Entry)]
      /\ logCount \in [LogSources -> [Severities -> Nat]]
      /\ since8 \in [Collectors -> [buffer : Seq(Handing), alerts : Seq(Handing)]]
      /\ \A t \in LogSources : ClientKept(logBuffer[t], logCount[t])
  BY DEF LogInv
<1> DEFINE x == [kind |-> kind, source |-> s, number |-> logged]
           b == logBuffer[s]  count == logCount[s]
           after == Newest(Append(b, x), ClientRoom)  more == [count EXCEPT ![kind.severity] = @ + 1]
<1>3. x \in Entry /\ x.kind = kind
  BY <1>1, <1>2 DEF Entry
<1> HIDE DEF x
<1>4. kind.severity \in Severities
  BY DEF Severities
<1>5. count \in [Severities -> Nat] /\ ClientKept(b, count) /\ more = [count EXCEPT ![x.kind.severity] = @ + 1]
  BY <1>2, <1>3
<1>6. ClientKept(after, more)
  <2> HIDE DEF b, count, more
  <2> QED  BY <1>3, <1>5, LogKeeps
<1>7. after \in Seq(Entry)
  BY <1>6 DEF ClientKept
<1>8. more \in [Severities -> Nat]
  BY <1>4, <1>5
<1>9. logBuffer' = [logBuffer EXCEPT ![s] = after]
  BY <1>1 DEF x
<1>10. logCount' = [logCount EXCEPT ![s] = more]
  BY <1>1
<1> HIDE DEF after, more, b, count
<1>11. /\ logBuffer' \in [LogSources -> Seq(Entry)]
       /\ logCount' \in [LogSources -> [Severities -> Nat]]
  BY <1>2, <1>7, <1>8, <1>9, <1>10
<1>12. ASSUME NEW t \in LogSources PROVE ClientKept(logBuffer'[t], logCount'[t])
  BY <1>2, <1>6, <1>9, <1>10
<1>13. KeptAll' /\ since8' \in [Collectors -> [buffer : Seq(Handing), alerts : Seq(Handing)]]
  BY <1>1, <1>2 DEF KeptAll
<1>14. logged' \in Nat /\ relay' \in Seq(Collectors)
  BY <1>1, <1>2
<1> QED  BY <1>11, <1>12, <1>13, <1>14 DEF LogInv

LEMMA ClearClientStep ==
  ASSUME LogInv, NEW s \in LogSources, ClearClient(s)
  PROVE  LogInv'
<1> DEFINE z == [v \in Severities |-> 0]
<1>1. /\ logBuffer' = [logBuffer EXCEPT ![s] = << >>]
      /\ logCount' = [logCount EXCEPT ![s] = z]
      /\ UNCHANGED <<collector, relay, logged, handled, since8>>
  BY DEF ClearClient
<1>2. z \in [Severities -> Nat] /\ \A v \in Severities : z[v] = 0
  OBVIOUS
<1> HIDE DEF z
<1>3. ClientKept(<< >>, z) /\ << >> \in Seq(Entry)
  BY <1>2, NoEntries
<1>4. /\ logBuffer \in [LogSources -> Seq(Entry)] /\ logCount \in [LogSources -> [Severities -> Nat]]
      /\ \A t \in LogSources : ClientKept(logBuffer[t], logCount[t])
  BY DEF LogInv
<1>5. /\ logBuffer' \in [LogSources -> Seq(Entry)] /\ logCount' \in [LogSources -> [Severities -> Nat]]
      /\ \A t \in LogSources : ClientKept(logBuffer'[t], logCount'[t])
  BY <1>1, <1>2, <1>3, <1>4
<1>6. KeptAll' /\ since8' \in [Collectors -> [buffer : Seq(Handing), alerts : Seq(Handing)]]
      /\ logged' \in Nat /\ relay' \in Seq(Collectors)
  BY <1>1 DEF KeptAll, LogInv
<1> QED  BY <1>5, <1>6 DEF LogInv

(* What is handed over leaves clients and relay alone.                      *)
LEMMA HandStep ==
  ASSUME LogInv, NEW e \in Entry, NEW cs \in Seq(Collectors),
         collector' = FannedOut(cs, e), HandedTo(cs, e)
  PROVE  LogInv'
<1>1. KeptAll'
  <2>1. KeptAll
    BY DEF LogInv
  <2> QED  BY <2>1, HandedKeeps
<1>2. UNCHANGED <<logBuffer, logCount, relay, logged>>
  BY DEF HandedTo
<1>3. since8' \in [Collectors -> [buffer : Seq(Handing), alerts : Seq(Handing)]]
  <2> DEFINE H(c) == [i \in DOMAIN Only(cs, {c}) |-> [entry |-> e, rules |-> collector[c].rules]]
             f(c) == [buffer |-> since8[c].buffer \o H(c), alerts |-> since8[c].alerts \o H(c)]
             T == [buffer : Seq(Handing), alerts : Seq(Handing)]
  <2>1. since8' = [c \in Collectors |-> f(c)]
    BY DEF HandedTo
  <2>2. ASSUME NEW c \in Collectors PROVE f(c) \in T
    <3>1. Kept(collector'[c], since8'[c].buffer, since8'[c].alerts)
      BY <1>1 DEF KeptAll
    <3>2. since8'[c].buffer \in Seq(Handing) /\ since8'[c].alerts \in Seq(Handing)
      BY <3>1 DEF Kept
    <3> DEFINE p == since8[c].buffer \o H(c)  q == since8[c].alerts \o H(c)
    <3>3. since8'[c] = [buffer |-> p, alerts |-> q]
      BY <2>1
    <3> HIDE DEF p, q
    <3>4. [buffer |-> p, alerts |-> q] \in T
      BY <3>2, <3>3
    <3> QED  BY <3>4 DEF p, q
  <2> HIDE DEF f, T
  <2>3. since8' \in [Collectors -> T]
    BY <2>1, <2>2
  <2> QED  BY <2>3 DEF T
<1>4. relay' \in Seq(Collectors) /\ logged' \in Nat /\ logBuffer' \in [LogSources -> Seq(Entry)]
      /\ logCount' \in [LogSources -> [Severities -> Nat]]
      /\ \A t \in LogSources : ClientKept(logBuffer'[t], logCount'[t])
  BY <1>2 DEF LogInv
<1> QED  BY <1>1, <1>3, <1>4 DEF LogInv

LEMMA IngestStep ==
  ASSUME LogInv, NEW e \in Entry, NEW c \in Collectors, Ingest(c, e)
  PROVE  LogInv'
<1>1. collector \in [Collectors -> CollectorState]
  BY DEF LogInv, KeptAll
<1> DEFINE z == << >>  cs == <<c>>
<1>2. z \in Seq(Collectors) /\ Append(z, c) = cs /\ cs \in Seq(Collectors)
  OBVIOUS
<1>3. FannedOut(z, e) = collector
  BY <1>1, <1>2, FannedAppend
<1> HIDE DEF z, cs
<1>4. FannedOut(cs, e) = [FannedOut(z, e) EXCEPT ![c] = Ingested(@, e)]
  <2>1. \A u \in Seq(Collectors) :
           FannedOut(Append(u, c), e) = [FannedOut(u, e) EXCEPT ![c] = Ingested(@, e)]
    <3> SUFFICES ASSUME NEW u \in Seq(Collectors)
                 PROVE  FannedOut(Append(u, c), e) = [FannedOut(u, e) EXCEPT ![c] = Ingested(@, e)]
      OBVIOUS
    <3> QED  BY <1>1, FannedAppend
  <2>2. FannedOut(Append(z, c), e) = [FannedOut(z, e) EXCEPT ![c] = Ingested(@, e)]
    BY <1>2, <2>1
  <2> QED  BY <1>2, <2>2
<1>5. collector' = [collector EXCEPT ![c] = Ingested(@, e)] /\ HandedTo(cs, e)
  BY DEF Ingest, cs
<1>6. collector' = FannedOut(cs, e)
  BY <1>3, <1>4, <1>5
<1> QED  BY <1>2, <1>5, <1>6, HandStep

LEMMA RelayForwardStep ==
  ASSUME LogInv, NEW e \in Entry, RelayForward(e)
  PROVE  LogInv'
<1>1. relay \in Seq(Collectors)
  BY DEF LogInv
<1>2. collector' = FannedOut(relay, e) /\ HandedTo(relay, e)
  BY DEF RelayForward
<1> QED  BY <1>1, <1>2, HandStep

(* A collector is given other rules, or its alerts or its buffer go: what the *)
(* rest of it was handed it still keeps.                                    *)
LEMMA TendStep ==
  ASSUME LogInv, NEW c \in Collectors, NEW with \in CollectorState, Tend(c, with),
         NEW B \in Seq(Handing), NEW W \in Seq(Handing), Kept(with, B, W),
         since8' = [since8 EXCEPT ![c] = [buffer |-> B, alerts |-> W]]
  PROVE  LogInv'
<1>1. /\ collector' = [collector EXCEPT ![c] = with]
      /\ UNCHANGED <<logBuffer, logCount, relay, logged, handled>>
  BY DEF Tend
<1>2. /\ collector \in [Collectors -> CollectorState]
      /\ since8 \in [Collectors -> [buffer : Seq(Handing), alerts : Seq(Handing)]]
      /\ \A d \in Collectors : Kept(collector[d], since8[d].buffer, since8[d].alerts)
  BY DEF LogInv, KeptAll
<1>3. collector' \in [Collectors -> CollectorState]
  BY <1>1, <1>2
<1>4. since8' \in [Collectors -> [buffer : Seq(Handing), alerts : Seq(Handing)]]
  BY <1>2
<1>5. ASSUME NEW d \in Collectors PROVE Kept(collector'[d], since8'[d].buffer, since8'[d].alerts)
  <2>1. CASE d = c
    <3>1. collector'[d] = with /\ since8'[d] = [buffer |-> B, alerts |-> W]
      BY <1>1, <1>2, <2>1
    <3> QED  BY <3>1
  <2>2. CASE d # c
    <3>1. collector'[d] = collector[d] /\ since8'[d] = since8[d]
      BY <1>1, <1>2, <2>2
    <3> QED  BY <1>2, <3>1
  <2> QED  BY <2>1, <2>2
<1>6. relay' \in Seq(Collectors) /\ logged' \in Nat /\ logBuffer' \in [LogSources -> Seq(Entry)]
      /\ logCount' \in [LogSources -> [Severities -> Nat]]
      /\ \A t \in LogSources : ClientKept(logBuffer'[t], logCount'[t])
  BY <1>1 DEF LogInv
<1> QED  BY <1>3, <1>4, <1>5, <1>6 DEF LogInv, KeptAll

LEMMA RulesStep ==
  ASSUME LogInv, NEW c \in Collectors, NEW rules \in Seq(AlertRules),
         Tend(c, [collector[c] EXCEPT !.rules = rules]), UNCHANGED since8
  PROVE  LogInv'
<1> DEFINE cc == collector[c]  with == [cc EXCEPT !.rules = rules]
           B == since8[c].buffer  W == since8[c].alerts
<1>1. cc \in CollectorState /\ Kept(cc, B, W)
      /\ since8 \in [Collectors -> [buffer : Seq(Handing), alerts : Seq(Handing)]]
  BY DEF LogInv, KeptAll
<1>2. B \in Seq(Handing) /\ W \in Seq(Handing) /\ since8[c] = [buffer |-> B, alerts |-> W]
  BY <1>1
<1>3. since8' = [since8 EXCEPT ![c] = [buffer |-> B, alerts |-> W]]
  <2>1. since8' = [since8 EXCEPT ![c] = since8[c]]
    BY <1>1
  <2> QED  BY <1>2, <2>1
<1> HIDE DEF cc, B, W
<1>4. /\ with \in CollectorState /\ with.buffer = cc.buffer /\ with.counters = cc.counters
      /\ with.alerts = cc.alerts
  BY <1>1 DEF CollectorState
<1>5. Tend(c, with)
  BY DEF cc
<1> HIDE DEF with
<1>6. Kept(with, B, W)
  BY <1>1, <1>4 DEF Kept
<1> QED  BY <1>2, <1>3, <1>4, <1>5, <1>6, TendStep

LEMMA ClearAlertsStep ==
  ASSUME LogInv, NEW c \in Collectors, ClearAlerts(c)
  PROVE  LogInv'
<1> DEFINE cc == collector[c]  with == [cc EXCEPT !.alerts = << >>]
           B == since8[c].buffer  W == << >>
<1>1. cc \in CollectorState /\ Kept(cc, B, since8[c].alerts)
      /\ since8 \in [Collectors -> [buffer : Seq(Handing), alerts : Seq(Handing)]]
  BY DEF LogInv, KeptAll
<1>2. B \in Seq(Handing) /\ W \in Seq(Handing) /\ W \in Seq(Alert)
  BY <1>1
<1>3. since8' = [since8 EXCEPT ![c] = [buffer |-> B, alerts |-> W]]
  <2>1. since8' = [since8 EXCEPT ![c].alerts = << >>]
    BY DEF ClearAlerts
  <2>2. [since8[c] EXCEPT !.alerts = << >>] = [buffer |-> B, alerts |-> W]
    BY <1>1
  <2> QED  BY <1>1, <2>1, <2>2
<1>4. Calls(<< >>) = << >> /\ FlattenSeq(<< >>) = << >>
  BY DEF Calls, FlattenSeq
<1> HIDE DEF cc, B
<1>5. /\ with \in CollectorState /\ with.buffer = cc.buffer /\ with.counters = cc.counters
      /\ with.alerts = W
  BY <1>1, <1>2 DEF CollectorState
<1>6. Tend(c, with)
  BY DEF cc, ClearAlerts
<1> HIDE DEF with
<1>7. Kept(with, B, W)
  BY <1>1, <1>2, <1>4, <1>5 DEF Kept
<1> HIDE DEF W
<1> QED  BY <1>2, <1>3, <1>5, <1>6, <1>7, TendStep

LEMMA ClearBufferStep ==
  ASSUME LogInv, NEW c \in Collectors, ClearBuffer(c)
  PROVE  LogInv'
<1> DEFINE cc == collector[c]  z == [s \in Severities |-> 0]
           with == [cc EXCEPT !.buffer = << >>, !.counters = z]
           W == since8[c].alerts  B == << >>
<1>1. cc \in CollectorState /\ Kept(cc, since8[c].buffer, W)
      /\ since8 \in [Collectors -> [buffer : Seq(Handing), alerts : Seq(Handing)]]
  BY DEF LogInv, KeptAll
<1>2. B \in Seq(Handing) /\ W \in Seq(Handing) /\ B \in Seq(Entry)
      /\ z \in [Severities -> Nat] /\ \A s \in Severities : z[s] = 0
  BY <1>1
<1>3. since8' = [since8 EXCEPT ![c] = [buffer |-> B, alerts |-> W]]
  <2>1. since8' = [since8 EXCEPT ![c].buffer = << >>]
    BY DEF ClearBuffer
  <2>2. [since8[c] EXCEPT !.buffer = << >>] = [buffer |-> B, alerts |-> W]
    BY <1>1
  <2> QED  BY <1>1, <2>1, <2>2
<1>4. Tend(c, with)
  BY DEF ClearBuffer
<1> HIDE DEF cc, W, z
<1>5. with \in CollectorState /\ with.buffer = B /\ with.counters = z /\ with.alerts = cc.alerts
  <2> DEFINE e == [cc EXCEPT !.buffer = << >>]
  <2>1. /\ e \in CollectorState /\ e.buffer = << >> /\ e.alerts = cc.alerts
    BY <1>1, <1>2 DEF CollectorState
  <2>2. with = [e EXCEPT !.counters = z]
    BY <1>1 DEF CollectorState
  <2> HIDE DEF e, with
  <2> QED  BY <1>2, <2>1, <2>2 DEF CollectorState
<1> HIDE DEF with
<1>6. Kept(with, B, W)
  <2> DEFINE y == [with EXCEPT !.alerts = << >>]
  <2>1. y \in CollectorState /\ y.buffer = << >> /\ y.alerts = << >> /\ y.counters = z
    <3> DEFINE n == << >>  E == Seq(Entry)  F == Seq(AlertRules)  A == Seq(Alert)
    <3>1. n \in A
      OBVIOUS
    <3>2. with.buffer = n /\ with.counters = z
      BY <1>5
    <3>3. with \in [buffer : E, counters : [Severities -> Nat], received : Nat,
                   sources : SUBSET LogSources, rules : F, alerts : A]
      BY <1>5 DEF CollectorState
    <3> HIDE DEF n, E, F, A
    <3>4. /\ [with EXCEPT !.alerts = n] \in [buffer : E, counters : [Severities -> Nat], received : Nat,
                   sources : SUBSET LogSources, rules : F, alerts : A]
          /\ [with EXCEPT !.alerts = n].buffer = n /\ [with EXCEPT !.alerts = n].alerts = n
          /\ [with EXCEPT !.alerts = n].counters = z
      BY <3>1, <3>2, <3>3
    <3> QED  BY <3>4 DEF CollectorState, n, E, F, A
  <2> HIDE DEF y
  <2>2. Kept(y, << >>, << >>)
    <3>1. \A s \in Severities : y.counters[s] = 0
      BY <1>2, <2>1
    <3>2. \A d \in CollectorState :
             d.buffer = << >> /\ d.alerts = << >> /\ (\A s \in Severities : d.counters[s] = 0)
               => Kept(d, << >>, << >>)
      BY ONLY NothingKept
    <3> QED  BY ONLY <2>1, <3>1, <3>2
  <2>3. /\ with.buffer = Newest(EntriesOf(<< >>), CollectorRoom)
        /\ \A s \in Severities : with.counters[s] = Len(Only(<< >>, AtSev(s)))
    BY <1>5, <2>1, <2>2 DEF Kept
  <2> QED  BY <1>1, <1>2, <1>5, <2>3 DEF Kept
<1> HIDE DEF B
<1> QED  BY <1>2, <1>3, <1>4, <1>5, <1>6, TendStep

LEMMA LogInvStep == LogInv /\ [LogNext]_logVars => LogInv'
<1> SUFFICES ASSUME LogInv, [LogNext]_logVars PROVE LogInv'
  OBVIOUS
<1>0. /\ \A s \in LogSources : logBuffer[s] \in Seq(Entry)
      /\ \A c \in Collectors : collector[c].rules \in Seq(AlertRules)
  BY DEF LogInv, KeptAll, CollectorState
<1>1. ASSUME NEW s \in LogSources, ClearClient(s) PROVE LogInv'
  BY <1>1, ClearClientStep
<1>2. ASSUME NEW s \in LogSources, NEW k \in LogKinds, Log(s, k) PROVE LogInv'
  BY <1>2, LogStep
<1>3. ASSUME NEW s \in LogSources, NEW e \in ToSet(logBuffer[s]) PROVE e \in Entry
  <2> DEFINE b == logBuffer[s]
  <2>1. b \in Seq(Entry)
    BY <1>0
  <2>2. PICK i \in DOMAIN b : e = b[i]
    BY DEF ToSet
  <2> HIDE DEF b
  <2> QED  BY <2>1, <2>2
<1>4. ASSUME NEW s \in LogSources, NEW e \in ToSet(logBuffer[s]), RelayForward(e) PROVE LogInv'
  <2>1. e \in Entry
    BY <1>3
  <2> QED  BY <1>4, <2>1, RelayForwardStep
<1>5. ASSUME NEW s \in LogSources, NEW e \in ToSet(logBuffer[s]), NEW c \in Collectors, Ingest(c, e)
      PROVE  LogInv'
  <2>1. e \in Entry
    BY <1>3
  <2> QED  BY <1>5, <2>1, IngestStep
<1>6. ASSUME NEW c \in Collectors, AddCollector(c) PROVE LogInv'
  <2>1. relay' = Append(relay, c) /\ UNCHANGED <<logBuffer, logCount, collector, logged, since8>>
    BY <1>6 DEF AddCollector
  <2>2. relay' \in Seq(Collectors)
    BY <2>1 DEF LogInv
  <2> QED  BY <2>1, <2>2 DEF LogInv, KeptAll
<1>7. ASSUME NEW c \in Collectors, ClearRules(c) PROVE LogInv'
  <2> DEFINE z == << >>
  <2>1. z \in Seq(AlertRules)
    OBVIOUS
  <2>2. Tend(c, [collector[c] EXCEPT !.rules = z]) /\ UNCHANGED since8
    BY <1>7 DEF ClearRules
  <2> HIDE DEF z
  <2> QED  BY <2>1, <2>2, RulesStep
<1>8. ASSUME NEW c \in Collectors, ClearAlerts(c) PROVE LogInv'
  BY <1>8, ClearAlertsStep
<1>9. ASSUME NEW c \in Collectors, ClearBuffer(c) PROVE LogInv'
  BY <1>9, ClearBufferStep
<1>10. ASSUME NEW c \in Collectors, NEW r \in AlertRules, AddAlertRule(c, r) PROVE LogInv'
  <2> DEFINE z == Append(collector[c].rules, r)
  <2>1. z \in Seq(AlertRules)
    BY <1>0
  <2>2. Tend(c, [collector[c] EXCEPT !.rules = z]) /\ UNCHANGED since8
    BY <1>10 DEF AddAlertRule
  <2> HIDE DEF z
  <2> QED  BY <2>1, <2>2, RulesStep
<1>11. ASSUME UNCHANGED logVars PROVE LogInv'
  BY <1>11 DEF logVars, LogInv, KeptAll
<1> QED  BY <1>1, <1>2, <1>4, <1>5, <1>6, <1>7, <1>8, <1>9, <1>10, <1>11 DEF LogNext

(* For all rooms, rules, relays and orders of calls: collectors and clients   *)
(* account for every entry (netlog8_proto.py, ingest, forward, query;        *)
(* netlog8.py, log, query).                                                  *)
THEOREM LogsTold == LogSpec => [](CollectorsAccount /\ ClientsAccount)
<1>1. LogInv => CollectorsAccount /\ ClientsAccount
  BY CollectorsTold, ClientsTold
<1> QED  BY <1>1, LogInvInit, LogInvStep, PTL DEF LogSpec

--------------------------------------------------------------------------------
(* Who watches the traffic accounts for all of it, once, whatever the number  *)
(* of flows, clients, collectors and rules and whatever is exported, dropped  *)
(* or cleared meanwhile (netflow8.py, netlog8.py, netlog8_proto.py).          *)
THEOREM ObserversAreTold == FlowSpec /\ LogSpec => []ObserversAccount
<1>1. RecordsTellTraffic /\ CollectorsAccount /\ ClientsAccount => ObserversAccount
  BY DEF ObserversAccount
<1> QED  BY <1>1, FlowsTold, LogsTold, PTL

(* The instance that is checked works on one part at a time and leaves the    *)
(* others alone, so that it is a behaviour of each.                          *)
THEOREM EachPartBehaves ==
  MCSpec => ShaperSpec /\ FlowSpec /\ LogSpec /\ LimitSpec /\ LimiterSpec
<1>1. MCInit => ShaperInit /\ FlowInit /\ LogInit /\ LimitInit /\ LimiterInit
  BY DEF MCInit, LimiterIdle
<1>2. [MCNext]_vars => [ShaperNext]_shaperVars /\ [FlowNext]_flowVars
  BY DEF MCNext, vars, Policing, Scheduling
<1>3. [MCNext]_vars => [LogNext]_logVars /\ [LimitNext]_limitVars
  BY DEF MCNext, vars
<1>4. [MCNext]_vars => [LimiterNext]_limiterVars
  BY DEF MCNext, vars
<1> QED
  BY <1>1, <1>2, <1>3, <1>4, PTL DEF MCSpec, ShaperSpec, FlowSpec, LogSpec, LimitSpec, LimiterSpec
================================================================================
