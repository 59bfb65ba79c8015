----------------------------------- MODULE Qos -----------------------------------
(***************************************************************************)
(* The traffic shaper (qos.py, class TrafficShaper): a queue per traffic   *)
(* class, a token bucket that polices what may enter it, and three ways to *)
(* choose the class to send from.  Time is in seconds, rates in octets a   *)
(* second; the code's floating point is exact here.  Statistics are left   *)
(* out: nothing reads them back.                                           *)
(***************************************************************************)
EXTENDS Integers, Sequences

CONSTANTS
  ClassOrder,       \* the members of TrafficClass as the enumeration lists them
  Policies,
  Dscps,            \* values in the packets' TOS field
  Sizes,            \* octets, header included
  Options,          \* what configure_class is called with
  DefaultLimit,     \* max_queue of a class not configured
  NoBucket,
  MaxTime,          \* bound: the last moment
  MaxOffered,       \* bound: packets offered in all
  MaxConfigured     \* bound: calls of configure_class

Classes == {ClassOrder[i] : i \in DOMAIN ClassOrder}

Moments == 0 .. MaxTime

BE == 0

Packet == [class : Classes, size : Sizes, number : Nat]

Config == [rate : Nat, burst : Int, weight : Nat \ {0}, limit : Nat]

Bucket == [tokens : Nat, last : Int]

ASSUME QosAssumption ==
  /\ ClassOrder \in Seq(Nat)
  /\ BE \in Classes
  /\ Policies \subseteq {"PRIORITY", "WFQ", "FIFO"}
  /\ Sizes \subseteq Nat
  /\ Options \subseteq [rate : Nat, burst : Int, weight : Int, limit : Nat]
  /\ DefaultLimit \in Nat
  /\ MaxTime \in Nat
  /\ NoBucket \notin Bucket

VARIABLES
  policy,
  queues,           \* _queues: class -> packets
  config,           \* _configs: class -> rate, burst, weight, limit
  bucket,           \* the bucket of its configuration, or NoBucket
  served,           \* _wfq_counters
  time,             \* the clock
  verdict,          \* what the last call did
  offered,          \* history: packets offered so far
  configured,       \* history: configurations so far
  sent,             \* history: class -> moment -> octets let in since, under this bucket
  start             \* history: class -> class -> lead when the two began to wait together

queueVars == <<queues, served>>
policerVars == <<bucket, sent>>
shaperVars == <<policy, queueVars, policerVars, config, time, verdict, offered, configured, start>>

Default == [rate |-> 0, burst |-> 0, weight |-> 1, limit |-> DefaultLimit]

Nothing == [code |-> "none"]

--------------------------------------------------------------------------------
(* Lead of d over c: packets sent, each counted by its weight.              *)
Lead(d, c) == served[d] * config[c].weight - served[c] * config[d].weight

Waiting(c) == queues[c] # << >>

NoteStart ==
  start' = [c \in Classes |-> [d \in Classes |->
    IF /\ Waiting(c) /\ Waiting(c)' /\ Waiting(d) /\ Waiting(d)'
       /\ UNCHANGED <<config[c], config[d]>>
    THEN start[c][d] ELSE Lead(d, c)']]

--------------------------------------------------------------------------------
Smaller(a, b) == IF a <= b THEN a ELSE b

Classify(dscp) == IF dscp \in Classes THEN dscp ELSE BE

(* refill: the first packet finds the bucket as it was filled.              *)
RefilledUncapped(c) ==                           \* fault: saves up without limit
  [tokens |-> IF bucket[c].last < 0 THEN bucket[c].tokens
              ELSE bucket[c].tokens + (time - bucket[c].last) * config[c].rate,
   last |-> time]
Refilled(c) ==
  [tokens |-> IF bucket[c].last < 0 THEN bucket[c].tokens
              ELSE Smaller(bucket[c].tokens + (time - bucket[c].last) * config[c].rate,
                           config[c].burst),
   last |-> time]

Full(c) == Len(queues[c]) >= config[c].limit

Affordable(c, size) == bucket[c] # NoBucket => Refilled(c).tokens >= size

Refuse(c, size) ==
  /\ Full(c)
  /\ verdict' = [code |-> "full", class |-> c, size |-> size]
  /\ UNCHANGED <<queueVars, policerVars>>

Police(c, size) ==
  /\ ~Full(c) /\ ~Affordable(c, size)
  /\ verdict' = [code |-> "policed", class |-> c, size |-> size]
  /\ bucket' = [bucket EXCEPT ![c] = Refilled(c)]
  /\ UNCHANGED <<queueVars, sent>>

Admit(c, size) ==
  /\ ~Full(c) /\ Affordable(c, size)
  /\ verdict' = [code |-> "queued", class |-> c, size |-> size]
  /\ queues' = [queues EXCEPT ![c] =
       Append(@, [class |-> c, size |-> size, number |-> offered + 1])]
  /\ bucket' = [bucket EXCEPT ![c] =
       IF @ = NoBucket THEN NoBucket
       ELSE [tokens |-> Refilled(c).tokens - size, last |-> time]]
  /\ sent' = [sent EXCEPT ![c] =
       [s \in Moments |-> IF s <= time THEN sent[c][s] + size ELSE sent[c][s]]]
  /\ UNCHANGED served

(* enqueue: room in the queue is looked at before tokens are spent.         *)
Enqueue(dscp, size) ==
  LET c == Classify(dscp)
  IN  /\ Refuse(c, size) \/ Police(c, size) \/ Admit(c, size)
      /\ offered' = offered + 1
      /\ UNCHANGED <<policy, config, time, configured>>

--------------------------------------------------------------------------------
(* dequeue                                                                  *)
Place(c) == CHOOSE i \in DOMAIN ClassOrder : ClassOrder[i] = c

FirstOf(S) == CHOOSE c \in S : \A d \in S : Place(c) <= Place(d)

Highest(S) == CHOOSE c \in S : \A d \in S : c >= d

LeastServedInverted(S) ==                        \* fault: counts times weights
  FirstOf({c \in S : \A d \in S :
    served[c] * config[c].weight <= served[d] * config[d].weight})
LeastServed(S) == FirstOf({c \in S : \A d \in S : Lead(c, d) <= 0})

Chosen ==
  LET active == {c \in Classes : Waiting(c)}
  IN  CASE policy = "PRIORITY" -> Highest(active)
        [] policy = "WFQ" -> LeastServed(active)
        [] policy = "FIFO" -> FirstOf(active)

Dequeue ==
  /\ \E c \in Classes : Waiting(c)
  /\ queues' = [queues EXCEPT ![Chosen] = Tail(@)]
  /\ served' = IF policy = "WFQ" THEN [served EXCEPT ![Chosen] = @ + 1] ELSE served
  /\ verdict' = [code |-> "sent", packet |-> Head(queues[Chosen])]
  /\ UNCHANGED <<policy, policerVars, config, time, offered, configured>>

--------------------------------------------------------------------------------
(* configure_class: a new bucket, full; the queue and its counter stay.     *)
Configured(o) ==
  [rate |-> o.rate,
   burst |-> IF o.rate = 0 THEN o.burst ELSE IF o.burst <= 0 THEN o.rate ELSE o.burst,
   weight |-> IF o.weight < 1 THEN 1 ELSE o.weight,
   limit |-> o.limit]

NoneSent == [s \in Moments |-> 0]

ConfigureClass(c, o) ==
  /\ configured < MaxConfigured
  /\ config' = [config EXCEPT ![c] = Configured(o)]
  /\ bucket' = [bucket EXCEPT ![c] =
       IF o.rate > 0 THEN [tokens |-> Configured(o).burst, last |-> -1] ELSE NoBucket]
  /\ sent' = [sent EXCEPT ![c] = NoneSent]
  /\ verdict' = Nothing
  /\ configured' = configured + 1
  /\ UNCHANGED <<policy, queueVars, time, offered>>

ShaperState ==                                   \* __init__ and clear
  [queues |-> [c \in Classes |-> << >>],
   config |-> [c \in Classes |-> Default],
   bucket |-> [c \in Classes |-> NoBucket],
   served |-> [c \in Classes |-> 0],
   sent |-> [c \in Classes |-> NoneSent]]

ShaperClear ==
  /\ queues' = ShaperState.queues
  /\ config' = ShaperState.config
  /\ bucket' = ShaperState.bucket
  /\ served' = ShaperState.served
  /\ sent' = ShaperState.sent
  /\ verdict' = Nothing
  /\ UNCHANGED <<policy, time, offered, configured>>

ShaperTick ==
  /\ time < MaxTime
  /\ time' = time + 1
  /\ verdict' = Nothing
  /\ UNCHANGED <<policy, queueVars, policerVars, config, offered, configured>>

ShaperInit ==
  /\ policy \in Policies
  /\ queues = ShaperState.queues
  /\ config = ShaperState.config
  /\ bucket = ShaperState.bucket
  /\ served = ShaperState.served
  /\ sent = ShaperState.sent
  /\ time = 0
  /\ verdict = Nothing
  /\ offered = 0
  /\ configured = 0
  /\ start = [c \in Classes |-> [d \in Classes |-> 0]]

ShaperStep ==
  \/ \E dscp \in Dscps, size \in Sizes : offered < MaxOffered /\ Enqueue(dscp, size)
  \/ Dequeue
  \/ \E c \in Classes, o \in Options : ConfigureClass(c, o)
  \/ ShaperClear
  \/ ShaperTick

ShaperNext == ShaperStep /\ NoteStart

ShaperSpec == ShaperInit /\ [][ShaperNext]_shaperVars

--------------------------------------------------------------------------------
ShaperTypeOK ==
  /\ policy \in Policies
  /\ queues \in [Classes -> Seq(Packet)]
  /\ config \in [Classes -> Config]
  /\ bucket \in [Classes -> Bucket \cup {NoBucket}]
  /\ served \in [Classes -> Nat]
  /\ time \in Moments
  /\ offered \in Nat
  /\ sent \in [Classes -> [Moments -> Nat]]
  /\ start \in [Classes -> [Classes -> Int]]

Allowance(c, s) == config[c].burst + config[c].rate * (time - s)

(* Over no stretch of time up to now does a policed class let in more than   *)
(* its burst and what its rate allows in that time, whatever was refused,    *)
(* sent and waited for in between.                                           *)
WithinEnvelope ==
  \A c \in Classes : bucket[c] # NoBucket =>
    \A s \in 0 .. time : sent[c][s] <= Allowance(c, s)

(* And a packet is policed only if letting it in would have broken that for  *)
(* some stretch: refused packets cost nothing and no credit is lost.         *)
PolicedOnlyWhenOver ==
  verdict.code = "policed" =>
    \E s \in 0 .. time :
      sent[verdict.class][s] + verdict.size > Allowance(verdict.class, s)

(* As long as two classes wait together, under weighted queuing neither gets *)
(* further ahead of its share than by one packet or the lead it had before.  *)
FairWhileWaiting ==
  \A c, d \in Classes :
    \/ Lead(d, c) <= start[c][d]
    \/ Lead(d, c) <= config[c].weight

(* qos.py:370 calls this policy "Simple FIFO across all queues (no           *)
(* priority)": a packet is sent before every packet that came after it.      *)
FifoOrder ==
  (policy = "FIFO" /\ verdict.code = "sent") =>
    \A c \in Classes : \A i \in DOMAIN queues[c] : verdict.packet.number < queues[c][i].number
================================================================================
