------------------------------ MODULE RateLimits -------------------------------
(***************************************************************************)
(* The two rate limiters: windows that start anew, and a bucket of tokens. *)
(***************************************************************************)
EXTENDS Integers, FiniteSets

--------------------------------------------------------------------------------
(***************************************************************************)
(* The rate limiter of an interface (ratelimit.py): per class of traffic   *)
(* two counters, of the current second and of the current minute, that     *)
(* start anew when a packet comes in another second or minute.  A second   *)
(* has Ticks ticks and a minute Seconds seconds; time is in ticks.         *)
(***************************************************************************)
CONSTANTS LimitedClasses,
          PerSecond, PerMinute,   \* limits of each class
          Ticks, Seconds,         \* ticks in a second, seconds in a minute
          MaxTick                 \* bound: the clock

ASSUME RateLimitAssumption ==
  /\ PerSecond \in [LimitedClasses -> Nat] /\ PerMinute \in [LimitedClasses -> Nat]
  /\ Ticks \in Nat \ {0} /\ Seconds \in Nat \ {0} /\ MaxTick \in Nat

SecondOf(t) == t \div Ticks
MinuteOf(t) == t \div (Ticks * Seconds)

VARIABLES
  window,     \* class -> second tokens, minute tokens and when each was reset
  tick,       \* the clock
  through,    \* history: class -> tick -> packets allowed
  refusedNow  \* the class refused by the last call, if any

limitVars == <<window, tick, through, refusedNow>>

TurnedTogether(w) ==                             \* fault: a new second clears both
  IF SecondOf(tick) # SecondOf(w.lastSecond)
  THEN [seconds |-> 0, minutes |-> 0, lastSecond |-> tick, lastMinute |-> tick] ELSE w

(* The counters as a packet finds them.                                       *)
Turned(w) ==
  [seconds |-> IF SecondOf(tick) # SecondOf(w.lastSecond) THEN 0 ELSE w.seconds,
   minutes |-> IF MinuteOf(tick) # MinuteOf(w.lastMinute) THEN 0 ELSE w.minutes,
   lastSecond |-> IF SecondOf(tick) # SecondOf(w.lastSecond) THEN tick ELSE w.lastSecond,
   lastMinute |-> IF MinuteOf(tick) # MinuteOf(w.lastMinute) THEN tick ELSE w.lastMinute]

LimitAllow(c) ==
  LET w == Turned(window[c])
      ok == w.seconds < PerSecond[c] /\ w.minutes < PerMinute[c]
  IN /\ window' = [window EXCEPT ![c] =
          IF ok THEN [w EXCEPT !.seconds = @ + 1, !.minutes = @ + 1] ELSE w]
     /\ through' = IF ok THEN [through EXCEPT ![c][tick] = @ + 1] ELSE through
     /\ refusedNow' = IF ok THEN {} ELSE {c}
     /\ UNCHANGED tick

(* What is left by the counters as they stand, which may be of a second or a   *)
(* minute that is over.                                                       *)
Remaining(c) ==
  LET left(limit, taken) == IF limit > taken THEN limit - taken ELSE 0
  IN [seconds |-> left(PerSecond[c], window[c].seconds),
      minutes |-> left(PerMinute[c], window[c].minutes)]

LimitTick ==
  /\ tick < MaxTick /\ tick' = tick + 1 /\ refusedNow' = {}
  /\ UNCHANGED <<window, through>>

LimitInit ==
  /\ window = [c \in LimitedClasses |->
       [seconds |-> 0, minutes |-> 0, lastSecond |-> 0, lastMinute |-> 0]]
  /\ tick = 0 /\ refusedNow = {}
  /\ through = [c \in LimitedClasses |-> [t \in 0 .. MaxTick |-> 0]]

LimitNext == LimitTick \/ \E c \in LimitedClasses : LimitAllow(c)

LimitSpec == LimitInit /\ [][LimitNext]_limitVars

Total(c, from, to) ==
  LET sum[t \in from - 1 .. to] == IF t = from - 1 THEN 0 ELSE sum[t - 1] + through[c][t]
  IN sum[to]

(* Fixed windows: within a second and within a minute no more passes than      *)
(* their limits, so any stretch as long as a second or a minute, which touches *)
(* two of them, sees at most twice as much; and a packet is refused only in a  *)
(* second or a minute whose limit is used up.  What is said to remain can be    *)
(* had: as many packets as that would pass at this moment.                     *)
WindowsHold ==
  \A c \in LimitedClasses :
    LET second == {t \in 0 .. MaxTick : SecondOf(t) = SecondOf(tick)}
        minute == {t \in 0 .. MaxTick : MinuteOf(t) = MinuteOf(tick)}
        over(from, limit) == Total(c, IF from < 0 THEN 0 ELSE from, tick) > limit
        used(S, limit) == Total(c, CHOOSE t \in S : \A u \in S : t <= u, tick) >= limit
    IN /\ ~over(tick - Ticks + 1, 2 * PerSecond[c])
       /\ ~over(tick - Ticks * Seconds + 1, 2 * PerMinute[c])
       /\ ~over(tick - (tick % (Ticks * Seconds)), PerMinute[c])
       /\ ~over(tick - (tick % Ticks), PerSecond[c])
       /\ LET told == Remaining(c) w == Turned(window[c])
          IN /\ told.seconds <= PerSecond[c] - w.seconds
             /\ told.minutes <= PerMinute[c] - w.minutes
       /\ c \in refusedNow => used(second, PerSecond[c]) \/ used(minute, PerMinute[c])

--------------------------------------------------------------------------------
(***************************************************************************)
(* The token bucket in front of a log collector (netlog8_proto.py, class   *)
(* RateLimiter).  Its clock is the wall clock or whatever the caller       *)
(* passes, so it can step back; time is in seconds and exact.              *)
(***************************************************************************)
CONSTANTS LogRate, LogBurst,   \* messages a second, and at once
          LastMoment           \* bound: the latest time of a call

ASSUME LogLimiterAssumption ==
  LogRate \in Nat /\ LogBurst \in Nat /\ LastMoment \in Nat

LogMoments == 0 .. LastMoment

VARIABLES tokens, lastRefill, allowed,
          passed   \* history: for each moment, messages passed since the first
                   \* call at it

limiterVars == <<tokens, lastRefill, allowed, passed>>

RefilledAhead(t) ==                              \* fault: as if time only went on
  LET elapsed == IF t > lastRefill THEN t - lastRefill ELSE lastRefill - t
  IN IF tokens + elapsed * LogRate < LogBurst THEN tokens + elapsed * LogRate ELSE LogBurst

RefilledTo(t) ==
  IF tokens + (t - lastRefill) * LogRate < LogBurst
  THEN tokens + (t - lastRefill) * LogRate ELSE LogBurst

(* A call at moment t.  What passed since a moment counts from its first call. *)
Allow(t) ==
  LET ok == RefilledTo(t) >= 1
  IN /\ tokens' = RefilledTo(t) - (IF ok THEN 1 ELSE 0)
     /\ lastRefill' = t
     /\ allowed' = ok
     /\ passed' = [s \in LogMoments |->
          IF s = t /\ passed[s] < 0 THEN (IF ok THEN 1 ELSE 0)
          ELSE IF passed[s] >= 0 /\ ok THEN passed[s] + 1
          ELSE passed[s]]

LimiterInit ==
  /\ tokens = LogBurst /\ lastRefill \in LogMoments
  /\ allowed = FALSE
  /\ passed = [s \in LogMoments |-> -1]

LimiterNext == \E t \in LogMoments : Allow(t)

LimiterSpec == LimiterInit /\ [][LimiterNext]_limiterVars

(* Whenever a message passes at moment t, no more have passed since the first  *)
(* call at any moment s than the burst and what the rate gives from s to t,     *)
(* though the clock was turned back and forth meanwhile: turning it back takes  *)
(* the tokens of that time away, and turning it on gives them back once.        *)
LogEnvelope ==
  allowed => \A s \in LogMoments :
    passed[s] >= 0 => passed[s] <= LogBurst + (lastRefill - s) * LogRate
================================================================================
