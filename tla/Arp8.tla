--------------------------------- MODULE Arp8 ----------------------------------
(***************************************************************************)
(* The two neighbour caches: which version a neighbour speaks and which    *)
(* MAC it has.  Both forget only when they are told to.                    *)
(***************************************************************************)
EXTENDS Integers

--------------------------------------------------------------------------------
(***************************************************************************)
(* Neighbour capabilities (arp8_version.py): a cache of which neighbours   *)
(* speak IPv8, filled by probes, and the forwarder that picks the version  *)
(* of each frame from it.  Entries expire only when someone flushes them.  *)
(* Neighbours change: a device may be replaced by one that speaks less.    *)
(***************************************************************************)
CONSTANTS
  Interfaces, Neighbours,
  EntryTtl,         \* life of an entry (14400 s)
  AnswerAfter,      \* per version: how long after the probes the answer comes (1 ms, 51 ms)
  NoEntry8,
  MaxArpTime        \* bound: the clock

Keys8 == Interfaces \X Neighbours

ASSUME ArpAssumption == EntryTtl \in Nat \ {0} /\ AnswerAfter \in [{4, 8} -> Nat]

VARIABLES
  known,        \* interfaces the router has
  speaks,       \* the version each neighbour speaks now: 8 or 4
  entries,      \* per interface and neighbour: [version, at] or NoEntry8
  frame,        \* the last frame sent: [to, version, downgraded]
  arpNow,
  since,        \* history: when each neighbour began to speak what it speaks
  flushed       \* history: when expired entries were last flushed, per interface

arpVars == <<known, speaks, entries, frame, arpNow, since, flushed>>

Empty(i) == [k \in Keys8 |-> IF k[1] = i THEN NoEntry8 ELSE entries[k]]

AddInterface(i) ==
  /\ known' = known \union {i}
  /\ entries' = Empty(i)
  /\ flushed' = [flushed EXCEPT ![i] = arpNow]
  /\ UNCHANGED <<speaks, frame, arpNow, since>>

(* Both probes go out; who answers the first speaks IPv8, who answers only    *)
(* the second does not.  The entry is dated by the answer, which is to come.  *)
DiscoverNeighbor(i, n) ==
  /\ i \in known
  /\ entries' = [entries EXCEPT ![<<i, n>>] =
                   [version |-> speaks[n], at |-> arpNow + AnswerAfter[speaks[n]]]]
  /\ UNCHANGED <<known, speaks, frame, arpNow, since, flushed>>

(* An entry made elsewhere: dated now, or with the default date, which        *)
(* is older than any lifetime.                                                *)
Learn(i, n) ==
  /\ \E at \in {arpNow, -EntryTtl} :
       entries' = [entries EXCEPT ![<<i, n>>] = [version |-> speaks[n], at |-> at]]
  /\ i \in known
  /\ UNCHANGED <<known, speaks, frame, arpNow, since, flushed>>

ArpFlush(i) ==
  /\ i \in known /\ entries' = Empty(i)
  /\ flushed' = [flushed EXCEPT ![i] = arpNow]
  /\ UNCHANGED <<known, speaks, frame, arpNow, since>>

(* Fault: an entry that is just as old as its time to live is kept.           *)
IsExpiredLate(e) == arpNow - e.at > EntryTtl

IsExpired(e) == arpNow - e.at >= EntryTtl

FlushExpired(i) ==
  /\ i \in known
  /\ entries' = [k \in Keys8 |->
       IF k[1] = i /\ entries[k] # NoEntry8 /\ IsExpired(entries[k]) THEN NoEntry8
       ELSE entries[k]]
  /\ flushed' = [flushed EXCEPT ![i] = arpNow]
  /\ UNCHANGED <<known, speaks, frame, arpNow, since>>

CapabilityOf(i, n) == IF entries[<<i, n>>] = NoEntry8 THEN 4 ELSE entries[<<i, n>>].version

(* Frames to neighbours that are IPv4 only, or not known, are downgraded.     *)
ArpForward(i, n) ==
  /\ i \in known
  /\ frame' = [to |-> n, version |-> CapabilityOf(i, n),
               downgraded |-> CapabilityOf(i, n) # 8]
  /\ UNCHANGED <<known, speaks, entries, arpNow, since, flushed>>

Replaced(n) ==
  /\ speaks' = [speaks EXCEPT ![n] = 12 - @]
  /\ since' = [since EXCEPT ![n] = arpNow]
  /\ UNCHANGED <<known, entries, frame, arpNow, flushed>>

ArpTick ==
  /\ arpNow < MaxArpTime /\ arpNow' = arpNow + 1
  /\ UNCHANGED <<known, speaks, entries, frame, since, flushed>>

ArpInit ==
  /\ known = {} /\ speaks \in [Neighbours -> {4, 8}]
  /\ entries = [k \in Keys8 |-> NoEntry8]
  /\ frame = NoEntry8 /\ arpNow = 0
  /\ since = [n \in Neighbours |-> 0]
  /\ flushed = [i \in Interfaces |-> 0]

ArpNext ==
  \/ \E i \in Interfaces :
       \/ AddInterface(i) \/ ArpFlush(i) \/ FlushExpired(i)
       \/ \E n \in Neighbours :
            DiscoverNeighbor(i, n) \/ Learn(i, n) \/ ArpForward(i, n)
  \/ \E n \in Neighbours : Replaced(n)
  \/ ArpTick

ArpSpec == ArpInit /\ [][ArpNext]_arpVars

(* An IPv8 frame reaches a device that speaks IPv4 only as long as flushing is *)
(* put off: the device was replaced less than a lifetime, and the time an      *)
(* answer is dated ahead, before the last flush.                               *)
WrongOnlyUntilFlushed ==
  [][\A i \in Interfaces, n \in Neighbours :
       ArpForward(i, n) /\ frame'.version = 8 /\ speaks[n] = 4
         => flushed[i] - since[n] < EntryTtl + AnswerAfter[8]]_arpVars

(* arp8_version.py:303: "No IPv4 device ever receives a packet with version 8  *)
(* in the IP header."  The code: an entry says what the device spoke once.     *)
NoIpv8ToIpv4Device ==
  [][\A i \in Interfaces, n \in Neighbours :
       ArpForward(i, n) /\ speaks[n] = 4 => frame'.version # 8]_arpVars

--------------------------------------------------------------------------------
(***************************************************************************)
(* The ARP8 cache beside the protocols (companions.py, ARP8Table): which   *)
(* MAC an address had when its entry was made.  Looking one up does not    *)
(* ask how old it is; only flush_expired does, when somebody calls it.     *)
(* Hosts change their MAC and may announce the new one.                    *)
(***************************************************************************)
CONSTANTS
  Hosts8,           \* addresses
  Macs,
  MacTtl,           \* life of an entry (14400 s)
  NoMac,
  MaxMacTime        \* bound: the clock

ASSUME MacAssumption == MacTtl \in Nat \ {0}

VARIABLES
  macTable,     \* address -> [mac, at], or NoMac
  macOf,        \* the MAC each host has
  macNow,
  movedAt,      \* history: when each host took the MAC it has
  sweptAt       \* history: when expired entries were last flushed

macVars == <<macTable, macOf, macNow, movedAt, sweptAt>>

WithMac(h, at) == [macTable EXCEPT ![h] = [mac |-> macOf[h], at |-> at]]

(* learn takes the entry as it is: its date may be now, earlier, or - when    *)
(* none is given - the beginning of time.                                     *)
LearnMac(h) ==
  /\ \E at \in {0, movedAt[h], macNow} : at <= macNow /\ macTable' = WithMac(h, at)
  /\ UNCHANGED <<macOf, macNow, movedAt, sweptAt>>

(* gratuitous_announce: dated by the clock itself.                            *)
GratuitousAnnounce(h) ==
  /\ macTable' = WithMac(h, macNow)
  /\ UNCHANGED <<macOf, macNow, movedAt, sweptAt>>

LookupMac(h) == IF macTable[h] = NoMac THEN NoMac ELSE macTable[h].mac

FlushMacs ==
  /\ macTable' = [h \in Hosts8 |-> NoMac]
  /\ sweptAt' = macNow
  /\ UNCHANGED <<macOf, macNow, movedAt>>

MacExpired(e) == macNow - e.at >= MacTtl

FlushExpiredMacs ==
  /\ macTable' = [h \in Hosts8 |->
       IF macTable[h] # NoMac /\ MacExpired(macTable[h]) THEN NoMac ELSE macTable[h]]
  /\ sweptAt' = macNow
  /\ UNCHANGED <<macOf, macNow, movedAt>>

ChangeMac(h, mac) ==
  /\ mac # macOf[h]
  /\ macOf' = [macOf EXCEPT ![h] = mac]
  /\ movedAt' = [movedAt EXCEPT ![h] = macNow]
  /\ UNCHANGED <<macTable, macNow, sweptAt>>

MacTick ==
  /\ macNow < MaxMacTime /\ macNow' = macNow + 1
  /\ UNCHANGED <<macTable, macOf, movedAt, sweptAt>>

MacInit ==
  /\ macTable = [h \in Hosts8 |-> NoMac]
  /\ macOf = [h \in Hosts8 |-> CHOOSE mac \in Macs : TRUE]
  /\ macNow = 0 /\ sweptAt = 0
  /\ movedAt = [h \in Hosts8 |-> 0]

MacNext ==
  \/ \E h \in Hosts8 :
       LearnMac(h) \/ GratuitousAnnounce(h) \/ \E mac \in Macs : ChangeMac(h, mac)
  \/ FlushMacs \/ FlushExpiredMacs \/ MacTick

MacSpec == MacInit /\ [][MacNext]_macVars

(* A lookup gives the MAC of a device that is gone only as long as flushing   *)
(* is put off: the host changed it less than a lifetime before the last flush, *)
(* or after it.                                                              *)
MacsOnlyUntilFlushed ==
  \A h \in Hosts8 :
    LookupMac(h) \notin {NoMac, macOf[h]} => sweptAt - movedAt[h] < MacTtl

(* What a cache remembers of a neighbour, its version (arp8_version.py) or    *)
(* its MAC (companions.py), is wrong only as long as flushing is put off.     *)
OldNewsIsFlushed == WrongOnlyUntilFlushed /\ []MacsOnlyUntilFlushed
================================================================================
