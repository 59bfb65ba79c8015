---------------------------- MODULE ForwardingProofs ----------------------------
(***************************************************************************)
(* Proofs about forwarding: what the neighbour caches remember, what       *)
(* becomes of a packet in the simulator, for every topology and every time *)
(* to live, what a traceroute tells, and what the test bed's files         *)
(* describe.                                                               *)
(***************************************************************************)
EXTENDS Forwarding, Traceroute8, Arp8, Testbed, MinFacts, FiniteSetTheorems, SequenceTheorems

--------------------------------------------------------------------------------
(***************************************************************************)
(* Versions of neighbours.  What a cache says of a neighbour was so when   *)
(* the entry was made; an entry that is wrong is older than the change, and *)
(* would have gone had expired entries been flushed a lifetime after it.   *)
(***************************************************************************)
ArpTypes ==
  /\ arpNow \in Nat
  /\ speaks \in [Neighbours -> {4, 8}]
  /\ since \in [Neighbours -> Nat] /\ \A n \in Neighbours : since[n] <= arpNow
  /\ flushed \in [Interfaces -> Nat] /\ \A i \in Interfaces : flushed[i] <= arpNow
  /\ entries \in [Keys8 -> [version : {4, 8}, at : Int] \cup {NoEntry8}]

WrongIsOld ==
  \A i \in Interfaces, n \in Neighbours :
    LET e == entries[<<i, n>>]
        ahead == AnswerAfter[e.version]
    IN  e # NoEntry8 =>
          /\ e.at <= arpNow + ahead
          /\ e.version # speaks[n] => /\ e.at <= since[n] + ahead
                                     /\ flushed[i] - since[n] < EntryTtl + ahead

ArpIInv == ArpTypes /\ WrongIsOld

LEMMA ArpStart == ArpInit => ArpIInv
BY DEF ArpInit, ArpIInv, ArpTypes, WrongIsOld, Keys8

(* Entries of one interface go, or those that are a lifetime old.           *)
LEMMA ArpForgets ==
  ASSUME ArpIInv, NEW i \in Interfaces, flushed' = [flushed EXCEPT ![i] = arpNow],
         UNCHANGED <<speaks, arpNow, since>>,
         entries' = Empty(i) \/ entries' = [k \in Keys8 |->
           IF k[1] = i /\ entries[k] # NoEntry8 /\ IsExpired(entries[k]) THEN NoEntry8
           ELSE entries[k]]
  PROVE  ArpIInv'
<1>1. /\ DOMAIN entries' = Keys8 /\ entries' = [k \in Keys8 |-> entries'[k]]
      /\ \A k \in Keys8 : entries'[k] \in {entries[k], NoEntry8}
      /\ \A n \in Neighbours :
           entries'[<<i, n>>] # NoEntry8 => entries'[<<i, n>>] = entries[<<i, n>>]
                                            /\ ~IsExpired(entries[<<i, n>>])
  BY DEF Empty, Keys8
<1>2. ArpTypes'
  <2>1. \A k \in Keys8 : entries'[k] \in [version : {4, 8}, at : Int] \cup {NoEntry8}
    BY <1>1 DEF ArpIInv, ArpTypes
  <2> QED  BY <1>1, <2>1 DEF ArpIInv, ArpTypes
<1>3. ASSUME NEW j \in Interfaces, NEW n \in Neighbours, entries'[<<j, n>>] # NoEntry8
      PROVE  LET e == entries'[<<j, n>>]
                 ahead == AnswerAfter[e.version]
             IN  /\ e.at <= arpNow + ahead
                 /\ e.version # speaks[n] => /\ e.at <= since[n] + ahead
                                            /\ flushed'[j] - since[n] < EntryTtl + ahead
  <2> DEFINE e == entries[<<j, n>>]
             ahead == AnswerAfter[e.version]
  <2>1. entries'[<<j, n>>] = e /\ e # NoEntry8
    BY <1>1, <1>3 DEF Keys8
  <2>2. /\ e.at <= arpNow + ahead
        /\ e.version # speaks[n] => e.at <= since[n] + ahead /\ flushed[j] - since[n] < EntryTtl + ahead
    BY <2>1 DEF ArpIInv, WrongIsOld
  <2>5. e.at \in Int /\ ahead \in Nat /\ arpNow \in Int /\ EntryTtl \in Int /\ since[n] \in Int
    BY <2>1, ArpAssumption DEF ArpIInv, ArpTypes, Keys8
  <2> HIDE DEF ahead
  <2>3. CASE j = i
    <3>1. arpNow - e.at < EntryTtl /\ flushed'[j] = arpNow
      BY <1>1, <1>3, <2>1, <2>3, <2>5 DEF IsExpired, ArpIInv, ArpTypes
    <3>2. /\ e.at <= arpNow + ahead
          /\ e.version # speaks[n] => /\ e.at <= since[n] + ahead
                                     /\ flushed'[j] - since[n] < EntryTtl + ahead
      <4> HIDE DEF e
      <4> QED  BY <2>2, <2>5, <3>1
    <3> QED  BY <2>1, <3>2 DEF ahead
  <2>4. CASE j # i
    <3>1. flushed'[j] = flushed[j]
      BY <2>4 DEF ArpIInv, ArpTypes
    <3> QED  BY <2>1, <2>2, <3>1 DEF ahead
  <2> QED  BY <2>3, <2>4
<1>4. WrongIsOld'
  BY <1>3 DEF WrongIsOld
<1> QED  BY <1>2, <1>4 DEF ArpIInv

LEMMA ArpLearns ==
  ASSUME ArpIInv, NEW i \in Interfaces, NEW n \in Neighbours,
         NEW at \in {arpNow, arpNow + AnswerAfter[speaks[n]], -EntryTtl},
         entries' = [entries EXCEPT ![<<i, n>>] = [version |-> speaks[n], at |-> at]],
         UNCHANGED <<speaks, arpNow, since, flushed>>
  PROVE  ArpIInv'
<1> DEFINE new == [version |-> speaks[n], at |-> at]
<1>1. /\ at \in Int /\ at <= arpNow + AnswerAfter[speaks[n]] /\ <<i, n>> \in Keys8
      /\ speaks[n] \in {4, 8} /\ AnswerAfter[speaks[n]] \in Nat
  BY ArpAssumption DEF ArpIInv, ArpTypes, Keys8
<1>2. new \in [version : {4, 8}, at : Int] /\ new.version = speaks[n] /\ new.at = at
  BY <1>1 DEF ArpIInv, ArpTypes
<1> HIDE DEF new
<1>3. ArpTypes'
  BY <1>1, <1>2 DEF ArpIInv, ArpTypes, new
<1>4. \A j \in Interfaces, m \in Neighbours :
        entries'[<<j, m>>] = IF j = i /\ m = n THEN new ELSE entries[<<j, m>>]
  BY <1>1 DEF ArpIInv, ArpTypes, Keys8, new
<1>5. WrongIsOld'
  BY <1>1, <1>2, <1>4 DEF ArpIInv, WrongIsOld
<1> QED  BY <1>3, <1>5 DEF ArpIInv

LEMMA ArpReplaced ==
  ASSUME ArpIInv, NEW n \in Neighbours, Replaced(n)
  PROVE  ArpIInv'
<1>1. ArpTypes'
  BY DEF ArpIInv, ArpTypes, Replaced
<1>2. \A m \in Neighbours : /\ since'[m] = IF m = n THEN arpNow ELSE since[m]
                            /\ m # n => speaks'[m] = speaks[m]
  BY DEF Replaced, ArpIInv, ArpTypes
<1>3. ASSUME NEW i \in Interfaces, NEW m \in Neighbours, entries[<<i, m>>] # NoEntry8
      PROVE  LET e == entries[<<i, m>>]
                 ahead == AnswerAfter[e.version]
             IN  /\ e.at <= arpNow + ahead
                 /\ e.version # speaks'[m] => /\ e.at <= since'[m] + ahead
                                             /\ flushed[i] - since'[m] < EntryTtl + ahead
  <2>1. CASE m = n
    <3>1. AnswerAfter[entries[<<i, m>>].version] \in Nat
      BY <1>3, ArpAssumption DEF ArpIInv, ArpTypes, Keys8
    <3> QED  BY <1>2, <1>3, <2>1, <3>1, ArpAssumption DEF ArpIInv, ArpTypes, WrongIsOld
  <2>2. CASE m # n
    BY <1>2, <1>3, <2>2 DEF ArpIInv, WrongIsOld
  <2> QED  BY <2>1, <2>2
<1>4. WrongIsOld'
  BY <1>3 DEF WrongIsOld, Replaced
<1> QED  BY <1>1, <1>4 DEF ArpIInv

LEMMA ArpKeeps ==
  ASSUME ArpIInv, [ArpNext]_arpVars
  PROVE  ArpIInv'
<1>1. ASSUME UNCHANGED <<speaks, entries, since, flushed>>, arpNow' \in {arpNow, arpNow + 1}
      PROVE  ArpIInv'
  <2>1. arpNow' \in Nat /\ arpNow' >= arpNow
    BY <1>1 DEF ArpIInv, ArpTypes
  <2>2. ArpTypes'
    BY <1>1, <2>1 DEF ArpIInv, ArpTypes
  <2>3. \A i \in Interfaces, n \in Neighbours :
          entries[<<i, n>>] # NoEntry8 =>
            entries[<<i, n>>].at <= arpNow' + AnswerAfter[entries[<<i, n>>].version]
    <3> SUFFICES ASSUME NEW i \in Interfaces, NEW n \in Neighbours, entries[<<i, n>>] # NoEntry8
                 PROVE  entries[<<i, n>>].at <= arpNow' + AnswerAfter[entries[<<i, n>>].version]
      OBVIOUS
    <3> DEFINE ahead == AnswerAfter[entries[<<i, n>>].version]
    <3>1. /\ entries[<<i, n>>].at \in Int /\ arpNow \in Int /\ ahead \in Nat
          /\ entries[<<i, n>>].at <= arpNow + ahead
      BY ArpAssumption DEF ArpIInv, ArpTypes, WrongIsOld, Keys8
    <3> HIDE DEF ahead
    <3>2. entries[<<i, n>>].at <= arpNow' + ahead
      BY <2>1, <3>1
    <3> QED  BY <3>2 DEF ahead
  <2>4. WrongIsOld'
    BY <1>1, <2>3 DEF ArpIInv, WrongIsOld
  <2> QED  BY <2>2, <2>4 DEF ArpIInv
<1>2. ASSUME NEW i \in Interfaces, AddInterface(i) \/ ArpFlush(i) \/ FlushExpired(i) PROVE ArpIInv'
  BY <1>2, ArpForgets DEF AddInterface, ArpFlush, FlushExpired
<1>3. ASSUME NEW i \in Interfaces, NEW n \in Neighbours, DiscoverNeighbor(i, n) \/ Learn(i, n)
      PROVE  ArpIInv'
  BY <1>3, ArpLearns DEF DiscoverNeighbor, Learn
<1>4. ASSUME NEW i \in Interfaces, NEW n \in Neighbours, ArpForward(i, n) PROVE ArpIInv'
  BY <1>1, <1>4 DEF ArpForward
<1>5. CASE ArpTick \/ UNCHANGED arpVars
  BY <1>1, <1>5 DEF ArpTick, arpVars
<1> QED  BY <1>2, <1>3, <1>4, <1>5, ArpReplaced DEF ArpNext

(* An IPv8 frame goes to a neighbour whose entry says IPv8.                 *)
LEMMA FramesByEntry ==
  ASSUME ArpIInv
  PROVE  \A i \in Interfaces, n \in Neighbours :
           ArpForward(i, n) /\ frame'.version = 8 /\ speaks[n] = 4
             => flushed[i] - since[n] < EntryTtl + AnswerAfter[8]
<1> SUFFICES ASSUME NEW i \in Interfaces, NEW n \in Neighbours,
                    ArpForward(i, n), frame'.version = 8, speaks[n] = 4
             PROVE  flushed[i] - since[n] < EntryTtl + AnswerAfter[8]
  OBVIOUS
<1>1. CapabilityOf(i, n) = 8
  BY DEF ArpForward
<1>2. entries[<<i, n>>] # NoEntry8 /\ entries[<<i, n>>].version = 8
  BY <1>1 DEF CapabilityOf
<1> QED  BY <1>2 DEF ArpIInv, WrongIsOld

LEMMA VersionsFlushed == ArpSpec => WrongOnlyUntilFlushed
<1>1. ArpSpec => []ArpIInv
  BY ArpStart, ArpKeeps, PTL DEF ArpSpec
<1>2. ArpIInv =>
        [\A i \in Interfaces, n \in Neighbours :
           ArpForward(i, n) /\ frame'.version = 8 /\ speaks[n] = 4
             => flushed[i] - since[n] < EntryTtl + AnswerAfter[8]]_arpVars
  BY FramesByEntry
<1> QED  BY <1>1, <1>2, PTL DEF WrongOnlyUntilFlushed

--------------------------------------------------------------------------------
(***************************************************************************)
(* MACs of hosts: the same, with entries that may be dated back.           *)
(***************************************************************************)
MacTypes ==
  /\ macNow \in Nat /\ sweptAt \in Nat /\ sweptAt <= macNow
  /\ movedAt \in [Hosts8 -> Nat] /\ \A h \in Hosts8 : movedAt[h] <= macNow
  /\ macOf \in [Hosts8 -> Macs \cup {CHOOSE mac \in Macs : TRUE}]
  /\ DOMAIN macTable = Hosts8 /\ macTable = [h \in Hosts8 |-> macTable[h]]
  /\ \A h \in Hosts8 : macTable[h] # NoMac => macTable[h].at \in Nat /\ macTable[h].at <= macNow

OldMacIsOld ==
  \A h \in Hosts8 :
    macTable[h] # NoMac /\ macTable[h].mac # macOf[h] =>
      macTable[h].at <= movedAt[h] /\ sweptAt - movedAt[h] < MacTtl

MacIInv == MacTypes /\ OldMacIsOld

LEMMA MacStart == MacInit => MacIInv
BY DEF MacInit, MacIInv, MacTypes, OldMacIsOld

LEMMA MacLearns ==
  ASSUME MacIInv, NEW h \in Hosts8, NEW at \in Nat, at <= macNow, macTable' = WithMac(h, at),
         UNCHANGED <<macOf, macNow, movedAt, sweptAt>>
  PROVE  MacIInv'
<1> DEFINE new == [mac |-> macOf[h], at |-> at]
<1>1. new.mac = macOf[h] /\ new.at = at
  OBVIOUS
<1> HIDE DEF new
<1>2. /\ macTable' = [macTable EXCEPT ![h] = new] 
      /\ DOMAIN macTable' = Hosts8 /\ macTable' = [g \in Hosts8 |-> macTable'[g]]
      /\ \A g \in Hosts8 : macTable'[g] = IF g = h THEN new ELSE macTable[g]
  BY DEF WithMac, MacIInv, MacTypes, new
<1>3. MacTypes'
  BY <1>1, <1>2 DEF MacIInv, MacTypes
<1>4. OldMacIsOld'
  BY <1>1, <1>2 DEF MacIInv, OldMacIsOld
<1> QED  BY <1>3, <1>4 DEF MacIInv

LEMMA MacForgets ==
  ASSUME MacIInv, sweptAt' = macNow, UNCHANGED <<macOf, macNow, movedAt>>,
         DOMAIN macTable' = Hosts8, macTable' = [h \in Hosts8 |-> macTable'[h]],
         \A h \in Hosts8 : macTable'[h] # NoMac =>
           macTable'[h] = macTable[h] /\ ~MacExpired(macTable[h])
  PROVE  MacIInv'
<1>1. MacTypes'
  BY DEF MacIInv, MacTypes
<1>2. ASSUME NEW h \in Hosts8, macTable'[h] # NoMac, macTable'[h].mac # macOf[h]
      PROVE  macTable[h].at <= movedAt[h] /\ macNow - movedAt[h] < MacTtl
  <2>1. macTable[h].at <= movedAt[h] /\ ~MacExpired(macTable[h]) /\ macTable[h].at \in Nat
    BY <1>2 DEF MacIInv, MacTypes, OldMacIsOld
  <2> QED  BY <2>1, MacAssumption DEF MacExpired, MacIInv, MacTypes
<1>3. OldMacIsOld'
  BY <1>2 DEF OldMacIsOld
<1> QED  BY <1>1, <1>3 DEF MacIInv

LEMMA MacChanges ==
  ASSUME MacIInv, NEW h \in Hosts8, NEW mac \in Macs, ChangeMac(h, mac)
  PROVE  MacIInv'
<1>1. /\ macOf' = [macOf EXCEPT ![h] = mac] /\ movedAt' = [movedAt EXCEPT ![h] = macNow]
      /\ macTable' = macTable /\ macNow' = macNow /\ sweptAt' = sweptAt
  BY DEF ChangeMac
<1>2. \A g \in Hosts8 : /\ movedAt'[g] = IF g = h THEN macNow ELSE movedAt[g]
                        /\ g # h => macOf'[g] = macOf[g]
  BY <1>1 DEF MacIInv, MacTypes
<1>3. MacTypes'
  BY <1>1, <1>2 DEF MacIInv, MacTypes
<1>4. ASSUME NEW g \in Hosts8, macTable[g] # NoMac, macTable[g].mac # macOf'[g]
      PROVE  macTable[g].at <= movedAt'[g] /\ sweptAt - movedAt'[g] < MacTtl
  <2>1. CASE g = h
    BY <1>2, <1>4, <2>1, MacAssumption DEF MacIInv, MacTypes
  <2>2. CASE g # h
    BY <1>2, <1>4, <2>2 DEF MacIInv, OldMacIsOld
  <2> QED  BY <2>1, <2>2
<1>5. OldMacIsOld'
  BY <1>1, <1>4 DEF OldMacIsOld
<1> QED  BY <1>3, <1>5 DEF MacIInv

LEMMA MacKeeps ==
  ASSUME MacIInv, [MacNext]_macVars
  PROVE  MacIInv'
<1>1. ASSUME NEW h \in Hosts8, LearnMac(h) \/ GratuitousAnnounce(h) PROVE MacIInv'
  <2>1. PICK at \in {0, movedAt[h], macNow} : at <= macNow /\ macTable' = WithMac(h, at)
    BY <1>1 DEF LearnMac, GratuitousAnnounce, MacIInv, MacTypes
  <2>2. at \in Nat
    BY <2>1 DEF MacIInv, MacTypes
  <2> QED  BY <1>1, <2>1, <2>2, MacLearns DEF LearnMac, GratuitousAnnounce
<1>2. CASE FlushMacs \/ FlushExpiredMacs
  <2>1. /\ DOMAIN macTable' = Hosts8 /\ macTable' = [h \in Hosts8 |-> macTable'[h]]
        /\ \A h \in Hosts8 : macTable'[h] # NoMac =>
             macTable'[h] = macTable[h] /\ ~MacExpired(macTable[h])
    BY <1>2 DEF FlushMacs, FlushExpiredMacs
  <2> QED  BY <1>2, <2>1, MacForgets DEF FlushMacs, FlushExpiredMacs
<1>3. CASE MacTick \/ UNCHANGED macVars
  <2>1. macNow' \in Nat /\ macNow' >= macNow
    BY <1>3 DEF MacTick, macVars, MacIInv, MacTypes
  <2> QED  BY <1>3, <2>1 DEF MacTick, macVars, MacIInv, MacTypes, OldMacIsOld
<1> QED  BY <1>1, <1>2, <1>3, MacChanges DEF MacNext

(* For all lifetimes of entries, clocks and times to answer: an IPv8 frame to *)
(* an IPv4 device, and the MAC of a device that is gone, are seen only where  *)
(* flushing was put off for a lifetime.                                       *)
THEOREM NeighboursForgotten == ArpSpec /\ MacSpec => OldNewsIsFlushed
<1>1. MacSpec => []MacIInv
  BY MacStart, MacKeeps, PTL DEF MacSpec
<1>2. MacIInv => MacsOnlyUntilFlushed
  BY DEF MacIInv, OldMacIsOld, MacsOnlyUntilFlushed, LookupMac
<1> QED  BY <1>1, <1>2, VersionsFlushed, PTL DEF OldNewsIsFlushed
--------------------------------------------------------------------------------
(***************************************************************************)
(* The simulator.  Nodes, links and the packet stay among the names there  *)
(* are, and a packet on its way has a hop left.                            *)
(***************************************************************************)
SimTypes ==
  /\ nodes \subseteq Names
  /\ links \in Seq(Names \X Names)
  /\ simSent \in Nat
  /\ packet \in Packet8 \cup {NoPacket}
  /\ Moving => packet.ttl >= 1

LEMMA EndedPacket ==
  ASSUME packet \in Packet8, NEW fate \in Fates, NEW at \in Names, NEW left \in 0 .. Ttl
  PROVE  LET p == Ended(fate, at, left)
         IN  /\ p \in Packet8 /\ p # NoPacket
             /\ p.fate = fate /\ p.at = at /\ p.ttl = left /\ p.dst = packet.dst
             /\ p.src = packet.src /\ p.visited = packet.visited \union {packet.at}
<1> DEFINE p == Ended(fate, at, left)
<1>1. p = [id |-> packet.id, src |-> packet.src, dst |-> packet.dst, ttl |-> left, at |-> at,
           visited |-> packet.visited \union {packet.at}, fate |-> fate]
  <2> DEFINE passed == packet.visited \union {packet.at}
             p1 == [packet EXCEPT !.fate = fate]
             p2 == [p1 EXCEPT !.at = at]
             p3 == [p2 EXCEPT !.ttl = left]
  <2>1. p = [p3 EXCEPT !.visited = passed]
    BY DEF Ended
  <2>2. packet = [id |-> packet.id, src |-> packet.src, dst |-> packet.dst, ttl |-> packet.ttl,
                  at |-> packet.at, visited |-> packet.visited, fate |-> packet.fate]
    BY DEF Packet8
  <2> HIDE DEF passed, p
  <2>3. p1 = [id |-> packet.id, src |-> packet.src, dst |-> packet.dst, ttl |-> packet.ttl,
              at |-> packet.at, visited |-> packet.visited, fate |-> fate]
    BY <2>2
  <2> HIDE DEF p1
  <2>4. p2 = [id |-> packet.id, src |-> packet.src, dst |-> packet.dst, ttl |-> packet.ttl,
              at |-> at, visited |-> packet.visited, fate |-> fate]
    BY <2>3
  <2> HIDE DEF p2
  <2>5. p3 = [id |-> packet.id, src |-> packet.src, dst |-> packet.dst, ttl |-> left,
              at |-> at, visited |-> packet.visited, fate |-> fate]
    BY <2>4
  <2> HIDE DEF p3
  <2>6. p = [id |-> packet.id, src |-> packet.src, dst |-> packet.dst, ttl |-> left,
             at |-> at, visited |-> passed, fate |-> fate]
    BY <2>1, <2>5
  <2> QED  BY <2>6 DEF passed, p
<1>2. p \in Packet8
  BY <1>1 DEF Packet8
<1> QED  BY <1>1, <1>2, NoPacketAssumption

(* The first link of some leads from one of them.                           *)
LEMMA LinkTarget ==
  ASSUME SimTypes, NEW n, NEW S, S \subseteq LinksFrom(n), S # {}
  PROVE  Min(S) \in S /\ links[Min(S)][2] \in nodes /\ links[Min(S)][2] \in Names
<1>1. DOMAIN links \subseteq Nat
  BY DEF SimTypes
<1>2. S \subseteq Nat
  BY <1>1 DEF LinksFrom
<1>3. Min(S) \in S
  BY <1>2, MinOfNats
<1> QED  BY <1>3 DEF LinksFrom, SimTypes

(* The outcomes of one call of _forward: what it does to the packet.        *)
Dropped(fate) ==
  /\ fate \in Fates \ {"moving", "delivered", "expired"}
  /\ packet' = Ended(fate, packet.at, packet.ttl)

Hopped(n) ==
  /\ n \in Names
  /\ \/ packet.ttl - 1 <= 0 /\ packet' = Ended("expired", packet.at, packet.ttl - 1)
     \/ packet.ttl - 1 > 0 /\ packet' = Ended("moving", n, packet.ttl - 1)

Handed(n) ==
  /\ n \in Names /\ Owns(n, packet.dst)
  /\ packet' = Ended("delivered", n, packet.ttl)

LEMMA HopToHops ==
  ASSUME SimTypes, Moving, NEW n \in Names, HopTo(n)
  PROVE  Hopped(n)
<1>1. packet.ttl \in Int
  BY DEF SimTypes, Moving, Packet8
<1>2. CASE packet.ttl - 1 <= 0
  BY <1>2 DEF HopTo, Hopped
<1>3. CASE ~ (packet.ttl - 1 <= 0)
  <2>1. packet.ttl - 1 > 0
    BY <1>1, <1>3
  <2> QED  BY <1>3, <2>1 DEF HopTo, Hopped
<1> QED  BY <1>2, <1>3

(* One call of _forward, with the reason for what it does.                  *)
LEMMA ForwardOutcomes ==
  ASSUME SimTypes, Forward
  PROVE  LET here == packet.at
             route == FindRoute(tables[here], packet.dst.prefix)
         IN  \/ Revisited(here) /\ Dropped("loop")
             \/ ~Revisited(here) /\ \E n \in Names : Handed(n)
             \/ /\ ~Revisited(here) /\ ~Owns(here, packet.dst) /\ route = NoRoute
                /\ Dropped("no route") \/ \E n \in Names : Hopped(n)
             \/ /\ ~Revisited(here) /\ ~Owns(here, packet.dst) /\ route # NoRoute
                /\ \/ route.next \notin nodes /\ Dropped("unknown node")
                   \/ route.next \in nodes /\ Hopped(route.next)
<1> DEFINE here == packet.at
           route == FindRoute(tables[here], packet.dst.prefix)
<1>1. Moving /\ here \in Names
  BY DEF Forward, SimTypes, Moving, Packet8
<1>2. CASE Revisited(here)
  BY <1>2 DEF Forward, DropAs, Dropped, Fates
<1>3. CASE ~Revisited(here) /\ Owns(here, packet.dst)
  BY <1>1, <1>3 DEF Forward, DeliverAt, Handed
<1>4. CASE ~Revisited(here) /\ ~Owns(here, packet.dst) /\ Direct(here) # {}
  <2> DEFINE n == links[Min(Direct(here))][2]
  <2>1. Direct(here) \subseteq LinksFrom(here)
    BY DEF Direct
  <2>2. n \in Names /\ Min(Direct(here)) \in Direct(here)
    BY <1>4, <2>1, LinkTarget
  <2>3. Owns(n, packet.dst)
    BY <2>2 DEF Direct
  <2>4. packet' = Ended("delivered", n, packet.ttl)
    BY <1>4 DEF Forward, DeliverAt
  <2> QED  BY <1>4, <2>2, <2>3, <2>4 DEF Handed
<1>5. CASE ~Revisited(here) /\ ~Owns(here, packet.dst) /\ Direct(here) = {} /\ route = NoRoute
  <2>1. OnAnyLink(here)
    BY <1>5 DEF Forward
  <2>2. CASE Unseen(here) = {}
    BY <1>5, <2>1, <2>2 DEF OnAnyLink, DropAs, Dropped, Fates
  <2>3. CASE Unseen(here) # {}
    <3>1. Unseen(here) \subseteq LinksFrom(here)
      BY DEF Unseen
    <3>2. links[Min(Unseen(here))][2] \in Names
      BY <2>3, <3>1, LinkTarget
    <3>3. HopTo(links[Min(Unseen(here))][2])
      BY <2>1, <2>3 DEF OnAnyLink
    <3> QED  BY <1>1, <1>5, <3>2, <3>3, HopToHops
  <2> QED  BY <2>2, <2>3
<1>6. CASE ~Revisited(here) /\ ~Owns(here, packet.dst) /\ Direct(here) = {} /\ route # NoRoute
  <2>1. OnRoute(route)
    BY <1>6 DEF Forward
  <2>2. CASE route.next \in nodes
    <3>1. route.next \in Names /\ HopTo(route.next)
      BY <2>1, <2>2 DEF OnRoute, SimTypes
    <3> QED  BY <1>1, <1>6, <2>2, <3>1, HopToHops
  <2>3. CASE route.next \notin nodes
    BY <1>6, <2>1, <2>3 DEF OnRoute, DropAs, Dropped, Fates
  <2> QED  BY <2>2, <2>3
<1> QED  BY <1>2, <1>3, <1>4, <1>5, <1>6

LEMMA SimStart == SimInit => SimTypes
<1> SUFFICES ASSUME SimInit PROVE SimTypes
  OBVIOUS
<1>1. PICK c \in Configs : nodes = Loaded(c) /\ links = c.links
  BY DEF SimInit
<1> QED  BY <1>1, TopologyAssumption DEF SimInit, SimTypes, Moving

LEMMA DroppedPacket ==
  ASSUME SimTypes, Moving, NEW fate, Dropped(fate)
  PROVE  /\ packet' \in Packet8 /\ packet' # NoPacket /\ packet'.fate = fate
         /\ packet'.at = packet.at /\ packet'.ttl = packet.ttl /\ packet'.dst = packet.dst
<1>1. packet \in Packet8 /\ packet.at \in Names /\ packet.ttl \in 0 .. Ttl
  BY DEF SimTypes, Moving, Packet8
<1> QED  BY <1>1, EndedPacket DEF Dropped

LEMMA HandedPacket ==
  ASSUME SimTypes, Moving, NEW n, Handed(n)
  PROVE  /\ packet' \in Packet8 /\ packet' # NoPacket /\ packet'.fate = "delivered"
         /\ packet'.at = n /\ packet'.ttl = packet.ttl /\ packet'.dst = packet.dst
<1>1. packet \in Packet8 /\ packet.ttl \in 0 .. Ttl /\ "delivered" \in Fates
  BY DEF SimTypes, Moving, Packet8, Fates
<1> QED  BY <1>1, EndedPacket DEF Handed

LEMMA HoppedPacket ==
  ASSUME SimTypes, Moving, NEW n, Hopped(n)
  PROVE  /\ packet' \in Packet8 /\ packet' # NoPacket
         /\ packet'.ttl = packet.ttl - 1 /\ packet'.dst = packet.dst
         /\ \/ packet.ttl = 1 /\ packet'.fate = "expired" /\ packet'.at = packet.at
            \/ packet.ttl > 1 /\ packet'.fate = "moving" /\ packet'.at = n
         /\ packet'.src = packet.src /\ packet'.visited = packet.visited \union {packet.at}
<1>1. /\ packet \in Packet8 /\ packet.at \in Names /\ packet.ttl \in 1 .. Ttl
      /\ "moving" \in Fates /\ "expired" \in Fates
  <2>1. packet \in Packet8 /\ packet.ttl >= 1
    BY DEF SimTypes, Moving
  <2>2. packet.at \in Names /\ packet.ttl \in 0 .. Ttl /\ Ttl \in Nat
    BY <2>1, TopologyAssumption DEF Packet8
  <2> QED  BY <2>1, <2>2 DEF Fates
<1>2. packet.ttl - 1 \in 0 .. Ttl
  BY <1>1, TopologyAssumption
<1>3. CASE packet.ttl - 1 <= 0 /\ packet' = Ended("expired", packet.at, packet.ttl - 1)
  BY <1>1, <1>2, <1>3, EndedPacket
<1>4. CASE packet.ttl - 1 > 0 /\ packet' = Ended("moving", n, packet.ttl - 1)
  BY <1>1, <1>2, <1>4, EndedPacket DEF Hopped
<1> QED  BY <1>3, <1>4 DEF Hopped

LEMMA SentPacket ==
  ASSUME SimTypes, NEW src \in Senders, NEW dst \in Destinations, SimSend(src, dst)
  PROVE  /\ packet' \in Packet8 /\ packet' # NoPacket
         /\ packet' = [id |-> simSent, src |-> src, dst |-> dst, ttl |-> Ttl, at |-> src,
                       visited |-> {}, fate |-> "moving"]
         /\ src \in nodes
<1>1. src \in Names /\ dst \in Addresses /\ Ttl \in 0 .. Ttl /\ "moving" \in Fates
  BY TopologyAssumption DEF Fates
<1>2. packet' \in Packet8
  BY <1>1 DEF SimSend, SimTypes, Packet8
<1> QED  BY <1>2, NoPacketAssumption DEF SimSend

LEMMA SimKeeps ==
  ASSUME SimTypes, [SimNext]_simVars
  PROVE  SimTypes'
<1>1. CASE Change
  <2>1. packet' = packet /\ simSent' = simSent
    BY <1>1 DEF Change
  <2>2. nodes' \subseteq Names /\ links' \in Seq(Names \X Names)
    <3>1. ASSUME NEW l \in NewLinks, AddLink(l[1], l[2])
          PROVE  nodes' = nodes /\ links' \in Seq(Names \X Names)
      <4>1. <<l[1], l[2]>> \in Names \X Names
        BY SimulatorAssumption
      <4> QED  BY <3>1, <4>1 DEF AddLink, SimTypes
    <3>2. ASSUME NEW n \in NewNodes, AddNode(n) PROVE nodes' \subseteq Names /\ links' = links
      BY <3>2, SimulatorAssumption DEF AddNode, SimTypes
    <3>3. ASSUME NEW n, NEW r, SimAddRoute(n, r) \/ RemoveRoute(n, r.dest)
          PROVE  nodes' = nodes /\ links' = links
      BY <3>3 DEF SimAddRoute, RemoveRoute
    <3> QED  BY <1>1, <3>1, <3>2, <3>3 DEF Change, SimTypes
  <2> QED  BY <2>1, <2>2 DEF SimTypes, Moving
<1>2. ASSUME NEW src \in Senders, NEW dst \in Destinations, SimSend(src, dst) PROVE SimTypes'
  <2>1. packet' \in Packet8 /\ packet'.ttl = Ttl
    BY <1>2, SentPacket
  <2> QED  BY <1>2, <2>1, TopologyAssumption DEF SimSend, SimTypes, Moving
<1>3. CASE Forward
  <2>1. Moving /\ UNCHANGED <<nodes, links, simSent>>
    BY <1>3 DEF Forward
  <2>2. packet' \in Packet8 /\ (packet'.fate = "moving" => packet'.ttl >= 1)
    <3>1. ASSUME NEW fate, Dropped(fate) PROVE packet' \in Packet8 /\ packet'.fate # "moving"
      BY <2>1, <3>1, DroppedPacket DEF Dropped
    <3>2. ASSUME NEW n, Handed(n) PROVE packet' \in Packet8 /\ packet'.fate # "moving"
      BY <2>1, <3>2, HandedPacket
    <3>3. ASSUME NEW n, Hopped(n)
          PROVE  packet' \in Packet8 /\ (packet'.fate = "moving" => packet'.ttl >= 1)
      <4>1. packet.ttl \in Nat
        BY <2>1, TopologyAssumption DEF SimTypes, Moving, Packet8
      <4> QED  BY <2>1, <3>3, <4>1, HoppedPacket
    <3> QED  BY <1>3, <3>1, <3>2, <3>3, ForwardOutcomes
  <2> QED  BY <2>1, <2>2 DEF SimTypes, Moving
<1>4. CASE UNCHANGED simVars
  BY <1>4 DEF simVars, SimTypes, Moving
<1> QED  BY <1>1, <1>2, <1>3, <1>4 DEF SimNext

LEMMA SimInvariant == SimSpec => []SimTypes
BY SimStart, SimKeeps, PTL DEF SimSpec

--------------------------------------------------------------------------------
(***************************************************************************)
(* The simulator implements PacketLife.                                    *)
(***************************************************************************)
FateNow ==
  IF packet = NoPacket THEN "none"
  ELSE IF packet.fate \in {"moving", "delivered"} THEN packet.fate ELSE "dropped"
PlaceNow == IF packet = NoPacket THEN CHOOSE n \in Names : TRUE ELSE packet.at
GoalNow == IF packet = NoPacket THEN CHOOSE a \in Addresses : TRUE ELSE packet.dst
LeftNow == IF packet = NoPacket THEN Ttl ELSE packet.ttl

LEMMA LifeStarts == SimInit => Life!LifeInit
<1> SUFFICES ASSUME SimInit PROVE Life!LifeInit
  OBVIOUS
<1>1. packet = NoPacket
  BY DEF SimInit
<1>2. (CHOOSE n \in Names : TRUE) \in Names /\ (CHOOSE a \in Addresses : TRUE) \in Addresses
  BY TopologyAssumption DEF Addresses
<1> QED  BY <1>1, <1>2 DEF Life!LifeInit

LEMMA LifeStep ==
  ASSUME SimTypes, [SimNext]_simVars
  PROVE  [Life!LifeNext]_<<FateNow, PlaceNow, GoalNow, LeftNow>>
<1>1. CASE Change \/ UNCHANGED simVars
  <2>1. packet' = packet
    BY <1>1 DEF Change, simVars
  <2> QED  BY <2>1 DEF FateNow, PlaceNow, GoalNow, LeftNow
<1>2. ASSUME NEW src \in Senders, NEW dst \in Destinations, SimSend(src, dst)
      PROVE  Life!Start
  <2>1. /\ packet' # NoPacket /\ packet'.fate = "moving" /\ packet'.ttl = Ttl
        /\ packet'.at = src /\ packet'.dst = dst /\ src \in Names /\ dst \in Addresses
    BY <1>2, SentPacket, TopologyAssumption
  <2>2. packet = NoPacket \/ packet.fate # "moving"
    BY <1>2 DEF SimSend, Moving
  <2> QED  BY <2>1, <2>2 DEF Life!Start
<1>3. CASE Forward
  <2>1. /\ Moving /\ packet # NoPacket /\ packet.fate = "moving"
        /\ packet.at \in Names /\ packet.ttl \in Nat
    BY <1>3, TopologyAssumption DEF Forward, Moving, SimTypes, Packet8
  <2>2. ASSUME NEW fate, Dropped(fate) PROVE Life!Drop
    <3>1. fate \notin {"moving", "delivered"}
      BY <2>2 DEF Dropped
    <3>2. packet' # NoPacket /\ packet'.fate = fate /\ packet'.at = packet.at
          /\ packet'.ttl = packet.ttl /\ packet'.dst = packet.dst
      BY <2>1, <2>2, DroppedPacket
    <3> QED  BY <2>1, <3>1, <3>2 DEF Life!Drop
  <2>3. ASSUME NEW n, Handed(n) PROVE Life!Deliver
    <3>1. n \in Names /\ AddressOf[n] = packet.dst
      BY <2>3 DEF Handed, Owns
    <3>2. packet' # NoPacket /\ packet'.fate = "delivered" /\ packet'.at = n
          /\ packet'.ttl = packet.ttl /\ packet'.dst = packet.dst
      BY <2>1, <2>3, HandedPacket
    <3> QED  BY <2>1, <3>1, <3>2 DEF Life!Deliver
  <2>4. ASSUME NEW n, Hopped(n) PROVE Life!Move \/ Life!Drop
    <3>1. /\ packet' # NoPacket /\ packet'.ttl = packet.ttl - 1 /\ packet'.dst = packet.dst
          /\ n \in Names
          /\ \/ packet.ttl = 1 /\ packet'.fate = "expired" /\ packet'.at = packet.at
             \/ packet.ttl > 1 /\ packet'.fate = "moving" /\ packet'.at = n
      BY <2>1, <2>4, HoppedPacket DEF Hopped
    <3>2. CASE packet'.fate = "expired"
      BY <2>1, <3>1, <3>2 DEF Life!Drop
    <3>3. CASE packet'.fate = "moving"
      BY <2>1, <3>1, <3>3 DEF Life!Move
    <3> QED  BY <3>1, <3>2, <3>3
  <2>5. Life!Move \/ Life!Drop \/ Life!Deliver
    BY <1>3, <2>2, <2>3, <2>4, ForwardOutcomes
  <2> QED  BY <2>5 DEF Life!LifeNext
<1> QED  BY <1>1, <1>2, <1>3 DEF SimNext, Life!LifeNext

(* The simulator keeps what PacketLife promises, whatever the topology, its   *)
(* changes and the time to live: no packet moves without spending a hop, none *)
(* is handed to a node without its address, and none comes back once ended.   *)
THEOREM SimulatorImplementsLife == SimSpec => SimulatorKeepsPacketLife
<1>1. SimTypes /\ [SimNext]_simVars => [Life!LifeNext]_(Life!lifeVars)
  BY LifeStep DEF Life!lifeVars, FateNow, PlaceNow, GoalNow, LeftNow
<1> QED
  BY <1>1, SimInvariant, LifeStarts, PTL DEF SimSpec, SimulatorKeepsPacketLife, Life!LifeSpec
--------------------------------------------------------------------------------
(***************************************************************************)
(* Where the routes lead.  The way is a recursive function: there is one,  *)
(* and what its steps keep holds along it, or there would be a least hop   *)
(* at which it fails.                                                      *)
(***************************************************************************)
IsWay(w, m, ts, ns, src, dst) ==
  w = [k \in 0 .. m |-> IF k = 0 THEN {src} ELSE RouteStep(ts, ns, w[k - 1], dst)]

LEMMA WayExists ==
  ASSUME NEW ts, NEW ns, NEW src, NEW dst, NEW m \in Nat
  PROVE  \E w : IsWay(w, m, ts, ns, src, dst)
<1> DEFINE Places(S) == RouteStep(ts, ns, S, dst)
           Fits(w, i) == w = [k \in 0 .. i |-> IF k = 0 THEN {src} ELSE Places(w[k - 1])]
           bad == {i \in Nat : ~ \E w : Fits(w, i)}
<1>1. SUFFICES ASSUME bad # {} PROVE FALSE
  BY DEF IsWay
<1>2. Min(bad) \in bad /\ \A i \in bad : Min(bad) <= i
  <2> HIDE DEF Fits
  <2>1. bad \subseteq Nat
    OBVIOUS
  <2> HIDE DEF bad
  <2> QED  BY <1>1, <2>1, MinOfNats
<1> DEFINE n == Min(bad)
<1>3. n \in Nat /\ ~ \E w : Fits(w, n)
  BY <1>2
<1>4. CASE n = 0
  <2> DEFINE w == [k \in 0 .. 0 |-> {src}]
  <2>1. Fits(w, 0)
    <3> HIDE DEF Places
    <3> QED  OBVIOUS
  <2> HIDE DEF w, Fits
  <2> QED  BY <1>3, <1>4, <2>1
<1>5. CASE n # 0
  <2>1. n - 1 \in Nat /\ n - 1 \notin bad
    <3> HIDE DEF bad, n
    <3>1. \A i \in bad : n <= i
      BY <1>2 DEF n
    <3> QED  BY <1>3, <1>5, <3>1
  <2>2. PICK w : Fits(w, n - 1)
    BY <2>1
  <2> DEFINE v == [k \in 0 .. n |-> IF k = n THEN Places(w[n - 1]) ELSE w[k]]
  <2> HIDE DEF Places, n, bad
  <2>3. ASSUME NEW k \in 0 .. n
        PROVE  v[k] = IF k = 0 THEN {src} ELSE Places(v[k - 1])
    <3>1. CASE k = 0
      <4>1. k # n /\ k \in 0 .. n - 1
        BY <1>3, <1>5, <2>1, <3>1
      <4>2. v[k] = w[k] /\ w[k] = {src}
        BY <2>2, <3>1, <4>1
      <4> QED  BY <3>1, <4>2
    <3>2. CASE k = n
      <4>1. k - 1 \in 0 .. n /\ k - 1 # n /\ k # 0
        BY <1>3, <1>5, <3>2
      <4>2. v[k] = Places(w[k - 1]) /\ v[k - 1] = w[k - 1]
        BY <3>2, <4>1
      <4> QED  BY <4>1, <4>2
    <3>3. CASE k # 0 /\ k # n
      <4>1. k \in 0 .. n - 1 /\ k - 1 \in 0 .. n /\ k - 1 # n
        BY <1>3, <3>3
      <4>2. v[k] = w[k] /\ v[k - 1] = w[k - 1]
        BY <3>3, <4>1
      <4>3. w[k] = Places(w[k - 1])
        BY <2>2, <3>3, <4>1
      <4> QED  BY <3>3, <4>2, <4>3
    <3> QED  BY <3>1, <3>2, <3>3
  <2>4. v = [k \in 0 .. n |-> v[k]]
    OBVIOUS
  <2> HIDE DEF v
  <2>5. Fits(v, n)
    BY <2>3, <2>4
  <2> HIDE DEF Fits
  <2> QED  BY <1>3, <2>5
<1> QED  BY <1>4, <1>5

LEMMA WaySteps ==
  ASSUME NEW ts, NEW ns, NEW src, NEW dst
  PROVE  LET way == RoutedWay(ts, ns, src, dst)
         IN  /\ way[0] = {src}
             /\ \A k \in 1 .. Ttl : way[k] = RouteStep(ts, ns, way[k - 1], dst)
<1> DEFINE way == RoutedWay(ts, ns, src, dst)
<1>1. Ttl \in Nat
  BY TopologyAssumption
<1>2. way = [k \in 0 .. Ttl |-> IF k = 0 THEN {src} ELSE RouteStep(ts, ns, way[k - 1], dst)]
  <2> DEFINE Fits(w) == IsWay(w, Ttl, ts, ns, src, dst)
  <2>1. \E w : Fits(w)
    BY <1>1, WayExists
  <2>2. way = CHOOSE w : Fits(w)
    BY DEF RoutedWay, IsWay
  <2> HIDE DEF Fits, way
  <2>3. Fits(way)
    BY <2>1, <2>2
  <2> QED  BY <2>3 DEF Fits, IsWay
<1> HIDE DEF way
<1>3. way[0] = {src}
  BY <1>1, <1>2
<1>4. ASSUME NEW k \in 1 .. Ttl PROVE way[k] = RouteStep(ts, ns, way[k - 1], dst)
  <2>1. k \in 0 .. Ttl /\ k # 0
    OBVIOUS
  <2> QED  BY <1>2, <2>1
<1> QED  BY <1>3, <1>4 DEF way
(* What holds of the k-th hop and is kept by each, holds from there on.     *)
LEMMA AlongWay ==
  ASSUME NEW ts, NEW ns, NEW src, NEW dst, NEW h \in 0 .. Ttl, NEW kept,
         RoutedWay(ts, ns, src, dst)[h] \in kept,
         \A X \in kept : RouteStep(ts, ns, X, dst) \in kept
  PROVE  \A k \in h .. Ttl : RoutedWay(ts, ns, src, dst)[k] \in kept
<1> DEFINE way == RoutedWay(ts, ns, src, dst)
           bad == {k \in h .. Ttl : way[k] \notin kept}
<1>1. Ttl \in Nat /\ h \in Nat
  BY TopologyAssumption
<1>2. SUFFICES ASSUME bad # {} PROVE FALSE
  OBVIOUS
<1>3. bad \subseteq Nat
  BY <1>1
<1>4. Min(bad) \in bad /\ \A i \in bad : Min(bad) <= i
  <2> HIDE DEF bad
  <2> QED  BY <1>2, <1>3, MinOfNats
<1> DEFINE k == Min(bad)
<1>5. k \in h .. Ttl /\ way[k] \notin kept
  BY <1>4
<1> HIDE DEF k
<1>6. k # h
  BY <1>5
<1>7. k - 1 \in h .. Ttl /\ k \in 1 .. Ttl
  BY <1>1, <1>5, <1>6
<1>8. k - 1 \notin bad
  <2> HIDE DEF bad
  <2> QED  BY <1>1, <1>4, <1>5 DEF k
<1>9. way[k - 1] \in kept
  BY <1>7, <1>8
<1>10. way[k] = RouteStep(ts, ns, way[k - 1], dst)
  BY <1>7, WaySteps
<1> QED  BY <1>5, <1>9, <1>10

(* Where the way has ended it does not go on, and where it comes back to a  *)
(* node it goes round.                                                      *)
LEMMA WayEnded ==
  ASSUME NEW ts, NEW ns, NEW src, NEW dst, NEW h \in 0 .. Ttl,
         RoutedWay(ts, ns, src, dst)[h] = {}
  PROVE  \A k \in h .. Ttl : RoutedWay(ts, ns, src, dst)[k] = {}
<1> DEFINE kept == {{}}
<1>1. RouteStep(ts, ns, {}, dst) = {}
  BY DEF RouteStep
<1>2. RoutedWay(ts, ns, src, dst)[h] \in kept /\ \A X \in kept : RouteStep(ts, ns, X, dst) \in kept
  BY <1>1
<1>3. \A k \in h .. Ttl : RoutedWay(ts, ns, src, dst)[k] \in kept
  <2> HIDE DEF kept
  <2> QED  BY <1>2, AlongWay
<1> QED  BY <1>3

LEMMA WayRound ==
  ASSUME NEW ts, NEW ns, NEW src, NEW dst, NEW h \in 0 .. Ttl, NEW j \in 0 .. h - 1,
         RoutedWay(ts, ns, src, dst)[h] = RoutedWay(ts, ns, src, dst)[j]
  PROVE  \A k \in h .. Ttl : \E i \in 0 .. h - 1 :
           RoutedWay(ts, ns, src, dst)[k] = RoutedWay(ts, ns, src, dst)[i]
<1> DEFINE way == RoutedWay(ts, ns, src, dst)
           seen == {way[i] : i \in j .. h - 1}
<1>1. Ttl \in Nat /\ h \in Nat /\ j \in Nat
  BY TopologyAssumption
<1>2. way[h] \in seen
  BY <1>1
<1>3. ASSUME NEW X \in seen PROVE RouteStep(ts, ns, X, dst) \in seen
  <2>1. PICK i \in j .. h - 1 : X = way[i]
    OBVIOUS
  <2>2. i + 1 \in 1 .. Ttl /\ (i + 1) - 1 = i
    BY <1>1
  <2>3. RouteStep(ts, ns, X, dst) = way[i + 1]
    BY <2>1, <2>2, WaySteps
  <2>4. CASE i + 1 = h
    BY <1>2, <2>3, <2>4
  <2>5. CASE i + 1 # h
    <3>1. i + 1 \in j .. h - 1
      BY <1>1, <2>5
    <3> QED  BY <2>3, <3>1
  <2> QED  BY <2>4, <2>5
<1>4. \A k \in h .. Ttl : way[k] \in seen
  <2> HIDE DEF seen
  <2> QED  BY <1>2, <1>3, AlongWay
<1> QED  BY <1>1, <1>4

--------------------------------------------------------------------------------
(***************************************************************************)
(* Packets are lost off their routes only.  Where the packet is, is where  *)
(* its routes lead and it has passed the nodes that lie before it, or its   *)
(* routes do not lead to the destination.                                  *)
(***************************************************************************)
Way == RoutedWay(tables, nodes, packet.src, packet.dst)

Hops == Ttl - packet.ttl

OnItsWay ==
  /\ Way[Hops] = {packet.at}
  /\ \A k \in 0 .. Hops - 1 : (\E n \in Names : Way[k] = {n}) /\ \A n \in Way[k] : ~Owns(n, packet.dst)
  /\ packet.visited = UNION {Way[k] : k \in 0 .. Hops - 1}

WayIInv ==
  Moving => /\ packet.ttl = Ttl => packet.visited = {}
            /\ OnItsWay \/ ~RoutesLead(packet.src, packet.dst)

(* What routes lead past the node where the packet is decides the rest.     *)
LEMMA Astray ==
  ASSUME SimTypes, Moving, OnItsWay, ~Owns(packet.at, packet.dst),
         \A k \in Hops + 1 .. Ttl : Way[k] = {} \/ \E i \in 0 .. Hops : Way[k] = Way[i]
  PROVE  ~RoutesLead(packet.src, packet.dst)
<1>1. Ttl \in Nat /\ packet.ttl \in 1 .. Ttl /\ Hops \in 0 .. Ttl - 1
  <2>1. packet.ttl \in 0 .. Ttl /\ packet.ttl >= 1 /\ Ttl \in Nat
    BY TopologyAssumption DEF SimTypes, Moving, Packet8
  <2> QED  BY <2>1 DEF Hops
<1>2. \A i \in 0 .. Hops : \A n \in Way[i] : ~Owns(n, packet.dst)
  <2> SUFFICES ASSUME NEW i \in 0 .. Hops, NEW n \in Way[i] PROVE ~Owns(n, packet.dst)
    OBVIOUS
  <2>1. CASE i = Hops
    BY <2>1 DEF OnItsWay
  <2>2. CASE i # Hops
    <3>1. i \in 0 .. Hops - 1
      BY <1>1, <2>2
    <3> QED  BY <3>1 DEF OnItsWay
  <2> QED  BY <2>1, <2>2
<1>3. ASSUME NEW k \in 0 .. Ttl - 1, NEW n \in Way[k] PROVE ~Owns(n, packet.dst)
  <2>1. CASE k <= Hops
    <3>1. k \in 0 .. Hops
      BY <1>1, <2>1
    <3> QED  BY <1>2, <1>3, <3>1
  <2>2. CASE ~ (k <= Hops)
    <3>1. k \in Hops + 1 .. Ttl
      BY <1>1, <2>2
    <3> QED  BY <1>2, <1>3, <3>1
  <2> QED  BY <2>1, <2>2
<1> QED  BY <1>3 DEF RoutesLead, Way

(* With its last hop a packet has been where the routes lead in time.       *)
LEMMA ExpiredAstray ==
  ASSUME SimTypes, Moving, OnItsWay \/ ~RoutesLead(packet.src, packet.dst),
         ~Owns(packet.at, packet.dst), packet.ttl = 1
  PROVE  ~RoutesLead(packet.src, packet.dst)
<1> SUFFICES ASSUME OnItsWay PROVE ~RoutesLead(packet.src, packet.dst)
  OBVIOUS
<1>1. Ttl \in Nat /\ Hops = Ttl - 1
  BY TopologyAssumption DEF Hops
<1>2. ASSUME NEW k \in 0 .. Ttl - 1, NEW n \in Way[k] PROVE ~Owns(n, packet.dst)
  <2>1. CASE k = Hops
    BY <1>2, <2>1 DEF OnItsWay
  <2>2. CASE k # Hops
    <3>1. k \in 0 .. Hops - 1
      BY <1>1, <2>2
    <3> QED  BY <1>2, <3>1 DEF OnItsWay
  <2> QED  BY <2>1, <2>2
<1> QED  BY <1>2 DEF RoutesLead, Way

LEMMA AstrayWithoutRoute ==
  ASSUME SimTypes, Moving, OnItsWay, ~Owns(packet.at, packet.dst),
         LET route == FindRoute(tables[packet.at], packet.dst.prefix)
         IN  route = NoRoute \/ route.next \notin nodes
  PROVE  ~RoutesLead(packet.src, packet.dst)
<1>1. Ttl \in Nat /\ packet.ttl \in Nat /\ Hops + 1 \in 1 .. Ttl /\ (Hops + 1) - 1 = Hops
      /\ Hops + 1 \in 0 .. Ttl
  <2>1. packet.ttl \in 0 .. Ttl /\ packet.ttl >= 1 /\ Ttl \in Nat
    BY TopologyAssumption DEF SimTypes, Moving, Packet8
  <2> QED  BY <2>1 DEF Hops
<1>2. Way[Hops + 1] = RouteStep(tables, nodes, Way[Hops], packet.dst)
  BY <1>1, WaySteps DEF Way
<1>3. Way[Hops + 1] = {}
  BY <1>2 DEF OnItsWay, RouteStep
<1>4. \A k \in Hops + 1 .. Ttl : Way[k] = {}
  BY <1>1, <1>3, WayEnded DEF Way
<1> QED  BY <1>4, Astray

LEMMA AstrayInLoop ==
  ASSUME SimTypes, Moving, OnItsWay, Revisited(packet.at)
  PROVE  ~RoutesLead(packet.src, packet.dst)
<1>1. Ttl \in Nat /\ Hops \in 0 .. Ttl
  <2>1. packet.ttl \in 0 .. Ttl /\ Ttl \in Nat
    BY TopologyAssumption DEF SimTypes, Moving, Packet8
  <2> QED  BY <2>1 DEF Hops
<1>2. PICK j \in 0 .. Hops - 1 : packet.at \in Way[j]
  BY DEF Revisited, OnItsWay
<1>3. Way[j] = {packet.at} /\ Way[Hops] = Way[j]
  BY <1>2 DEF OnItsWay
<1>4. \A k \in Hops .. Ttl : \E i \in 0 .. Hops - 1 : Way[k] = Way[i]
  <2> DEFINE h == Hops
  <2>1. h \in 0 .. Ttl /\ j \in 0 .. h - 1
    BY <1>1
  <2> HIDE DEF h
  <2>2. RoutedWay(tables, nodes, packet.src, packet.dst)[h]
          = RoutedWay(tables, nodes, packet.src, packet.dst)[j]
    BY <1>3 DEF Way, h
  <2>3. \A k \in h .. Ttl : \E i \in 0 .. h - 1 :
          RoutedWay(tables, nodes, packet.src, packet.dst)[k]
            = RoutedWay(tables, nodes, packet.src, packet.dst)[i]
    BY <2>1, <2>2, WayRound
  <2> QED  BY <2>3 DEF Way, h
<1>5. \A k \in Hops + 1 .. Ttl : \E i \in 0 .. Hops : Way[k] = Way[i]
  BY <1>1, <1>4
<1>6. ~Owns(packet.at, packet.dst)
  BY <1>2, <1>3 DEF OnItsWay
<1> QED  BY <1>5, <1>6, Astray
LEMMA WayStarts ==
  ASSUME SimTypes, NEW src \in Senders, NEW dst \in Destinations, SimSend(src, dst)
  PROVE  WayIInv'
<1>1. /\ packet'.src = src /\ packet'.dst = dst /\ packet'.ttl = Ttl /\ packet'.at = src
      /\ packet'.visited = {} /\ tables' = tables /\ nodes' = nodes
  BY SentPacket DEF SimSend
<1>2. Hops' = 0
  BY <1>1, TopologyAssumption DEF Hops
<1>3. Way' = RoutedWay(tables', nodes', src, dst)
  BY <1>1 DEF Way
<1>4. Way'[0] = {src}
  BY <1>3, WaySteps
<1>5. 0 .. 0 - 1 = {}
  OBVIOUS
<1>6. OnItsWay'
  BY <1>1, <1>2, <1>4, <1>5 DEF OnItsWay
<1> QED  BY <1>1, <1>6 DEF WayIInv

LEMMA WayFollowed ==
  ASSUME SimTypes, Moving, WayIInv, ~Owns(packet.at, packet.dst),
         UNCHANGED <<nodes, tables>>, NEW n, Hopped(n), packet'.fate = "moving",
         LET route == FindRoute(tables[packet.at], packet.dst.prefix)
         IN  route = NoRoute \/ (route.next \in nodes /\ route.next = n)
  PROVE  WayIInv'
<1> DEFINE route == FindRoute(tables[packet.at], packet.dst.prefix)
<1>1. /\ packet' \in Packet8 /\ packet'.ttl = packet.ttl - 1 /\ packet'.dst = packet.dst
      /\ packet.ttl > 1 /\ packet'.at = n /\ packet'.src = packet.src
      /\ packet'.visited = packet.visited \union {packet.at} /\ n \in Names
  BY HoppedPacket DEF Hopped
<1>2. /\ packet.ttl \in 1 .. Ttl /\ Ttl \in Nat /\ Hops' = Hops + 1 /\ Hops + 1 \in 1 .. Ttl
      /\ Hops \in Nat /\ (Hops + 1) - 1 = Hops /\ packet'.ttl # Ttl
      /\ packet.at \in Names
  <2>1. packet.ttl \in 0 .. Ttl /\ packet.ttl >= 1 /\ Ttl \in Nat /\ packet.at \in Names
    BY TopologyAssumption DEF SimTypes, Moving, Packet8
  <2> QED  BY <1>1, <2>1 DEF Hops
<1>3. Way' = Way
  BY <1>1 DEF Way
<1>4. CASE ~RoutesLead(packet.src, packet.dst)
  <2>1. ~RoutesLead(packet.src, packet.dst)'
    BY <1>1, <1>4 DEF RoutesLead, Owns
  <2> QED  BY <1>2, <2>1 DEF WayIInv
<1>5. CASE OnItsWay /\ route = NoRoute
  <2>1. ~RoutesLead(packet.src, packet.dst)
    BY <1>5, AstrayWithoutRoute
  <2> QED  BY <1>4, <2>1
<1>6. CASE OnItsWay /\ route # NoRoute
  <2>1. Way[Hops + 1] = RouteStep(tables, nodes, Way[Hops], packet.dst)
    <3>1. \A k \in 1 .. Ttl : Way[k] = RouteStep(tables, nodes, Way[k - 1], packet.dst)
      BY WaySteps DEF Way
    <3>2. Hops + 1 \in 1 .. Ttl /\ (Hops + 1) - 1 = Hops
      BY <1>2
    <3> QED  BY <3>1, <3>2
  <2>2. Way[Hops + 1] = {n}
    <3>1. Way[Hops] = {packet.at} /\ route.next \in nodes /\ route.next = n
      BY <1>6 DEF OnItsWay
    <3> QED  BY <2>1, <3>1, <1>6 DEF RouteStep
  <2>3. ASSUME NEW k \in 0 .. Hops
        PROVE  (\E m \in Names : Way[k] = {m}) /\ \A m \in Way[k] : ~Owns(m, packet.dst)
    <3>1. CASE k = Hops
      BY <1>2, <1>6, <3>1 DEF OnItsWay
    <3>2. CASE k # Hops
      <4>1. k \in 0 .. Hops - 1
        BY <1>2, <3>2
      <4> QED  BY <1>6, <4>1 DEF OnItsWay
    <3> QED  BY <3>1, <3>2
  <2>4. packet.visited \union {packet.at} = UNION {Way[k] : k \in 0 .. Hops}
    <3>1. 0 .. Hops = (0 .. Hops - 1) \union {Hops}
      BY <1>2
    <3> QED  BY <1>6, <3>1 DEF OnItsWay
  <2>5. OnItsWay'
    BY <1>1, <1>2, <1>3, <2>2, <2>3, <2>4 DEF OnItsWay, Owns
  <2> QED  BY <1>2, <2>5 DEF WayIInv
<1> QED  BY <1>4, <1>5, <1>6 DEF WayIInv

LEMMA WayKeeps ==
  ASSUME SimTypes, WayIInv, [SimNext]_simVars
  PROVE  WayIInv'
<1>1. CASE Change
  BY <1>1 DEF Change, WayIInv, Moving
<1>2. CASE Forward
  <2>1. Moving /\ UNCHANGED <<nodes, tables>>
    BY <1>2 DEF Forward
  <2>2. CASE packet'.fate = "moving"
    <3>1. ASSUME NEW fate, Dropped(fate) PROVE FALSE
      BY <2>1, <2>2, <3>1, DroppedPacket DEF Dropped
    <3>2. ASSUME NEW n, Handed(n) PROVE FALSE
      BY <2>1, <2>2, <3>2, HandedPacket
    <3>3. /\ ~Owns(packet.at, packet.dst)
          /\ LET route == FindRoute(tables[packet.at], packet.dst.prefix)
             IN  \E n : Hopped(n) /\ (route = NoRoute \/ (route.next \in nodes /\ route.next = n))
      BY <1>2, <3>1, <3>2, ForwardOutcomes
    <3> QED  BY <2>1, <2>2, <3>3, WayFollowed
  <2>3. CASE packet'.fate # "moving"
    BY <2>3 DEF WayIInv, Moving
  <2> QED  BY <2>2, <2>3
<1>3. CASE UNCHANGED simVars
  BY <1>3 DEF simVars, WayIInv, Moving, OnItsWay, Way, Hops, RoutesLead, Owns
<1> QED  BY <1>1, <1>2, <1>3, WayStarts DEF SimNext

(* A packet that ends otherwise than with its addressee.                    *)
LEMMA LostOffRoute ==
  ASSUME SimTypes, WayIInv, Forward, packet'.fate \notin {"moving", "delivered"}
  PROVE  /\ ~RoutesLead(packet.src, packet.dst)
         /\ packet'.fate = "no route" => FindRoute(tables[packet.at], packet.dst.prefix) = NoRoute
         /\ packet'.fate = "unknown node" =>
              FindRoute(tables[packet.at], packet.dst.prefix).next \notin nodes
         /\ packet'.fate = "loop" => packet.ttl < Ttl
<1> DEFINE route == FindRoute(tables[packet.at], packet.dst.prefix)
<1>1. Moving /\ (OnItsWay \/ ~RoutesLead(packet.src, packet.dst))
  BY DEF Forward, WayIInv
<1>2. packet.ttl \in 1 .. Ttl /\ Ttl \in Nat
  <2>1. packet.ttl \in 0 .. Ttl /\ packet.ttl >= 1 /\ Ttl \in Nat
    BY <1>1, TopologyAssumption DEF SimTypes, Moving, Packet8
  <2> QED  BY <2>1
<1>3. CASE Revisited(packet.at) /\ Dropped("loop")
  <2>1. packet'.fate = "loop"
    BY <1>1, <1>3, DroppedPacket
  <2>2. packet.ttl # Ttl
    BY <1>1, <1>3 DEF WayIInv, Revisited
  <2>3. ~RoutesLead(packet.src, packet.dst)
    BY <1>1, <1>3, AstrayInLoop
  <2> QED  BY <1>2, <2>1, <2>2, <2>3
<1>4. ASSUME NEW n, Handed(n) PROVE FALSE
  BY <1>1, <1>4, HandedPacket
<1>5. CASE ~Owns(packet.at, packet.dst) /\ route = NoRoute
           /\ (Dropped("no route") \/ \E n \in Names : Hopped(n))
  <2>1. ~RoutesLead(packet.src, packet.dst)
    BY <1>1, <1>5, AstrayWithoutRoute
  <2>2. packet'.fate \in {"no route", "expired"}
    BY <1>1, <1>5, DroppedPacket, HoppedPacket
  <2> QED  BY <1>5, <2>1, <2>2
<1>6. CASE ~Owns(packet.at, packet.dst) /\ route.next \notin nodes /\ Dropped("unknown node")
  <2>1. ~RoutesLead(packet.src, packet.dst)
    BY <1>1, <1>6, AstrayWithoutRoute
  <2>2. packet'.fate = "unknown node"
    BY <1>1, <1>6, DroppedPacket
  <2> QED  BY <1>6, <2>1, <2>2
<1>7. CASE ~Owns(packet.at, packet.dst) /\ Hopped(route.next)
  <2>1. packet'.fate = "expired" /\ packet.ttl = 1
    BY <1>1, <1>7, HoppedPacket
  <2>2. ~RoutesLead(packet.src, packet.dst)
    BY <1>1, <1>7, <2>1, ExpiredAstray
  <2> QED  BY <2>1, <2>2
<1> QED  BY <1>3, <1>4, <1>5, <1>6, <1>7, ForwardOutcomes

(* Whatever the routes, the links and the changes before it was sent: a packet *)
(* that its routes lead to the destination in time is not lost, and one that   *)
(* is lost says why.                                                         *)
THEOREM PacketsKeepTheirRoutes == SimSpec => LostOnlyOffRoute
<1>1. SimInit => WayIInv
  BY DEF SimInit, WayIInv, Moving
<1>2. SimSpec => []WayIInv
  BY <1>1, WayKeeps, SimInvariant, PTL DEF SimSpec
<1>3. SimTypes /\ WayIInv /\ [SimNext]_simVars =>
        [packet' # packet /\ Moving /\ packet'.fate \notin {"moving", "delivered"} =>
           /\ ~RoutesLead(packet.src, packet.dst)
           /\ packet'.fate = "no route" => FindRoute(tables[packet.at], packet.dst.prefix) = NoRoute
           /\ packet'.fate = "unknown node" =>
                FindRoute(tables[packet.at], packet.dst.prefix).next \notin nodes
           /\ packet'.fate = "loop" => packet.ttl < Ttl]_simVars
  BY LostOffRoute DEF SimNext, Change, SimSend, simVars
<1> QED  BY <1>2, <1>3, SimInvariant, PTL DEF SimSpec, LostOnlyOffRoute
--------------------------------------------------------------------------------
(***************************************************************************)
(* Traceroute.  A probe walks the way packets take, and ends where the way *)
(* ends or closes.                                                         *)
(***************************************************************************)
Far == Len(RouterOrder) + startTtl + MaxHops

NextOn(r) == IF r \notin Known \/ At(r) THEN NoRouter ELSE Lookup(r, target)

LEMMA OnWayExists ==
  ASSUME NEW n \in Nat
  PROVE  \E w : w = [k \in 0 .. n |-> IF k = 0 THEN FindRouterFor(source) ELSE NextOn(w[k - 1])]
<1> DEFINE s0 == FindRouterFor(source)
           Fits(w, i) == w = [k \in 0 .. i |-> IF k = 0 THEN s0 ELSE NextOn(w[k - 1])]
           bad == {i \in Nat : ~ \E w : Fits(w, i)}
<1>1. SUFFICES ASSUME bad # {} PROVE FALSE
  OBVIOUS
<1>2. Min(bad) \in bad /\ \A i \in bad : Min(bad) <= i
  <2> HIDE DEF Fits
  <2>1. bad \subseteq Nat
    OBVIOUS
  <2> HIDE DEF bad
  <2> QED  BY <1>1, <2>1, MinOfNats
<1> DEFINE m == Min(bad)
<1>3. m \in Nat /\ ~ \E w : Fits(w, m)
  BY <1>2
<1>4. CASE m = 0
  <2> DEFINE w == [k \in 0 .. 0 |-> s0]
  <2>1. Fits(w, 0)
    <3> HIDE DEF s0
    <3> QED  OBVIOUS
  <2> HIDE DEF w, Fits
  <2> QED  BY <1>3, <1>4, <2>1
<1>5. CASE m # 0
  <2>1. m - 1 \in Nat /\ m - 1 \notin bad
    <3> HIDE DEF bad, m
    <3>1. \A i \in bad : m <= i
      BY <1>2 DEF m
    <3> QED  BY <1>3, <1>5, <3>1
  <2>2. PICK w : Fits(w, m - 1)
    BY <2>1
  <2> DEFINE v == [k \in 0 .. m |-> IF k = m THEN NextOn(w[m - 1]) ELSE w[k]]
  <2> HIDE DEF s0, m, bad
  <2>3. ASSUME NEW k \in 0 .. m
        PROVE  v[k] = IF k = 0 THEN s0 ELSE NextOn(v[k - 1])
    <3>1. CASE k = 0
      <4>1. k # m /\ k \in 0 .. m - 1
        BY <1>3, <1>5, <2>1, <3>1
      <4> QED  BY <2>2, <3>1, <4>1
    <3>2. CASE k = m
      <4>1. k - 1 \in 0 .. m /\ k - 1 # m /\ k # 0
        BY <1>3, <1>5, <3>2
      <4>2. v[k] = NextOn(w[k - 1]) /\ v[k - 1] = w[k - 1]
        BY <3>2, <4>1
      <4> QED  BY <4>1, <4>2
    <3>3. CASE k # 0 /\ k # m
      <4>1. k \in 0 .. m - 1 /\ k - 1 \in 0 .. m /\ k - 1 # m
        BY <1>3, <3>3
      <4>2. v[k] = w[k] /\ v[k - 1] = w[k - 1]
        BY <3>3, <4>1
      <4>3. w[k] = NextOn(w[k - 1])
        BY <2>2, <3>3, <4>1
      <4> QED  BY <3>3, <4>2, <4>3
    <3> QED  BY <3>1, <3>2, <3>3
  <2>4. v = [k \in 0 .. m |-> v[k]]
    OBVIOUS
  <2> HIDE DEF v
  <2>5. Fits(v, m)
    BY <2>3, <2>4
  <2> HIDE DEF Fits
  <2> QED  BY <1>3, <2>5
<1> QED  BY <1>4, <1>5

LEMMA OnWayIs ==
  startTtl \in Nat => OnWay = [k \in 0 .. Far |-> IF k = 0 THEN FindRouterFor(source)
                                                  ELSE NextOn(OnWay[k - 1])]
<1> SUFFICES ASSUME startTtl \in Nat
             PROVE  OnWay = [k \in 0 .. Far |-> IF k = 0 THEN FindRouterFor(source)
                                                ELSE NextOn(OnWay[k - 1])]
  OBVIOUS
<1> DEFINE Fits(w) == w = [k \in 0 .. Far |-> IF k = 0 THEN FindRouterFor(source)
                                              ELSE NextOn(w[k - 1])]
<1>1. Far \in Nat
  BY Traceroute8Assumption DEF Far
<1>2. \E w : Fits(w)
  BY <1>1, OnWayExists
<1>3. OnWay = CHOOSE w : Fits(w)
  BY DEF OnWay, NextOn, Far
<1> HIDE DEF Fits
<1>4. Fits(OnWay)
  BY <1>2, <1>3
<1> QED  BY <1>4 DEF Fits

LEMMA OnWaySteps ==
  ASSUME startTtl \in Nat
  PROVE  /\ Far \in Nat /\ Far >= startTtl + MaxHops + 4
         /\ OnWay[0] = FindRouterFor(source)
         /\ \A k \in 1 .. Far : OnWay[k] = NextOn(OnWay[k - 1])
<1>1. Far \in Nat /\ Far >= startTtl + MaxHops + 4
  BY Traceroute8Assumption, LenProperties DEF Far
<1>2. ASSUME NEW k \in 0 .. Far
      PROVE  OnWay[k] = IF k = 0 THEN FindRouterFor(source) ELSE NextOn(OnWay[k - 1])
  <2> DEFINE w == OnWay
  <2>1. w = [j \in 0 .. Far |-> IF j = 0 THEN FindRouterFor(source) ELSE NextOn(w[j - 1])]
    BY OnWayIs
  <2> HIDE DEF w
  <2>2. w[k] = IF k = 0 THEN FindRouterFor(source) ELSE NextOn(w[k - 1])
    BY <2>1
  <2> QED  BY <2>2 DEF w
<1>3. OnWay[0] = FindRouterFor(source)
  BY <1>1, <1>2
<1>4. ASSUME NEW k \in 1 .. Far PROVE OnWay[k] = NextOn(OnWay[k - 1])
  <2>1. k \in 0 .. Far /\ k # 0
    OBVIOUS
  <2> QED  BY <1>2, <2>1
<1> QED  BY <1>1, <1>3, <1>4

LEMMA OnWayStays ==
  ASSUME startTtl \in Nat, UNCHANGED <<routesOf, source, target, startTtl>>
  PROVE  OnWay' = OnWay
BY DEF OnWay, FindRouterFor, Lookup, At, Known
(* What holds of one place of the way and is kept from each to the next,    *)
(* holds from there on.                                                     *)
LEMMA AlongOnWay ==
  ASSUME startTtl \in Nat, NEW h \in 0 .. Far, NEW kept,
         OnWay[h] \in kept, \A r \in kept : NextOn(r) \in kept
  PROVE  \A k \in h .. Far : OnWay[k] \in kept
<1> DEFINE bad == {k \in h .. Far : OnWay[k] \notin kept}
<1>1. Far \in Nat /\ h \in Nat /\ \A k \in 1 .. Far : OnWay[k] = NextOn(OnWay[k - 1])
  BY OnWaySteps
<1>2. SUFFICES ASSUME bad # {} PROVE FALSE
  OBVIOUS
<1>3. bad \subseteq Nat
  BY <1>1
<1>4. Min(bad) \in bad /\ \A i \in bad : Min(bad) <= i
  <2> HIDE DEF bad
  <2> QED  BY <1>2, <1>3, MinOfNats
<1> DEFINE k == Min(bad)
<1>5. k \in h .. Far /\ OnWay[k] \notin kept
  BY <1>4
<1>6. k # h
  BY <1>5
<1>7. k - 1 \in h .. Far /\ k - 1 \notin bad /\ k \in 1 .. Far
  <2> HIDE DEF k, bad
  <2>1. \A i \in bad : k <= i
    BY <1>4 DEF k
  <2> QED  BY <1>1, <1>5, <1>6, <2>1
<1>8. OnWay[k - 1] \in kept
  BY <1>7
<1> HIDE DEF k, bad
<1> QED  BY <1>1, <1>5, <1>7, <1>8

(* The places before the m-th, which are all different, known and not the   *)
(* target; and what it takes for a walk to end at the m-th.                 *)
Before(m) == {OnWay[k] : k \in 0 .. m - 1}

Fresh(m) == \A k \in 0 .. m - 1 : OnWay[k] \in Known /\ ~At(OnWay[k]) /\ OnWay[k] \notin Before(k)

EndsFor(why, m) ==
  \/ why = "on"
  \/ why = "loop" /\ OnWay[m] \in Before(m)
  \/ why = "unknown" /\ OnWay[m] \notin Known
  \/ why = "reached" /\ OnWay[m] \in Known /\ At(OnWay[m])
  \/ /\ why = "unreachable" /\ OnWay[m] \in Known /\ ~At(OnWay[m])
     /\ OnWay[m + 1] = NoRouter

Stands(w, m, why) ==
  w = [at |-> OnWay[m], passed |-> Before(m), end |-> why] /\ Fresh(m) /\ EndsFor(why, m)

WalkTells(w, n) ==
  \E m \in 0 .. n, why \in {"on", "loop", "unknown", "reached", "unreachable"} :
    Stands(w, m, why) /\ ((why = "on") = (m = n))

LEMMA WalkStarts == WalkTells([at |-> OnWay[0], passed |-> {}, end |-> "on"], 0)
<1>1. Before(0) = {} /\ Fresh(0) /\ EndsFor("on", 0)
  BY DEF Before, Fresh, EndsFor
<1> QED  BY <1>1 DEF WalkTells, Stands

LEMMA WalkGoesOn ==
  ASSUME startTtl \in Nat, NEW n \in Nat, n + 1 <= Far, NEW w, WalkTells(w, n)
  PROVE  WalkTells(Step(w), n + 1)
<1>1. PICK m \in 0 .. n, why \in {"on", "loop", "unknown", "reached", "unreachable"} :
        Stands(w, m, why) /\ ((why = "on") = (m = n))
  BY DEF WalkTells
<1>2. CASE why # "on"
  <2>1. Step(w) = w
    BY <1>1, <1>2 DEF Step, Stands
  <2>2. m \in 0 .. n + 1 /\ m # n + 1
    OBVIOUS
  <2> QED  BY <1>1, <1>2, <2>1, <2>2 DEF WalkTells
<1>3. CASE why = "on"
  <2>1. m = n /\ w.end = "on" /\ w.at = OnWay[n] /\ w.passed = Before(n) /\ Fresh(n)
        /\ w = [at |-> OnWay[n], passed |-> Before(n), end |-> "on"]
    BY <1>1, <1>3 DEF Stands
  <2>2. OnWay[n + 1] = NextOn(OnWay[n])
    <3>1. n + 1 \in 1 .. Far /\ (n + 1) - 1 = n
      BY OnWaySteps
    <3> QED  BY <3>1, OnWaySteps
  <2>3. ASSUME NEW e \in {"loop", "unknown", "reached", "unreachable"}, EndsFor(e, n),
               Step(w) = [at |-> OnWay[n], passed |-> Before(n), end |-> e]
        PROVE  WalkTells(Step(w), n + 1)
    <3>1. n \in 0 .. n + 1 /\ n # n + 1 /\ e # "on"
      OBVIOUS
    <3> QED  BY <2>1, <2>3, <3>1 DEF WalkTells, Stands
  <2>4. CASE OnWay[n] \in Before(n)
    BY <2>1, <2>3, <2>4 DEF Step, EndsFor
  <2>5. CASE OnWay[n] \notin Before(n) /\ OnWay[n] \notin Known
    BY <2>1, <2>3, <2>5 DEF Step, EndsFor
  <2>6. CASE OnWay[n] \notin Before(n) /\ OnWay[n] \in Known /\ At(OnWay[n])
    BY <2>1, <2>3, <2>6 DEF Step, EndsFor
  <2>7. CASE OnWay[n] \notin Before(n) /\ OnWay[n] \in Known /\ ~At(OnWay[n])
    <3>1. OnWay[n + 1] = Lookup(OnWay[n], target)
      BY <2>2, <2>7 DEF NextOn
    <3>2. CASE OnWay[n + 1] = NoRouter
      BY <2>1, <2>3, <2>7, <3>1, <3>2 DEF Step, EndsFor
    <3>3. CASE OnWay[n + 1] # NoRouter
      <4>1. Step(w) = [at |-> OnWay[n + 1], passed |-> Before(n) \union {OnWay[n]}, end |-> "on"]
        BY <2>1, <2>7, <3>1, <3>3 DEF Step
      <4>2. 0 .. (n + 1) - 1 = (0 .. n - 1) \union {n}
        OBVIOUS
      <4>3. Before(n + 1) = Before(n) \union {OnWay[n]}
        BY <4>2 DEF Before
      <4>4. Fresh(n + 1)
        BY <2>1, <2>7, <4>2 DEF Fresh
      <4>5. Stands(Step(w), n + 1, "on")
        BY <4>1, <4>3, <4>4 DEF Stands, EndsFor
      <4>6. n + 1 \in 0 .. n + 1
        OBVIOUS
      <4> QED  BY <4>5, <4>6 DEF WalkTells
    <3> QED  BY <3>2, <3>3
  <2> QED  BY <2>4, <2>5, <2>6, <2>7
<1> QED  BY <1>2, <1>3

LEMMA WalkExists ==
  ASSUME NEW n \in Nat
  PROVE  \E w : w = [k \in 0 .. n |->
                       IF k = 0 THEN [at |-> FindRouterFor(source), passed |-> {}, end |-> "on"]
                       ELSE Step(w[k - 1])]
<1> DEFINE s0 == [at |-> FindRouterFor(source), passed |-> {}, end |-> "on"]
           Fits(w, i) == w = [k \in 0 .. i |-> IF k = 0 THEN s0 ELSE Step(w[k - 1])]
           bad == {i \in Nat : ~ \E w : Fits(w, i)}
<1>1. SUFFICES ASSUME bad # {} PROVE FALSE
  OBVIOUS
<1>2. Min(bad) \in bad /\ \A i \in bad : Min(bad) <= i
  <2> HIDE DEF Fits
  <2>1. bad \subseteq Nat
    OBVIOUS
  <2> HIDE DEF bad
  <2> QED  BY <1>1, <2>1, MinOfNats
<1> DEFINE m == Min(bad)
<1>3. m \in Nat /\ ~ \E w : Fits(w, m)
  BY <1>2
<1>4. CASE m = 0
  <2> DEFINE w == [k \in 0 .. 0 |-> s0]
  <2>1. Fits(w, 0)
    <3> HIDE DEF s0
    <3> QED  OBVIOUS
  <2> HIDE DEF w, Fits
  <2> QED  BY <1>3, <1>4, <2>1
<1>5. CASE m # 0
  <2>1. m - 1 \in Nat /\ m - 1 \notin bad
    <3> HIDE DEF bad, m
    <3>1. \A i \in bad : m <= i
      BY <1>2 DEF m
    <3> QED  BY <1>3, <1>5, <3>1
  <2>2. PICK w : Fits(w, m - 1)
    BY <2>1
  <2> DEFINE v == [k \in 0 .. m |-> IF k = m THEN Step(w[m - 1]) ELSE w[k]]
  <2> HIDE DEF s0, m, bad
  <2>3. ASSUME NEW k \in 0 .. m
        PROVE  v[k] = IF k = 0 THEN s0 ELSE Step(v[k - 1])
    <3>1. CASE k = 0
      <4>1. k # m /\ k \in 0 .. m - 1
        BY <1>3, <1>5, <2>1, <3>1
      <4> QED  BY <2>2, <3>1, <4>1
    <3>2. CASE k = m
      <4>1. k - 1 \in 0 .. m /\ k - 1 # m /\ k # 0
        BY <1>3, <1>5, <3>2
      <4>2. v[k] = Step(w[k - 1]) /\ v[k - 1] = w[k - 1]
        BY <3>2, <4>1
      <4> QED  BY <4>1, <4>2
    <3>3. CASE k # 0 /\ k # m
      <4>1. k \in 0 .. m - 1 /\ k - 1 \in 0 .. m /\ k - 1 # m
        BY <1>3, <3>3
      <4>2. v[k] = w[k] /\ v[k - 1] = w[k - 1]
        BY <3>3, <4>1
      <4>3. w[k] = Step(w[k - 1])
        BY <2>2, <3>3, <4>1
      <4> QED  BY <3>3, <4>2, <4>3
    <3> QED  BY <3>1, <3>2, <3>3
  <2>4. v = [k \in 0 .. m |-> v[k]]
    OBVIOUS
  <2> HIDE DEF v
  <2>5. Fits(v, m)
    BY <2>3, <2>4
  <2> HIDE DEF Fits
  <2> QED  BY <1>3, <2>5
<1> QED  BY <1>4, <1>5

LEMMA WalkedTells ==
  ASSUME startTtl \in Nat, NEW n \in Nat, n <= Far
  PROVE  WalkTells(Walk(n), n)
<1> DEFINE s0 == [at |-> FindRouterFor(source), passed |-> {}, end |-> "on"]
           Fits(w) == w = [k \in 0 .. n |-> IF k = 0 THEN s0 ELSE Step(w[k - 1])]
           w == CHOOSE v : Fits(v)
           bad == {k \in 0 .. n : ~WalkTells(w[k], k)}
<1>1. Walk(n) = w[n]
  BY DEF Walk
<1>2. w = [k \in 0 .. n |-> IF k = 0 THEN s0 ELSE Step(w[k - 1])]
  <2> HIDE DEF s0
  <2>1. \E v : Fits(v)
    BY WalkExists DEF s0
  <2> HIDE DEF Fits
  <2>2. Fits(w)
    BY <2>1
  <2> QED  BY <2>2 DEF Fits
<1> HIDE DEF w
<1>3. SUFFICES ASSUME bad # {} PROVE FALSE
  BY <1>1
<1>4. bad \subseteq Nat
  OBVIOUS
<1>5. Min(bad) \in bad /\ \A i \in bad : Min(bad) <= i
  <2> HIDE DEF bad
  <2> QED  BY <1>3, <1>4, MinOfNats
<1> DEFINE k == Min(bad)
<1>6. k \in 0 .. n /\ ~WalkTells(w[k], k)
  BY <1>5
<1>7. k # 0
  <2>1. w[0] = s0
    <3>1. 0 \in 0 .. n
      OBVIOUS
    <3> HIDE DEF s0
    <3> QED  BY <1>2, <3>1
  <2>2. s0 = [at |-> OnWay[0], passed |-> {}, end |-> "on"]
    BY OnWaySteps
  <2> HIDE DEF k, bad
  <2> QED  BY <1>6, <2>1, <2>2, WalkStarts
<1>8. k - 1 \in 0 .. n /\ k - 1 \notin bad
  <2> HIDE DEF k, bad
  <2>1. \A i \in bad : k <= i
    BY <1>5 DEF k
  <2> QED  BY <1>6, <1>7, <2>1
<1>9. WalkTells(w[k - 1], k - 1)
  BY <1>8
<1> HIDE DEF k, bad
<1>10. w[k] = Step(w[k - 1])
  <2> HIDE DEF s0
  <2> QED  BY <1>2, <1>6, <1>7
<1>11. k - 1 \in Nat /\ (k - 1) + 1 = k /\ k <= Far
  BY <1>6, <1>8, OnWaySteps
<1>12. WalkTells(w[k], k)
  BY <1>9, <1>10, <1>11, WalkGoesOn
<1> QED  BY <1>6, <1>12
ProbeTells(w, n) ==
  \E m \in 0 .. n, why \in {"on", "loop", "unknown", "reached", "unreachable"} :
    /\ Stands(w, m, why)
    /\ why = "on" => m = n /\ OnWay[n] \in Known /\ ~At(OnWay[n])
    /\ why = "loop" => m < n

LEMMA ArrivedTells ==
  ASSUME startTtl \in Nat, NEW n \in Nat, n <= Far
  PROVE  ProbeTells(Arrived(Walk(n)), n)
<1> DEFINE w == Walk(n)
<1>1. PICK m \in 0 .. n, why \in {"on", "loop", "unknown", "reached", "unreachable"} :
        Stands(w, m, why) /\ ((why = "on") = (m = n))
  BY WalkedTells DEF WalkTells
<1> SUFFICES ProbeTells(Arrived(w), n)
  OBVIOUS
<1> HIDE DEF w
<1>2. CASE why # "on"
  <2>1. Arrived(w) = w
    BY <1>1, <1>2 DEF Arrived, Stands
  <2>2. m < n
    BY <1>1, <1>2
  <2> QED  BY <1>1, <1>2, <2>1, <2>2 DEF ProbeTells
<1>3. CASE why = "on"
  <2>1. m = n /\ Fresh(n) /\ w = [at |-> OnWay[n], passed |-> Before(n), end |-> "on"]
    BY <1>1, <1>3 DEF Stands
  <2>2. ASSUME NEW e \in {"on", "unknown", "reached"}, EndsFor(e, n),
               Arrived(w) = [at |-> OnWay[n], passed |-> Before(n), end |-> e],
               e = "on" => OnWay[n] \in Known /\ ~At(OnWay[n])
        PROVE  ProbeTells(Arrived(w), n)
    <3>1. n \in 0 .. n
      OBVIOUS
    <3> QED  BY <2>1, <2>2, <3>1 DEF ProbeTells, Stands
  <2>3. CASE OnWay[n] \notin Known
    BY <2>1, <2>2, <2>3 DEF Arrived, EndsFor
  <2>4. CASE OnWay[n] \in Known /\ At(OnWay[n])
    BY <2>1, <2>2, <2>4 DEF Arrived, EndsFor
  <2>5. CASE OnWay[n] \in Known /\ ~At(OnWay[n])
    BY <2>1, <2>2, <2>5 DEF Arrived, EndsFor
  <2> QED  BY <2>3, <2>4, <2>5
<1> QED  BY <1>2, <1>3

(* While a trace goes on every probe so far died on its way, each a router  *)
(* further; when it ended, its last probe stood where the way gives out.    *)
Outs == {"loop", "unknown", "reached", "unreachable"}

Heard(n) == Fresh(n) /\ OnWay[n] \in Known /\ ~At(OnWay[n])

HopsTold ==
  /\ hops \in Seq([ttl : Nat, router : Known])
  /\ \A i \in DOMAIN hops :
       /\ hops[i].ttl = startTtl + i - 1
       /\ i < Len(hops) \/ ended \notin {"reached", "unreachable"} =>
            hops[i].router = OnWay[startTtl + i - 1] /\ ~At(hops[i].router)
            /\ Fresh(startTtl + i - 1)

WhyEnded ==
  ended \in Outs =>
    /\ ttl > startTtl
    /\ \E m \in 0 .. ttl - 1 :
         /\ Fresh(m) /\ EndsFor(ended, m) /\ (ended = "loop" => m < ttl - 1)
         /\ ended \in {"reached", "unreachable"} =>
              Len(hops) = ttl - startTtl /\ hops[Len(hops)].router = OnWay[m]

TraceIInv ==
  /\ startTtl \in Nat /\ ttl \in startTtl .. startTtl + MaxHops
  /\ ended \in {"no", "not reached"} \cup Outs
  /\ ended \in {"no", "not reached"} =>
       Len(hops) = ttl - startTtl /\ (ttl = startTtl \/ Heard(ttl - 1))
  /\ ended = "not reached" => ttl = startTtl + MaxHops
  /\ HopsTold
  /\ WhyEnded

LEMMA TraceStart == TraceInit => TraceIInv
<1> SUFFICES ASSUME TraceInit PROVE TraceIInv
  OBVIOUS
<1>1. startTtl \in Nat /\ ttl = startTtl /\ hops = << >> /\ ended = "no"
  BY Traceroute8Assumption DEF TraceInit
<1>2. hops \in Seq([ttl : Nat, router : Known]) /\ DOMAIN hops = {} /\ Len(hops) = 0
  BY <1>1
<1> QED  BY <1>1, <1>2, Traceroute8Assumption DEF TraceIInv, HopsTold, WhyEnded, Outs

LEMMA ProbeKeeps ==
  ASSUME TraceIInv, Probe
  PROVE  TraceIInv'
<1> DEFINE w == Arrived(Walk(ttl))
           n == ttl - startTtl
<1>1. /\ ended = "no" /\ ttl < startTtl + MaxHops /\ ttl' = ttl + 1
      /\ UNCHANGED <<routesOf, source, target, startTtl>>
      /\ hops' = IF Answered(w) THEN Append(hops, [ttl |-> ttl, router |-> w.at]) ELSE hops
      /\ ended' = IF w.end = "on" THEN "no" ELSE w.end
  BY DEF Probe
<1>2. /\ startTtl \in Nat /\ ttl \in Nat /\ ttl >= startTtl /\ MaxHops \in Nat /\ n \in Nat
      /\ ttl <= Far /\ Len(hops) = n
      /\ hops \in Seq([ttl : Nat, router : Known])
  BY <1>1, OnWaySteps, Traceroute8Assumption DEF TraceIInv, HopsTold
<1>3. PICK m \in 0 .. ttl, why \in {"on", "loop", "unknown", "reached", "unreachable"} :
        /\ Stands(w, m, why)
        /\ why = "on" => m = ttl /\ OnWay[ttl] \in Known /\ ~At(OnWay[ttl])
        /\ why = "loop" => m < ttl
  BY <1>2, ArrivedTells DEF ProbeTells
<1>4. w.at = OnWay[m] /\ w.end = why /\ Fresh(m) /\ EndsFor(why, m)
  BY <1>3 DEF Stands
<1> HIDE DEF w
<1>5. /\ OnWay' = OnWay /\ \A k : Before(k)' = Before(k) /\ (Fresh(k) => Fresh(k)')
      /\ \A r : At(r)' = At(r)
  <2>1. OnWay' = OnWay
    BY <1>1, <1>2, OnWayStays
  <2>2. \A r : At(r)' = At(r)
    BY <1>1 DEF At
  <2>3. \A k : Before(k)' = Before(k)
    BY <2>1 DEF Before
  <2> QED  BY <2>1, <2>2, <2>3 DEF Fresh, Known
<1>6. \A k, e : EndsFor(e, k) => EndsFor(e, k)'
  BY <1>5 DEF EndsFor, Known
<1>7. Answered(w) <=> why \in {"on", "reached", "unreachable"}
  BY <1>4 DEF Answered
<1>8. CASE Answered(w)
  <2>1. hops' = Append(hops, [ttl |-> ttl, router |-> w.at])
    BY <1>1, <1>8
  <2>2. w.at \in Known
    BY <1>3, <1>4, <1>7, <1>8 DEF EndsFor
  <2>3. /\ hops' \in Seq([ttl : Nat, router : Known])
        /\ Len(hops') = n + 1 /\ DOMAIN hops = 1 .. n /\ DOMAIN hops' = 1 .. n + 1
        /\ hops'[n + 1] = [ttl |-> ttl, router |-> w.at]
        /\ \A i \in 1 .. n : hops'[i] = hops[i]
    BY <1>2, <2>1, <2>2
  <2>4. ASSUME NEW i \in DOMAIN hops'
        PROVE  /\ hops'[i].ttl = startTtl + i - 1
               /\ i < Len(hops') \/ ended' \notin {"reached", "unreachable"} =>
                    hops'[i].router = OnWay[startTtl + i - 1] /\ ~At(hops'[i].router)
                    /\ Fresh(startTtl + i - 1)
    <3>1. CASE i \in 1 .. n
      <4>1. i \in DOMAIN hops /\ hops'[i] = hops[i]
        BY <2>3, <3>1
      <4> QED  BY <1>1, <4>1 DEF TraceIInv, HopsTold
    <3>2. CASE i = n + 1
      <4>1. startTtl + i - 1 = ttl /\ hops'[i].ttl = ttl /\ hops'[i].router = w.at /\ ~(i < Len(hops'))
        BY <1>2, <2>3, <3>2
      <4>2. ended' \notin {"reached", "unreachable"} => why = "on"
        BY <1>1, <1>4, <1>7, <1>8
      <4> QED  BY <1>3, <1>4, <4>1, <4>2
    <3> QED  BY <1>2, <2>3, <3>1, <3>2
  <2>5. HopsTold'
    BY <1>1, <1>5, <2>3, <2>4 DEF HopsTold, Known
  <2>6. ttl' \in startTtl .. startTtl + MaxHops /\ ttl' > startTtl /\ ttl' - 1 = ttl
        /\ Len(hops') = ttl' - startTtl
    BY <1>1, <1>2, <2>3
  <2>7. CASE why = "on"
    <3>1. ended' = "no" /\ Heard(ttl)
      BY <1>1, <1>3, <1>4, <2>7 DEF Heard
    <3>2. Heard(ttl - 1)'
      <4>1. PICK t \in Nat : t = ttl
        BY <1>2
      <4>2. Fresh(t)' /\ OnWay'[t] \in Known /\ ~At(OnWay[t])'
        BY <1>5, <3>1, <4>1 DEF Heard
      <4>3. Heard(t)'
        BY <4>2 DEF Heard, Known
      <4>4. (ttl - 1)' = t
        BY <2>6, <4>1
      <4> QED  BY <4>3, <4>4
    <3> QED  BY <1>1, <1>2, <2>5, <2>6, <3>1, <3>2 DEF TraceIInv, WhyEnded, Outs
  <2>8. CASE why \in {"reached", "unreachable"}
    <3>1. ended' = why
      BY <1>1, <1>4, <2>8
    <3>2. hops'[Len(hops')].router = OnWay'[m] /\ Fresh(m)' /\ EndsFor(ended, m)'
      BY <1>4, <1>5, <1>6, <2>3, <3>1
    <3>3. WhyEnded'
      BY <1>1, <2>6, <2>8, <3>1, <3>2 DEF WhyEnded
    <3> QED  BY <1>1, <1>2, <2>5, <2>6, <2>8, <3>1, <3>3 DEF TraceIInv, Outs
  <2> QED  BY <1>7, <1>8, <2>7, <2>8
<1>9. CASE ~Answered(w)
  <2>1. why \in {"loop", "unknown"} /\ hops' = hops /\ ended' = why
    BY <1>1, <1>4, <1>7, <1>9
  <2>2. HopsTold'
    BY <1>1, <1>5, <2>1 DEF TraceIInv, HopsTold, Known
  <2>3. ttl' \in startTtl .. startTtl + MaxHops /\ ttl' > startTtl /\ ttl' - 1 = ttl
    BY <1>1, <1>2
  <2>4. WhyEnded'
    BY <1>1, <1>3, <1>4, <1>5, <1>6, <2>1, <2>3 DEF WhyEnded
  <2> QED  BY <1>1, <1>2, <2>1, <2>2, <2>3, <2>4 DEF TraceIInv, Outs
<1> QED  BY <1>8, <1>9

LEMMA TraceKeeps == TraceIInv /\ [TraceNext]_traceVars => TraceIInv'
<1> SUFFICES ASSUME TraceIInv, [TraceNext]_traceVars PROVE TraceIInv'
  OBVIOUS
<1>1. CASE Probe
  BY <1>1, ProbeKeeps
<1>2. ASSUME UNCHANGED <<routesOf, source, target, ttl, startTtl, hops>>,
             ended' = ended \/ (ended = "no" /\ ended' = "not reached" /\ ttl = startTtl + MaxHops)
      PROVE  TraceIInv'
  <2>1. startTtl \in Nat
    BY DEF TraceIInv
  <2>2. OnWay' = OnWay
    BY <1>2, <2>1, OnWayStays
  <2>3. \A r : At(r)' = At(r)
    BY <1>2 DEF At
  <2>4. \A k : Before(k)' = Before(k)
    BY <2>2 DEF Before
  <2>5. \A k : Fresh(k)' = Fresh(k) /\ Heard(k)' = Heard(k)
    BY <2>2, <2>3, <2>4 DEF Fresh, Heard, Known
  <2>6. \A k, e : EndsFor(e, k)' = EndsFor(e, k)
    BY <2>2, <2>3, <2>4 DEF EndsFor, Known
  <2>7. HopsTold'
    BY <1>2, <2>2, <2>3, <2>5 DEF TraceIInv, HopsTold, Known
  <2>8. WhyEnded'
    BY <1>2, <2>2, <2>5, <2>6 DEF TraceIInv, WhyEnded, Outs
  <2> QED  BY <1>2, <2>5, <2>7, <2>8 DEF TraceIInv, Outs
<1>3. CASE GiveUp
  BY <1>2, <1>3 DEF GiveUp
<1>4. CASE UNCHANGED traceVars
  BY <1>2, <1>4 DEF traceVars
<1> QED  BY <1>1, <1>3, <1>4 DEF TraceNext
(* A walk that closes, or ends short of the target, is on a way without it. *)
LEMMA EndsWithoutTarget ==
  ASSUME startTtl \in Nat, NEW m \in Nat, m + 1 <= Far, Fresh(m),
         NEW why \in {"loop", "unknown", "unreachable"}, EndsFor(why, m)
  PROVE  ~Leads
<1>1. SUFFICES ASSUME NEW k \in 0 .. Len(RouterOrder), OnWay[k] \in Known, At(OnWay[k])
               PROVE  FALSE
  BY DEF Leads
<1>2. k \in Nat /\ k <= Far /\ Far \in Nat
  BY OnWaySteps, Traceroute8Assumption DEF Far
<1>3. m <= k
  <2> SUFFICES ASSUME k < m PROVE FALSE
    BY <1>2
  <2>1. k \in 0 .. m - 1
    BY <1>2
  <2> QED  BY <1>1, <2>1 DEF Fresh
<1>4. CASE why = "loop"
  <2>1. PICK i \in 0 .. m - 1 : OnWay[m] = OnWay[i]
    BY <1>4 DEF EndsFor, Before
  <2> DEFINE circle == {OnWay[j] : j \in i .. m - 1}
  <2>2. ASSUME NEW r \in circle PROVE r \in Known /\ ~At(r) /\ NextOn(r) \in circle
    <3>1. PICK j \in i .. m - 1 : r = OnWay[j]
      OBVIOUS
    <3>2. r \in Known /\ ~At(r)
      BY <3>1 DEF Fresh
    <3>3. j + 1 \in 1 .. Far /\ (j + 1) - 1 = j
      BY <1>2, <3>1
    <3>4. OnWay[j + 1] = NextOn(r)
      BY <3>1, <3>3, OnWaySteps
    <3>5. CASE j = m - 1
      <4>1. NextOn(r) = OnWay[i] /\ i \in i .. m - 1
        BY <2>1, <3>4, <3>5
      <4> QED  BY <3>2, <4>1
    <3>6. CASE j # m - 1
      <4>1. j + 1 \in i .. m - 1
        BY <3>6
      <4> QED  BY <3>2, <3>4, <4>1
    <3> QED  BY <3>5, <3>6
  <2>3. OnWay[m] \in circle
    BY <2>1
  <2>4. m \in 0 .. Far
    BY <1>2
  <2> HIDE DEF circle
  <2>5. \A j \in m .. Far : OnWay[j] \in circle
    BY <2>2, <2>3, <2>4, AlongOnWay
  <2> QED  BY <1>1, <1>2, <1>3, <2>2, <2>5
<1>5. CASE why # "loop"
  <2>1. OnWay[m + 1] = NoRouter
    <3>1. m + 1 \in 1 .. Far /\ (m + 1) - 1 = m
      BY <1>2
    <3>2. OnWay[m + 1] = NextOn(OnWay[m])
      BY <3>1, OnWaySteps
    <3> QED  BY <1>5, <3>2 DEF EndsFor, NextOn
  <2>2. NextOn(NoRouter) = NoRouter
    BY Traceroute8Assumption DEF NextOn
  <2>3. \A j \in m + 1 .. Far : OnWay[j] \in {NoRouter}
    <3>1. m + 1 \in 0 .. Far
      BY <1>2
    <3> DEFINE kept == {NoRouter}
    <3>2. OnWay[m + 1] \in kept /\ \A r \in kept : NextOn(r) \in kept
      BY <2>1, <2>2
    <3> HIDE DEF kept
    <3>3. \A j \in m + 1 .. Far : OnWay[j] \in kept
      BY <3>1, <3>2, AlongOnWay
    <3> QED  BY <3>3 DEF kept
  <2>4. k # m
    BY <1>1, <1>5 DEF EndsFor
  <2>5. k \in m + 1 .. Far
    BY <1>2, <1>3, <2>4
  <2>6. OnWay[k] = NoRouter
    BY <2>3, <2>5
  <2> QED  BY <1>1, <2>6, Traceroute8Assumption
<1> QED  BY <1>4, <1>5

LEMMA TraceIsThePath == TraceIInv => TraceTellsPath
<1> SUFFICES ASSUME TraceIInv PROVE TraceTellsPath
  OBVIOUS
<1>0. Len(hops) \in Nat /\ DOMAIN hops = 1 .. Len(hops) /\ (hops # << >> => Len(hops) \in DOMAIN hops)
  <2>1. hops \in Seq([ttl : Nat, router : Known])
    BY DEF TraceIInv, HopsTold
  <2> QED  BY <2>1
<1>1. /\ startTtl \in Nat /\ ttl \in Nat /\ ttl \in startTtl .. startTtl + MaxHops
      /\ Far \in Nat /\ ttl + 3 <= Far /\ MaxHops \in Nat /\ MaxHops # 0
  <2>1. startTtl \in Nat /\ ttl \in startTtl .. startTtl + MaxHops /\ MaxHops \in Nat \ {0}
    BY Traceroute8Assumption DEF TraceIInv
  <2>2. Far \in Nat /\ Far >= startTtl + MaxHops + 4
    BY <2>1, OnWaySteps
  <2> QED  BY <2>1, <2>2
<1>2. ASSUME ended \in Outs
      PROVE  \E m \in 0 .. ttl - 1 :
               /\ Fresh(m) /\ EndsFor(ended, m)
               /\ ended \in {"reached", "unreachable"} =>
                    /\ Len(hops) = ttl - startTtl /\ Len(hops) >= 1
                    /\ hops[Len(hops)].router = OnWay[m]
  <2>1. ttl > startTtl => ttl - startTtl >= 1
    BY <1>1
  <2> HIDE DEF Outs
  <2> QED  BY <1>2, <2>1 DEF TraceIInv, WhyEnded
<1>3. ASSUME NEW i \in DOMAIN hops
      PROVE  \/ hops[i].router = OnWay[startTtl + i - 1]
             \/ /\ i = Len(hops) /\ ended \in {"reached", "unreachable"}
                /\ \E k \in 0 .. startTtl + i - 1 :
                     OnWay[k] = hops[i].router /\ (ended = "unreachable" => OnWay[k + 1] = NoRouter)
  <2>1. CASE i < Len(hops) \/ ended \notin {"reached", "unreachable"}
    BY <2>1 DEF TraceIInv, HopsTold
  <2>2. CASE i = Len(hops) /\ ended \in {"reached", "unreachable"}
    <3>1. PICK m \in 0 .. ttl - 1 :
            /\ EndsFor(ended, m) /\ Len(hops) = ttl - startTtl /\ hops[Len(hops)].router = OnWay[m]
      BY <1>2, <2>2 DEF Outs
    <3>2. m \in 0 .. startTtl + i - 1
      BY <1>1, <2>2, <3>1
    <3> QED  BY <2>2, <3>1, <3>2 DEF EndsFor
  <2> QED  BY <1>0, <2>1, <2>2
<1>4. (ended = "reached") = (hops # << >> /\ At(hops[Len(hops)].router))
  <2>1. CASE ended = "reached"
    <3>1. PICK m \in 0 .. ttl - 1 : EndsFor(ended, m) /\ Len(hops) >= 1 /\ hops[Len(hops)].router = OnWay[m]
      BY <1>2, <2>1 DEF Outs
    <3> QED  BY <2>1, <3>1 DEF EndsFor
  <2>2. CASE ended = "unreachable"
    <3>1. PICK m \in 0 .. ttl - 1 : EndsFor(ended, m) /\ hops[Len(hops)].router = OnWay[m]
      BY <1>2, <2>2 DEF Outs
    <3> QED  BY <2>2, <3>1 DEF EndsFor
  <2>3. CASE ended \notin {"reached", "unreachable"} /\ hops # << >>
    <3>1. Len(hops) \in DOMAIN hops
      BY <1>0, <2>3
    <3>2. ~At(hops[Len(hops)].router)
      BY <2>3, <3>1 DEF TraceIInv, HopsTold
    <3> QED  BY <2>3, <3>2
  <2> QED  BY <2>1, <2>2, <2>3
<1>5. Leads => ended \in {"no", "reached", "not reached"}
  <2> SUFFICES ASSUME ended \in {"loop", "unknown", "unreachable"} PROVE ~Leads
    BY DEF TraceIInv, Outs
  <2>1. PICK m \in 0 .. ttl - 1 : Fresh(m) /\ EndsFor(ended, m)
    BY <1>2 DEF Outs
  <2>2. m \in Nat /\ m + 1 <= Far
    BY <1>1, OnWaySteps
  <2> QED  BY <1>1, <2>1, <2>2, EndsWithoutTarget
<1>6. ended = "not reached" => \A k \in 0 .. ttl - 1 : OnWay[k] \notin Known \/ ~At(OnWay[k])
  <2>1. \A a, b \in Nat : b # 0 => a + b # a
    OBVIOUS
  <2>2. \A n \in Nat : \A k \in 0 .. n - 1 : k = n - 1 \/ k \in 0 .. (n - 1) - 1
    OBVIOUS
  <2>3. ended = "not reached" => ttl = startTtl + MaxHops /\ (ttl = startTtl \/ Heard(ttl - 1))
    BY DEF TraceIInv
  <2>4. ended = "not reached" => Heard(ttl - 1)
    <3> SUFFICES startTtl + MaxHops # startTtl
      BY <2>3
    <3> QED  BY <1>1, <2>1
  <2>5. ASSUME Heard(ttl - 1), NEW k \in 0 .. ttl - 1 PROVE ~At(OnWay[k])
    <3>1. k = ttl - 1 \/ k \in 0 .. (ttl - 1) - 1
      BY <1>1, <2>2
    <3> QED  BY <2>5, <3>1 DEF Heard, Fresh
  <2> QED  BY <2>4, <2>5
<1> HIDE DEF TraceIInv
<1> QED  BY <1>3, <1>4, <1>5, <1>6 DEF TraceTellsPath
LEMMA Intervals ==
  /\ \A b \in Nat : \A a \in 0 .. b : \A k \in 0 .. a : k \in 0 .. b
  /\ \A a, b \in Nat : 1 <= a /\ a <= b => a - 1 \in 0 .. b - 1
  /\ \A a, b \in Nat : a <= b \/ b < a
OBVIOUS

LEMMA LesserOfTwo ==
  ASSUME NEW a \in Nat, NEW b \in Nat
  PROVE  Min({a, b}) = IF a <= b THEN a ELSE b
<1> DEFINE S == {a, b}
<1>1. S \subseteq Nat /\ S # {}
  OBVIOUS
<1>2. Min(S) \in S /\ \A y \in S : Min(S) <= y
  <2> HIDE DEF S
  <2> QED  BY <1>1, MinOfNats
<1> QED  BY <1>2

(* A way that passes known routers and ends at the target, the first there. *)
LeadsAlong(way) ==
  \A k \in 0 .. Len(way) - 1 :
    OnWay[k] = Router(way[k + 1]) /\ OnWay[k] \in Known /\ (At(OnWay[k]) <=> k = Len(way) - 1)

LEMMA WayPassed ==
  ASSUME TraceIInv, NEW way, Len(way) \in 1 .. Len(RouterOrder), LeadsAlong(way)
  PROVE  Passes(way)
<1> DEFINE N == Len(way)
<1>1. /\ startTtl \in Nat /\ ttl \in Nat /\ ttl \in startTtl .. startTtl + MaxHops
      /\ MaxHops \in Nat /\ N \in Nat /\ N >= 1 /\ Len(RouterOrder) \in Nat /\ N <= Len(RouterOrder)
  <2>1. startTtl \in Nat /\ ttl \in startTtl .. startTtl + MaxHops /\ MaxHops \in Nat
    BY Traceroute8Assumption DEF TraceIInv
  <2>2. Len(RouterOrder) \in Nat
    BY Traceroute8Assumption, LenProperties
  <2>3. N \in 1 .. Len(RouterOrder)
    OBVIOUS
  <2> HIDE DEF N
  <2> QED  BY <2>1, <2>2, <2>3
<1>2. Far \in Nat /\ Far = Len(RouterOrder) + startTtl + MaxHops
  BY <1>1 DEF Far
<1>3. TraceTellsPath
  BY TraceIsThePath
<1>4. \A k \in 0 .. N - 1 :
        OnWay[k] = Router(way[k + 1]) /\ OnWay[k] \in Known /\ (At(OnWay[k]) <=> k = N - 1)
  BY DEF LeadsAlong
<1> HIDE DEF N
<1>5. N - 1 \in 0 .. N - 1 /\ N - 1 \in 0 .. Len(RouterOrder)
  BY <1>1
<1>6. ended \in {"no", "reached", "not reached"}
  <2>1. Leads
    BY <1>4, <1>5 DEF Leads
  <2> QED  BY <1>3, <2>1 DEF TraceTellsPath
<1>7. ended = "not reached" => ttl < N
  <2>1. N <= ttl => N - 1 \in 0 .. ttl - 1
    BY <1>1, Intervals
  <2>2. N <= ttl \/ ttl < N
    BY <1>1, Intervals
  <2> QED  BY <1>3, <1>4, <1>5, <2>1, <2>2 DEF TraceTellsPath
<1>8. \A k \in N .. Far : OnWay[k] = NoRouter
  <2>1. N \in 1 .. Far
    BY <1>1, <1>2
  <2>2. OnWay[N] = NoRouter
    BY <1>1, <1>4, <1>5, <2>1, OnWaySteps DEF NextOn
  <2> DEFINE kept == {NoRouter}
  <2>3. OnWay[N] \in kept /\ \A r \in kept : NextOn(r) \in kept
    BY <2>2, Traceroute8Assumption DEF NextOn
  <2>4. N \in 0 .. Far
    BY <2>1
  <2> HIDE DEF kept
  <2>5. \A k \in N .. Far : OnWay[k] \in kept
    BY <1>1, <2>3, <2>4, AlongOnWay
  <2> QED  BY <2>5 DEF kept
<1>9. ASSUME NEW k \in 0 .. Far, OnWay[k] \in Known PROVE k \in 0 .. N - 1
  <2>1. k \notin N .. Far
    BY <1>8, <1>9, Traceroute8Assumption
  <2> QED  BY <1>1, <1>2, <2>1
<1>10. ASSUME NEW i \in DOMAIN hops
       PROVE  hops[i].router = Router(way[Min({startTtl + i, N})])
  <2>1. hops \in Seq([ttl : Nat, router : Known])
    BY DEF TraceIInv, HopsTold
  <2>2. hops[i].router \in Known /\ i \in 1 .. Len(hops) /\ Len(hops) \in Nat
    <3>1. Len(hops) \in Nat /\ DOMAIN hops = 1 .. Len(hops)
      BY <2>1, LenProperties
    <3>2. hops[i] \in [ttl : Nat, router : Known]
      BY <2>1, ElementOfSeq, <3>1
    <3> QED  BY <3>1, <3>2
  <2>3. Len(hops) = ttl - startTtl
    BY <1>6 DEF TraceIInv, WhyEnded, Outs
  <2>4. /\ startTtl + i \in Nat /\ startTtl + i - 1 \in 0 .. Far
        /\ (startTtl + i - 1) + 1 = startTtl + i
    BY <1>1, <1>2, <2>2, <2>3
  <2>5. CASE hops[i].router = OnWay[startTtl + i - 1]
    <3>1. startTtl + i - 1 \in 0 .. N - 1
      BY <1>9, <2>2, <2>4, <2>5
    <3>2. Min({startTtl + i, N}) = startTtl + i
      BY <1>1, <2>4, <3>1, LesserOfTwo
    <3>3. OnWay[startTtl + i - 1] = Router(way[startTtl + i])
      BY <1>4, <2>4, <3>1
    <3> QED  BY <2>5, <3>2, <3>3
  <2>6. CASE hops[i].router # OnWay[startTtl + i - 1]
    <3>1. PICK k \in 0 .. startTtl + i - 1 :
            i = Len(hops) /\ ended \in {"reached", "unreachable"} /\ OnWay[k] = hops[i].router
      BY <1>3, <2>6 DEF TraceTellsPath
    <3>2. At(OnWay[k])
      BY <1>3, <1>6, <3>1 DEF TraceTellsPath
    <3>3. k \in 0 .. Far
      BY <1>2, <2>4, Intervals
    <3>4. k = N - 1
      BY <1>4, <1>9, <2>2, <3>1, <3>2, <3>3
    <3>5. Min({startTtl + i, N}) = N /\ k + 1 = N
      BY <1>1, <2>4, <3>1, <3>4, LesserOfTwo
    <3> QED  BY <1>4, <1>5, <3>1, <3>4, <3>5
  <2> QED  BY <2>5, <2>6
<1> QED  BY <1>6, <1>7, <1>10 DEF Passes, N

(* The routers of a topology, and how they look their targets up.           *)
LEMMA RouterFacts ==
  /\ Len(RouterOrder) \in Nat /\ Len(RouterOrder) >= 4
  /\ \A k \in 0 .. Len(RouterOrder) - 1 : Router(k) \in Known
  /\ \A j, k \in 0 .. Len(RouterOrder) - 1 : Router(j) = Router(k) => j = k
<1>1. /\ Len(RouterOrder) \in Nat /\ Len(RouterOrder) >= 4
      /\ DOMAIN RouterOrder = 1 .. Len(RouterOrder)
  BY Traceroute8Assumption, LenProperties
<1>2. \A k \in 0 .. Len(RouterOrder) - 1 : k + 1 \in DOMAIN RouterOrder
  BY <1>1
<1>3. \A i \in DOMAIN RouterOrder : RouterOrder[i] \in Known
  BY DEF Known, Range
<1>4. \A i, j \in DOMAIN RouterOrder : RouterOrder[i] = RouterOrder[j] => i = j
  BY Traceroute8Assumption DEF IsInjective
<1>5. ASSUME NEW j \in 0 .. Len(RouterOrder) - 1, NEW k \in 0 .. Len(RouterOrder) - 1,
             Router(j) = Router(k)
      PROVE  j = k
  <2>1. j + 1 = k + 1
    BY <1>2, <1>4, <1>5 DEF Router
  <2> QED  BY <1>1, <2>1
<1> QED  BY <1>1, <1>2, <1>3, <1>5 DEF Router

LEMMA LaidTable ==
  ASSUME NEW table, DOMAIN table \subseteq 0 .. Len(RouterOrder) - 1, NEW k \in DOMAIN table,
         NEW from, NEW to, routesOf = Laid(table, from, to).routes
  PROVE  routesOf[Router(k)] = table[k]
<1> DEFINE mine == {j \in DOMAIN table : Router(j) = Router(k)}
<1>1. mine = {k}
  BY RouterFacts
<1>2. Router(k) \in Known
  BY RouterFacts
<1>3. routesOf[Router(k)] = IF mine = {} THEN NoRoutes ELSE table[CHOOSE j \in mine : TRUE]
  BY <1>2 DEF Laid
<1>4. (CHOOSE j \in mine : TRUE) = k
  BY <1>1
<1> HIDE DEF mine
<1> QED  BY <1>1, <1>3, <1>4

LEMMA ByDefault ==
  ASSUME NEW r, NEW k, routesOf[r] = Default(k)
  PROVE  Lookup(r, target) = Router(k)
BY DEF Lookup, Default

LEMMA StartsAtFirst ==
  ASSUME source = RouterAddress[Router(0)]
  PROVE  FindRouterFor(source) = Router(0)
<1> DEFINE exact == {r \in Known : RouterAddress[r] = source}
           places == {i \in DOMAIN RouterOrder : RouterOrder[i] \in exact}
<1>1. Router(0) \in exact
  BY RouterFacts
<1>2. DOMAIN RouterOrder = 1 .. Len(RouterOrder) /\ Len(RouterOrder) \in Nat /\ Len(RouterOrder) >= 4
  BY Traceroute8Assumption, LenProperties
<1>3. 1 \in places /\ places \subseteq Nat /\ \A i \in places : i >= 1
  BY <1>1, <1>2 DEF Router
<1>4. Min(places) = 1
  <2> HIDE DEF places
  <2> DEFINE p == Min(places)
  <2>1. p \in places /\ \A y \in places : p <= y
    BY <1>3, MinOfNats
  <2> HIDE DEF p
  <2>2. p \in Nat /\ p >= 1 /\ p <= 1
    BY <1>3, <2>1
  <2> QED  BY <2>2 DEF p
<1>5. FindRouterFor(source) = RouterOrder[Min(places)]
  BY <1>1 DEF FindRouterFor, FirstOfRouters
<1> HIDE DEF places
<1> QED  BY <1>4, <1>5 DEF Router

LEMMA TargetOnly ==
  ASSUME IsInjective(RouterAddress), NEW j \in 0 .. Len(RouterOrder) - 1,
         target = RouterAddress[Router(j)]
  PROVE  \A k \in 0 .. Len(RouterOrder) - 1 : At(Router(k)) <=> k = j
<1> SUFFICES ASSUME NEW k \in 0 .. Len(RouterOrder) - 1, RouterAddress[Router(k)] = RouterAddress[Router(j)]
             PROVE  k = j
  BY DEF At
<1>1. Router(k) \in DOMAIN RouterAddress /\ Router(j) \in DOMAIN RouterAddress
  BY RouterFacts, Traceroute8Assumption
<1>2. Router(k) = Router(j)
  BY <1>1 DEF IsInjective
<1> QED  BY <1>2, RouterFacts
LEMMA LinearPassed ==
  ASSUME TraceIInv, IsInjective(RouterAddress), NEW n \in 1 .. Len(RouterOrder),
         OnTopology(BuildLinear(n))
  PROVE  Passes([i \in 1 .. n |-> i - 1])
<1> DEFINE table == [k \in 0 .. n - 2 |-> Default(k + 1)]
           way == [i \in 1 .. n |-> i - 1]
<1>1. /\ routesOf = Laid(table, source, target).routes
      /\ source = RouterAddress[Router(0)] /\ target = RouterAddress[Router(n - 1)]
  BY DEF OnTopology, BuildLinear, Laid
<1>2. Len(RouterOrder) \in Nat /\ n \in Nat /\ n >= 1 /\ n <= Len(RouterOrder)
      /\ n - 1 \in 0 .. Len(RouterOrder) - 1
  BY RouterFacts
<1>3. startTtl \in Nat /\ MaxHops \in Nat
  BY Traceroute8Assumption DEF TraceIInv
<1>4. \A k \in 0 .. n - 1 : k \in 0 .. Len(RouterOrder) - 1 /\ k \in 0 .. Far
  BY <1>2, <1>3 DEF Far
<1>5. \A k \in 0 .. n - 1 : Router(k) \in Known /\ (At(Router(k)) <=> k = n - 1)
  BY <1>1, <1>2, <1>4, RouterFacts, TargetOnly
<1>6. ASSUME NEW k \in 0 .. n - 2 PROVE Lookup(Router(k), target) = Router(k + 1)
  <2>1. DOMAIN table \subseteq 0 .. Len(RouterOrder) - 1 /\ k \in DOMAIN table
        /\ table[k] = Default(k + 1)
    BY <1>2
  <2> HIDE DEF table
  <2>2. routesOf[Router(k)] = Default(k + 1)
    BY <1>1, <2>1, LaidTable
  <2> QED  BY <2>2, ByDefault
<1>7. ASSUME NEW k \in 1 .. n - 1, OnWay[k - 1] = Router(k - 1) PROVE OnWay[k] = Router(k)
  <2>1. k \in 1 .. Far /\ k - 1 \in 0 .. n - 2 /\ k - 1 \in 0 .. n - 1 /\ k - 1 # n - 1
        /\ (k - 1) + 1 = k
    BY <1>2, <1>3 DEF Far
  <2>2. OnWay[k] = NextOn(Router(k - 1))
    BY <1>3, <1>7, <2>1, OnWaySteps
  <2>3. Router(k - 1) \in Known /\ ~At(Router(k - 1))
    BY <1>5, <2>1
  <2>4. Lookup(Router(k - 1), target) = Router(k)
    BY <1>6, <2>1
  <2> QED  BY <2>2, <2>3, <2>4 DEF NextOn
<1>8. \A k \in 0 .. n - 1 : OnWay[k] = Router(k)
  <2> DEFINE bad == {k \in 0 .. n - 1 : OnWay[k] # Router(k)}
  <2>1. SUFFICES ASSUME bad # {} PROVE FALSE
    OBVIOUS
  <2>2. bad \subseteq Nat
    OBVIOUS
  <2>3. Min(bad) \in bad /\ \A y \in bad : Min(bad) <= y
    <3> HIDE DEF bad
    <3> QED  BY <2>1, <2>2, MinOfNats
  <2>4. PICK k \in bad : \A y \in bad : k <= y
    BY <2>3
  <2>5. k # 0
    <3>1. OnWay[0] = Router(0)
      BY <1>1, <1>3, OnWaySteps, StartsAtFirst
    <3> QED  BY <3>1
  <2>6. k \in 1 .. n - 1 /\ k - 1 \in 0 .. n - 1 /\ k - 1 \notin bad
    BY <2>4, <2>5
  <2>7. OnWay[k - 1] = Router(k - 1)
    BY <2>6
  <2> QED  BY <1>7, <2>6, <2>7
<1>9. Len(way) = n /\ \A k \in 0 .. n - 1 : way[k + 1] = k
  BY <1>2
<1> HIDE DEF way
<1>10. LeadsAlong(way)
  BY <1>5, <1>8, <1>9 DEF LeadsAlong
<1>11. Passes(way)
  BY <1>9, <1>10, WayPassed
<1> QED  BY <1>11 DEF way

(* Ways of three routers, by tables of the first three.                     *)
LEMMA ShortWayPassed ==
  ASSUME TraceIInv, NEW j \in {1, 2}, source = RouterAddress[Router(0)],
         target = RouterAddress[Router(3)], IsInjective(RouterAddress),
         Lookup(Router(0), target) = Router(j), Lookup(Router(j), target) = Router(3)
  PROVE  Passes(<<0, j, 3>>)
<1>1. startTtl \in Nat /\ MaxHops \in Nat
  BY Traceroute8Assumption DEF TraceIInv
<1>2. /\ Router(0) \in Known /\ Router(j) \in Known /\ Router(3) \in Known
      /\ ~At(Router(0)) /\ ~At(Router(j)) /\ At(Router(3))
  <2>1. 0 \in 0 .. Len(RouterOrder) - 1 /\ j \in 0 .. Len(RouterOrder) - 1
        /\ 3 \in 0 .. Len(RouterOrder) - 1 /\ j # 3
    BY RouterFacts
  <2> QED  BY <2>1, RouterFacts, TargetOnly
<1>3. 1 \in 1 .. Far /\ 2 \in 1 .. Far /\ 1 - 1 = 0 /\ 2 - 1 = 1
  BY <1>1, RouterFacts DEF Far
<1>4. OnWay[0] = Router(0)
  BY <1>1, OnWaySteps, StartsAtFirst
<1>5. OnWay[1] = NextOn(OnWay[0]) /\ OnWay[2] = NextOn(OnWay[1])
  BY <1>1, <1>3, OnWaySteps
<1>6. OnWay[1] = Router(j)
  BY <1>2, <1>4, <1>5 DEF NextOn
<1>7. OnWay[2] = Router(3)
  BY <1>2, <1>5, <1>6 DEF NextOn
<1> DEFINE way == <<0, j, 3>>
<1>8. Len(way) = 3 /\ way[0 + 1] = 0 /\ way[1 + 1] = j /\ way[2 + 1] = 3
  OBVIOUS
<1> HIDE DEF way
<1>9. ASSUME NEW k \in 0 .. Len(way) - 1
      PROVE  OnWay[k] = Router(way[k + 1]) /\ OnWay[k] \in Known /\ (At(OnWay[k]) <=> k = Len(way) - 1)
  <2>1. k = 0 \/ k = 1 \/ k = 2
    BY <1>8
  <2> QED  BY <1>2, <1>4, <1>6, <1>7, <1>8, <2>1
<1>10. Len(way) \in 1 .. Len(RouterOrder)
  BY <1>8, RouterFacts
<1>11. LeadsAlong(way)
  BY <1>9 DEF LeadsAlong
<1>12. Passes(way)
  BY <1>10, <1>11, WayPassed
<1> QED  BY <1>12 DEF way

LEMMA DiamondPassed ==
  ASSUME TraceIInv, IsInjective(RouterAddress), OnTopology(BuildDiamond)
  PROVE  Passes(<<0, 1, 3>>)
<1> DEFINE table == [k \in 0 .. 2 |-> IF k = 0 THEN Default(1) ELSE Default(3)]
<1>1. /\ routesOf = Laid(table, source, target).routes
      /\ source = RouterAddress[Router(0)] /\ target = RouterAddress[Router(3)]
  BY DEF OnTopology, BuildDiamond, Laid
<1>2. /\ DOMAIN table \subseteq 0 .. Len(RouterOrder) - 1 /\ 0 \in DOMAIN table /\ 1 \in DOMAIN table
      /\ table[0] = Default(1) /\ table[1] = Default(3)
  BY RouterFacts
<1> HIDE DEF table
<1>3. routesOf[Router(0)] = Default(1) /\ routesOf[Router(1)] = Default(3)
  BY <1>1, <1>2, LaidTable
<1>4. Lookup(Router(0), target) = Router(1) /\ Lookup(Router(1), target) = Router(3)
  BY <1>3, ByDefault
<1> QED  BY <1>1, <1>4, ShortWayPassed

LEMMA MultiPathPassed ==
  ASSUME TraceIInv, IsInjective(RouterAddress), OnTopology(BuildMultiPath)
  PROVE  Passes(<<0, 2, 3>>)
<1> DEFINE there == RouterAddress[Router(3)].prefix
           special == [p \in {there, "*"} |-> IF p = there THEN Router(2) ELSE Router(1)]
           table == [k \in 0 .. 2 |-> IF k = 0 THEN special ELSE Default(3)]
<1>1. /\ routesOf = Laid(table, source, target).routes
      /\ source = RouterAddress[Router(0)] /\ target = RouterAddress[Router(3)]
  BY DEF OnTopology, BuildMultiPath, Laid
<1>2. there \in DOMAIN special /\ special[there] = Router(2) /\ target.prefix = there
  BY <1>1
<1> HIDE DEF special, there
<1>3. /\ DOMAIN table \subseteq 0 .. Len(RouterOrder) - 1 /\ 0 \in DOMAIN table /\ 2 \in DOMAIN table
      /\ table[0] = special /\ table[2] = Default(3)
  BY RouterFacts
<1> HIDE DEF table
<1>4. routesOf[Router(0)] = special /\ routesOf[Router(2)] = Default(3)
  BY <1>1, <1>3, LaidTable
<1>5. Lookup(Router(0), target) = Router(2)
  BY <1>2, <1>4 DEF Lookup
<1>6. Lookup(Router(2), target) = Router(3)
  BY <1>4, ByDefault
<1> QED  BY <1>1, <1>5, <1>6, ShortWayPassed

LEMMA LoopNoticed ==
  ASSUME TraceIInv, OnTopology(BuildLoop)
  PROVE  /\ \A i \in DOMAIN hops : hops[i].ttl <= 3
         /\ ended \in {"no", "loop", "not reached"}
         /\ (ended = "loop") = (ttl > 4 /\ ttl > startTtl)
<1> DEFINE table == [k \in 0 .. 2 |-> IF k = 1 THEN Default(2) ELSE Default(1)]
           circle == {Router(0), Router(1), Router(2)}
<1>1. /\ routesOf = Laid(table, source, target).routes
      /\ source = RouterAddress[Router(0)] /\ target = Nowhere
  BY DEF OnTopology, BuildLoop, Laid
<1>2. /\ DOMAIN table \subseteq 0 .. Len(RouterOrder) - 1
      /\ 0 \in DOMAIN table /\ 1 \in DOMAIN table /\ 2 \in DOMAIN table
      /\ table[0] = Default(1) /\ table[1] = Default(2) /\ table[2] = Default(1)
  BY RouterFacts
<1> HIDE DEF table
<1>3. /\ Lookup(Router(0), target) = Router(1) /\ Lookup(Router(1), target) = Router(2)
      /\ Lookup(Router(2), target) = Router(1)
  BY <1>1, <1>2, LaidTable, ByDefault
<1>4. \A r \in Known : ~At(r)
  BY <1>1, Traceroute8Assumption DEF At
<1>5. /\ Router(0) \in Known /\ Router(1) \in Known /\ Router(2) \in Known
      /\ Router(0) # Router(1) /\ Router(0) # Router(2) /\ Router(1) # Router(2)
  <2>1. 0 \in 0 .. Len(RouterOrder) - 1 /\ 1 \in 0 .. Len(RouterOrder) - 1
        /\ 2 \in 0 .. Len(RouterOrder) - 1
    BY RouterFacts
  <2> QED  BY <2>1, RouterFacts
<1>6. /\ NextOn(Router(0)) = Router(1) /\ NextOn(Router(1)) = Router(2)
      /\ NextOn(Router(2)) = Router(1)
  BY <1>3, <1>4, <1>5 DEF NextOn
<1>7. startTtl \in Nat /\ MaxHops \in Nat /\ ttl \in Nat /\ ttl >= startTtl
      /\ ttl <= startTtl + MaxHops /\ Far \in Nat /\ Far >= startTtl + MaxHops + 4
  <2>1. startTtl \in Nat /\ ttl \in startTtl .. startTtl + MaxHops /\ MaxHops \in Nat
    BY Traceroute8Assumption DEF TraceIInv
  <2>2. Far \in Nat /\ Far >= startTtl + MaxHops + 4
    BY <2>1, OnWaySteps
  <2> QED  BY <2>1, <2>2
<1>8. OnWay[0] = Router(0) /\ OnWay[1] = Router(1) /\ OnWay[2] = Router(2) /\ OnWay[3] = Router(1)
  <2>1. OnWay[0] = Router(0)
    BY <1>1, <1>7, OnWaySteps, StartsAtFirst
  <2>2. /\ 1 \in 1 .. Far /\ 2 \in 1 .. Far /\ 3 \in 1 .. Far
        /\ 1 - 1 = 0 /\ 2 - 1 = 1 /\ 3 - 1 = 2
    BY <1>7
  <2>3. OnWay[1] = NextOn(OnWay[0]) /\ OnWay[2] = NextOn(OnWay[1]) /\ OnWay[3] = NextOn(OnWay[2])
    BY <1>7, <2>2, OnWaySteps
  <2> QED  BY <1>6, <2>1, <2>3
<1>9. \A k \in 0 .. Far : OnWay[k] \in circle /\ OnWay[k] \in Known
  <2>1. OnWay[0] \in circle /\ \A r \in circle : r \in Known /\ NextOn(r) \in circle
    BY <1>5, <1>6, <1>8
  <2>2. 0 \in 0 .. Far
    BY <1>7
  <2> HIDE DEF circle
  <2>3. \A k \in 0 .. Far : OnWay[k] \in circle
    BY <1>7, <2>1, <2>2, AlongOnWay
  <2> QED  BY <2>1, <2>3
<1>10. ASSUME NEW m \in Nat, Fresh(m) PROVE m <= 3
  <2> SUFFICES ASSUME 3 \in 0 .. m - 1 PROVE FALSE
    OBVIOUS
  <2>1. 1 \in 0 .. 3 - 1
    OBVIOUS
  <2> QED  BY <1>8, <1>10, <2>1 DEF Fresh, Before
<1>11. ASSUME NEW m \in Nat, OnWay[m] \in Before(m) PROVE m >= 3
  <2> SUFFICES ASSUME m = 0 \/ m = 1 \/ m = 2 PROVE FALSE
    OBVIOUS
  <2>1. PICK k \in 0 .. m - 1 : OnWay[m] = OnWay[k]
    BY <1>11 DEF Before
  <2>2. m # 0
    BY <2>1
  <2>3. k = 0 \/ (k = 1 /\ m = 2)
    BY <2>1
  <2> QED  BY <1>5, <1>8, <2>1, <2>2, <2>3
<1>12. ended \in Outs => ended = "loop" /\ ttl > 4 /\ ttl > startTtl
  <2> SUFFICES ASSUME ended \in Outs PROVE ended = "loop" /\ ttl > 4 /\ ttl > startTtl
    OBVIOUS
  <2>1. PICK m \in 0 .. ttl - 1 : EndsFor(ended, m) /\ (ended = "loop" => m < ttl - 1)
    BY DEF TraceIInv, WhyEnded
  <2>2. m \in Nat /\ m \in 0 .. Far /\ m + 1 \in 0 .. Far
    BY <1>7, <2>1
  <2>3. OnWay[m] \in Known /\ OnWay[m + 1] \in Known
    BY <1>9, <2>2
  <2>4. ended = "loop" /\ OnWay[m] \in Before(m)
    BY <1>4, <2>1, <2>3, Traceroute8Assumption DEF EndsFor, Outs
  <2>5. m >= 3 /\ m < ttl - 1
    BY <1>11, <2>1, <2>2, <2>4
  <2>6. ttl > startTtl
    BY DEF TraceIInv, WhyEnded
  <2>7. ttl > 4
    BY <1>7, <2>2, <2>5
  <2> QED  BY <2>4, <2>6, <2>7
<1>13. ended \notin Outs => ~(ttl > 4 /\ ttl > startTtl)
  <2> SUFFICES ASSUME ended \notin Outs, ttl > 4, ttl > startTtl PROVE FALSE
    OBVIOUS
  <2>0. ended \in {"no", "not reached"} /\ (ttl = startTtl \/ Heard(ttl - 1))
    BY DEF TraceIInv
  <2>1. Heard(ttl - 1)
    <3>1. \A a, b \in Nat : a > b => a # b
      OBVIOUS
    <3>2. ttl # startTtl
      BY <1>7, <3>1
    <3> QED  BY <2>0, <3>2
  <2>2. ttl - 1 \in Nat /\ ~(ttl - 1 <= 3)
    BY <1>7
  <2>3. ttl - 1 <= 3
    BY <1>10, <2>1, <2>2 DEF Heard
  <2> QED  BY <2>2, <2>3
<1>14. ended \in {"no", "loop", "not reached"}
  BY <1>12 DEF TraceIInv
<1>15. ASSUME NEW i \in DOMAIN hops PROVE hops[i].ttl <= 3
  <2>1. ended \notin {"reached", "unreachable"}
    BY <1>14
  <2>2. hops[i].ttl = startTtl + i - 1 /\ Fresh(startTtl + i - 1)
    BY <2>1 DEF TraceIInv, HopsTold
  <2>3. i \in Nat /\ i >= 1
    <3>1. hops \in Seq([ttl : Nat, router : Known])
      BY DEF TraceIInv, HopsTold
    <3> QED  BY <3>1, LenProperties
  <2>4. startTtl + i - 1 \in Nat
    BY <1>7, <2>3
  <2> QED  BY <1>10, <2>2, <2>4
<1>16. "loop" \in Outs /\ "no" \notin Outs /\ "not reached" \notin Outs
  BY DEF Outs
<1> QED  BY <1>12, <1>13, <1>14, <1>15, <1>16

(* A trace tells the way packets take, over any tables, from any first time *)
(* to live and with any number of probes: each hop is the router that many  *)
(* hops out, a target on the way is missed only for want of probes, and the *)
(* topologies that come with the program are traced as they are drawn       *)
(* (traceroute).                                                            *)
THEOREM TraceroutesTell == TraceSpec => []TracesTell
<1>1. TraceSpec => []TraceIInv
  BY TraceStart, TraceKeeps, PTL DEF TraceSpec
<1>2. TraceIInv => TracesTell
  BY TraceIsThePath, LinearPassed, DiamondPassed, MultiPathPassed, LoopNoticed
     DEF TracesTell, BuiltAsDrawn
<1> QED  BY <1>1, <1>2, PTL

--------------------------------------------------------------------------------
(***************************************************************************)
(* The test bed.  A network's name and its subnet are made from the same   *)
(* numbers, and a link stays with the nodes it joins.                      *)
(***************************************************************************)
TestLinks == NewTestLinks \cup BuiltLinks

Shaped(link) ==
  \/ link.name = <<"backbone">> /\ link.network = <<172, 16, 0, 0>>
  \/ \E asn \in Systems, i \in Nat :
       link.name = <<"lan", asn, i>> /\ link.network = <<10, asn % 256, i>>
  \/ \E i \in Nat : link.name = <<"spoke-net", i>> /\ link.network = <<10, 0, i>>
  \/ \E i, j \in Nat : /\ i < j /\ link.name = <<"mesh-net", i + 1, j + 1>>
                       /\ link.network = <<172, 16, i, j * 4>>

(* A topology joins its own nodes, and a host to its gateway.                *)
Joins(topology) ==
  /\ topology.links \in Seq({topology.links[l] : l \in DOMAIN topology.links})
  /\ \A l \in DOMAIN topology.links :
       /\ topology.links[l].a \in DOMAIN topology.nodes
       /\ topology.links[l].b \in DOMAIN topology.nodes
       /\ Shaped(topology.links[l])
  /\ \A n \in DOMAIN topology.nodes :
       \/ topology.nodes[n].gateway = NoGateway
       \/ \E l \in DOMAIN topology.links :
            topology.links[l].a = topology.nodes[n].gateway /\ topology.links[l].b = n

LEMMA UpdatedFacts ==
  ASSUME NEW nodesThere, NEW new
  PROVE  /\ DOMAIN Updated(nodesThere, new) = DOMAIN nodesThere \cup DOMAIN new
         /\ \A n \in DOMAIN new : Updated(nodesThere, new)[n] = new[n]
         /\ \A n \in DOMAIN nodesThere :
              n \notin DOMAIN new => Updated(nodesThere, new)[n] = nodesThere[n]
BY DEF Updated

LEMMA IsList ==
  ASSUME NEW T, NEW n \in Nat, NEW s \in [1 .. n -> T]
  PROVE  s \in Seq(T)
BY SeqDef, Zenon

LEMMA ListOfLinks ==
  ASSUME NEW n \in Nat, NEW s, DOMAIN s = 1 .. n, s = [l \in 1 .. n |-> s[l]]
  PROVE  s \in Seq({s[l] : l \in DOMAIN s})
<1> DEFINE T == {s[l] : l \in DOMAIN s}
<1>1. s \in [1 .. n -> T]
  OBVIOUS
<1> HIDE DEF T
<1>2. s \in Seq(T)
  BY <1>1, IsList
<1> QED  BY <1>2 DEF T

LEMMA TwoAsnJoins ==
  ASSUME NEW asnA \in Systems, NEW asnB \in Systems, NEW count \in Nat
  PROVE  Joins(BuildTwoAsn(asnA, asnB, count))
<1> DEFINE topology == BuildTwoAsn(asnA, asnB, count)
           asn == <<asnA, asnB>>
           B(k) == <<"r", k, asn[k]>>
           H(i, k) == <<"h", i, asn[k]>>
           routers == {B(k) : k \in 1 .. 2}
           hosts == {H(i, k) : i \in 1 .. count, k \in 1 .. 2}
           K(n) == IF n[3] = asnB THEN 2 ELSE 1
           R == [n \in routers |-> Spec8(n[3], <<10, 0, 1, 1>>, "router", NoGateway)]
           S == [n \in hosts |-> Spec8(n[3], <<10, 0, 1, 10 + n[2]>>, "host", B(K(n)))]
           L(l) == LET i == l \div 2  k == (l % 2) + 1
                   IN  IF l = 1 THEN TestLink(B(1), B(2), <<172, 16, 0, 0>>, <<"backbone">>)
                       ELSE TestLink(B(k), H(i, k), <<10, asn[k] % 256, i>>, <<"lan", asn[k], i>>)
<1>1. /\ topology.nodes = Updated(R, S)
      /\ topology.links = [l \in 1 .. 2 * count + 1 |-> L(l)]
  <2>1. topology = [nodes |-> Updated(R, S), links |-> [l \in 1 .. 2 * count + 1 |-> L(l)]]
    BY DEF BuildTwoAsn
  <2> HIDE DEF R, S, L, topology
  <2> QED  BY <2>1
<1>2. \A k \in 1 .. 2 : asn[k] \in Systems
  OBVIOUS
<1>3. /\ DOMAIN topology.nodes = routers \cup hosts
      /\ \A n \in hosts : topology.nodes[n].gateway = B(K(n))
      /\ \A n \in routers \ hosts : topology.nodes[n].gateway = NoGateway
  <2>1. DOMAIN R = routers /\ DOMAIN S = hosts
    OBVIOUS
  <2>2. \A n \in hosts : S[n].gateway = B(K(n))
    BY DEF Spec8
  <2>3. \A n \in routers : R[n].gateway = NoGateway
    BY DEF Spec8
  <2>4. /\ DOMAIN Updated(R, S) = DOMAIN R \cup DOMAIN S
        /\ \A n \in DOMAIN S : Updated(R, S)[n] = S[n]
        /\ \A n \in DOMAIN R : n \notin DOMAIN S => Updated(R, S)[n] = R[n]
    <3> HIDE DEF R, S
    <3> QED  BY UpdatedFacts
  <2> HIDE DEF R, S, routers, hosts, K, B, topology
  <2> QED  BY <1>1, <2>1, <2>2, <2>3, <2>4
<1>4. DOMAIN topology.links = 1 .. 2 * count + 1
      /\ \A l \in 1 .. 2 * count + 1 : topology.links[l] = L(l)
  <2> HIDE DEF L, topology
  <2> QED  BY <1>1
<1>5. topology.links \in Seq({topology.links[l] : l \in DOMAIN topology.links})
  <2>1. 2 * count + 1 \in Nat
    OBVIOUS
  <2> HIDE DEF topology, L
  <2> QED  BY <1>1, <1>4, <2>1, ListOfLinks
<1>6. L(1).a = B(1) /\ L(1).b = B(2) /\ Shaped(L(1))
  BY DEF TestLink, Shaped
<1>7. ASSUME NEW i \in 1 .. count, NEW k \in 1 .. 2
      PROVE  LET l == 2 * i + (k - 1) IN
             /\ l \in 1 .. 2 * count + 1
             /\ L(l) = TestLink(B(k), H(i, k), <<10, asn[k] % 256, i>>, <<"lan", asn[k], i>>)
  <2> DEFINE l == 2 * i + (k - 1)
  <2>1. l \in 1 .. 2 * count + 1 /\ l # 1 /\ l \div 2 = i /\ (l % 2) + 1 = k
    BY SMTT(30)
  <2> HIDE DEF l, B, H, asn
  <2> QED  BY <2>1 DEF l
<1>8. ASSUME NEW l \in 1 .. 2 * count + 1, l # 1
      PROVE  \E i \in 1 .. count, k \in 1 .. 2 :
               L(l) = TestLink(B(k), H(i, k), <<10, asn[k] % 256, i>>, <<"lan", asn[k], i>>)
  <2>1. l \div 2 \in 1 .. count /\ (l % 2) + 1 \in 1 .. 2
    BY <1>8, SMTT(30)
  <2> HIDE DEF B, H, asn
  <2> QED  BY <1>8, <2>1
<1> HIDE DEF L, topology
<1>9. ASSUME NEW l \in DOMAIN topology.links
      PROVE  /\ topology.links[l].a \in DOMAIN topology.nodes
             /\ topology.links[l].b \in DOMAIN topology.nodes
             /\ Shaped(topology.links[l])
  <2>1. CASE l = 1
    <3>1. B(1) \in routers /\ B(2) \in routers
      OBVIOUS
    <3> HIDE DEF B, routers, hosts
    <3> QED  BY <1>3, <1>4, <1>6, <2>1, <3>1
  <2>2. CASE l # 1
    <3>1. PICK i \in 1 .. count, k \in 1 .. 2 :
            L(l) = TestLink(B(k), H(i, k), <<10, asn[k] % 256, i>>, <<"lan", asn[k], i>>)
      BY <1>4, <1>8, <2>2
    <3>2. B(k) \in routers /\ H(i, k) \in hosts
      OBVIOUS
    <3>3. asn[k] \in Systems /\ i \in Nat
      BY <1>2
    <3> HIDE DEF B, H, routers, hosts, asn
    <3>4. L(l).a = B(k) /\ L(l).b = H(i, k) /\ Shaped(L(l))
      BY <3>1, <3>3 DEF TestLink, Shaped
    <3> QED  BY <1>3, <1>4, <3>2, <3>4
  <2> QED  BY <2>1, <2>2
<1>10. ASSUME NEW n \in hosts
       PROVE  \E l \in DOMAIN topology.links :
                topology.links[l].a = topology.nodes[n].gateway /\ topology.links[l].b = n
  <2>1. PICK i \in 1 .. count, k \in 1 .. 2 : n = H(i, k)
    OBVIOUS
  <2>2. K(n) \in 1 .. 2 /\ n = H(i, K(n))
    BY <2>1
  <2> DEFINE l == 2 * i + (K(n) - 1)
  <2>3. topology.nodes[n].gateway = B(K(n))
    BY <1>3
  <2> HIDE DEF K, B, H, asn, hosts
  <2>4. l \in 1 .. 2 * count + 1 /\ L(l).a = B(K(n)) /\ L(l).b = n
    <3> DEFINE kk == K(n)
    <3>1. kk \in 1 .. 2 /\ n = H(i, kk)
      BY <2>2
    <3> HIDE DEF kk
    <3>2. LET ll == 2 * i + (kk - 1)
          IN  /\ ll \in 1 .. 2 * count + 1
              /\ L(ll) = TestLink(B(kk), H(i, kk), <<10, asn[kk] % 256, i>>, <<"lan", asn[kk], i>>)
      BY <1>7, <3>1
    <3>3. LET ll == 2 * i + (kk - 1)
          IN  ll \in 1 .. 2 * count + 1 /\ L(ll).a = B(kk) /\ L(ll).b = n
      BY <3>1, <3>2 DEF TestLink
    <3> QED  BY <3>3 DEF kk
  <2> HIDE DEF l
  <2> QED  BY <1>4, <2>3, <2>4
<1>11. \A n \in DOMAIN topology.nodes :
         \/ topology.nodes[n].gateway = NoGateway
         \/ \E l \in DOMAIN topology.links :
              topology.links[l].a = topology.nodes[n].gateway /\ topology.links[l].b = n
  <2> HIDE DEF routers, hosts, K, B
  <2> QED  BY <1>3, <1>10
<1> QED  BY <1>5, <1>9, <1>11 DEF Joins, topology

LEMMA StarJoins ==
  ASSUME NEW centre, NEW asn, NEW count \in Nat
  PROVE  Joins(BuildStar(centre, asn, count))
<1> DEFINE topology == BuildStar(centre, asn, count)
           spokes == {<<"spoke", i>> : i \in 1 .. count}
           R == [n \in {centre} |-> Spec8(asn, <<10, 0, 0, 1>>, "router", NoGateway)]
           S == [n \in spokes |-> Spec8(asn, <<10, 0, n[2], 10>>, "host", centre)]
           L(i) == TestLink(centre, <<"spoke", i>>, <<10, 0, i>>, <<"spoke-net", i>>)
<1>1. topology.nodes = Updated(R, S) /\ topology.links = [i \in 1 .. count |-> L(i)]
  BY DEF BuildStar
<1>2. /\ DOMAIN topology.nodes = {centre} \cup spokes
      /\ \A n \in spokes : topology.nodes[n].gateway = centre
      /\ \A n \in {centre} \ spokes : topology.nodes[n].gateway = NoGateway
  <2>1. DOMAIN R = {centre} /\ DOMAIN S = spokes
    OBVIOUS
  <2>2. (\A n \in spokes : S[n].gateway = centre) /\ \A n \in {centre} : R[n].gateway = NoGateway
    BY DEF Spec8
  <2>3. /\ DOMAIN Updated(R, S) = DOMAIN R \cup DOMAIN S
        /\ \A n \in DOMAIN S : Updated(R, S)[n] = S[n]
        /\ \A n \in DOMAIN R : n \notin DOMAIN S => Updated(R, S)[n] = R[n]
    <3> HIDE DEF R, S
    <3> QED  BY UpdatedFacts
  <2> HIDE DEF R, S, spokes, topology
  <2> QED  BY <1>1, <2>1, <2>2, <2>3
<1>3. /\ DOMAIN topology.links = 1 .. count
      /\ \A i \in 1 .. count : topology.links[i] = L(i)
  <2> HIDE DEF L, topology
  <2> QED  BY <1>1
<1>4. topology.links \in Seq({topology.links[l] : l \in DOMAIN topology.links})
  <2> HIDE DEF topology, L
  <2> QED  BY <1>1, <1>3, ListOfLinks, SMTT(30)
<1>5. \A i \in 1 .. count : /\ L(i).a = centre /\ L(i).b = <<"spoke", i>>
                            /\ Shaped(L(i)) /\ <<"spoke", i>> \in spokes
  BY DEF TestLink, Shaped
<1>6. \A n \in spokes : \E i \in 1 .. count : n = <<"spoke", i>>
  OBVIOUS
<1> HIDE DEF L, topology, spokes
<1>7. ASSUME NEW l \in DOMAIN topology.links
      PROVE  /\ topology.links[l].a \in DOMAIN topology.nodes
             /\ topology.links[l].b \in DOMAIN topology.nodes
             /\ Shaped(topology.links[l])
  <2>1. /\ topology.links[l] = L(l) /\ L(l).a = centre /\ L(l).b = <<"spoke", l>>
        /\ Shaped(L(l)) /\ <<"spoke", l>> \in spokes
    BY <1>3, <1>5
  <2> QED  BY <1>2, <2>1
<1>8. ASSUME NEW n \in DOMAIN topology.nodes
      PROVE  \/ topology.nodes[n].gateway = NoGateway
             \/ \E l \in DOMAIN topology.links :
                  topology.links[l].a = topology.nodes[n].gateway /\ topology.links[l].b = n
  <2>1. CASE n \in spokes
    <3>1. PICK i \in 1 .. count : n = <<"spoke", i>>
      BY <1>6, <2>1
    <3>2. i \in DOMAIN topology.links /\ topology.links[i] = L(i) /\ L(i).a = centre /\ L(i).b = n
      BY <1>3, <1>5, <3>1
    <3>3. topology.nodes[n].gateway = centre
      BY <1>2, <2>1
    <3> QED  BY <3>2, <3>3
  <2>2. CASE n \notin spokes
    BY <1>2, <2>2
  <2> QED  BY <2>1, <2>2
<1> QED  BY <1>4, <1>7, <1>8 DEF Joins, topology

(* Every place in the list of a mesh is that of one pair of routers.         *)
LEMMA EveryPlaceTaken ==
  ASSUME NEW count \in Nat
  PROVE  LET pairs == {p \in (0 .. count - 1) \X (0 .. count - 1) : p[1] < p[2]}
             Place(p) == Cardinality({q \in pairs : q[1] < p[1] \/ (q[1] = p[1] /\ q[2] <= p[2])})
         IN  /\ Cardinality(pairs) \in Nat
             /\ \A l \in 1 .. Cardinality(pairs) : \E p \in pairs : Place(p) = l
<1> DEFINE pairs == {p \in (0 .. count - 1) \X (0 .. count - 1) : p[1] < p[2]}
           upTo(p) == {q \in pairs : q[1] < p[1] \/ (q[1] = p[1] /\ q[2] <= p[2])}
           N == Cardinality(pairs)
           f == [p \in pairs |-> Cardinality(upTo(p))]
<1>1. IsFiniteSet(pairs)
  <2>1. IsFiniteSet(0 .. count - 1)
    BY FS_Interval
  <2>2. IsFiniteSet((0 .. count - 1) \X (0 .. count - 1))
    BY <2>1, FS_Product
  <2>3. pairs \in SUBSET ((0 .. count - 1) \X (0 .. count - 1))
    OBVIOUS
  <2> HIDE DEF pairs
  <2> QED  BY <2>2, <2>3, FS_Subset
<1>2. \A p \in pairs : p[1] \in Nat /\ p[2] \in Nat /\ p = <<p[1], p[2]>>
  OBVIOUS
<1>3. \A p \in pairs : p \in upTo(p) /\ upTo(p) \subseteq pairs
  BY <1>2
<1>4. \A p, q \in pairs : \/ upTo(p) \subseteq upTo(q) /\ p \in upTo(q)
                          \/ upTo(q) \subseteq upTo(p) /\ q \in upTo(p)
  BY <1>2
<1>5. \A p, q \in pairs : p \in upTo(q) /\ q \in upTo(p) => p = q
  <2> SUFFICES ASSUME NEW p \in pairs, NEW q \in pairs, p \in upTo(q), q \in upTo(p)
               PROVE  p = q
    OBVIOUS
  <2>1. p[1] = q[1] /\ p[2] = q[2]
    BY <1>2
  <2> QED  BY <1>2, <2>1
<1>6. N \in Nat
  BY <1>1, FS_CardinalityType
<1> HIDE DEF pairs, upTo, N
<1>7. \A p \in pairs : IsFiniteSet(upTo(p)) /\ f[p] \in 1 .. N
  <2> SUFFICES ASSUME NEW p \in pairs PROVE IsFiniteSet(upTo(p)) /\ f[p] \in 1 .. N
    OBVIOUS
  <2>1. IsFiniteSet(upTo(p)) /\ Cardinality(upTo(p)) <= N
    BY <1>1, <1>3, FS_Subset DEF N
  <2>2. Cardinality(upTo(p)) \in Nat /\ Cardinality(upTo(p)) # 0
    BY <1>3, <2>1, FS_CardinalityType, FS_EmptySet
  <2> QED  BY <1>6, <2>1, <2>2
<1>8. ASSUME NEW p \in pairs, NEW q \in pairs, f[p] = f[q] PROVE p = q
  <2>1. Cardinality(upTo(p)) = Cardinality(upTo(q))
    BY <1>8
  <2>2. upTo(p) = upTo(q)
    <3>1. upTo(p) \subseteq upTo(q) \/ upTo(q) \subseteq upTo(p)
      BY <1>4
    <3> QED  BY <1>7, <2>1, <3>1, FS_Subset
  <2> QED  BY <1>3, <1>5, <2>2
<1> HIDE DEF f
<1>9. f \in Injection(pairs, 1 .. N)
  <2>1. f \in [pairs -> 1 .. N]
    BY <1>7 DEF f
  <2> QED  BY <1>8, <2>1 DEF Injection, IsInjective
<1>10. Cardinality(1 .. N) = N /\ IsFiniteSet(1 .. N)
  BY <1>6, FS_Interval
<1>11. f \in Surjection(pairs, 1 .. N)
  BY <1>1, <1>9, <1>10, FS_Injection DEF N
<1>12. \A l \in 1 .. N : \E p \in pairs : Cardinality(upTo(p)) = l
  BY <1>11 DEF Surjection, f
<1> QED  BY <1>6, <1>12 DEF pairs, upTo, N
LEMMA MeshJoins ==
  ASSUME NEW asn, NEW count \in Nat
  PROVE  Joins(BuildMesh(count, asn))
<1> DEFINE topology == BuildMesh(count, asn)
           pairs == {p \in (0 .. count - 1) \X (0 .. count - 1) : p[1] < p[2]}
           Place(p) == Cardinality({q \in pairs : q[1] < p[1] \/ (q[1] = p[1] /\ q[2] <= p[2])})
           PairAt(l) == CHOOSE p \in pairs : Place(p) = l
           N == Cardinality(pairs)
           routers == {<<"mesh", i>> : i \in 1 .. count}
           R == [n \in routers |-> Spec8(asn, <<10, 0, n[2], 1>>, "router", NoGateway)]
           L(l) == LET p == PairAt(l)
                   IN  TestLink(<<"mesh", p[1] + 1>>, <<"mesh", p[2] + 1>>,
                                <<172, 16, p[1], p[2] * 4>>, <<"mesh-net", p[1] + 1, p[2] + 1>>)
<1>1. topology.nodes = R /\ topology.links = [l \in 1 .. N |-> L(l)]
  <2>1. topology = [nodes |-> R, links |-> [l \in 1 .. N |-> L(l)]]
    BY DEF BuildMesh
  <2> HIDE DEF R, L, N, topology
  <2> QED  BY <2>1
<1>2. N \in Nat /\ \A l \in 1 .. N : PairAt(l) \in pairs
  <2>1. N \in Nat /\ \A l \in 1 .. N : \E p \in pairs : Place(p) = l
    BY EveryPlaceTaken
  <2> HIDE DEF pairs, Place, N
  <2> QED  BY <2>1
<1>3. DOMAIN topology.nodes = routers /\ \A n \in routers : topology.nodes[n].gateway = NoGateway
  <2>1. DOMAIN R = routers /\ \A n \in routers : R[n].gateway = NoGateway
    BY DEF Spec8
  <2> HIDE DEF R, topology, routers
  <2> QED  BY <1>1, <2>1
<1>4. DOMAIN topology.links = 1 .. N /\ \A l \in 1 .. N : topology.links[l] = L(l)
  <2> HIDE DEF L, topology, N
  <2> QED  BY <1>1
<1>5. topology.links \in Seq({topology.links[l] : l \in DOMAIN topology.links})
  <2> HIDE DEF topology, L, N
  <2> QED  BY <1>1, <1>2, <1>4, ListOfLinks
<1>6. ASSUME NEW l \in 1 .. N
      PROVE  L(l).a \in routers /\ L(l).b \in routers /\ Shaped(L(l))
  <2> DEFINE p == PairAt(l)  i == p[1]  j == p[2]
  <2>1. p \in pairs
    BY <1>2
  <2>2. i \in 0 .. count - 1 /\ j \in 0 .. count - 1 /\ i < j
    <3> HIDE DEF p
    <3> QED  BY <2>1
  <2>3. L(l) = TestLink(<<"mesh", i + 1>>, <<"mesh", j + 1>>,
                        <<172, 16, i, j * 4>>, <<"mesh-net", i + 1, j + 1>>)
    BY Zenon
  <2> HIDE DEF p, i, j, L, pairs, N, PairAt
  <2>4. /\ L(l).a = <<"mesh", i + 1>> /\ L(l).b = <<"mesh", j + 1>>
        /\ L(l).network = <<172, 16, i, j * 4>> /\ L(l).name = <<"mesh-net", i + 1, j + 1>>
    BY <2>3 DEF TestLink
  <2>5. i \in Nat /\ j \in Nat /\ i + 1 \in 1 .. count /\ j + 1 \in 1 .. count
    BY <2>2
  <2>6. Shaped(L(l))
    BY <2>2, <2>4, <2>5 DEF Shaped
  <2> QED  BY <2>4, <2>5, <2>6
<1> HIDE DEF topology, L, routers, N
<1>7. \A l \in DOMAIN topology.links :
        /\ topology.links[l].a \in DOMAIN topology.nodes
        /\ topology.links[l].b \in DOMAIN topology.nodes
        /\ Shaped(topology.links[l])
  BY <1>3, <1>4, <1>6
<1> QED  BY <1>3, <1>5, <1>7 DEF Joins, topology

LEMMA LoadsJoin == \A topology \in Loads : Joins(topology)
<1>1. ASSUME NEW c \in TwoAsnCalls PROVE Joins(BuildTwoAsn(c[1], c[2], c[3]))
  <2>1. c[1] \in Systems /\ c[2] \in Systems /\ c[3] \in Nat
    BY TestbedAssumption DEF Systems
  <2> QED  BY <2>1, TwoAsnJoins
<1>2. ASSUME NEW c \in StarCalls PROVE Joins(BuildStar(c[1], c[2], c[3]))
  BY TestbedAssumption, StarJoins
<1>3. ASSUME NEW c \in MeshCalls PROVE Joins(BuildMesh(c[1], c[2]))
  BY TestbedAssumption, MeshJoins
<1> QED  BY <1>1, <1>2, <1>3, Zenon DEF Loads

(* The four shapes meet in a subnet only where an octet is shared.           *)
ApartInSubnet(one, other) ==
  one.network = other.network =>
    \/ one.name = other.name
    \/ OctetShared(one.name, other.name) \/ OctetShared(other.name, one.name)

LEMMA ShapesApart ==
  ASSUME NEW one, Shaped(one), NEW other, Shaped(other)
  PROVE  ApartInSubnet(one, other)
<1>1. Systems \subseteq Nat
  BY TestbedAssumption DEF Systems
<1> DEFINE Backbone(l) == l.name = <<"backbone">> /\ l.network = <<172, 16, 0, 0>>
           Lan(l, asn, i) == /\ asn \in Systems /\ i \in Nat
                             /\ l.name = <<"lan", asn, i>> /\ l.network = <<10, asn % 256, i>>
           Spoke(l, i) == i \in Nat /\ l.name = <<"spoke-net", i>> /\ l.network = <<10, 0, i>>
           Mesh(l, i, j) == /\ i \in Nat /\ j \in Nat /\ i < j
                            /\ l.name = <<"mesh-net", i + 1, j + 1>>
                            /\ l.network = <<172, 16, i, j * 4>>
<1>3. ASSUME NEW l, Shaped(l)
      PROVE  \/ Backbone(l)
             \/ \E asn, i : Lan(l, asn, i)
             \/ \E i : Spoke(l, i)
             \/ \E i, j : Mesh(l, i, j)
  <2>1. CASE l.name = <<"backbone">> /\ l.network = <<172, 16, 0, 0>>
    BY <2>1
  <2>2. CASE \E asn \in Systems, i \in Nat :
               l.name = <<"lan", asn, i>> /\ l.network = <<10, asn % 256, i>>
    <3>1. PICK asn \in Systems, i \in Nat : Lan(l, asn, i)
      BY <2>2
    <3> HIDE DEF Lan
    <3> QED  BY <3>1
  <2>3. CASE \E i \in Nat : l.name = <<"spoke-net", i>> /\ l.network = <<10, 0, i>>
    <3>1. PICK i \in Nat : Spoke(l, i)
      BY <2>3
    <3> HIDE DEF Spoke
    <3> QED  BY <3>1
  <2>4. CASE \E i, j \in Nat : /\ i < j /\ l.name = <<"mesh-net", i + 1, j + 1>>
                               /\ l.network = <<172, 16, i, j * 4>>
    <3>1. PICK i, j \in Nat : Mesh(l, i, j)
      BY <2>4
    <3> HIDE DEF Mesh
    <3> QED  BY <3>1
  <2> HIDE DEF Backbone, Lan, Spoke, Mesh
  <2> QED  BY <1>3, <2>1, <2>2, <2>3, <2>4 DEF Shaped
<1>4. CASE Backbone(one)
  <2>1. CASE Backbone(other)
    BY <1>4, <2>1 DEF ApartInSubnet
  <2>2. ASSUME NEW asn, NEW i, Lan(other, asn, i) PROVE one.network # other.network
    BY <1>4, <2>2
  <2>3. ASSUME NEW i, Spoke(other, i) PROVE one.network # other.network
    BY <1>4, <2>3
  <2>4. ASSUME NEW i, NEW j, Mesh(other, i, j) PROVE one.network # other.network
    BY <1>4, <2>4
  <2> HIDE DEF Backbone, Lan, Spoke, Mesh
  <2> QED  BY <1>3, <2>1, <2>2, <2>3, <2>4 DEF ApartInSubnet
<1>5. ASSUME NEW asn, NEW i, Lan(one, asn, i) PROVE ApartInSubnet(one, other)
  <2>1. CASE Backbone(other)
    BY <1>5, <2>1 DEF ApartInSubnet
  <2>2. ASSUME NEW bsn, NEW j, Lan(other, bsn, j) PROVE ApartInSubnet(one, other)
    <3>1. one.network = other.network => asn % 256 = bsn % 256 /\ i = j
      BY <1>5, <2>2
    <3> QED  BY <1>5, <2>2, <3>1 DEF ApartInSubnet, OctetShared
  <2>3. ASSUME NEW j, Spoke(other, j) PROVE ApartInSubnet(one, other)
    <3>1. one.network = other.network => asn % 256 = 0 /\ i = j
      BY <1>5, <2>3
    <3> QED  BY <1>5, <2>3, <3>1 DEF ApartInSubnet, OctetShared
  <2>4. ASSUME NEW j, NEW k, Mesh(other, j, k) PROVE one.network # other.network
    BY <1>5, <2>4
  <2> HIDE DEF Backbone, Lan, Spoke, Mesh
  <2> QED  BY <1>3, <2>1, <2>2, <2>3, <2>4 DEF ApartInSubnet
<1>6. ASSUME NEW i, Spoke(one, i) PROVE ApartInSubnet(one, other)
  <2>1. CASE Backbone(other)
    BY <1>6, <2>1 DEF ApartInSubnet
  <2>2. ASSUME NEW bsn, NEW j, Lan(other, bsn, j) PROVE ApartInSubnet(one, other)
    <3>1. one.network = other.network => bsn % 256 = 0 /\ i = j
      BY <1>6, <2>2
    <3> QED  BY <1>6, <2>2, <3>1 DEF ApartInSubnet, OctetShared
  <2>3. ASSUME NEW j, Spoke(other, j) PROVE ApartInSubnet(one, other)
    BY <1>6, <2>3 DEF ApartInSubnet
  <2>4. ASSUME NEW j, NEW k, Mesh(other, j, k) PROVE one.network # other.network
    BY <1>6, <2>4
  <2> HIDE DEF Backbone, Lan, Spoke, Mesh
  <2> QED  BY <1>3, <2>1, <2>2, <2>3, <2>4 DEF ApartInSubnet
<1>7. ASSUME NEW i, NEW h, Mesh(one, i, h) PROVE ApartInSubnet(one, other)
  <2>1. CASE Backbone(other)
    BY <1>7, <2>1 DEF ApartInSubnet
  <2>2. ASSUME NEW bsn, NEW j, Lan(other, bsn, j) PROVE one.network # other.network
    BY <1>7, <2>2
  <2>3. ASSUME NEW j, Spoke(other, j) PROVE one.network # other.network
    BY <1>7, <2>3
  <2>4. ASSUME NEW j, NEW k, Mesh(other, j, k) PROVE ApartInSubnet(one, other)
    BY <1>7, <2>4 DEF ApartInSubnet
  <2> HIDE DEF Backbone, Lan, Spoke, Mesh
  <2> QED  BY <1>3, <2>1, <2>2, <2>3, <2>4 DEF ApartInSubnet
<1> HIDE DEF Backbone, Lan, Spoke, Mesh
<1> QED  BY <1>3, <1>4, <1>5, <1>6, <1>7

LEMMA BuiltAreShaped == \A link \in BuiltLinks : Shaped(link)
<1> SUFFICES ASSUME NEW link \in BuiltLinks PROVE Shaped(link)
  OBVIOUS
<1>1. PICK topology \in Loads : link \in {topology.links[l] : l \in DOMAIN topology.links}
  BY DEF BuiltLinks
<1>2. PICK l \in DOMAIN topology.links : link = topology.links[l]
  BY <1>1
<1> QED  BY <1>2, LoadsJoin DEF Joins

LEMMA SubnetsOfLinks ==
  ASSUME testLinks \in Seq(TestLinks), NEW name \in Networks
  PROVE  \E l \in DOMAIN testLinks : testLinks[l].name = name /\ testLinks[l].network = Subnet(name)
<1> DEFINE named == {l \in DOMAIN testLinks : testLinks[l].name = name}
           back == {Len(testLinks) - l : l \in named}
<1>1. named # {}
  BY DEF Networks
<1>2. Len(testLinks) \in Nat /\ DOMAIN testLinks = 1 .. Len(testLinks)
  BY LenProperties
<1>3. back \subseteq Nat /\ back # {}
  BY <1>1, <1>2
<1>4. Min(back) \in back /\ \A y \in back : Min(back) <= y
  <2> HIDE DEF back
  <2> QED  BY <1>3, MinOfNats
<1>5. \E l \in named : \A m \in named : m <= l
  <2>1. PICK l \in named : Min(back) = Len(testLinks) - l
    BY <1>4
  <2>2. ASSUME NEW m \in named PROVE m <= l
    <3>1. Len(testLinks) - l <= Len(testLinks) - m
      BY <1>4, <2>1
    <3>2. l \in Nat /\ m \in Nat
      BY <1>2
    <3> QED  BY <1>2, <3>1, <3>2
  <2> QED  BY <2>1, <2>2
<1> DEFINE last == CHOOSE l \in named : \A m \in named : m <= l
<1>6. last \in named
  <2> HIDE DEF named
  <2> QED  BY <1>5
<1>7. Subnet(name) = testLinks[last].network
  BY Zenon DEF Subnet
<1> HIDE DEF last
<1> QED  BY <1>6, <1>7

(* Links are those built or added; between nodes there are, if not added by *)
(* hand; and a node that has a gateway has the link to it, if it was not     *)
(* itself added by hand.                                                     *)
BedIInv ==
  /\ testLinks \in Seq(TestLinks)
  /\ \A l \in DOMAIN testLinks :
       \/ {testLinks[l].a, testLinks[l].b} \subseteq DOMAIN testNodes
       \/ testLinks[l] \in NewTestLinks
  /\ \A n \in DOMAIN testNodes :
       \/ testNodes[n].gateway = NoGateway
       \/ \E l \in DOMAIN testLinks : testLinks[l].a = testNodes[n].gateway /\ testLinks[l].b = n
       \/ <<n, testNodes[n]>> \in NewTestNodes

LEMMA BedStart == TestbedInit => BedIInv
<1> SUFFICES ASSUME TestbedInit PROVE BedIInv
  OBVIOUS
<1>1. DOMAIN testLinks = {} /\ DOMAIN testNodes = {} /\ testLinks \in Seq(TestLinks)
  BY DEF TestbedInit
<1> QED  BY <1>1 DEF BedIInv

LEMMA BedLoaded ==
  ASSUME BedIInv, NEW topology \in Loads, LoadTopology(topology)
  PROVE  BedIInv'
<1> DEFINE built == topology.links
           n0 == Len(testLinks)
<1>1. Joins(topology)
  BY LoadsJoin
<1>2. built \in Seq(TestLinks)
  <2> DEFINE T == {built[l] : l \in DOMAIN built}
  <2>1. built \in Seq(T)
    BY <1>1 DEF Joins
  <2>2. T \subseteq TestLinks
    BY DEF TestLinks, BuiltLinks
  <2> HIDE DEF built, T
  <2> QED  BY <2>1, <2>2
<1>3. testLinks' = testLinks \o built /\ testLinks \in Seq(TestLinks)
  BY DEF LoadTopology, BedIInv
<1>4. /\ DOMAIN testNodes' = DOMAIN testNodes \cup DOMAIN topology.nodes
      /\ \A n \in DOMAIN topology.nodes : testNodes'[n] = topology.nodes[n]
      /\ \A n \in DOMAIN testNodes :
           n \notin DOMAIN topology.nodes => testNodes'[n] = testNodes[n]
  <2> DEFINE new == topology.nodes
             after == Updated(testNodes, new)
  <2>1. testNodes' = after
    BY DEF LoadTopology
  <2>2. /\ DOMAIN after = DOMAIN testNodes \cup DOMAIN new
        /\ \A n \in DOMAIN new : after[n] = new[n]
        /\ \A n \in DOMAIN testNodes : n \notin DOMAIN new => after[n] = testNodes[n]
    <3> HIDE DEF new
    <3> QED  BY UpdatedFacts
  <2> HIDE DEF after
  <2> QED  BY <2>1, <2>2
<1>5. \A l \in DOMAIN built : /\ {built[l].a, built[l].b} \subseteq DOMAIN topology.nodes
  BY <1>1 DEF Joins
<1>6. \A n \in DOMAIN topology.nodes :
        \/ topology.nodes[n].gateway = NoGateway
        \/ \E l \in DOMAIN built : built[l].a = topology.nodes[n].gateway /\ built[l].b = n
  BY <1>1 DEF Joins
<1> HIDE DEF built
<1>7. /\ testLinks' \in Seq(TestLinks)
      /\ n0 \in Nat /\ DOMAIN testLinks = 1 .. n0
      /\ Len(built) \in Nat /\ DOMAIN built = 1 .. Len(built)
      /\ DOMAIN testLinks' = 1 .. n0 + Len(built)
  BY <1>2, <1>3
<1>8. \A l \in DOMAIN testLinks : l \in DOMAIN testLinks' /\ testLinks'[l] = testLinks[l]
  BY <1>2, <1>3
<1>9. \A l \in DOMAIN built : n0 + l \in DOMAIN testLinks' /\ testLinks'[n0 + l] = built[l]
  BY <1>2, <1>3
<1>10. \A l \in DOMAIN testLinks' : l \in DOMAIN testLinks \/ \E k \in DOMAIN built : l = n0 + k
  <2> SUFFICES ASSUME NEW l \in DOMAIN testLinks', l \notin DOMAIN testLinks
               PROVE  l - n0 \in DOMAIN built /\ l = n0 + (l - n0)
    OBVIOUS
  <2> QED  BY <1>7
<1> HIDE DEF n0
<1>11. ASSUME NEW l \in DOMAIN testLinks'
       PROVE  \/ {testLinks'[l].a, testLinks'[l].b} \subseteq DOMAIN testNodes'
              \/ testLinks'[l] \in NewTestLinks
  <2>1. CASE l \in DOMAIN testLinks
    BY <1>4, <1>8, <2>1 DEF BedIInv
  <2>2. ASSUME NEW k \in DOMAIN built, l = n0 + k
        PROVE  {testLinks'[l].a, testLinks'[l].b} \subseteq DOMAIN testNodes'
    BY <1>4, <1>5, <1>9, <2>2
  <2> QED  BY <1>10, <2>1, <2>2
<1>12. ASSUME NEW n \in DOMAIN testNodes'
       PROVE  \/ testNodes'[n].gateway = NoGateway
              \/ \E l \in DOMAIN testLinks' :
                   testLinks'[l].a = testNodes'[n].gateway /\ testLinks'[l].b = n
              \/ <<n, testNodes'[n]>> \in NewTestNodes
  <2>1. CASE n \in DOMAIN topology.nodes
    BY <1>4, <1>6, <1>9, <2>1
  <2>2. CASE n \notin DOMAIN topology.nodes
    BY <1>4, <1>8, <1>12, <2>2 DEF BedIInv
  <2> QED  BY <2>1, <2>2
<1> QED  BY <1>7, <1>11, <1>12 DEF BedIInv

LEMMA BedKeeps == BedIInv /\ [TestbedNext]_testbedVars => BedIInv'
<1> SUFFICES ASSUME BedIInv, [TestbedNext]_testbedVars PROVE BedIInv'
  OBVIOUS
<1>1. ASSUME NEW topology \in Loads, LoadTopology(topology) PROVE BedIInv'
  BY <1>1, BedLoaded
<1>2. ASSUME NEW n \in NewTestNodes, AddNode8(n[1], n[2]) PROVE BedIInv'
  <2> DEFINE new == [m \in {n[1]} |-> n[2]]
  <2>1. DOMAIN new = {n[1]} /\ new[n[1]] = n[2]
    OBVIOUS
  <2>2. testLinks' = testLinks /\ testNodes' = Updated(testNodes, new)
    BY <1>2 DEF AddNode8
  <2> HIDE DEF new
  <2>3. /\ DOMAIN testNodes' = DOMAIN testNodes \cup {n[1]} /\ testNodes'[n[1]] = n[2]
        /\ \A m \in DOMAIN testNodes : m # n[1] => testNodes'[m] = testNodes[m]
    <3> DEFINE after == Updated(testNodes, new)
    <3>1. /\ DOMAIN after = DOMAIN testNodes \cup DOMAIN new
          /\ \A m \in DOMAIN new : after[m] = new[m]
          /\ \A m \in DOMAIN testNodes : m \notin DOMAIN new => after[m] = testNodes[m]
      BY UpdatedFacts
    <3>2. testNodes' = after
      BY <2>2
    <3> HIDE DEF after
    <3> QED  BY <2>1, <3>1, <3>2
  <2>4. n = <<n[1], n[2]>>
    BY TestbedAssumption
  <2>5. ASSUME NEW m \in DOMAIN testNodes'
        PROVE  \/ testNodes'[m].gateway = NoGateway
               \/ \E l \in DOMAIN testLinks' :
                    testLinks'[l].a = testNodes'[m].gateway /\ testLinks'[l].b = m
               \/ <<m, testNodes'[m]>> \in NewTestNodes
    BY <2>2, <2>3, <2>4, <2>5 DEF BedIInv
  <2> QED  BY <2>2, <2>3, <2>5 DEF BedIInv
<1>3. ASSUME NEW link \in NewTestLinks, AddLink8(link) PROVE BedIInv'
  <2>1. /\ testLinks' = Append(testLinks, link) /\ testNodes' = testNodes
        /\ testLinks \in Seq(TestLinks) /\ link \in TestLinks
    BY <1>3 DEF AddLink8, BedIInv, TestLinks
  <2>2. /\ testLinks' \in Seq(TestLinks) /\ Len(testLinks) \in Nat
        /\ DOMAIN testLinks = 1 .. Len(testLinks) /\ DOMAIN testLinks' = 1 .. Len(testLinks) + 1
        /\ \A l \in DOMAIN testLinks : testLinks'[l] = testLinks[l]
        /\ testLinks'[Len(testLinks) + 1] = link
    BY <2>1
  <2>3. \A l \in DOMAIN testLinks' : l \in DOMAIN testLinks \/ l = Len(testLinks) + 1
    BY <2>2
  <2>4. \A l \in DOMAIN testLinks' : \/ {testLinks'[l].a, testLinks'[l].b} \subseteq DOMAIN testNodes'
                                     \/ testLinks'[l] \in NewTestLinks
    BY <2>1, <2>2, <2>3 DEF BedIInv
  <2>5. DOMAIN testLinks \subseteq DOMAIN testLinks'
    BY <2>2
  <2>6. ASSUME NEW m \in DOMAIN testNodes'
        PROVE  \/ testNodes'[m].gateway = NoGateway
               \/ \E l \in DOMAIN testLinks' :
                    testLinks'[l].a = testNodes'[m].gateway /\ testLinks'[l].b = m
               \/ <<m, testNodes'[m]>> \in NewTestNodes
    BY <2>1, <2>2, <2>5, <2>6 DEF BedIInv
  <2> QED  BY <2>2, <2>4, <2>6 DEF BedIInv
<1>4. CASE ClearTestbed
  <2>1. DOMAIN testLinks' = {} /\ DOMAIN testNodes' = {} /\ testLinks' \in Seq(TestLinks)
    BY <1>4 DEF ClearTestbed
  <2> QED  BY <2>1 DEF BedIInv
<1>5. CASE UNCHANGED testbedVars
  BY <1>5 DEF testbedVars, BedIInv
<1> QED  BY <1>1, <1>2, <1>3, <1>4, <1>5 DEF TestbedNext

LEMMA BedJoins == BedIInv => ComposeJoinsPeers
<1> SUFFICES ASSUME BedIInv PROVE ComposeJoinsPeers
  OBVIOUS
<1>1. ASSUME NEW l \in DOMAIN testLinks
      PROVE  LET a == testLinks[l].a  b == testLinks[l].b
             IN  /\ b \in PeersOf(a) /\ a \in PeersOf(b)
                 /\ testLinks[l].name \in Attached(a) \cap Attached(b)
  BY DEF PeersOf, Attached
<1>2. ASSUME NEW node \in DOMAIN testNodes, NEW peer \in PeersOf(node)
      PROVE  IF peer \in DOMAIN testNodes
             THEN node \in PeersOf(peer) /\ Attached(node) \cap Attached(peer) # {}
             ELSE \E l \in DOMAIN testLinks :
                    ByHand(l) /\ {testLinks[l].a, testLinks[l].b} = {node, peer}
  <2>1. PICK l \in DOMAIN testLinks : \/ testLinks[l].a = node /\ testLinks[l].b = peer
                                      \/ testLinks[l].b = node /\ testLinks[l].a = peer
    BY DEF PeersOf
  <2>2. CASE peer \in DOMAIN testNodes
    BY <1>1, <2>1, <2>2
  <2>3. CASE peer \notin DOMAIN testNodes
    <3>1. testLinks[l] \in NewTestLinks
      BY <2>1, <2>3 DEF BedIInv
    <3>2. {testLinks[l].a, testLinks[l].b} = {node, peer}
      BY <2>1
    <3> QED  BY <2>3, <3>1, <3>2 DEF ByHand
  <2> QED  BY <2>2, <2>3
<1>3. ASSUME NEW node \in DOMAIN testNodes
      PROVE  \/ testNodes[node].gateway \in PeersOf(node) \cup {NoGateway}
             \/ <<node, testNodes[node]>> \in NewTestNodes
  BY <1>1 DEF BedIInv
<1>4. ASSUME NEW one \in Networks, NEW other \in Networks, Subnet(one) = Subnet(other)
      PROVE  one = other \/ SameSubnet(one, other)
  <2>1. testLinks \in Seq(TestLinks)
    BY DEF BedIInv
  <2>2. PICK l \in DOMAIN testLinks : testLinks[l].name = one /\ testLinks[l].network = Subnet(one)
    BY <2>1, SubnetsOfLinks
  <2>3. PICK m \in DOMAIN testLinks : testLinks[m].name = other /\ testLinks[m].network = Subnet(other)
    BY <2>1, SubnetsOfLinks
  <2>4. testLinks[l] \in TestLinks /\ testLinks[m] \in TestLinks
    BY <2>1
  <2>5. CASE testLinks[l] \in NewTestLinks
    BY <2>2, <2>5 DEF SameSubnet, SubnetByHand, ByHand
  <2>6. CASE testLinks[m] \in NewTestLinks
    BY <2>3, <2>6 DEF SameSubnet, SubnetByHand, ByHand
  <2>7. CASE testLinks[l] \in BuiltLinks /\ testLinks[m] \in BuiltLinks
    <3>1. ApartInSubnet(testLinks[l], testLinks[m])
      BY <2>7, BuiltAreShaped, ShapesApart
    <3> QED  BY <1>4, <2>2, <2>3, <3>1 DEF ApartInSubnet, SameSubnet
  <2> QED  BY <2>4, <2>5, <2>6, <2>7 DEF TestLinks
<1> QED  BY <1>2, <1>3, <1>4, Zenon DEF ComposeJoinsPeers

(* The compose file and the configurations of the test bed describe one     *)
(* network but for what is named, however many topologies of whatever size  *)
(* and of whatever systems were loaded over each other, and whatever nodes  *)
(* and links were added by hand: a peer that is a service knows the node    *)
(* and shares a network with it, one that is none is at the end of a link   *)
(* added by hand; a gateway is a peer, or was given with a node added by    *)
(* hand; and two networks have one subnet only where systems agree in an    *)
(* octet or a link by hand says so (add_link, generate_compose,             *)
(* generate_node_config).                                                   *)
THEOREM OneNetworkIsDescribed == TestbedSpec => []ComposeJoinsPeers
<1>1. TestbedSpec => []BedIInv
  BY BedStart, BedKeeps, PTL DEF TestbedSpec
<1> QED  BY <1>1, BedJoins, PTL
================================================================================
