---------------------------- MODULE ReassemblyProofs ----------------------------
(***************************************************************************)
(* Proofs about fragmentation and reassembly, for every set of packets,    *)
(* lengths, links and times.  What reassembly returns is right because of  *)
(* three things that hold together: pieces say where they belong           *)
(* (Honest), a buffer that is not stale holds pieces of one packet only    *)
(* (Timely, KeysApart), and none that is complete is kept.  After it come  *)
(* what two ends hear of each other (Exchange) and the files that tell of  *)
(* traffic (TraceFiles), which rest on what is decoded of words that were  *)
(* encoded (Wire).                                                         *)
(***************************************************************************)
EXTENDS Reassembly, Exchange, TraceFiles, MinFacts, SequenceTheorems

--------------------------------------------------------------------------------
(* The inductive invariant, part by part.                                   *)

(* What is under way was sent a short time ago.                             *)
Fresh ==
  \A p \in Packets :
    /\ net[p] # {} => p \in sent /\ age[p] <= Lifetime
    /\ p \notin sent => age[p] = 0

(* Of two packets with one key one was sent long ago.                       *)
KeysApart ==
  \A p, q \in sent : p # q /\ Key[p] = Key[q] => age[p] >= ReuseAfter \/ age[q] >= ReuseAfter

(* What a buffer that is not stale holds was under way when the buffer was  *)
(* made or came later.                                                      *)
Timely ==
  \A k \in Keys : buffers[k] # NoBuffer /\ ~Stale(buffers[k]) =>
    \A c \in buffers[k].chunks : c.pkt \in sent /\ age[c.pkt] <= Lifetime + buffers[k].age

(* A piece that can be addressed says where it belongs, and has MF if it is  *)
(* not the last.                                                            *)
Honest(f) ==
  /\ f.off * Unit = f.at
  /\ f.at + f.len <= Length[f.pkt]
  /\ f.mf = (f.at + f.len < Length[f.pkt])

(* A buffer of pieces of one packet knows its length once the last is in.   *)
Whole(b) ==
  /\ \A c, d \in b.chunks : c.pkt = d.pkt
  /\ \A c \in b.chunks :
       /\ c.at = c.off /\ End(c) <= Length[c.pkt]
       /\ b.total \in {NoTotal, Length[c.pkt]}
       /\ End(c) = Length[c.pkt] => b.total # NoTotal
  /\ b.chunks = {} => b.total = NoTotal

(* What is known of a buffer kept for key k.                                *)
Good(b, k) ==
  /\ b \in ReassemblyBuffer
  /\ \A c \in b.chunks : Key[c.pkt] = k
  /\ \A c, d \in b.chunks : c.off = d.off => c = d
  /\ Undisturbed => Whole(b) /\ ~Complete(b)

BuffersGood ==
  /\ buffers \in [Keys -> ReassemblyBuffer \cup {NoBuffer}]
  /\ \A k \in Keys : buffers[k] # NoBuffer => Good(buffers[k], k)

NetGood ==
  /\ sent \subseteq Packets
  /\ age \in [Packets -> 0 .. ReuseAfter]
  /\ net \in [Packets -> SUBSET Fragment]
  /\ \A p \in Packets : \A f \in net[p] : f.pkt = p /\ (Undisturbed => Honest(f))

IInv == NetGood /\ Fresh /\ KeysApart /\ BuffersGood /\ Timely /\ ExactReassembly

--------------------------------------------------------------------------------
(* Arithmetic of offsets and units.                                         *)
LEMMA UnitsExact ==
  ASSUME NEW u \in Nat \ {0}, NEW q \in Nat
  PROVE  (q * u) \div u = q /\ q * u \in Nat
BY SMTT(30)

LEMMA UnitsBelow ==
  ASSUME NEW u \in Nat \ {0}, NEW n \in Nat
  PROVE  n \div u \in Nat /\ (n \div u) * u <= n /\ (u <= n => n \div u >= 1)
BY SMTT(30)

LEMMA ModSmall ==
  ASSUME NEW m \in Nat \ {0}, NEW n \in Nat
  PROVE  n % m \in 0 .. m - 1 /\ (n < m => n % m = n)
BY SMTT(30)

LEMMA UnitsFew ==
  ASSUME NEW u \in Nat \ {0}, NEW q \in Nat, NEW m \in Nat, q * u < u * m
  PROVE  q < m
BY SMTT(30)

LEMMA ProductNat ==
  ASSUME NEW m \in Nat, NEW n \in Nat
  PROVE  m * n \in Nat
OBVIOUS

LEMMA ProductAssociates ==
  ASSUME NEW k \in Nat, NEW m \in Nat, NEW u \in Nat
  PROVE  k * (m * u) = (k * m) * u
BY SMTT(30)

LEMMA MinOfTwo ==
  ASSUME NEW a \in Nat, NEW b \in Nat
  PROVE  Min({a, b}) \in {a, b} /\ Min({a, b}) <= a /\ Min({a, b}) <= b
<1>1. {a, b} \subseteq Nat /\ {a, b} # {}
  OBVIOUS
<1> QED  BY <1>1, MinOfNats

(* A set of naturals that is bounded has a greatest element.                *)
LEMMA GreatestBelow ==
  ASSUME NEW S, S \subseteq Nat, S # {}, NEW n \in Nat, \A x \in S : x <= n
  PROVE  \E x \in S : \A y \in S : y <= x
<1> DEFINE gaps == {n - x : x \in S}
<1>0. \A x \in S : n - x \in Nat
  OBVIOUS
<1>1. gaps \subseteq Nat /\ gaps # {}
  BY <1>0
<1>2. Min(gaps) \in gaps /\ \A g \in gaps : Min(gaps) <= g
  BY <1>1, MinOfNats
<1>3. PICK x \in S : Min(gaps) = n - x
  BY <1>2
<1>4. \A y \in S : n - x <= n - y
  BY <1>2, <1>3
<1> QED  BY <1>4

--------------------------------------------------------------------------------
(* What fragment() makes.  A piece starts at a whole number of units and    *)
(* ends within the packet.                                                  *)
LEMMA PieceHonest ==
  ASSUME NEW p \in Packets, NEW units \in Nat, NEW size \in Nat,
         units * Unit + size <= Length[p], units * Unit < Length[p]
  PROVE  LET f == Piece(p, units * Unit, size)
         IN  f \in Fragment /\ f.pkt = p /\ (Addressable => Honest(f))
<1> DEFINE start == units * Unit
           f == Piece(p, start, size)
<1>1. Length[p] \in Nat /\ Unit \in Nat \ {0} /\ OffsetMod \in Nat \ {0}
  BY ReassemblyAssumption
<1>2. start \in Nat /\ start \div Unit = units
  BY <1>1, UnitsExact
<1>3. f.pkt = p /\ f.off = units % OffsetMod /\ f.at = start /\ f.len = size
      /\ f.mf = (start + size < Length[p])
  BY <1>2 DEF Piece
<1>4. units % OffsetMod \in 0 .. OffsetMod - 1
  BY <1>1, ModSmall
<1>5. f \in Fragment
  BY <1>2, <1>4 DEF Piece, Fragment
<1>6. ASSUME Addressable PROVE Honest(f)
  <2>1. Length[p] <= Unit * OffsetMod
    BY <1>6 DEF Addressable
  <2>2. units * Unit < Unit * OffsetMod
    <3>1. Unit * OffsetMod \in Nat
      BY <1>1, ProductNat
    <3> QED  BY <1>1, <1>2, <2>1, <3>1
  <2>3. units < OffsetMod
    BY <1>1, <2>2, UnitsFew
  <2>4. f.off = units
    BY <1>1, <1>3, <2>3, ModSmall
  <2> QED  BY <1>2, <1>3, <2>4 DEF Honest
<1> QED  BY <1>3, <1>5, <1>6

LEMMA FragmentsHonest ==
  ASSUME NEW p \in Packets, NEW room \in Rooms, NEW f \in Fragments(p, room)
  PROVE  f \in Fragment /\ f.pkt = p /\ (Addressable => Honest(f))
<1> DEFINE len == Length[p]
           units == room \div Unit
           max == units * Unit
<1>1. len \in Nat \ {0} /\ Unit \in Nat \ {0} /\ room \in Nat /\ room >= Unit
  BY ReassemblyAssumption
<1>2. units \in Nat \ {0}
  BY <1>1, UnitsBelow
<1>3. max \in Nat \ {0}
  BY <1>1, <1>2, SMTT(30)
<1>4. CASE len <= room
  <2>1. f = Piece(p, 0, len)
    BY <1>4 DEF Fragments
  <2>2. 0 * Unit = 0 /\ 0 \in Nat
    BY <1>1
  <2>3. 0 * Unit + len <= Length[p] /\ 0 * Unit < Length[p]
    BY <1>1, <2>2
  <2>4. LET g == Piece(p, 0 * Unit, len)
        IN  g \in Fragment /\ g.pkt = p /\ (Addressable => Honest(g))
    BY <1>1, <2>2, <2>3, PieceHonest
  <2> QED  BY <2>1, <2>2, <2>4
<1>5. CASE ~ (len <= room)
  <2>1. PICK k \in 0 .. (len - 1) \div max : f = Piece(p, k * max, Min({max, len - k * max}))
    BY <1>5 DEF Fragments
  <2>2. len - 1 \in Nat /\ (len - 1) \div max \in Nat /\ ((len - 1) \div max) * max <= len - 1
    <3> HIDE DEF max
    <3>1. len - 1 \in Nat
      BY <1>1
    <3> QED  BY <1>3, <3>1, UnitsBelow
  <2>3. k \in Nat /\ k * max <= ((len - 1) \div max) * max
    <3> HIDE DEF max
    <3>1. k \in Nat /\ k <= (len - 1) \div max
      BY <2>2
    <3> QED  BY <1>3, <2>2, <3>1, SMTT(30)
  <2>4. k * max \in Nat
    BY <1>3, <2>3, ProductNat
  <2>5. k * max <= len - 1
    <3> HIDE DEF max
    <3>1. ((len - 1) \div max) * max \in Nat
      BY <1>3, <2>2, ProductNat
    <3> QED  BY <1>1, <2>2, <2>3, <2>4, <3>1
  <2>6. len - k * max \in Nat
    BY <1>1, <2>4, <2>5
  <2>7. Min({max, len - k * max}) \in Nat /\ Min({max, len - k * max}) <= len - k * max
    BY <1>3, <2>6, MinOfTwo
  <2>8. k * units \in Nat /\ k * max = (k * units) * Unit
    BY <1>1, <1>2, <2>3, ProductNat, ProductAssociates
  <2>9. (k * units) * Unit + Min({max, len - k * max}) <= len /\ (k * units) * Unit < len
    BY <1>1, <2>4, <2>5, <2>7, <2>8
  <2>10. LET g == Piece(p, (k * units) * Unit, Min({max, len - k * max}))
         IN  g \in Fragment /\ g.pkt = p /\ (Addressable => Honest(g))
    BY <2>7, <2>8, <2>9, PieceHonest
  <2> QED  BY <2>1, <2>8, <2>10
<1> QED  BY <1>4, <1>5

--------------------------------------------------------------------------------
(* What a buffer returns.  Every byte of a complete one is covered, and the *)
(* chunk that is written last over it has that byte.                        *)
LEMMA CompleteCovers ==
  ASSUME NEW b \in ReassemblyBuffer, Complete(b), NEW i \in Nat, i < b.total, b.total \in Nat
  PROVE  \E c \in b.chunks : c.off <= i /\ i < End(c)
<1> DEFINE beyond == {c.off : c \in {d \in b.chunks : i < End(d)}}
<1>1. \A c \in b.chunks : c.off \in Nat /\ c.len \in Nat /\ End(c) \in Nat
  BY DEF ReassemblyBuffer, Chunk, End
<1>2. beyond \subseteq Nat
  BY <1>1
<1>3. beyond # {}
  <2>1. PICK c \in b.chunks : End(c) >= b.total
    BY DEF Complete
  <2>2. i < End(c)
    BY <1>1, <2>1
  <2> QED  BY <2>2
<1>4. Min(beyond) \in beyond /\ \A y \in beyond : Min(beyond) <= y
  BY <1>2, <1>3, MinOfNats
<1>5. PICK c \in b.chunks : c.off = Min(beyond) /\ i < End(c)
  BY <1>4
<1>6. SUFFICES ASSUME ~ (c.off <= i) PROVE FALSE
  BY <1>5
<1>7. c.off # 0
  BY <1>1, <1>6
<1>8. PICK d \in b.chunks : d.off < c.off /\ End(d) >= c.off
  BY <1>7 DEF Complete
<1>9. i < End(d)
  BY <1>1, <1>6, <1>8
<1>10. d.off \in beyond
  BY <1>9
<1>11. c.off <= d.off
  BY <1>4, <1>5, <1>10
<1> QED  BY <1>1, <1>8, <1>11

LEMMA WholeTotal ==
  ASSUME NEW b \in ReassemblyBuffer, NEW p \in Packets, Whole(b), Complete(b),
         \A c \in b.chunks : c.pkt = p
  PROVE  b.total = Length[p] /\ b.total \in Nat
<1>1. PICK c \in b.chunks : End(c) >= b.total
  BY DEF Complete
<1>2. b.total \in {NoTotal, Length[p]}
  BY <1>1 DEF Whole
<1> QED  BY <1>2, ReassemblyAssumption DEF Complete

LEMMA WholeAssembles ==
  ASSUME NEW b \in ReassemblyBuffer, NEW p \in Packets, Whole(b), Complete(b),
         \A c \in b.chunks : c.pkt = p
  PROVE  Assemble(b) = Bytes(p)
<1> DEFINE ends == {b.total} \cup {End(c) : c \in b.chunks}
           over(i) == {c \in b.chunks : c.off <= i /\ i < End(c)}
           last(i) == CHOOSE c \in over(i) : \A d \in over(i) : d.off <= c.off
           byte(i) == IF over(i) = {} THEN <<"zero", 0>>
                      ELSE <<last(i).pkt, last(i).at + (i - last(i).off)>>
<1>1. b.total = Length[p] /\ b.total \in Nat
  BY WholeTotal
<1>2. \A c \in b.chunks : c.off \in Nat /\ c.len \in Nat /\ c.at = c.off /\ End(c) \in Nat /\ End(c) <= b.total
  BY <1>1 DEF ReassemblyBuffer, Chunk, End, Whole
<1>3. Max(ends) = b.total
  <2>1. \A x \in ends : x \in Nat /\ b.total >= x
    BY <1>1, <1>2
  <2>2. b.total \in ends
    OBVIOUS
  <2>3. \A x \in ends : (\A y \in ends : x >= y) => x = b.total
    <3> HIDE DEF ends
    <3> QED  BY <1>1, <2>1, <2>2
  <2>4. \E x \in ends : \A y \in ends : x >= y
    BY <2>1, <2>2
  <2> HIDE DEF ends
  <2>5. Max(ends) \in ends /\ \A y \in ends : Max(ends) >= y
    BY <2>4 DEF Max
  <2> QED  BY <2>3, <2>5
<1>4. ASSUME NEW i \in 0 .. b.total - 1 PROVE byte(i) = <<p, i>>
  <2>1. i \in Nat /\ i < b.total
    BY <1>1
  <2>2. over(i) # {}
    BY <1>1, <2>1, CompleteCovers
  <2>3. \E c \in over(i) : \A d \in over(i) : d.off <= c.off
    <3> DEFINE offs == {c.off : c \in over(i)}
    <3>1. offs \subseteq Nat /\ offs # {} /\ \A x \in offs : x <= i
      BY <1>2, <2>2
    <3>2. PICK x \in offs : \A y \in offs : y <= x
      <4> HIDE DEF offs
      <4> QED  BY <2>1, <3>1, GreatestBelow
    <3>3. PICK c \in over(i) : c.off = x
      OBVIOUS
    <3> QED  BY <3>2, <3>3
  <2>4. last(i) \in over(i)
    <3> HIDE DEF over
    <3> QED  BY <2>3
  <2>5. last(i) \in b.chunks /\ last(i).pkt = p /\ last(i).at = last(i).off /\ last(i).off \in Nat
    BY <1>2, <2>4
  <2>6. byte(i) = <<last(i).pkt, last(i).at + (i - last(i).off)>>
    BY <2>2
  <2> HIDE DEF last, byte
  <2> QED  BY <2>1, <2>5, <2>6
<1>5. Assemble(b) = [i \in 0 .. Max(ends) - 1 |-> byte(i)]
  BY DEF Assemble
<1> HIDE DEF ends, byte
<1> QED  BY <1>1, <1>3, <1>4, <1>5 DEF Bytes

(* A buffer that has all bytes of a packet is complete.                     *)
LEMMA CoveredIsComplete ==
  ASSUME NEW b \in ReassemblyBuffer, NEW p \in Packets, Whole(b),
         \A i \in 0 .. Length[p] - 1 :
           \E c \in b.chunks : c.pkt = p /\ c.at <= i /\ i < c.at + c.len
  PROVE  Complete(b)
<1> DEFINE len == Length[p]
<1>1. len \in Nat \ {0}
  BY ReassemblyAssumption
<1>2. PICK e \in b.chunks : e.pkt = p /\ e.at <= len - 1 /\ len - 1 < e.at + e.len
  <2>1. len - 1 \in 0 .. len - 1
    BY <1>1
  <2> QED  BY <2>1
<1>3. \A c \in b.chunks :
        /\ c.pkt = p /\ c.at = c.off /\ c.off \in Nat /\ c.len \in Nat
        /\ End(c) = c.off + c.len /\ End(c) <= len
  BY <1>2 DEF ReassemblyBuffer, Chunk, End, Whole
<1>4. End(e) = len
  BY <1>1, <1>2, <1>3
<1>5. b.total = len
  BY <1>2, <1>4 DEF Whole
<1>6. ASSUME NEW c \in b.chunks, c.off # 0
      PROVE  \E d \in b.chunks : d.off < c.off /\ End(d) >= c.off
  <2>1. c.off - 1 \in 0 .. len - 1
    BY <1>1, <1>3, <1>6
  <2>2. PICK d \in b.chunks : d.at <= c.off - 1 /\ c.off - 1 < d.at + d.len
    BY <2>1
  <2> QED  BY <1>3, <2>2
<1>7. b.total # NoTotal
  BY <1>1, <1>5, NoneAssumption
<1>8. End(e) >= b.total
  BY <1>1, <1>4, <1>5
<1> QED  BY <1>6, <1>7, <1>8 DEF Complete
--------------------------------------------------------------------------------
(* What a buffer keeps.                                                     *)
LEMMA NewBufferGood ==
  ASSUME NEW k
  PROVE  Good(NewBuffer, k) /\ NewBuffer.age = 0 /\ NewBuffer.chunks = {}
<1>1. NewBuffer \in ReassemblyBuffer
  BY ReassemblyAssumption DEF NewBuffer, ReassemblyBuffer
<1>2. Whole(NewBuffer) /\ ~Complete(NewBuffer)
  BY DEF NewBuffer, Whole, Complete
<1> QED  BY <1>1, <1>2 DEF NewBuffer, Good

LEMMA InsertKeeps ==
  ASSUME NEW b \in ReassemblyBuffer, NEW f \in Fragment, Good(b, Key[f.pkt]),
         Undisturbed => Honest(f) /\ \A c \in b.chunks : c.pkt = f.pkt
  PROVE  LET i == Insert(b, f)
         IN  /\ i \in ReassemblyBuffer
             /\ i.age = b.age
             /\ \A c \in i.chunks : c \in b.chunks \/ c.pkt = f.pkt
             /\ \A c \in i.chunks : Key[c.pkt] = Key[f.pkt]
             /\ \A c, d \in i.chunks : c.off = d.off => c = d
             /\ Undisturbed => Whole(i) /\ \A c \in i.chunks : c.pkt = f.pkt
<1> DEFINE i == Insert(b, f)
           new == ChunkOf(f)
<1>1. f.pkt \in Packets /\ f.off \in Nat /\ f.at \in Nat /\ f.len \in Nat /\ f.mf \in BOOLEAN
  BY ReassemblyAssumption DEF Fragment
<1>2. f.off * Unit \in Nat
  BY <1>1, ReassemblyAssumption, ProductNat
<1>3. /\ new \in Chunk /\ new.off = f.off * Unit /\ new.at = f.at /\ new.len = f.len
      /\ new.pkt = f.pkt
  BY <1>1, <1>2 DEF ChunkOf, Chunk
<1>4. /\ i.chunks = {c \in b.chunks : c.off # f.off * Unit} \cup {new}
      /\ i.total = IF f.mf THEN b.total ELSE f.off * Unit + f.len
      /\ i.age = b.age
      /\ i = [chunks |-> i.chunks, total |-> i.total, age |-> i.age]
  <2> DEFINE chunks == {c \in b.chunks : c.off # f.off * Unit} \cup {new}
             total == IF f.mf THEN b.total ELSE f.off * Unit + f.len
             b1 == [b EXCEPT !.chunks = chunks]
  <2>1. i = [b1 EXCEPT !.total = total]
    BY DEF Insert
  <2> HIDE DEF chunks, total, i
  <2>2. b = [chunks |-> b.chunks, total |-> b.total, age |-> b.age]
    BY DEF ReassemblyBuffer
  <2>3. b1 = [chunks |-> chunks, total |-> b.total, age |-> b.age]
    BY <2>2
  <2> HIDE DEF b1
  <2>4. i = [chunks |-> chunks, total |-> total, age |-> b.age]
    BY <2>1, <2>3
  <2>5. i.chunks = chunks /\ i.total = total /\ i.age = b.age
    BY <2>4
  <2> QED  BY <2>4, <2>5 DEF chunks, total
<1>5. b.chunks \subseteq Chunk /\ b.total \in Nat \cup {NoTotal} /\ b.age \in 0 .. Timeout + 1
  BY DEF ReassemblyBuffer
<1>6. f.off * Unit + f.len \in Nat
  BY <1>1, <1>2
<1>7. i \in ReassemblyBuffer
  BY <1>3, <1>4, <1>5, <1>6 DEF ReassemblyBuffer
<1>8. \A c \in i.chunks : (c \in b.chunks /\ c.off # new.off) \/ c = new
  BY <1>3, <1>4
<1>9. \A c \in i.chunks : Key[c.pkt] = Key[f.pkt]
  BY <1>3, <1>8 DEF Good
<1>10. \A c, d \in i.chunks : c.off = d.off => c = d
  BY <1>8 DEF Good
<1>11. ASSUME Undisturbed PROVE Whole(i) /\ \A c \in i.chunks : c.pkt = f.pkt
  <2> DEFINE len == Length[f.pkt]
  <2>1. len \in Nat /\ len # NoTotal
    BY <1>1, ReassemblyAssumption, NoneAssumption
  <2>2. f.off * Unit = f.at /\ f.at + f.len <= len /\ f.mf = (f.at + f.len < len)
    BY <1>11 DEF Honest
  <2>3. \A c \in i.chunks : c.pkt = f.pkt
    BY <1>3, <1>8, <1>11
  <2>4. \A c \in b.chunks :
          /\ c.at = c.off /\ End(c) <= len
          /\ b.total \in {NoTotal, len}
          /\ End(c) = len => b.total # NoTotal
    BY <1>11 DEF Good, Whole
  <2>5. b.total \in {NoTotal, len}
    BY <1>11, <2>4 DEF Good, Whole
  <2>6. new.at = new.off /\ End(new) = f.at + f.len
    BY <1>3, <2>2 DEF End
  <2>7. i.total \in {NoTotal, len} /\ (b.total # NoTotal => i.total # NoTotal)
        /\ (End(new) = len => i.total # NoTotal)
    <3> HIDE DEF i, new, len
    <3>1. CASE f.mf
      <4>1. f.at + f.len < len /\ i.total = b.total
        BY <1>4, <2>2, <3>1
      <4> QED  BY <1>1, <2>1, <2>5, <2>6, <4>1
    <3>2. CASE ~f.mf
      <4>1. ~ (f.at + f.len < len) /\ i.total = f.at + f.len
        BY <1>4, <2>2, <3>2
      <4>2. i.total = len
        BY <1>1, <2>1, <2>2, <4>1
      <4> QED  BY <2>1, <4>2
    <3> QED  BY <3>1, <3>2
  <2>8. \A c \in i.chunks : c.at = c.off /\ End(c) <= len /\ (End(c) = len => i.total # NoTotal)
    <3>1. End(new) <= len
      BY <2>2, <2>6
    <3> QED  BY <1>8, <2>4, <2>6, <2>7, <3>1
  <2>9. i.chunks # {}
    BY <1>4
  <2> QED  BY <2>3, <2>7, <2>8, <2>9 DEF Whole
<1> QED  BY <1>3, <1>4, <1>7, <1>8, <1>9, <1>10, <1>11

(* What expiry leaves.                                                      *)
LEMMA LiveGood ==
  ASSUME BuffersGood
  PROVE  /\ Live \in [Keys -> ReassemblyBuffer \cup {NoBuffer}]
         /\ \A k \in Keys : Live[k] # NoBuffer =>
              Live[k] = buffers[k] /\ ~Stale(buffers[k]) /\ Good(Live[k], k)
BY DEF BuffersGood, Live

LEMMA OneBufferChanges ==
  ASSUME BuffersGood, Timely, NEW k \in Keys, NEW b,
         b # NoBuffer =>
           /\ Good(b, k)
           /\ \A c \in b.chunks : c.pkt \in sent /\ age[c.pkt] <= Lifetime + b.age,
         buffers' = [Live EXCEPT ![k] = b], sent' = sent, age' = age
  PROVE  BuffersGood' /\ Timely'
<1>1. b \in ReassemblyBuffer \cup {NoBuffer}
  BY DEF Good
<1>2. buffers' \in [Keys -> ReassemblyBuffer \cup {NoBuffer}]
  BY <1>1, LiveGood
<1>3. \A j \in Keys : buffers'[j] = IF j = k THEN b ELSE Live[j]
  BY LiveGood
<1>4. ASSUME NEW j \in Keys, buffers'[j] # NoBuffer
      PROVE  /\ Good(buffers'[j], j)
             /\ ~Stale(buffers'[j]) => 
                  \A c \in buffers'[j].chunks : c.pkt \in sent /\ age[c.pkt] <= Lifetime + buffers'[j].age
  <2>1. CASE j = k
    BY <1>3, <1>4, <2>1
  <2>2. CASE j # k
    BY <1>3, <1>4, <2>2, LiveGood DEF Timely
  <2> QED  BY <2>1, <2>2
<1>5. BuffersGood'
  BY <1>2, <1>4 DEF BuffersGood
<1>6. Timely'
  BY <1>4 DEF Timely, Stale
<1> QED  BY <1>5, <1>6

LEMMA NoBufferChanges ==
  ASSUME BuffersGood, Timely, buffers' = Live, sent' = sent, age' = age
  PROVE  BuffersGood' /\ Timely'
<1>1. \A k \in Keys : Live[k] # NoBuffer => Live[k] = buffers[k] /\ Good(Live[k], k)
  BY LiveGood
<1>2. BuffersGood'
  BY <1>1, LiveGood DEF BuffersGood
<1>3. Timely'
  BY <1>1, LiveGood DEF Timely, Stale
<1> QED  BY <1>2, <1>3

(* The buffer a fragment goes to: if senders leave a key alone long enough, *)
(* all it holds is of the fragment's packet.                                *)
LEMMA BufferOfFragment ==
  ASSUME IInv, NEW p \in Packets, NEW f \in net[p]
  PROVE  /\ f \in Fragment /\ f.pkt = p /\ p \in sent /\ age[p] \in Nat /\ age[p] <= Lifetime
         /\ Key[p] \in Keys
         /\ Buffer(f) # NoBuffer /\ Good(Buffer(f), Key[p]) /\ ~Stale(Buffer(f))
         /\ \A c \in Buffer(f).chunks : c.pkt \in sent /\ age[c.pkt] <= Lifetime + Buffer(f).age
         /\ Undisturbed => Honest(f) /\ \A c \in Buffer(f).chunks : c.pkt = p
<1> DEFINE b == Buffer(f)
           k == Key[p]
<1>1. f \in Fragment /\ f.pkt = p /\ (Undisturbed => Honest(f))
  BY DEF IInv, NetGood
<1>2. p \in sent /\ age[p] <= Lifetime /\ age[p] \in Nat /\ k \in Keys
  BY DEF IInv, NetGood, Fresh, Keys
<1>3. CASE Live[k] = NoBuffer
  <2>1. b = NewBuffer
    BY <1>1, <1>3 DEF Buffer
  <2>2. ~Stale(NewBuffer)
    BY ReassemblyAssumption DEF Stale, NewBuffer
  <2>3. NewBuffer # NoBuffer
    BY NewBufferGood, NoneAssumption DEF Good
  <2> QED  BY <1>1, <1>2, <2>1, <2>2, <2>3, NewBufferGood
<1>4. CASE Live[k] # NoBuffer
  <2>1. b = buffers[k] /\ b # NoBuffer /\ ~Stale(b) /\ Good(b, k)
    BY <1>1, <1>2, <1>4, LiveGood DEF Buffer, IInv
  <2>2. \A c \in b.chunks : c.pkt \in sent /\ age[c.pkt] <= Lifetime + b.age
    BY <1>2, <2>1 DEF IInv, Timely
  <2>3. b.age \in Nat /\ b.age <= Timeout /\ b.chunks \subseteq Chunk
    BY <2>1, ReassemblyAssumption DEF Good, ReassemblyBuffer, Stale
  <2>4. ASSUME Undisturbed, NEW c \in b.chunks PROVE c.pkt = p
    <3>1. c.pkt \in sent /\ age[c.pkt] \in Nat /\ Key[c.pkt] = Key[p]
      BY <2>1, <2>2 DEF IInv, NetGood, Good
    <3>2. age[c.pkt] < ReuseAfter /\ age[p] < ReuseAfter
      BY <1>2, <2>2, <2>3, <2>4, <3>1, ReassemblyAssumption DEF Undisturbed
    <3> QED
      BY <1>2, <3>1, <3>2, ReassemblyAssumption DEF IInv, KeysApart
  <2> QED  BY <1>1, <1>2, <2>1, <2>2, <2>4
<1> QED  BY <1>3, <1>4
--------------------------------------------------------------------------------
(* The invariant, action by action.                                         *)
LEMMA TypeFromInvariant ==
  ASSUME IInv
  PROVE  TypeOK
BY DEF IInv, NetGood, BuffersGood, Good, TypeOK

LEMMA InitKeeps ==
  ASSUME Init
  PROVE  IInv
<1>1. NetGood
  BY ReassemblyAssumption DEF Init, NetGood
<1>2. Fresh /\ KeysApart
  BY ReassemblyAssumption DEF Init, Fresh, KeysApart
<1>3. BuffersGood /\ Timely
  BY DEF Init, BuffersGood, Timely
<1>4. ExactReassembly
  BY DEF Init, ExactReassembly, Nothing
<1> QED  BY <1>1, <1>2, <1>3, <1>4 DEF IInv

LEMMA SendKeeps ==
  ASSUME IInv, NEW p \in Packets, NEW room \in Rooms, Send(p, room)
  PROVE  IInv'
<1>1. /\ p \notin sent /\ sent' = sent \cup {p}
      /\ \A q \in sent : Key[q] = Key[p] => age[q] >= ReuseAfter
      /\ age' = age /\ buffers' = buffers
  BY DEF Send
<1>2. /\ net' \in [Packets -> SUBSET Fragment]
      /\ \A q \in Packets : net'[q] = net[q] \/ (q = p /\ net'[q] = Fragments(p, room))
  <2>1. Fragments(p, room) \subseteq Fragment
    BY FragmentsHonest
  <2>2. net' = net \/ net' = [net EXCEPT ![p] = Fragments(p, room)]
    BY DEF Send
  <2> QED  BY <2>1, <2>2 DEF IInv, NetGood
<1>3. NetGood'
  <2>1. \A q \in Packets : \A f \in net'[q] : f.pkt = q /\ (Undisturbed => Honest(f))
    BY <1>2, FragmentsHonest DEF IInv, NetGood, Undisturbed
  <2> QED  BY <1>1, <1>2, <2>1 DEF IInv, NetGood, Honest
<1>4. Fresh'
  BY <1>1, <1>2, ReassemblyAssumption DEF IInv, Fresh
<1>5. KeysApart'
  BY <1>1 DEF IInv, KeysApart
<1>6. BuffersGood' /\ Timely'
  BY <1>1 DEF IInv, BuffersGood, Timely, Stale
<1>7. ExactReassembly'
  BY DEF Send, ExactReassembly, Nothing
<1> QED  BY <1>3, <1>4, <1>5, <1>6, <1>7 DEF IInv

(* What leaves the network, leaves the rest as it is.                       *)
LEMMA NetShrinks ==
  ASSUME IInv, NEW p \in Packets, NEW f \in net[p], sent' = sent, age' = age,
         net' = net \/ net' = [net EXCEPT ![p] = @ \ {f}]
  PROVE  NetGood' /\ Fresh' /\ KeysApart'
<1>1. net' \in [Packets -> SUBSET Fragment] /\ \A q \in Packets : net'[q] \subseteq net[q]
  BY DEF IInv, NetGood
<1>2. NetGood'
  BY <1>1 DEF IInv, NetGood, Honest
<1>3. Fresh'
  BY <1>1 DEF IInv, Fresh
<1>4. KeysApart'
  BY DEF IInv, KeysApart
<1> QED  BY <1>2, <1>3, <1>4

LEMMA PassThroughKeeps ==
  ASSUME IInv, NEW p \in Packets, NEW f \in net[p], PassThrough(f), sent' = sent, age' = age
  PROVE  BuffersGood' /\ Timely' /\ ExactReassembly'
<1>1. BuffersGood' /\ Timely'
  BY NoBufferChanges DEF IInv, PassThrough
<1>2. ASSUME Undisturbed PROVE out'.bytes = Bytes(out'.pkt)
  <2>1. f \in Fragment /\ f.pkt = p /\ Honest(f)
    BY <1>2, BufferOfFragment
  <2>2. f.off = 0 /\ f.mf = FALSE
    BY <2>1, ReassemblyAssumption DEF PassThrough, IsFragment, Fragment
  <2>3. f.at = 0 /\ f.len \in Nat /\ Length[p] \in Nat
    BY <2>1, <2>2, ReassemblyAssumption DEF Honest, Fragment
  <2>4. ~ (f.at + f.len < Length[p]) /\ f.at + f.len <= Length[p]
    BY <2>1, <2>2 DEF Honest
  <2>5. f.len = Length[p]
    BY <2>3, <2>4
  <2>6. out'.pkt = p /\ out'.bytes = [i \in 0 .. f.len - 1 |-> <<p, f.at + i>>]
    BY <2>1 DEF PassThrough
  <2>7. \A i \in 0 .. Length[p] - 1 : f.at + i = i
    BY <2>3
  <2> QED  BY <2>5, <2>6, <2>7 DEF Bytes
<1>3. ExactReassembly'
  BY <1>2 DEF ExactReassembly, Undisturbed, Addressable, Bytes
<1> QED  BY <1>1, <1>3

LEMMA CollectKeeps ==
  ASSUME IInv, NEW p \in Packets, NEW f \in net[p], Collect(f), sent' = sent, age' = age
  PROVE  BuffersGood' /\ Timely' /\ ExactReassembly'
<1> DEFINE b == Insert(Buffer(f), f)
<1>1. /\ f \in Fragment /\ f.pkt = p /\ p \in sent /\ Key[p] \in Keys
      /\ age[p] \in Nat /\ age[p] <= Lifetime
      /\ Buffer(f) \in ReassemblyBuffer /\ Good(Buffer(f), Key[f.pkt])
      /\ \A c \in Buffer(f).chunks : c.pkt \in sent /\ age[c.pkt] <= Lifetime + Buffer(f).age
      /\ Undisturbed => Honest(f) /\ \A c \in Buffer(f).chunks : c.pkt = f.pkt
  BY BufferOfFragment DEF Good
<1>2. /\ b \in ReassemblyBuffer /\ b.age = Buffer(f).age /\ b.age \in Nat
      /\ \A c \in b.chunks : c \in Buffer(f).chunks \/ c.pkt = f.pkt
      /\ \A c \in b.chunks : Key[c.pkt] = Key[f.pkt]
      /\ \A c, d \in b.chunks : c.off = d.off => c = d
      /\ Undisturbed => Whole(b) /\ \A c \in b.chunks : c.pkt = f.pkt
  <2>1. Buffer(f).age \in Nat
    BY <1>1, ReassemblyAssumption DEF ReassemblyBuffer
  <2> QED  BY <1>1, <2>1, InsertKeeps
<1>3. \A c \in b.chunks : c.pkt \in sent /\ age[c.pkt] <= Lifetime + b.age
  <2>1. age[p] <= Lifetime + b.age
    BY <1>1, <1>2, ReassemblyAssumption
  <2> QED  BY <1>1, <1>2, <2>1
<1> HIDE DEF b
<1>4. CASE Complete(b) /\ buffers' = [Live EXCEPT ![Key[f.pkt]] = NoBuffer]
           /\ out' = [kind |-> "whole", pkt |-> f.pkt, bytes |-> Assemble(b)]
  <2>1. BuffersGood' /\ Timely'
    BY <1>1, <1>4, OneBufferChanges DEF IInv
  <2>2. Undisturbed => Assemble(b) = Bytes(f.pkt)
    BY <1>1, <1>2, <1>4, WholeAssembles
  <2>3. ExactReassembly'
    BY <1>4, <2>2 DEF ExactReassembly, Undisturbed, Addressable, Bytes
  <2> QED  BY <2>1, <2>3
<1>5. CASE ~Complete(b) /\ buffers' = [Live EXCEPT ![Key[f.pkt]] = b] /\ out' = Nothing
  <2>1. Good(b, Key[f.pkt])
    BY <1>2, <1>5 DEF Good
  <2>2. BuffersGood' /\ Timely'
    BY <1>1, <1>3, <1>5, <2>1, OneBufferChanges DEF IInv
  <2>3. ExactReassembly'
    BY <1>5 DEF ExactReassembly, Nothing
  <2> QED  BY <2>2, <2>3
<1> QED  BY <1>4, <1>5 DEF Collect, b

LEMMA TooManyKeeps ==
  ASSUME IInv, NEW p \in Packets, NEW f \in net[p], TooMany(f), sent' = sent, age' = age
  PROVE  BuffersGood' /\ Timely' /\ ExactReassembly'
<1>1. /\ f.pkt = p /\ Key[p] \in Keys /\ Good(Buffer(f), Key[p])
      /\ \A c \in Buffer(f).chunks : c.pkt \in sent /\ age[c.pkt] <= Lifetime + Buffer(f).age
  BY BufferOfFragment
<1>2. buffers' = [Live EXCEPT ![Key[p]] = Buffer(f)]
  BY <1>1 DEF TooMany
<1>3. BuffersGood' /\ Timely'
  BY <1>1, <1>2, OneBufferChanges DEF IInv
<1>4. ExactReassembly'
  BY DEF TooMany, ExactReassembly
<1> QED  BY <1>3, <1>4

LEMMA DeliverKeeps ==
  ASSUME IInv, NEW f \in InFlight, NEW copyStays \in BOOLEAN, Deliver(f, copyStays)
  PROVE  IInv'
<1>1. f.pkt \in Packets /\ f \in net[f.pkt]
  BY DEF InFlight, IInv, NetGood
<1>2. sent' = sent /\ age' = age /\ Process(f)
      /\ (net' = net \/ net' = [net EXCEPT ![f.pkt] = @ \ {f}])
  BY DEF Deliver
<1>3. NetGood' /\ Fresh' /\ KeysApart'
  BY <1>1, <1>2, NetShrinks
<1>4. BuffersGood' /\ Timely' /\ ExactReassembly'
  BY <1>1, <1>2, PassThroughKeeps, CollectKeeps, TooManyKeeps DEF Process
<1> QED  BY <1>3, <1>4 DEF IInv

LEMMA LoseKeeps ==
  ASSUME IInv, NEW f \in InFlight, Lose(f)
  PROVE  IInv'
<1>1. f.pkt \in Packets /\ f \in net[f.pkt]
  BY DEF InFlight, IInv, NetGood
<1>2. NetGood' /\ Fresh' /\ KeysApart'
  BY <1>1, NetShrinks DEF Lose
<1>3. BuffersGood' /\ Timely'
  BY DEF Lose, IInv, BuffersGood, Timely, Stale
<1>4. ExactReassembly'
  BY DEF Lose, ExactReassembly, Nothing
<1> QED  BY <1>2, <1>3, <1>4 DEF IInv

LEMMA ExpireKeeps ==
  ASSUME IInv, Expire \/ Flush
  PROVE  IInv'
<1>1. net' = net /\ sent' = sent /\ age' = age /\ out' = Nothing
  BY DEF Expire, Flush
<1>2. NetGood' /\ Fresh' /\ KeysApart'
  BY <1>1 DEF IInv, NetGood, Honest, Fresh, KeysApart
<1>3. BuffersGood' /\ Timely'
  <2>1. CASE Expire
    BY <1>1, <2>1, NoBufferChanges DEF Expire, IInv
  <2>2. CASE Flush
    BY <2>2 DEF Flush, BuffersGood, Timely
  <2> QED  BY <2>1, <2>2
<1>4. ExactReassembly'
  BY <1>1 DEF ExactReassembly, Nothing
<1> QED  BY <1>2, <1>3, <1>4 DEF IInv

LEMMA TickKeeps ==
  ASSUME IInv, Tick
  PROVE  IInv'
<1>1. sent' = sent /\ out' = Nothing
  BY DEF Tick
<1>2. \A p \in Packets : age[p] \in 0 .. ReuseAfter /\ ReuseAfter \in Nat /\ Lifetime \in Nat /\ Timeout \in Nat
  BY ReassemblyAssumption DEF IInv, NetGood
<1>3. /\ age' \in [Packets -> 0 .. ReuseAfter]
      /\ \A p \in Packets : /\ age'[p] \in {age[p], age[p] + 1}
                            /\ age[p] = ReuseAfter => age'[p] = ReuseAfter
                            /\ p \notin sent => age'[p] = age[p]
  <2>1. \A p \in Packets : age'[p] = IF p \in sent /\ age[p] < ReuseAfter THEN age[p] + 1 ELSE age[p]
    BY DEF Tick
  <2>2. DOMAIN age' = Packets /\ age' = [p \in DOMAIN age' |-> age'[p]]
    BY DEF Tick
  <2>3. \A p \in Packets : age'[p] \in 0 .. ReuseAfter
    BY <1>2, <2>1
  <2>4. age' \in [Packets -> 0 .. ReuseAfter]
    BY <2>2, <2>3
  <2> QED  BY <1>2, <2>1, <2>4
<1>4. /\ net' \in [Packets -> SUBSET Fragment]
      /\ \A p \in Packets : net'[p] \subseteq net[p] /\ (net'[p] # {} => age[p] < Lifetime)
  <2>1. net' = [p \in Packets |-> IF age[p] >= Lifetime THEN {} ELSE net[p]]
    BY DEF Tick
  <2> QED  BY <1>2, <2>1 DEF IInv, NetGood
<1>5. NetGood'
  BY <1>1, <1>3, <1>4 DEF IInv, NetGood, Honest
<1>6. Fresh'
  <2>1. ASSUME NEW p \in Packets, net'[p] # {} PROVE p \in sent /\ age'[p] <= Lifetime
    BY <1>2, <1>3, <1>4, <2>1 DEF IInv, Fresh
  <2> QED  BY <1>1, <1>3, <2>1 DEF IInv, Fresh
<1>7. KeysApart'
  <2>1. \A p \in Packets : age[p] >= ReuseAfter => age'[p] >= ReuseAfter
    BY <1>2, <1>3
  <2> QED  BY <1>1, <2>1 DEF IInv, NetGood, KeysApart
<1>8. /\ buffers' = [k \in Keys |-> IF buffers[k] # NoBuffer /\ buffers[k].age <= Timeout
                                     THEN [buffers[k] EXCEPT !.age = @ + 1] ELSE buffers[k]]
  BY DEF Tick
<1>9. ASSUME NEW k \in Keys, buffers'[k] # NoBuffer
      PROVE  /\ Good(buffers'[k], k)
             /\ ~Stale(buffers'[k]) =>
                  \A c \in buffers'[k].chunks : c.pkt \in sent /\ age'[c.pkt] <= Lifetime + buffers'[k].age
  <2> DEFINE b == buffers[k]
  <2>1. CASE b # NoBuffer /\ b.age <= Timeout
    <3>1. Good(b, k) /\ b \in ReassemblyBuffer
      BY <2>1 DEF IInv, BuffersGood, Good
    <3>2. buffers'[k] = [b EXCEPT !.age = @ + 1]
      BY <1>8, <2>1
    <3>3. /\ buffers'[k].chunks = b.chunks /\ buffers'[k].total = b.total
          /\ buffers'[k].age = b.age + 1
          /\ b.age \in Nat /\ buffers'[k] \in ReassemblyBuffer
      BY <1>2, <2>1, <3>1, <3>2, ReassemblyAssumption DEF ReassemblyBuffer
    <3>4. Good(buffers'[k], k)
      BY <3>1, <3>3 DEF Good, Whole, Complete
    <3>5. \A c \in b.chunks : c.pkt \in sent /\ age[c.pkt] <= Lifetime + b.age
      <4>1. ~Stale(b)
        BY <2>1, <3>3, ReassemblyAssumption DEF Stale
      <4> QED  BY <2>1, <4>1 DEF IInv, Timely
    <3>6. ASSUME NEW c \in b.chunks PROVE c.pkt \in sent /\ age'[c.pkt] <= Lifetime + (b.age + 1)
      <4>1. c.pkt \in Packets
        BY <3>5 DEF IInv, NetGood
      <4> QED  BY <1>2, <1>3, <3>3, <3>5, <4>1
    <3> QED  BY <3>3, <3>4, <3>6
  <2>2. CASE b # NoBuffer /\ ~ (b.age <= Timeout)
    <3>1. buffers'[k] = b
      BY <1>8, <2>2
    <3>2. Good(b, k) /\ b.age \in Nat
      BY <2>2, ReassemblyAssumption DEF IInv, BuffersGood, Good, ReassemblyBuffer
    <3>3. Stale(b)
      BY <1>2, <2>2, <3>2, ReassemblyAssumption DEF Stale
    <3> QED  BY <3>1, <3>2, <3>3
  <2>3. CASE b = NoBuffer
    BY <1>8, <1>9, <2>3
  <2> QED  BY <2>1, <2>2, <2>3
<1>10. BuffersGood'
  <2>1. buffers' \in [Keys -> ReassemblyBuffer \cup {NoBuffer}]
    BY <1>8, <1>9 DEF Good
  <2> QED  BY <1>9, <2>1 DEF BuffersGood
<1>11. Timely'
  BY <1>1, <1>9 DEF Timely, Stale
<1>12. ExactReassembly'
  BY <1>1 DEF ExactReassembly, Nothing
<1> QED  BY <1>5, <1>6, <1>7, <1>10, <1>11, <1>12 DEF IInv

LEMMA StutterKeeps ==
  ASSUME IInv, UNCHANGED vars
  PROVE  IInv'
<1>1. NetGood' /\ Fresh' /\ KeysApart'
  BY DEF vars, IInv, NetGood, Honest, Fresh, KeysApart
<1>2. BuffersGood' /\ Timely' /\ ExactReassembly'
  BY DEF vars, IInv, BuffersGood, Timely, Stale, ExactReassembly
<1> QED  BY <1>1, <1>2 DEF IInv

LEMMA StepKeeps ==
  ASSUME IInv, [Next]_vars
  PROVE  IInv'
BY SendKeeps, DeliverKeeps, LoseKeeps, ExpireKeeps, TickKeeps, StutterKeeps DEF Next

--------------------------------------------------------------------------------
LEMMA Invariant == Spec => []IInv
BY InitKeeps, StepKeeps, PTL DEF Spec

(* Buffers, fragments and ages keep their types; a buffer's chunks belong to *)
(* its key and sit at different offsets.                                     *)
THEOREM TypeCorrect == Spec => []TypeOK
BY Invariant, TypeFromInvariant, PTL

(* Whatever the lengths, links, timeouts and losses: process() returns a     *)
(* packet that was sent, byte for byte, under the header it was sent with.   *)
THEOREM ExactReassemblyHolds == Spec => []ExactReassembly
<1>1. IInv => ExactReassembly
  BY DEF IInv
<1> QED  BY Invariant, <1>1, PTL

(* No buffer is left pending with all bytes of a packet in it.               *)
THEOREM NothingHeldBackHolds == Spec => []NothingHeldBack
<1>1. ASSUME IInv PROVE NothingHeldBack
  <2>1. SUFFICES ASSUME Undisturbed, NEW k \in Keys, NEW p \in Packets, buffers[k] # NoBuffer,
                        \A i \in 0 .. Length[p] - 1 :
                          \E c \in buffers[k].chunks : c.pkt = p /\ c.at <= i /\ i < c.at + c.len
                 PROVE  FALSE
    BY DEF NothingHeldBack
  <2>2. Good(buffers[k], k)
    BY <1>1, <2>1 DEF IInv, BuffersGood
  <2>3. buffers[k] \in ReassemblyBuffer /\ Whole(buffers[k]) /\ ~Complete(buffers[k])
    BY <2>1, <2>2 DEF Good
  <2>4. Complete(buffers[k])
    BY <2>1, <2>3, CoveredIsComplete
  <2> QED  BY <2>3, <2>4
<1> QED  BY Invariant, <1>1, PTL

--------------------------------------------------------------------------------
(* What goes over a wire (Wire): a packet and a message are read as they were *)
(* written, and a change that the sum shows is refused.                      *)
LEMMA WordRange ==
  /\ Word = 65536
  /\ \A x : x \in Words <=> x \in Int /\ 0 <= x /\ x < Word
<1>1. Word = 65536
  BY DEF Word
<1>2. Word \in Int
  BY <1>1
<1>3. \A x : x \in Words <=> x \in Int /\ 0 <= x /\ x < Word
  BY <1>2 DEF Words
<1> QED  BY <1>1, <1>3

(* Division by a number.                                                     *)
LEMMA Divided ==
  ASSUME NEW a \in Nat, NEW d \in Nat \ {0}
  PROVE  /\ a \div d \in Nat /\ a % d \in Nat /\ a % d < d
         /\ a = d * (a \div d) + (a % d)
OBVIOUS

(* The sum of a packet's words is a word.                                   *)
LEMMA BitIs ==
  ASSUME NEW a \in Octets, NEW b \in Octets, NEW d \in Nat \ {0}
  PROVE  Bit(a, b, d) = 0 \/ Bit(a, b, d) = d
<1> DEFINE x == a \div d  y == b \div d  z == x + y
<1>1. a \in Nat /\ b \in Nat
  BY DEF Octets
<1>2. x \in Nat /\ y \in Nat
  BY <1>1, Divided
<1> HIDE DEF x, y
<1>3. z \in Nat
  BY <1>2
<1> HIDE DEF z
<1>4. z % 2 = 0 \/ z % 2 = 1
  BY <1>3
<1>5. Bit(a, b, d) = (z % 2) * d
  BY DEF Bit, x, y, z
<1>6. 0 * d = 0 /\ 1 * d = d
  OBVIOUS
<1> QED  BY <1>4, <1>5, <1>6

LEMMA XorOctet == \A a \in Octets, b \in Octets : Xor[a][b] \in Octets
<1> SUFFICES ASSUME NEW a \in Octets, NEW b \in Octets PROVE Xor[a][b] \in Octets
  OBVIOUS
<1>1. /\ Bit(a, b, 1) \in {0, 1} /\ Bit(a, b, 2) \in {0, 2} /\ Bit(a, b, 4) \in {0, 4}
      /\ Bit(a, b, 8) \in {0, 8} /\ Bit(a, b, 16) \in {0, 16} /\ Bit(a, b, 32) \in {0, 32}
      /\ Bit(a, b, 64) \in {0, 64} /\ Bit(a, b, 128) \in {0, 128}
  BY BitIs
<1>2. \A c \in {0, 1}, d \in {0, 2}, e \in {0, 4}, f \in {0, 8}, g \in {0, 16}, h \in {0, 32},
         i \in {0, 64}, j \in {0, 128} : c + d + e + f + g + h + i + j \in 0 .. 255
  OBVIOUS
<1>3. Xor[a][b] = Bit(a, b, 1) + Bit(a, b, 2) + Bit(a, b, 4) + Bit(a, b, 8)
                    + Bit(a, b, 16) + Bit(a, b, 32) + Bit(a, b, 64) + Bit(a, b, 128)
  BY Zenon DEF Xor
<1> QED  BY <1>1, <1>2, <1>3 DEF Octets

LEMMA RemainderParts ==
  \A r \in Remainders : r[1] \in Octets /\ r[2] \in Octets /\ r[3] \in Octets /\ r[4] \in Octets
BY DEF Remainders

LEMMA RemainderOf == \A a, b, c, d \in Octets : <<a, b, c, d>> \in Remainders
BY DEF Remainders

LEMMA PulledIs == \A x \in Octets, y \in Octets : Pulled(x, y) \in Octets
<1> SUFFICES ASSUME NEW x \in Octets, NEW y \in Octets PROVE Pulled(x, y) \in Octets
  OBVIOUS
<1>1. x \in Int /\ 0 <= x /\ x <= 255 /\ y \in Int /\ 0 <= y
  BY DEF Octets
<1> DEFINE a == x \div 2  b == y % 2
<1>2. a \in Int /\ 0 <= a /\ a <= 127
  BY <1>1
<1>3. b = 0 \/ b = 1
  BY <1>1
<1>4. Pulled(x, y) = a + (b * 128)
  BY DEF Pulled
<1> HIDE DEF a, b
<1>5. 0 * 128 = 0 /\ 1 * 128 = 128
  OBVIOUS
<1> QED  BY <1>2, <1>3, <1>4, <1>5 DEF Octets

LEMMA ShiftedIs == \A r \in Remainders : Shifted(r) \in Remainders
<1> SUFFICES ASSUME NEW r \in Remainders PROVE Shifted(r) \in Remainders
  OBVIOUS
<1>1. 0 \in Octets /\ 32 \in Octets /\ 131 \in Octets /\ 184 \in Octets /\ 237 \in Octets
  BY DEF Octets
<1>2. r[1] \in Octets /\ r[2] \in Octets /\ r[3] \in Octets /\ r[4] \in Octets
  BY RemainderParts, Zenon
<1> DEFINE h == <<Pulled(r[1], r[2]), Pulled(r[2], r[3]), Pulled(r[3], r[4]), Pulled(r[4], 0)>>
<1>3. h \in Remainders
  <2>1. /\ Pulled(r[1], r[2]) \in Octets /\ Pulled(r[2], r[3]) \in Octets
        /\ Pulled(r[3], r[4]) \in Octets /\ Pulled(r[4], 0) \in Octets
    BY <1>1, <1>2, PulledIs, Zenon
  <2> QED  BY <2>1, RemainderOf, Zenon
<1>4. Shifted(r) = IF r[1] % 2 = 0 THEN h
                   ELSE <<Xor[h[1]][32], Xor[h[2]][131], Xor[h[3]][184], Xor[h[4]][237]>>
  BY Zenon DEF Shifted
<1> HIDE DEF h
<1>5. h[1] \in Octets /\ h[2] \in Octets /\ h[3] \in Octets /\ h[4] \in Octets
  BY <1>3, RemainderParts, Zenon
<1>6. /\ Xor[h[1]][32] \in Octets /\ Xor[h[2]][131] \in Octets
      /\ Xor[h[3]][184] \in Octets /\ Xor[h[4]][237] \in Octets
  BY <1>1, <1>5, XorOctet
<1> DEFINE a == Xor[h[1]][32]  b == Xor[h[2]][131]  c == Xor[h[3]][184]  d == Xor[h[4]][237]
<1>7. a \in Octets /\ b \in Octets /\ c \in Octets /\ d \in Octets
  BY <1>6
<1>8. Shifted(r) = IF r[1] % 2 = 0 THEN h ELSE <<a, b, c, d>>
  BY <1>4
<1> HIDE DEF a, b, c, d
<1>9. <<a, b, c, d>> \in Remainders
  BY <1>7, RemainderOf
<1> QED  BY <1>3, <1>8, <1>9

LEMMA TableIs == \A n \in Octets : CrcTable[n] \in Remainders
<1> SUFFICES ASSUME NEW n \in Octets PROVE CrcTable[n] \in Remainders
  OBVIOUS
<1> DEFINE first == <<n, 0, 0, 0>>
           All(s) == s = [i \in 0 .. 8 |-> IF i = 0 THEN first ELSE Shifted(s[i - 1])]
           step == [i \in 1 .. 8 |-> [x \in Remainders |-> Shifted(x)]]
           shifted == CHOOSE s : All(s)
<1>1. first \in Remainders
  <2>1. 0 \in Octets
    BY DEF Octets
  <2> QED  BY <2>1, RemainderOf, Zenon
<1>2. step \in Steps(8, Remainders)
  BY ShiftedIs DEF Steps
<1>3. CrcTable[n] = shifted[8]
  BY Zenon DEF CrcTable
<1> HIDE DEF first
<1>4. \E s : All(s)
  <2>1. PICK s \in Runs(8, Remainders) : Iterated(s, first, step, 8)
    <3> HIDE DEF step
    <3> DEFINE k == 8
    <3>1. k \in Nat /\ step \in Steps(k, Remainders)
      BY <1>2
    <3> HIDE DEF k
    <3>2. \E s \in Runs(k, Remainders) : Iterated(s, first, step, k)
      BY <1>1, <3>1, Iterates
    <3> QED  BY <3>2 DEF k
  <2>2. ASSUME NEW i \in 0 .. 8 PROVE s[i] = IF i = 0 THEN first ELSE Shifted(s[i - 1])
    <3>1. i # 0 => i \in 1 .. 8 /\ i - 1 \in 0 .. 8
      OBVIOUS
    <3>2. i # 0 => s[i - 1] \in Remainders
      BY <2>1, <3>1 DEF Runs
    <3> QED  BY <2>1, <3>1, <3>2 DEF Iterated
  <2> HIDE DEF step
  <2>3. s = [i \in 0 .. 8 |-> s[i]]
    BY <2>1 DEF Runs
  <2>4. s = [i \in 0 .. 8 |-> IF i = 0 THEN first ELSE Shifted(s[i - 1])]
    BY <2>2, <2>3
  <2> QED  BY <2>4
<1>5. All(shifted)
  <2> HIDE DEF All
  <2> QED  BY <1>4
<1> HIDE DEF shifted
<1>6. shifted[0] = first /\ \A i \in 1 .. 8 : shifted[i] = Shifted(shifted[i - 1])
  BY <1>5
<1>7. /\ shifted[1] = Shifted(shifted[0]) /\ shifted[2] = Shifted(shifted[1])
      /\ shifted[3] = Shifted(shifted[2]) /\ shifted[4] = Shifted(shifted[3])
      /\ shifted[5] = Shifted(shifted[4]) /\ shifted[6] = Shifted(shifted[5])
      /\ shifted[7] = Shifted(shifted[6]) /\ shifted[8] = Shifted(shifted[7])
  BY <1>6
<1>8. shifted[8] \in Remainders
  BY <1>1, <1>6, <1>7, ShiftedIs
<1> QED  BY <1>3, <1>8

LEMMA StepIs == \A r \in Remainders, x \in Octets : CrcStep(r, x) \in Remainders
<1> SUFFICES ASSUME NEW r \in Remainders, NEW x \in Octets PROVE CrcStep(r, x) \in Remainders
  OBVIOUS
<1> DEFINE t == CrcTable[Xor[r[1]][x]]
<1>1. r[1] \in Octets /\ r[2] \in Octets /\ r[3] \in Octets /\ r[4] \in Octets
  BY RemainderParts, Zenon
<1>2. t \in Remainders
  BY <1>1, XorOctet, TableIs, Zenon
<1>3. CrcStep(r, x) = <<Xor[r[2]][t[1]], Xor[r[3]][t[2]], Xor[r[4]][t[3]], t[4]>>
  BY Zenon DEF CrcStep
<1> HIDE DEF t
<1>4. t[1] \in Octets /\ t[2] \in Octets /\ t[3] \in Octets /\ t[4] \in Octets
  BY <1>2, RemainderParts, Zenon
<1>5. Xor[r[2]][t[1]] \in Octets /\ Xor[r[3]][t[2]] \in Octets /\ Xor[r[4]][t[3]] \in Octets
  BY <1>1, <1>4, XorOctet
<1> DEFINE a == Xor[r[2]][t[1]]  b == Xor[r[3]][t[2]]  c == Xor[r[4]][t[3]]  d == t[4]
<1>6. a \in Octets /\ b \in Octets /\ c \in Octets /\ d \in Octets
  BY <1>4, <1>5
<1>7. CrcStep(r, x) = <<a, b, c, d>>
  BY <1>3
<1> HIDE DEF a, b, c, d
<1> QED  BY <1>6, <1>7, RemainderOf

LEMMA OctetsOf == \A x \in Words : x \div 256 \in Octets /\ x % 256 \in Octets
<1> SUFFICES ASSUME NEW x \in Words PROVE x \div 256 \in Octets /\ x % 256 \in Octets
  OBVIOUS
<1>1. x \in Int /\ 0 <= x /\ x < 65536
  BY WordRange
<1> QED  BY <1>1 DEF Octets

LEMMA CrcIsWord ==
  ASSUME NEW u \in Seq(Words)
  PROVE  Crc(u) \in Words
<1> DEFINE n == Len(u)
           ones == <<255, 255, 255, 255>>
           Next1(x, i) == CrcStep(CrcStep(x, u[i] \div 256), u[i] % 256)
           All(s) == s = [i \in 0 .. n |-> IF i = 0 THEN ones ELSE Next1(s[i - 1], i)]
           step == [i \in 1 .. n |-> [x \in Remainders |-> Next1(x, i)]]
           rest == CHOOSE s : All(s)
<1>1. n \in Nat /\ \A i \in 1 .. n : u[i] \in Words
  OBVIOUS
<1>2. \A i \in 1 .. n, x \in Remainders : Next1(x, i) \in Remainders
  <2> SUFFICES ASSUME NEW i \in 1 .. n, NEW x \in Remainders PROVE Next1(x, i) \in Remainders
    OBVIOUS
  <2> DEFINE a == u[i] \div 256  b == u[i] % 256  y == CrcStep(x, a)
  <2>1. a \in Octets /\ b \in Octets
    BY <1>1, OctetsOf
  <2> HIDE DEF a, b
  <2>2. y \in Remainders
    BY <2>1, StepIs
  <2> HIDE DEF y
  <2>3. CrcStep(y, b) \in Remainders
    BY <2>1, <2>2, StepIs
  <2> QED  BY <2>3 DEF y, a, b
<1>3. ones \in Remainders
  <2> DEFINE o == 255
  <2>1. o \in Octets
    BY DEF Octets
  <2> HIDE DEF o
  <2>2. <<o, o, o, o>> \in Remainders
    BY <2>1, RemainderOf
  <2> QED  BY <2>2 DEF o
<1>4. step \in Steps(n, Remainders)
  <2> HIDE DEF Next1
  <2> QED  BY <1>2 DEF Steps
<1> HIDE DEF ones
<1>5. \E s : All(s) /\ s \in Runs(n, Remainders)
  <2> HIDE DEF Next1, n
  <2>1. PICK s \in Runs(n, Remainders) : Iterated(s, ones, step, n)
    <3> HIDE DEF step
    <3> QED  BY <1>1, <1>3, <1>4, Iterates
  <2>2. ASSUME NEW i \in 0 .. n PROVE s[i] = IF i = 0 THEN ones ELSE Next1(s[i - 1], i)
    <3>1. i # 0 => i \in 1 .. n /\ i - 1 \in 0 .. n
      BY <1>1
    <3>2. i # 0 => s[i - 1] \in Remainders
      BY <2>1, <3>1 DEF Runs
    <3> QED  BY <2>1, <3>1, <3>2 DEF Iterated
  <2> HIDE DEF step
  <2>3. s = [i \in 0 .. n |-> s[i]]
    BY <2>1 DEF Runs
  <2>4. s = [i \in 0 .. n |-> IF i = 0 THEN ones ELSE Next1(s[i - 1], i)]
    BY <2>2, <2>3
  <2> QED  BY <2>1, <2>4
<1>6. All(rest)
  <2> HIDE DEF All
  <2> QED  BY <1>5
<1> DEFINE Low(r) == r[1] + 256 * r[2]
<1>7. Crc(u) = 65535 - Low(rest[n])
  BY DEF Crc, ones
<1> HIDE DEF rest, n
<1>8. rest[0] = ones /\ \A i \in 1 .. n : rest[i] = Next1(rest[i - 1], i)
  <2> HIDE DEF Next1
  <2>1. 0 \in 0 .. n /\ \A i \in 1 .. n : i \in 0 .. n /\ i # 0
    BY <1>1
  <2> QED  BY <1>6, <2>1
<1>9. rest[n] \in Remainders
  <2> DEFINE S == {i \in 0 .. n : rest[i] \in Remainders}
  <2>1. 0 \in S
    BY <1>1, <1>3, <1>8
  <2>2. \A k \in 0 .. n - 1 : k \in S => k + 1 \in S
    <3> SUFFICES ASSUME NEW k \in 0 .. n - 1, k \in S PROVE k + 1 \in S
      OBVIOUS
    <3>1. k + 1 \in 1 .. n /\ (k + 1) - 1 = k
      BY <1>1
    <3>2. rest[k + 1] = Next1(rest[k], k + 1)
      <4> HIDE DEF Next1
      <4> QED  BY <1>8, <3>1
    <3> HIDE DEF Next1
    <3> QED  BY <1>1, <1>2, <3>1, <3>2
  <2>3. \A k \in 0 .. n : k \in S
    <3> HIDE DEF S
    <3>1. 0 \in Int /\ n \in Int
      BY <1>1
    <3> QED  BY <2>1, <2>2, <3>1, UpFrom
  <2>4. n \in 0 .. n
    BY <1>1
  <2> QED  BY <2>3, <2>4
<1> DEFINE r == rest[n]
<1>10. r[1] \in Octets /\ r[2] \in Octets
  BY <1>9, RemainderParts, Zenon
<1>11. Low(r) \in Int /\ 0 <= Low(r) /\ Low(r) <= 65535
  <2> DEFINE a == r[1]  b == r[2]
  <2>0. a \in Octets /\ b \in Octets
    BY <1>10
  <2> HIDE DEF a, b
  <2>1. a \in Int /\ 0 <= a /\ a <= 255 /\ b \in Int /\ 0 <= b /\ b <= 255
    BY <2>0 DEF Octets
  <2>2. a + 256 * b \in Int /\ 0 <= a + 256 * b /\ a + 256 * b <= 65535
    BY <2>1
  <2> QED  BY <2>2 DEF a, b
<1> HIDE DEF Low
<1>12. 65535 - Low(r) \in Words
  BY <1>11, WordRange
<1> QED  BY <1>7, <1>12

LEMMA Joined ==
  ASSUME NEW S, NEW s \in Seq(S), NEW t \in Seq(S)
  PROVE  /\ s \o t \in Seq(S) /\ Len(s \o t) = Len(s) + Len(t)
         /\ \A i \in 1 .. Len(s) : (s \o t)[i] = s[i]
         /\ \A i \in 1 .. Len(t) : (s \o t)[Len(s) + i] = t[i]
OBVIOUS

LEMMA FourWords ==
  ASSUME NEW a \in AddressWords
  PROVE  a \in Seq(Words) /\ Len(a) = 4 /\ \A i \in 1 .. 4 : a[i] \in Words
<1>1. a \in [1 .. 4 -> Words] /\ 4 \in Nat
  BY DEF AddressWords
<1>2. [1 .. 4 -> Words] \in {[1 .. n -> Words] : n \in Nat}
  BY <1>1
<1>3. a \in Seq(Words)
  BY <1>1, <1>2, SeqDef
<1> QED  BY <1>1, <1>3

(* The numbers two fields of a packet share.                                *)
LEMMA Nibbles ==
  ASSUME NEW v \in 0 .. 15
  PROVE  (v * 16 + 7) * 256 \in Words /\ ((v * 16 + 7) * 256) \div 4096 = v
<1>1. v \in Int /\ 0 <= v /\ v <= 15
  OBVIOUS
<1> QED  BY <1>1, WordRange

LEMMA TwoOctets ==
  ASSUME NEW v \in 0 .. 255, NEW w \in 0 .. 255
  PROVE  v * 256 + w \in Words /\ (v * 256 + w) \div 256 = v /\ (v * 256 + w) % 256 = w
<1>1. v \in Int /\ 0 <= v /\ v <= 255 /\ w \in Int /\ 0 <= w /\ w <= 255
  OBVIOUS
<1> QED  BY <1>1, WordRange

LEMMA FlagsAndOffset ==
  ASSUME NEW f \in 0 .. 7, NEW o \in 0 .. 8191
  PROVE  /\ (f % 8) * 8192 + (o % 8192) = f * 8192 + o
         /\ f * 8192 + o \in Words /\ (f * 8192 + o) \div 8192 = f /\ (f * 8192 + o) % 8192 = o
<1>1. f \in Int /\ 0 <= f /\ f <= 7 /\ o \in Int /\ 0 <= o /\ o <= 8191
  OBVIOUS
<1>2. f % 8 = f /\ o % 8192 = o
  BY <1>1
<1>3. f * 8192 + o \in Words /\ (f * 8192 + o) \div 8192 = f /\ (f * 8192 + o) % 8192 = o
  BY <1>1, WordRange, SMTT(30)
<1> QED  BY <1>2, <1>3

(* The fields of a header, word by word.                                    *)
LEMMA HeaderWords ==
  ASSUME NEW p \in Packets8, NEW sum \in Words
  PROVE  LET h == Header(p, sum) IN
         /\ h \in Seq(Words) /\ Len(h) = 14
         /\ h[1] = (p.version * 16 + 7) * 256 /\ h[2] = HeaderSize + 2 * Len(p.payload)
         /\ h[3] = p.identification
         /\ h[4] = p.flags * 8192 + p.offset /\ h[5] = p.ttl * 256 + p.protocol /\ h[6] = sum
         /\ \A i \in 1 .. 4 : h[6 + i] = p.src[i] /\ h[10 + i] = p.dst[i]
<1> DEFINE v == p.version  f == p.flags  o == p.offset  t == p.ttl  q == p.protocol
           l == Len(p.payload)
           a == (v * 16 + 7) * 256
           b == HeaderSize + 2 * l
           c == (f % 8) * 8192 + (o % 8192)
           d == t * 256 + q
           six == <<a, b, p.identification, c, d, sum>>
<1>1. p.src \in AddressWords /\ p.dst \in AddressWords /\ p.identification \in Words
  BY SMTT(30) DEF Packets8
<1>2. v \in 0 .. 15 /\ f \in 0 .. 7 /\ o \in 0 .. 8191 /\ t \in 0 .. 255 /\ q \in 0 .. 255
  BY DEF Packets8
<1>3. l \in Nat /\ HeaderSize + 2 * l < Word
  BY DEF Packets8
<1> HIDE DEF v, f, o, t, q, l
<1>4. c = f * 8192 + o /\ c \in Words
  <2>1. f \in Int /\ 0 <= f /\ f <= 7 /\ o \in Int /\ 0 <= o /\ o <= 8191
    BY <1>2
  <2>2. f % 8 = f /\ o % 8192 = o
    BY <2>1
  <2>3. f * 8192 + o \in Words
    BY <2>1, WordRange
  <2> QED  BY <2>2, <2>3
<1>4a. a \in Words /\ b \in Words /\ d \in Words
  <2>1. a \in Words
    <3>1. v \in Int /\ 0 <= v /\ v <= 15
      BY <1>2
    <3> QED  BY <3>1, WordRange
  <2>2. b \in Words
    BY <1>3, WordRange DEF HeaderSize
  <2>3. d \in Words
    <3>1. t \in Int /\ 0 <= t /\ t <= 255 /\ q \in Int /\ 0 <= q /\ q <= 255
      BY <1>2
    <3> QED  BY <3>1, WordRange
  <2> QED  BY <2>1, <2>2, <2>3
<1>5. p.src \in Seq(Words) /\ p.dst \in Seq(Words)
  BY <1>1, FourWords
<1>5a. Len(p.src) = 4 /\ Len(p.dst) = 4
  BY <1>1, FourWords
<1>6. Header(p, sum) = (six \o p.src) \o p.dst
  BY DEF Header, v, f, o, t, q, l
<1> HIDE DEF a, b, c, d
<1>7. six \in Seq(Words)
  BY <1>1, <1>4, <1>4a
<1>7a. Len(six) = 6
  OBVIOUS
<1>8. /\ six[1] = a /\ six[2] = b /\ six[3] = p.identification /\ six[4] = c /\ six[5] = d
      /\ six[6] = sum
  OBVIOUS
<1> HIDE DEF six
<1> DEFINE g == six \o p.src
           h == g \o p.dst
<1>9. /\ g \in Seq(Words) /\ Len(g) = Len(six) + Len(p.src)
      /\ \A i \in 1 .. Len(six) : g[i] = six[i]
      /\ \A i \in 1 .. Len(p.src) : g[Len(six) + i] = p.src[i]
  BY <1>5, <1>7, Joined
<1> HIDE DEF g
<1>9a. g \in Seq(Words)
  BY <1>9
<1>10. /\ h \in Seq(Words) /\ Len(h) = Len(g) + Len(p.dst)
       /\ \A i \in 1 .. Len(g) : h[i] = g[i]
       /\ \A i \in 1 .. Len(p.dst) : h[Len(g) + i] = p.dst[i]
  BY <1>5, <1>9a, Joined
<1>12. Header(p, sum) = h
  BY <1>6 DEF g
<1> HIDE DEF h
<1>13. /\ Len(g) = 10 /\ Len(h) = 14
       /\ \A i \in 1 .. 6 : h[i] = six[i]
       /\ \A i \in 1 .. 4 : h[6 + i] = p.src[i] /\ h[10 + i] = p.dst[i]
  <2>1. Len(g) = 10
    BY <1>5a, <1>7a, <1>9
  <2>2. Len(h) = 14
    BY <1>5a, <1>10, <2>1
  <2>3. \A i \in 1 .. 6 : h[i] = six[i]
    <3>1. \A i \in 1 .. 6 : i \in 1 .. 10 /\ g[i] = six[i]
      BY <1>7a, <1>9
    <3> QED  BY <1>10, <2>1, <3>1
  <2>4. \A i \in 1 .. 4 : h[6 + i] = p.src[i]
    <3>1. \A i \in 1 .. 4 : 6 + i \in 1 .. 10 /\ g[6 + i] = p.src[i]
      BY <1>5a, <1>7a, <1>9
    <3> QED  BY <1>10, <2>1, <3>1
  <2>5. \A i \in 1 .. 4 : h[10 + i] = p.dst[i]
    BY <1>5a, <1>10, <2>1
  <2> QED  BY <2>1, <2>2, <2>3, <2>4, <2>5
<1>14. /\ h[1] = a /\ h[2] = b /\ h[3] = p.identification /\ h[4] = c /\ h[5] = d /\ h[6] = sum
  BY <1>8, <1>13
<1> QED  BY <1>4, <1>10, <1>12, <1>13, <1>14 DEF a, b, d, v, f, o, t, q, l

(* What is summed of a packet, word by word.                                *)
LEMMA SummedWords ==
  ASSUME NEW v \in Seq(Words), Len(v) >= 14
  PROVE  /\ Summed(v) \in Seq(Words) /\ Len(Summed(v)) = Len(v)
         /\ \A i \in 1 .. Len(v) : Summed(v)[i] = IF i = 6 THEN 0 ELSE v[i]
<1> DEFINE n == Len(v)
           a == SubSeq(v, 1, 14)
           b == SubSeq(v, 15, n)
           a0 == [a EXCEPT ![6] = 0]
<1>1. n \in Nat /\ n >= 14 /\ \A i \in 1 .. n : v[i] \in Words
  OBVIOUS
<1> HIDE DEF n
<1>2. /\ a \in Seq(Words) /\ Len(a) = 14 /\ \A i \in 1 .. 14 : a[i] = v[i]
  <2>1. \A i \in 1 .. 14 : v[i] \in Words
    BY <1>1
  <2>2. /\ a \in Seq(Words) /\ Len(a) = 14 - 1 + 1 /\ \A i \in 1 .. 14 - 1 + 1 : a[i] = v[1 + i - 1]
    BY <2>1, SubSeqProperties
  <2> QED  BY <2>2
<1>3. /\ b \in Seq(Words) /\ Len(b) = n - 14 /\ \A i \in 1 .. n - 14 : b[i] = v[14 + i]
  <2>1. \A i \in 15 .. n : v[i] \in Words
    BY <1>1
  <2>2. /\ b \in Seq(Words) /\ Len(b) = (IF 15 <= n THEN n - 15 + 1 ELSE 0)
        /\ \A i \in 1 .. n - 15 + 1 : b[i] = v[15 + i - 1]
    BY <1>1, <2>1, SubSeqProperties
  <2> HIDE DEF b
  <2> QED  BY <1>1, <2>2
<1>4. 0 \in Words
  BY WordRange
<1> HIDE DEF a, b
<1>5. a0 \in Seq(Words)
  <2>1. a \in Seq(Words) /\ 6 \in 1 .. Len(a)
    BY <1>2
  <2> QED  BY <1>4, <2>1, ExceptSeq
<1>6. Len(a0) = 14 /\ \A i \in 1 .. 14 : a0[i] = IF i = 6 THEN 0 ELSE v[i]
  BY <1>2
<1>7. Summed(v) = a0 \o b
  BY DEF Summed, From, a, b, n
<1> HIDE DEF a0
<1> DEFINE s == a0 \o b
<1>8. b \in Seq(Words)
  BY <1>3
<1>9. /\ s \in Seq(Words) /\ Len(s) = Len(a0) + Len(b)
      /\ \A i \in 1 .. Len(a0) : s[i] = a0[i]
      /\ \A i \in 1 .. Len(b) : s[Len(a0) + i] = b[i]
  BY <1>5, <1>8, Joined
<1> HIDE DEF s
<1>10. Len(s) = n
  BY <1>1, <1>3, <1>6, <1>9
<1>11. ASSUME NEW i \in 1 .. n PROVE s[i] = IF i = 6 THEN 0 ELSE v[i]
  <2>1. CASE i <= 14
    <3>1. i \in 1 .. 14
      BY <1>1, <2>1
    <3> QED  BY <1>6, <1>9, <3>1
  <2>2. CASE ~ (i <= 14)
    <3> DEFINE j == i - 14
    <3>1. j \in 1 .. n - 14 /\ 14 + j = i
      BY <1>1, <2>2
    <3> HIDE DEF j
    <3>2. s[14 + j] = b[j] /\ b[j] = v[14 + j]
      BY <1>3, <1>6, <1>9, <3>1
    <3>3. i # 6
      BY <1>1, <2>2
    <3> QED  BY <3>1, <3>2, <3>3
  <2> QED  BY <2>1, <2>2
<1> QED  BY <1>7, <1>9, <1>10, <1>11 DEF s, n

(* What is decoded, when the length field says what there is.               *)
LEMMA DecodedWords ==
  ASSUME NEW v \in Seq(Words), Len(v) >= 14, v[2] = 2 * Len(v)
  PROVE  DecodePacket(v) = IF v[6] # Crc(Summed(v)) THEN Refused("checksum")
                           ELSE PacketOf(v, SubSeq(v, 15, Len(v)))
<1> DEFINE n == Len(v)
<1>1. n \in Nat /\ n >= 14 /\ v[2] = 2 * n
  OBVIOUS
<1> HIDE DEF n
<1>2. PayloadSize(v) = 2 * n - 28
  BY <1>1 DEF PayloadSize, HeaderSize
<1>3. (2 * n - 28) \div 2 = n - 14
  BY <1>1
<1>4. ~ (2 * n < HeaderSize) /\ ~ (2 * n < HeaderSize + PayloadSize(v)) /\ 14 + PayloadSize(v) \div 2 = n
  BY <1>1, <1>2, <1>3 DEF HeaderSize
<1>5. DecodePacket(v) =
        IF v[6] # Crc([SubSeq(v, 1, 14) EXCEPT ![6] = 0] \o SubSeq(v, 15, n)) THEN Refused("checksum")
        ELSE PacketOf(v, SubSeq(v, 15, n))
  BY <1>4 DEF DecodePacket, n
<1> QED  BY <1>5 DEF Summed, From, n

(* Words that stand one after the other after the first k.                  *)
Placed(w, k, s) == \A i \in 1 .. Len(s) : w[k + i] = s[i]

LEMMA PlacedRead ==
  ASSUME NEW w \in Seq(Words), NEW s \in Seq(Words), NEW k \in Nat, k + Len(s) <= Len(w),
         Placed(w, k, s)
  PROVE  SubSeq(w, k + 1, k + Len(s)) = s
<1> DEFINE n == Len(s)
           t == SubSeq(w, k + 1, k + n)
<1>1. n \in Nat /\ Len(w) \in Nat /\ k + n <= Len(w)
  OBVIOUS
<1>2. \A i \in 1 .. n : w[k + i] = s[i]
  BY DEF Placed
<1>3. s \in Seq(Words) /\ Len(s) = n
  OBVIOUS
<1>4. \A i \in 1 .. Len(w) : w[i] \in Words
  OBVIOUS
<1> HIDE DEF n
<1>5. k + 1 \in Int /\ k + n \in Int /\ \A i \in k + 1 .. k + n : w[i] \in Words
  BY <1>1, <1>4
<1>6. /\ t \in Seq(Words) /\ Len(t) = (IF k + 1 <= k + n THEN (k + n) - (k + 1) + 1 ELSE 0)
      /\ \A i \in 1 .. (k + n) - (k + 1) + 1 : t[i] = w[(k + 1) + i - 1]
  BY <1>5, SubSeqProperties
<1> HIDE DEF t
<1>7. Len(t) = n
  BY <1>1, <1>6
<1>8. ASSUME NEW i \in 1 .. n PROVE t[i] = s[i]
  <2>1. i \in 1 .. (k + n) - (k + 1) + 1 /\ (k + 1) + i - 1 = k + i
    BY <1>1
  <2> QED  BY <1>2, <1>6, <2>1
<1>9. Len(t) = Len(s) /\ \A i \in 1 .. Len(t) : t[i] = s[i]
  BY <1>3, <1>7, <1>8
<1>10. t \in Seq(Words)
  BY <1>6
<1>11. t = s
  BY <1>3, <1>9, <1>10, SeqEqual
<1> QED  BY <1>11 DEF t, n

(* The words of a packet.                                                   *)
EncodingOf(w, p) ==
  /\ w \in Seq(Words) /\ Len(w) = 14 + Len(p.payload)
  /\ w[1] = (p.version * 16 + 7) * 256 /\ w[2] = 2 * Len(w)
  /\ w[3] = p.identification
  /\ w[4] = p.flags * 8192 + p.offset /\ w[5] = p.ttl * 256 + p.protocol
  /\ w[6] = Crc(Summed(w))
  /\ Placed(w, 6, p.src) /\ Placed(w, 10, p.dst) /\ Placed(w, 14, p.payload)

LEMMA EncodedWords ==
  ASSUME NEW p \in Packets8
  PROVE  EncodingOf(EncodePacket(p), p)
<1> DEFINE n == Len(p.payload)
           pay == p.payload
           h0 == Header(p, 0)
           u == h0 \o pay
           sum == Crc(u)
           h == Header(p, sum)
           w == h \o pay
<1>1. pay \in Seq(Words)
  BY DEF Packets8
<1>1a. n \in Nat
  BY <1>1
<1>2. 0 \in Words
  BY WordRange
<1>3. h0 \in Seq(Words) /\ Len(h0) = 14
  BY <1>2, HeaderWords
<1>3a. h0 \in Seq(Words)
  BY <1>3
<1> HIDE DEF h0, pay
<1>4. /\ u \in Seq(Words) /\ Len(u) = Len(h0) + Len(pay)
      /\ \A i \in 1 .. Len(h0) : u[i] = h0[i]
      /\ \A i \in 1 .. Len(pay) : u[Len(h0) + i] = pay[i]
  BY <1>1, <1>3a, Joined
<1>5. sum \in Words
  <2> HIDE DEF u
  <2> QED  BY <1>4, CrcIsWord
<1> HIDE DEF sum
<1>6. /\ h \in Seq(Words) /\ Len(h) = 14
      /\ h[1] = (p.version * 16 + 7) * 256 /\ h[2] = HeaderSize + 2 * n
      /\ h[3] = p.identification
      /\ h[4] = p.flags * 8192 + p.offset /\ h[5] = p.ttl * 256 + p.protocol /\ h[6] = sum
      /\ \A i \in 1 .. 4 : h[6 + i] = p.src[i] /\ h[10 + i] = p.dst[i]
  BY <1>5, HeaderWords
<1>6a. h \in Seq(Words)
  BY <1>6
<1>6b. \A i \in 1 .. 14 : h0[i] = IF i = 6 THEN 0 ELSE h[i]
  <2>1. /\ h0[1] = (p.version * 16 + 7) * 256 /\ h0[2] = HeaderSize + 2 * n
        /\ h0[3] = p.identification
        /\ h0[4] = p.flags * 8192 + p.offset /\ h0[5] = p.ttl * 256 + p.protocol /\ h0[6] = 0
        /\ \A i \in 1 .. 4 : h0[6 + i] = p.src[i] /\ h0[10 + i] = p.dst[i]
    BY <1>2, HeaderWords DEF h0
  <2> HIDE DEF h, n
  <2>2. \A i \in 1 .. 6 : h0[i] = IF i = 6 THEN 0 ELSE h[i]
    BY <1>6, <2>1
  <2>3. \A i \in 7 .. 10 : h0[i] = h[i]
    <3> SUFFICES ASSUME NEW i \in 7 .. 10 PROVE h0[i] = h[i]
      OBVIOUS
    <3>1. i - 6 \in 1 .. 4 /\ 6 + (i - 6) = i
      OBVIOUS
    <3> QED  BY <1>6, <2>1, <3>1
  <2>4. \A i \in 11 .. 14 : h0[i] = h[i]
    <3> SUFFICES ASSUME NEW i \in 11 .. 14 PROVE h0[i] = h[i]
      OBVIOUS
    <3>1. i - 10 \in 1 .. 4 /\ 10 + (i - 10) = i
      OBVIOUS
    <3> QED  BY <1>6, <2>1, <3>1
  <2> QED  BY <2>2, <2>3, <2>4
<1> HIDE DEF h
<1>7. /\ w \in Seq(Words) /\ Len(w) = Len(h) + Len(pay)
      /\ \A i \in 1 .. Len(h) : w[i] = h[i]
      /\ \A i \in 1 .. Len(pay) : w[Len(h) + i] = pay[i]
  BY <1>1, <1>6a, Joined
<1>8. EncodePacket(p) = w
  BY DEF EncodePacket, h, sum, h0, pay
<1> HIDE DEF w, u
<1>9. Len(w) = 14 + n /\ \A i \in 1 .. 14 : w[i] = h[i]
  BY <1>6, <1>7 DEF pay
<1>10. \A i \in 1 .. n : w[14 + i] = p.payload[i]
  BY <1>6, <1>7 DEF pay
<1>11. Summed(w) = u
  <2>1. /\ Summed(w) \in Seq(Words) /\ Len(Summed(w)) = Len(w)
        /\ \A i \in 1 .. Len(w) : Summed(w)[i] = IF i = 6 THEN 0 ELSE w[i]
    <3>1. Len(w) >= 14
      BY <1>1a, <1>9
    <3>2. w \in Seq(Words)
      BY <1>7
    <3> QED  BY <3>1, <3>2, SummedWords
  <2>2. Len(u) = 14 + n /\ \A i \in 1 .. 14 : u[i] = h0[i]
    BY <1>3, <1>4 DEF pay
  <2>2a. \A i \in 1 .. n : u[14 + i] = pay[i]
    BY <1>3, <1>4 DEF pay
  <2>3. ASSUME NEW i \in 1 .. 14 + n PROVE Summed(w)[i] = u[i]
    <3>1. CASE i <= 14
      <4>1. i \in 1 .. 14
        BY <1>1a, <3>1
      <4> QED  BY <1>6b, <1>9, <2>1, <2>2, <4>1
    <3>2. CASE ~ (i <= 14)
      <4> DEFINE j == i - 14
      <4>1. j \in 1 .. n /\ 14 + j = i /\ i # 6
        BY <1>1a, <3>2
      <4> HIDE DEF j
      <4>2. w[14 + j] = pay[j] /\ u[14 + j] = pay[j]
        BY <1>10, <2>2a, <4>1 DEF pay
      <4> QED  BY <1>9, <2>1, <4>1, <4>2
    <3> QED  BY <3>1, <3>2
  <2>4. Len(Summed(w)) = Len(u) /\ \A i \in 1 .. Len(Summed(w)) : Summed(w)[i] = u[i]
    BY <1>9, <2>1, <2>2, <2>3
  <2>5. Summed(w) \in Seq(Words) /\ u \in Seq(Words)
    BY <1>4, <2>1
  <2> QED  BY <2>4, <2>5, SeqEqual
<1>12. /\ w[1] = h[1] /\ w[2] = h[2] /\ w[3] = h[3] /\ w[4] = h[4] /\ w[5] = h[5]
       /\ w[6] = h[6]
  BY <1>9
<1>13. \A i \in 1 .. 4 : w[6 + i] = h[6 + i] /\ w[10 + i] = h[10 + i]
  <2>1. \A i \in 1 .. 4 : 6 + i \in 1 .. 14 /\ 10 + i \in 1 .. 14
    OBVIOUS
  <2> QED  BY <1>9, <2>1
<1>14. w[2] = 2 * Len(w)
  BY <1>1a, <1>6, <1>9, <1>12 DEF HeaderSize
<1>15. w[6] = Crc(Summed(w))
  BY <1>6, <1>11, <1>12 DEF sum
<1>16. /\ w[1] = (p.version * 16 + 7) * 256 /\ w[3] = p.identification
       /\ w[4] = p.flags * 8192 + p.offset /\ w[5] = p.ttl * 256 + p.protocol
  BY <1>6, <1>12
<1>17. \A i \in 1 .. 4 : w[6 + i] = p.src[i] /\ w[10 + i] = p.dst[i]
  BY <1>6, <1>13, SMTT(30)
<1>18. EncodingOf(w, p)
  <2>1. w \in Seq(Words)
    BY <1>7
  <2>2. Len(w) = 14 + n
    BY <1>9
  <2>3. Len(p.src) = 4 /\ Len(p.dst) = 4
    BY FourWords DEF Packets8
  <2>4. Placed(w, 6, p.src) /\ Placed(w, 10, p.dst)
    BY <1>17, <2>3 DEF Placed
  <2>5. Placed(w, 14, p.payload)
    BY <1>10 DEF Placed, n
  <2> QED  BY <1>14, <1>15, <1>16, <2>1, <2>2, <2>4, <2>5 DEF EncodingOf, n
<1> QED  BY <1>8, <1>18

LEMMA FieldsRead ==
  ASSUME NEW p \in Packets8, NEW w, EncodingOf(w, p)
  PROVE  /\ w[1] \div 4096 = p.version /\ w[4] \div 8192 = p.flags /\ w[4] % 8192 = p.offset
         /\ w[5] \div 256 = p.ttl /\ w[5] % 256 = p.protocol
<1> DEFINE v == p.version  f == p.flags  o == p.offset  t == p.ttl  q == p.protocol
<1>1. v \in 0 .. 15 /\ f \in 0 .. 7 /\ o \in 0 .. 8191 /\ t \in 0 .. 255 /\ q \in 0 .. 255
  BY DEF Packets8
<1>2. w[1] = (v * 16 + 7) * 256 /\ w[4] = f * 8192 + o /\ w[5] = t * 256 + q
  BY DEF EncodingOf
<1> HIDE DEF v, f, o, t, q
<1>3. ((v * 16 + 7) * 256) \div 4096 = v
  <2>1. v \in Int /\ 0 <= v /\ v <= 15
    BY <1>1
  <2> QED  BY <2>1
<1>4. (f * 8192 + o) \div 8192 = f /\ (f * 8192 + o) % 8192 = o
  <2>1. f \in Int /\ 0 <= f /\ f <= 7 /\ o \in Int /\ 0 <= o /\ o <= 8191
    BY <1>1
  <2> QED  BY <2>1
<1>5. (t * 256 + q) \div 256 = t /\ (t * 256 + q) % 256 = q
  <2>1. t \in Int /\ 0 <= t /\ t <= 255 /\ q \in Int /\ 0 <= q /\ q <= 255
    BY <1>1
  <2> QED  BY <2>1
<1> QED  BY <1>2, <1>3, <1>4, <1>5, SMTT(30) DEF v, f, o, t, q

(* What is decoded of a packet encoded is the packet.                       *)
LEMMA PacketRead ==
  ASSUME NEW p \in Packets8, NEW w, EncodingOf(w, p)
  PROVE  DecodePacket(w) = p
<1> DEFINE n == Len(p.payload)
           pay == SubSeq(w, 15, Len(w))
<1>1. w \in Seq(Words) /\ Len(w) = 14 + n /\ n \in Nat
  BY DEF EncodingOf, Packets8
<1>2. Len(w) >= 14 /\ Len(w) \in Nat /\ \A i \in 1 .. Len(w) : w[i] \in Words
  <2>1. Len(w) >= 14
    BY <1>1
  <2> QED  BY <1>1, <2>1
<1>3. SubSeq(w, 7, 10) = p.src /\ SubSeq(w, 11, 14) = p.dst
  <2>1. p.src \in Seq(Words) /\ p.dst \in Seq(Words)
    BY FourWords DEF Packets8
  <2>2. Len(p.src) = 4 /\ Len(p.dst) = 4
    BY FourWords DEF Packets8
  <2>3. Placed(w, 6, p.src) /\ Placed(w, 10, p.dst) /\ w \in Seq(Words)
    BY DEF EncodingOf
  <2>4. 6 + Len(p.src) <= Len(w) /\ 10 + Len(p.dst) <= Len(w)
    BY <1>2, <2>2
  <2>5. SubSeq(w, 6 + 1, 6 + Len(p.src)) = p.src /\ SubSeq(w, 10 + 1, 10 + Len(p.dst)) = p.dst
    BY <2>1, <2>3, <2>4, PlacedRead
  <2> QED  BY <2>2, <2>5, SMTT(30)
<1>4. pay = p.payload
  <2>1. p.payload \in Seq(Words)
    BY DEF Packets8
  <2>2. Placed(w, 14, p.payload) /\ w \in Seq(Words)
    BY DEF EncodingOf
  <2>3. 14 + Len(p.payload) <= Len(w) /\ 14 + Len(p.payload) = Len(w)
    BY <1>1
  <2>4. SubSeq(w, 14 + 1, 14 + Len(p.payload)) = p.payload
    BY <2>1, <2>2, <2>3, PlacedRead
  <2> QED  BY <2>3, <2>4
<1>5. DecodePacket(w) = PacketOf(w, pay)
  <2>1. w[2] = 2 * Len(w) /\ w[6] = Crc(Summed(w))
    BY DEF EncodingOf
  <2> QED  BY <1>1, <1>2, <2>1, DecodedWords
<1>6. w[3] = p.identification
  BY DEF EncodingOf
<1>7. p = [version |-> p.version, identification |-> p.identification,
           flags |-> p.flags, offset |-> p.offset, ttl |-> p.ttl, protocol |-> p.protocol,
           src |-> p.src, dst |-> p.dst, payload |-> p.payload]
  BY DEF Packets8
<1> HIDE DEF pay
<1> QED  BY <1>3, <1>4, <1>5, <1>6, <1>7, FieldsRead DEF PacketOf

LEMMA RefusedIs == ASSUME NEW why PROVE ~Accepted(Refused(why))
BY DEF Accepted, Refused

(* The next even number of a word, if there is one.                         *)
LEMMA NextEven ==
  ASSUME NEW n \in Nat, 2 * n < Word, NEW x, x = (2 * n + 2) % Word
  PROVE  x = 0 \/ x = 2 * n + 2
<1>1. Word = 65536
  BY WordRange
<1>2. CASE 2 * n + 2 = 65536
  BY <1>1, <1>2
<1>3. CASE 2 * n + 2 # 65536
  <2>1. 2 * n + 2 \in Nat /\ 2 * n + 2 < 65536
    BY <1>1, <1>3
  <2> DEFINE a == 2 * n + 2
  <2>2. a \in Nat /\ a < 65536
    BY <2>1
  <2> HIDE DEF a
  <2>3. a % 65536 = a
    BY <2>2
  <2> QED  BY <1>1, <2>3 DEF a
<1> QED  BY <1>2, <1>3

(* A packet one word of which was changed, so that the sum shows it if it is  *)
(* not the sum or the length, is refused, or it is the length                *)
(* that was changed, and it has no payload.                                  *)
LEMMA PacketHarmed ==
  ASSUME NEW p \in Packets8, NEW w, EncodingOf(w, p), NEW i \in 1 .. Len(w),
         NEW x \in {0, (w[i] + 2) % Word}, x # w[i],
         i \in {2, 6} \/ SumShows(w, [w EXCEPT ![i] = x])
  PROVE  \/ ~Accepted(DecodePacket([w EXCEPT ![i] = x]))
         \/ i = 2 /\ DecodePacket([w EXCEPT ![i] = x]).payload = <<>>
<1> DEFINE v == [w EXCEPT ![i] = x]
           n == Len(w)
<1>1. w \in Seq(Words)
  BY DEF EncodingOf
<1>2. n \in Nat /\ n >= 14 /\ 2 * n < Word
  <2>1. n = 14 + Len(p.payload) /\ HeaderSize + 2 * Len(p.payload) < Word /\ Len(p.payload) \in Nat
    BY DEF EncodingOf, Packets8
  <2> HIDE DEF n
  <2> QED  BY <2>1 DEF HeaderSize
<1>2a. Len(w) >= 14
  BY <1>2
<1>3. w[2] = 2 * n /\ w[6] = Crc(Summed(w))
  BY DEF EncodingOf
<1>4. w[i] \in Words /\ 0 \in Words
  BY <1>1, WordRange
<1>5. x \in Words
  <2>1. w[i] + 2 \in Nat /\ Word \in Nat \ {0}
    BY <1>4, WordRange
  <2> DEFINE a == w[i] + 2
  <2> HIDE DEF a
  <2>2. a \in Nat => a % Word \in Words
    BY <2>1, Divided, WordRange
  <2> QED  BY <1>4, <2>1, <2>2 DEF a
<1>6. /\ v \in Seq(Words) /\ Len(v) = n
      /\ \A j \in 1 .. n : v[j] = IF j = i THEN x ELSE w[j]
  BY <1>1, <1>5, ExceptSeq
<1> HIDE DEF v
<1>6a. v \in Seq(Words) /\ Len(v) >= 14 /\ Len(v) = n
  BY <1>2, <1>6
<1>7. /\ Summed(w) \in Seq(Words) /\ Len(Summed(w)) = n
      /\ \A j \in 1 .. n : Summed(w)[j] = IF j = 6 THEN 0 ELSE w[j]
  BY <1>1, <1>2a, SummedWords
<1>8. /\ Summed(v) \in Seq(Words) /\ Len(Summed(v)) = n
      /\ \A j \in 1 .. n : Summed(v)[j] = IF j = 6 THEN 0 ELSE v[j]
  BY <1>6a, SummedWords
<1>8a. i \in 1 .. n
  OBVIOUS
<1> HIDE DEF n
<1>9. CASE i # 2
  <2>1. v[2] = 2 * Len(v)
    BY <1>2, <1>3, <1>6, <1>9
  <2>2. v[6] # Crc(Summed(v))
    <3>1. CASE i = 6
      <4>1. \A j \in 1 .. n : Summed(v)[j] = Summed(w)[j]
        BY <1>6, <1>7, <1>8, <3>1
      <4>2. Len(Summed(v)) = Len(Summed(w)) /\ \A j \in 1 .. Len(Summed(v)) : Summed(v)[j] = Summed(w)[j]
        BY <1>7, <1>8, <4>1
      <4>3. Summed(v) \in Seq(Words) /\ Summed(w) \in Seq(Words)
        BY <1>7, <1>8
      <4>4. Summed(v) = Summed(w)
        BY <4>2, <4>3, SeqEqual
      <4>5. v[6] = x
        BY <1>2, <1>6, <3>1
      <4> QED  BY <1>3, <3>1, <4>4, <4>5
    <3>2. CASE i # 6
      <4>1. v[6] = w[6]
        BY <1>2, <1>6, <3>2
      <4>2. Crc(Summed(v)) # Crc(Summed(w))
        BY <1>9, <3>2 DEF SumShows, v
      <4> QED  BY <1>3, <4>1, <4>2
    <3> QED  BY <3>1, <3>2
  <2>3. DecodePacket(v) = Refused("checksum")
    BY <1>6a, <2>1, <2>2, DecodedWords
  <2> QED  BY <2>3, RefusedIs DEF v
<1>10. CASE i = 2
  <2>1. v[2] = x /\ (x = 0 \/ x = 2 * n + 2)
    <3>1. v[2] = x
      BY <1>2, <1>6, <1>10
    <3>2. x \in {0, (2 * n + 2) % Word}
      BY <1>3, <1>10
    <3> QED  BY <1>2, <3>1, <3>2, NextEven
  <2>2. CASE x = 0
    <3>1. PayloadSize(v) = 0
      BY <2>1, <2>2 DEF PayloadSize, HeaderSize
    <3>2. 14 + PayloadSize(v) \div 2 = 14
      BY <3>1
    <3>3. SubSeq(v, 15, 14 + PayloadSize(v) \div 2) = <<>>
      <4>1. 14 < 15 /\ 14 \in Int /\ 15 \in Int
        OBVIOUS
      <4>2. SubSeq(v, 15, 14) = <<>>
        BY <4>1, SubSeqEmpty
      <4> QED  BY <3>2, <4>2
    <3> DEFINE e == PacketOf(v, <<>>)
    <3>4. e.payload = <<>>
      BY DEF PacketOf
    <3> HIDE DEF e
    <3>5. \/ DecodePacket(v) = Refused("short") \/ DecodePacket(v) = Refused("truncated")
          \/ DecodePacket(v) = Refused("checksum") \/ DecodePacket(v) = e
      BY <3>3 DEF DecodePacket, e
    <3> QED  BY <1>10, <3>4, <3>5, RefusedIs DEF v
  <2>3. CASE x = 2 * n + 2
    <3>1. PayloadSize(v) = 2 * n + 2 - 28
      BY <1>2, <2>1, <2>3 DEF PayloadSize, HeaderSize
    <3>2. 2 * Len(v) < HeaderSize + PayloadSize(v)
      BY <1>2, <1>6a, <3>1 DEF HeaderSize
    <3>3. \/ DecodePacket(v) = Refused("short") \/ DecodePacket(v) = Refused("truncated")
      BY <3>2 DEF DecodePacket
    <3> QED  BY <3>3, RefusedIs DEF v
  <2> QED  BY <2>1, <2>2, <2>3
<1> QED  BY <1>9, <1>10

(* Messages that fit in a packet.                                           *)
Messages ==
  {m \in [type : IcmpTypes, code : 0 .. 255, identifier : Words, sequence : Words,
          payload : Seq(Words)] : HeaderSize + 2 * (4 + Len(m.payload)) < Word}

(* A one's complement sum of as many words as fit in a packet is a word.    *)
LEMMA SumIsWord ==
  ASSUME NEW u \in Seq(Words), 2 * Len(u) < Word
  PROVE  InternetChecksum(u) \in Words
<1> DEFINE n == Len(u)
           Next1(x, i) == x + u[i]
           All(s) == s = [i \in 0 .. n |-> IF i = 0 THEN 0 ELSE Next1(s[i - 1], i)]
           step == [i \in 1 .. n |-> [x \in Nat |-> Next1(x, i)]]
           sum == CHOOSE s : All(s)
           Carried(total) == (total % Word) + (total \div Word)
<1>1. n \in Nat /\ 2 * n < Word /\ \A i \in 1 .. n : u[i] \in Words
  OBVIOUS
<1>2. \A i \in 1 .. n, x \in Nat : Next1(x, i) \in Nat
  BY <1>1, WordRange
<1>3. step \in Steps(n, Nat)
  <2> HIDE DEF Next1
  <2> QED  BY <1>2 DEF Steps
<1>4. \E s : All(s)
  <2> HIDE DEF Next1, n
  <2>1. PICK s \in Runs(n, Nat) : Iterated(s, 0, step, n)
    <3> HIDE DEF step
    <3> QED  BY <1>1, <1>3, Iterates
  <2>2. ASSUME NEW i \in 0 .. n PROVE s[i] = IF i = 0 THEN 0 ELSE Next1(s[i - 1], i)
    <3>1. i # 0 => i \in 1 .. n /\ i - 1 \in 0 .. n
      BY <1>1
    <3>2. i # 0 => s[i - 1] \in Nat
      BY <2>1, <3>1 DEF Runs
    <3> QED  BY <2>1, <3>1, <3>2 DEF Iterated
  <2> HIDE DEF step
  <2>3. s = [i \in 0 .. n |-> s[i]]
    BY <2>1 DEF Runs
  <2>4. s = [i \in 0 .. n |-> IF i = 0 THEN 0 ELSE Next1(s[i - 1], i)]
    BY <2>2, <2>3
  <2> QED  BY <2>4
<1>5. All(sum)
  <2> HIDE DEF All
  <2> QED  BY <1>4
<1>6. InternetChecksum(u) = 65535 - Carried(Carried(sum[n]))
  BY DEF InternetChecksum
<1> HIDE DEF sum, n
<1>7. sum[0] = 0 /\ \A i \in 1 .. n : sum[i] = Next1(sum[i - 1], i)
  <2> HIDE DEF Next1
  <2>1. 0 \in 0 .. n /\ \A i \in 1 .. n : i \in 0 .. n /\ i # 0
    BY <1>1
  <2> QED  BY <1>5, <2>1
<1>8. sum[n] \in Nat /\ sum[n] <= n * 65535
  <2> DEFINE S == {i \in 0 .. n : sum[i] \in Nat /\ sum[i] <= i * 65535}
  <2>1. 0 \in S
    BY <1>1, <1>7
  <2>2. ASSUME NEW k \in 0 .. n - 1, k \in S PROVE k + 1 \in S
    <3>1. k + 1 \in 1 .. n /\ (k + 1) - 1 = k
      BY <1>1
    <3>2. sum[k + 1] = sum[k] + u[k + 1]
      BY <1>7, <3>1
    <3>3. u[k + 1] \in Nat /\ u[k + 1] <= 65535
      BY <1>1, <3>1, WordRange
    <3> QED  BY <2>2, <3>1, <3>2, <3>3
  <2>3. \A k \in 0 .. n : k \in S
    <3> HIDE DEF S
    <3>1. 0 \in Int /\ n \in Int
      BY <1>1
    <3> QED  BY <2>1, <2>2, <3>1, UpFrom
  <2> QED  BY <1>1, <2>3
<1>9. Word = 65536 /\ n < 32768
  BY <1>1, WordRange
<1> DEFINE t == sum[n]
<1>10. t \in Nat /\ t <= 32767 * 65535
  BY <1>1, <1>8, <1>9
<1> HIDE DEF t
<1> DEFINE c == Carried(t)
<1>11. c \in Nat /\ c <= 65535 + 32767
  BY <1>9, <1>10
<1> HIDE DEF c
<1>12. Carried(c) \in Nat /\ Carried(c) <= 65535
  BY <1>9, <1>11
<1>13. 65535 - Carried(c) \in Words
  <2> HIDE DEF Carried
  <2> QED  BY <1>12, WordRange
<1> QED  BY <1>6, <1>13 DEF c, t

(* The words of a message, and the message read from them.                  *)
LEMMA MessageRead ==
  ASSUME NEW m \in Messages
  PROVE  /\ EncodeIcmp(m) \in Seq(Words) /\ Len(EncodeIcmp(m)) = 4 + Len(m.payload)
         /\ DecodeIcmp(EncodeIcmp(m)) = m
<1> DEFINE n == Len(m.payload)
           pay == m.payload
           a == m.type * 256 + m.code
           Start(sum) == <<a, sum, m.identifier, m.sequence>>
           zero == Start(0)
           u == zero \o pay
           c == InternetChecksum(u)
           start == Start(c)
           w == start \o pay
<1>1. /\ m.type \in IcmpTypes /\ m.code \in 0 .. 255 /\ m.identifier \in Words
      /\ m.sequence \in Words /\ pay \in Seq(Words) /\ HeaderSize + 2 * (4 + n) < Word
  BY DEF Messages
<1>1a. n \in Nat /\ pay \in Seq(Words)
  BY <1>1
<1>2. a \in Words /\ a \div 256 = m.type /\ a % 256 = m.code
  <2> DEFINE t == m.type  d == m.code
  <2>1. t \in IcmpTypes /\ d \in 0 .. 255
    BY <1>1
  <2> HIDE DEF t, d
  <2>2. t \in Int /\ 0 <= t /\ t <= 12 /\ d \in Int /\ 0 <= d /\ d <= 255
    BY <2>1 DEF IcmpTypes
  <2>3. t * 256 + d \in Words /\ (t * 256 + d) \div 256 = t /\ (t * 256 + d) % 256 = d
    BY <2>2, WordRange
  <2> QED  BY <2>3 DEF t, d
<1> HIDE DEF a
<1>3. 0 \in Words
  BY WordRange
<1>4. zero \in Seq(Words)
  BY <1>1, <1>2, <1>3
<1>4a. Len(zero) = 4 /\ zero[1] = a /\ zero[2] = 0 /\ zero[3] = m.identifier /\ zero[4] = m.sequence
  OBVIOUS
<1> HIDE DEF zero, pay
<1>5. /\ u \in Seq(Words) /\ Len(u) = Len(zero) + Len(pay)
      /\ \A i \in 1 .. Len(zero) : u[i] = zero[i]
      /\ \A i \in 1 .. Len(pay) : u[Len(zero) + i] = pay[i]
  BY <1>1a, <1>4, Joined
<1> HIDE DEF u
<1>6. Len(u) = 4 + n
  BY <1>4a, <1>5 DEF pay
<1>7. c \in Words
  <2>1. 2 * Len(u) < Word
    BY <1>1, <1>1a, <1>6, WordRange DEF HeaderSize
  <2>2. u \in Seq(Words)
    BY <1>5
  <2> QED  BY <2>1, <2>2, SumIsWord
<1> HIDE DEF c
<1>8. start \in Seq(Words)
  BY <1>1, <1>2, <1>7
<1>8a. Len(start) = 4 /\ start[1] = a /\ start[2] = c /\ start[3] = m.identifier /\ start[4] = m.sequence
  OBVIOUS
<1> HIDE DEF start
<1>9. /\ w \in Seq(Words) /\ Len(w) = Len(start) + Len(pay)
      /\ \A i \in 1 .. Len(start) : w[i] = start[i]
      /\ \A i \in 1 .. Len(pay) : w[Len(start) + i] = pay[i]
  BY <1>1a, <1>8, Joined
<1>10. EncodeIcmp(m) = w
  BY DEF EncodeIcmp, w, start, c, u, zero, pay, a
<1> HIDE DEF w
<1>11. Len(w) = 4 + n /\ \A i \in 1 .. 4 : w[i] = start[i]
  BY <1>8a, <1>9 DEF pay
<1>12. w[1] = a /\ w[2] = c /\ w[3] = m.identifier /\ w[4] = m.sequence
  BY <1>8a, <1>11
<1>13. [w EXCEPT ![2] = 0] = u
  <2> DEFINE v == [w EXCEPT ![2] = 0]
  <2>1. w \in Seq(Words) /\ 2 \in 1 .. Len(w)
    BY <1>1a, <1>9, <1>11
  <2>2. /\ v \in Seq(Words) /\ Len(v) = Len(w)
        /\ \A j \in 1 .. Len(w) : v[j] = IF j = 2 THEN 0 ELSE w[j]
    BY <1>3, <2>1, ExceptSeq
  <2> HIDE DEF v
  <2>3. ASSUME NEW j \in 1 .. 4 + n PROVE v[j] = u[j]
    <3>1. CASE j <= 4
      <4>1. j \in 1 .. 4
        BY <1>1a, <3>1
      <4>2. u[j] = zero[j] /\ w[j] = start[j]
        BY <1>4a, <1>5, <1>11, <4>1
      <4>3. zero[j] = IF j = 2 THEN 0 ELSE start[j]
        BY <1>4a, <1>8a, <4>1
      <4> QED  BY <1>11, <2>2, <4>2, <4>3
    <3>2. CASE ~ (j <= 4)
      <4> DEFINE k == j - 4
      <4>1. k \in 1 .. n /\ 4 + k = j /\ j # 2
        BY <1>1a, <3>2
      <4> HIDE DEF k
      <4>2. u[4 + k] = pay[k] /\ w[4 + k] = pay[k]
        BY <1>4a, <1>5, <1>8a, <1>9, <4>1 DEF pay
      <4> QED  BY <1>11, <2>2, <4>1, <4>2
    <3> QED  BY <3>1, <3>2
  <2>4. Len(v) = Len(u) /\ \A j \in 1 .. Len(v) : v[j] = u[j]
    BY <1>6, <1>11, <2>2, <2>3
  <2>5. v \in Seq(Words) /\ u \in Seq(Words)
    BY <1>5, <2>2
  <2>6. v = u
    BY <2>4, <2>5, SeqEqual
  <2> QED  BY <2>6 DEF v
<1>14. From(w, 5) = m.payload
  <2>1. 4 + Len(m.payload) <= Len(w) /\ 4 + Len(m.payload) = Len(w) /\ 4 + 1 = 5
    BY <1>1a, <1>11
  <2>2. Placed(w, 4, m.payload)
    BY <1>8a, <1>9 DEF Placed, pay
  <2>3. w \in Seq(Words) /\ m.payload \in Seq(Words) /\ 4 \in Nat
    BY <1>1a, <1>9 DEF pay
  <2>4. SubSeq(w, 4 + 1, 4 + Len(m.payload)) = m.payload
    BY <2>1, <2>2, <2>3, PlacedRead
  <2> QED  BY <2>1, <2>4 DEF From
<1>15. m = [type |-> m.type, code |-> m.code, identifier |-> m.identifier,
            sequence |-> m.sequence, payload |-> m.payload]
  BY DEF Messages
<1>16. ~ (Len(w) < 4) /\ c = InternetChecksum([w EXCEPT ![2] = 0])
  <2>1. ~ (Len(w) < 4)
    BY <1>1a, <1>11
  <2>2. c = InternetChecksum([w EXCEPT ![2] = 0])
    BY <1>13, Zenon DEF c
  <2> QED  BY <2>1, <2>2
<1>17. DecodeIcmp(w) = [type |-> a \div 256, code |-> a % 256, identifier |-> m.identifier,
                        sequence |-> m.sequence, payload |-> m.payload]
  BY <1>1, <1>2, <1>12, <1>14, <1>16 DEF DecodeIcmp
<1>18. DecodeIcmp(w) = m
  BY <1>2, <1>15, <1>17
<1> QED  BY <1>9, <1>10, <1>11, <1>18

--------------------------------------------------------------------------------
(* Frames, and what a receiver makes of one that was harmed.                 *)
(* The frame of a carrier, word by word.                                    *)
Framed(f, carrier, words) ==
  /\ f \in Seq(Words) /\ Len(f) = 4 + Len(words)
  /\ f[1] = Magic[carrier][1] /\ f[2] = Magic[carrier][2]
  /\ f[3] \in Words /\ (carrier = "udp" => f[3] = 0) /\ f[4] = 2 * Len(words)
  /\ Placed(f, 4, words)

LEMMA MagicWords ==
  ASSUME NEW c \in Carriers
  PROVE  /\ c \in {"tunnel", "udp"} /\ Magic[c] \in Seq(Words) /\ Len(Magic[c]) = 2
         /\ Magic[c][1] \in Words /\ Magic[c][2] \in Words
         /\ Magic[c] = <<Magic[c][1], Magic[c][2]>>
<1>1. c \in {"tunnel", "udp"}
  BY DEF Carriers, Magic
<1>2. Magic["tunnel"] = <<14420, 13391>> /\ Magic["udp"] = <<18774, 14412>>
  BY DEF Magic
<1>3. 14420 \in Words /\ 13391 \in Words /\ 18774 \in Words /\ 14412 \in Words
  BY WordRange
<1>4. ASSUME NEW a \in Words, NEW b \in Words, NEW m, m = <<a, b>>
      PROVE  /\ m \in Seq(Words) /\ Len(m) = 2 /\ m[1] \in Words /\ m[2] \in Words
             /\ m = <<m[1], m[2]>>
  BY <1>4
<1>5. ASSUME c = "tunnel" PROVE \E a \in Words, b \in Words : Magic[c] = <<a, b>>
  BY <1>2, <1>3, <1>5
<1>6. ASSUME c = "udp" PROVE \E a \in Words, b \in Words : Magic[c] = <<a, b>>
  BY <1>2, <1>3, <1>6
<1>7. PICK a \in Words, b \in Words : Magic[c] = <<a, b>>
  BY <1>1, <1>5, <1>6
<1> QED  BY <1>1, <1>4, <1>7

LEMMA FrameWords ==
  ASSUME NEW c \in Carriers, NEW third \in Words, c = "udp" => third = 0,
         NEW words \in Seq(Words), 2 * Len(words) < Word
  PROVE  Framed(Wrap(c, third, words), c, words)
<1> DEFINE n == Len(words)
           m == Magic[c]
           two == <<third, 2 * n>>
           start == m \o two
           f == start \o words
<1>1. n \in Nat /\ 2 * n \in Words
  <2>1. n \in Nat /\ 2 * n < Word
    OBVIOUS
  <2> HIDE DEF n
  <2> QED  BY <2>1, WordRange
<1>2. two \in Seq(Words)
  <2> HIDE DEF n
  <2> QED  BY <1>1
<1>2a. Len(two) = 2 /\ two[1] = third /\ two[2] = 2 * n
  OBVIOUS
<1>3. m \in Seq(Words)
  BY MagicWords
<1>3a. Len(m) = 2
  BY MagicWords
<1> HIDE DEF m, two
<1>4. /\ start \in Seq(Words) /\ Len(start) = Len(m) + Len(two)
      /\ \A i \in 1 .. Len(m) : start[i] = m[i]
      /\ \A i \in 1 .. Len(two) : start[Len(m) + i] = two[i]
  BY <1>2, <1>3, Joined
<1> HIDE DEF start
<1>5. start \in Seq(Words)
  BY <1>4
<1>5a. Len(start) = 4 /\ start[1] = m[1] /\ start[2] = m[2] /\ start[3] = third /\ start[4] = 2 * n
  <2>1. Len(start) = 4 /\ start[1] = m[1] /\ start[2] = m[2]
    BY <1>2a, <1>3a, <1>4
  <2>2. start[2 + 1] = two[1] /\ start[2 + 2] = two[2]
    BY <1>2a, <1>3a, <1>4
  <2> QED  BY <1>2a, <2>1, <2>2
<1>6. /\ f \in Seq(Words) /\ Len(f) = Len(start) + Len(words)
      /\ \A i \in 1 .. Len(start) : f[i] = start[i]
      /\ \A i \in 1 .. Len(words) : f[Len(start) + i] = words[i]
  BY <1>5, Joined
<1>7. Wrap(c, third, words) = f
  <2>1. Wrap(c, third, words) = m \o two \o words
    BY DEF Wrap, m, two
  <2> QED  BY <2>1 DEF start
<1> HIDE DEF f
<1>8. Len(f) = 4 + n /\ \A i \in 1 .. 4 : f[i] = start[i]
  BY <1>5a, <1>6
<1>9. f[1] = m[1] /\ f[2] = m[2] /\ f[3] = third /\ f[4] = 2 * n
  BY <1>5a, <1>8
<1>10. Placed(f, 4, words)
  BY <1>5a, <1>6 DEF Placed
<1>11. f \in Seq(Words)
  BY <1>6
<1>12. Framed(f, c, words)
  BY <1>8, <1>9, <1>10, <1>11 DEF Framed, m, n
<1> QED  BY <1>7, <1>12

(* What a receiver takes from a frame that has its length.                  *)
LEMMA Opened ==
  ASSUME NEW c \in Carriers, NEW v \in Seq(Words), NEW n \in Nat, Len(v) >= 4 + n,
         v[1] = Magic[c][1], v[2] = Magic[c][2], c = "udp" => v[3] = 0, v[4] = 2 * n
  PROVE  Unwrap(c, v) = [inner |-> SubSeq(v, 4 + 1, 4 + n)] /\ Accepted(Unwrap(c, v))
<1> DEFINE l == Len(v)
<1>1. l \in Nat /\ l >= 4 + n
  OBVIOUS
<1>2. SubSeq(v, 1, 2) = Magic[c]
  <2>1. Magic[c] \in Seq(Words)
    BY MagicWords
  <2>2. Len(Magic[c]) = 2
    BY MagicWords
  <2>3. Placed(v, 0, Magic[c])
    BY <2>2 DEF Placed
  <2>4. 0 + Len(Magic[c]) <= Len(v)
    BY <1>1, <2>2
  <2>5. SubSeq(v, 0 + 1, 0 + Len(Magic[c])) = Magic[c]
    BY <2>1, <2>3, <2>4, PlacedRead
  <2> QED  BY <2>2, <2>5
<1> HIDE DEF l
<1>3. ~ (l < 4) /\ ~ (2 * l < 8 + v[4]) /\ v[4] \div 2 = n /\ 4 + 1 = 5
  BY <1>1
<1>4. Unwrap(c, v) = [inner |-> SubSeq(v, 5, 4 + n)]
  BY <1>2, <1>3 DEF Unwrap, l
<1>5. DOMAIN [inner |-> SubSeq(v, 5, 4 + n)] # {"refused"}
  OBVIOUS
<1> QED  BY <1>3, <1>4, <1>5 DEF Accepted

(* What becomes of the words in a frame.                                    *)
LEMMA FrameWhole ==
  ASSUME NEW c \in Carriers, NEW words \in Seq(Words), NEW g, Framed(g, c, words),
         NEW w \in {g} \cup Padded(g)
  PROVE  Unwrap(c, w) = [inner |-> words] /\ Accepted(Unwrap(c, w))
<1> DEFINE n == Len(words)
<1>1. n \in Nat /\ g \in Seq(Words) /\ Len(g) = 4 + n
  BY DEF Framed
<1>2. /\ g[1] = Magic[c][1] /\ g[2] = Magic[c][2] /\ (c = "udp" => g[3] = 0) /\ g[4] = 2 * n
      /\ Placed(g, 4, words)
  BY DEF Framed
<1>3. w \in Seq(Words) /\ Len(w) >= 4 + n /\ \A i \in 1 .. 4 + n : w[i] = g[i]
  <2>1. CASE w = g
    BY <1>1, <2>1
  <2>2. ASSUME NEW x \in {0, 8}, w = g \o <<x>>
        PROVE  w \in Seq(Words) /\ Len(w) >= 4 + n /\ \A i \in 1 .. 4 + n : w[i] = g[i]
    <3>1. x \in Words
      BY WordRange
    <3> DEFINE t == <<x>>
    <3>2. t \in Seq(Words)
      BY <3>1
    <3>2a. Len(t) = 1
      OBVIOUS
    <3>3. g \in Seq(Words)
      BY <1>1
    <3> HIDE DEF t
    <3>4. /\ g \o t \in Seq(Words) /\ Len(g \o t) = Len(g) + Len(t)
          /\ \A i \in 1 .. Len(g) : (g \o t)[i] = g[i]
      BY <3>2, <3>3, Joined
    <3>5. w = g \o t
      BY <2>2 DEF t
    <3> QED  BY <1>1, <3>2a, <3>4, <3>5
  <2> QED  BY <2>1, <2>2 DEF Padded
<1> HIDE DEF n
<1>4. w[1] = g[1] /\ w[2] = g[2] /\ w[3] = g[3] /\ w[4] = g[4]
  BY <1>1, <1>3
<1>5. Unwrap(c, w) = [inner |-> SubSeq(w, 4 + 1, 4 + n)] /\ Accepted(Unwrap(c, w))
  BY <1>1, <1>2, <1>3, <1>4, Opened
<1>6. SubSeq(w, 4 + 1, 4 + Len(words)) = words
  <2>1. Placed(w, 4, words)
    <3>1. \A i \in 1 .. n : g[4 + i] = words[i]
      BY <1>2 DEF Placed, n
    <3>2. \A i \in 1 .. n : 4 + i \in 1 .. 4 + n
      BY <1>1
    <3>3. \A i \in 1 .. n : w[4 + i] = words[i]
      BY <1>3, <3>1, <3>2
    <3> QED  BY <3>3 DEF Placed, n
  <2>2. 4 + Len(words) <= Len(w)
    BY <1>3 DEF n
  <2> QED  BY <1>3, <2>1, <2>2, PlacedRead
<1> QED  BY <1>5, <1>6 DEF n

LEMMA FrameCut ==
  ASSUME NEW c \in Carriers, NEW words \in Seq(Words), NEW g, Framed(g, c, words),
         NEW w \in Cut(g)
  PROVE  ~Accepted(Unwrap(c, w))
<1> DEFINE n == Len(words)
<1>1. n \in Nat /\ g \in Seq(Words) /\ Len(g) = 4 + n /\ g[4] = 2 * n
  BY DEF Framed
<1>2. PICK k \in 0 .. Len(g) - 1 : w = SubSeq(g, 1, k)
  BY DEF Cut
<1>3. \A i \in 1 .. Len(g) : g[i] \in Words
  BY <1>1
<1>4. k \in Int /\ 0 <= k /\ k < 4 + n
  BY <1>1, <1>2
<1>5. Len(w) = k /\ \A i \in 1 .. k : w[i] = g[i]
  <2>1. \A i \in 1 .. k : g[i] \in Words
    BY <1>1, <1>3, <1>4
  <2>2. /\ Len(w) = (IF 1 <= k THEN k - 1 + 1 ELSE 0) /\ \A i \in 1 .. k - 1 + 1 : w[i] = g[1 + i - 1]
    BY <1>2, <1>4, <2>1, SubSeqProperties
  <2> QED  BY <1>4, <2>2
<1> HIDE DEF n
<1>6. CASE k < 4
  <2>1. Unwrap(c, w) = Refused("short")
    BY <1>4, <1>5, <1>6 DEF Unwrap
  <2> QED  BY <2>1, RefusedIs
<1>7. CASE ~ (k < 4)
  <2>1. w[4] = 2 * n
    BY <1>1, <1>4, <1>5, <1>7
  <2>2. 2 * Len(w) < 8 + w[4]
    BY <1>1, <1>4, <1>5, <2>1
  <2>3. Unwrap(c, w) \in {Refused("short"), Refused("magic"), Refused("truncated")}
    BY <2>2 DEF Unwrap
  <2> QED  BY <2>3, RefusedIs
<1> QED  BY <1>6, <1>7

(* One word changed: the frame is refused, or it still holds the packet, or  *)
(* nothing, or the packet with one word changed, and the sum shows it.       *)
Touched(v, words) ==
  \E j \in 1 .. Len(words) :
    /\ \E y \in {0, (words[j] + 2) % Word} \ {words[j]} : v = [words EXCEPT ![j] = y]
    /\ j \in {2, 6} \/ SumShows(words, v)

Disturbed(frame, words) ==
  \E v : (v \in {words, <<>>} \/ Touched(v, words)) /\ frame = [inner |-> v]

LEMMA FrameChanged ==
  ASSUME NEW c \in Carriers, NEW words \in Seq(Words), 2 * Len(words) < Word,
         NEW g, Framed(g, c, words), NEW w \in Changed(g)
  PROVE  ~Accepted(Unwrap(c, w)) \/ Disturbed(Unwrap(c, w), words)
<1> DEFINE n == Len(words)
<1>1. n \in Nat /\ g \in Seq(Words) /\ 2 * n < Word
  BY DEF Framed
<1>1a. Len(g) = 4 + n
  BY DEF Framed
<1>2. /\ g[1] = Magic[c][1] /\ g[2] = Magic[c][2] /\ (c = "udp" => g[3] = 0) /\ g[4] = 2 * n
      /\ Placed(g, 4, words)
  BY DEF Framed
<1> DEFINE Told1(i) == i \in {1, 2, 3, 4, 6, 10} \/ SumShows(From(g, 5), From(w, 5))
<1>2a. PICK i \in 1 .. Len(g) :
         (\E x \in {0, (g[i] + 2) % Word} \ {g[i]} : w = [g EXCEPT ![i] = x]) /\ Told1(i)
  <2>1. PICK i \in DOMAIN g :
          w \in {u \in {[g EXCEPT ![i] = x] : x \in {0, (g[i] + 2) % Word} \ {g[i]}} :
                   i \in {1, 2, 3, 4, 6, 10} \/ SumShows(From(g, 5), From(u, 5))}
    BY Zenon DEF Changed
  <2>2. w \in {[g EXCEPT ![i] = x] : x \in {0, (g[i] + 2) % Word} \ {g[i]}} /\ Told1(i)
    BY <2>1, Zenon
  <2>3. i \in 1 .. Len(g)
    BY <1>1
  <2> QED  BY <2>2, <2>3, Zenon
<1>2b. Told1(i)
  BY <1>2a
<1> HIDE DEF Told1
<1>3. PICK x \in {0, (g[i] + 2) % Word} \ {g[i]} : w = [g EXCEPT ![i] = x]
  BY <1>2a
<1>4. x \in Words
  <2>1. g[i] \in Nat /\ 0 \in Words
    BY <1>1, <1>3, WordRange, SMTT(30)
  <2> DEFINE a == g[i] + 2
  <2>2. a \in Nat
    BY <2>1
  <2> HIDE DEF a
  <2>3. a % Word \in Words
    BY <2>2, Divided, WordRange
  <2> QED  BY <2>1, <2>3 DEF a
<1>5. /\ w \in Seq(Words) /\ Len(w) = Len(g)
      /\ \A j \in 1 .. Len(g) : w[j] = IF j = i THEN x ELSE g[j]
  BY <1>1, <1>3, <1>4, ExceptSeq
<1>6. w \in Seq(Words) /\ Len(w) = 4 + n /\ \A j \in 1 .. 4 + n : w[j] = IF j = i THEN x ELSE g[j]
  BY <1>1a, <1>5
<1>7. i \in 1 .. 4 + n /\ x # g[i] /\ x \in {0, (g[i] + 2) % Word}
  BY <1>1a, <1>3
<1>8. CASE i \in {1, 2}
  <2>1. SubSeq(w, 1, 2) # Magic[c]
    <3>1. SubSeq(w, 1, 2)[i] = w[i]
      <4>1. \A j \in 1 .. 2 : w[j] \in Words
        BY <1>1, <1>6
      <4>2. \A j \in 1 .. 2 - 1 + 1 : SubSeq(w, 1, 2)[j] = w[1 + j - 1]
        BY <4>1, SubSeqProperties
      <4> QED  BY <1>8, <4>2
    <3>2. w[i] = x /\ g[i] = Magic[c][i]
      BY <1>2, <1>6, <1>7, <1>8
    <3> QED  BY <1>7, <3>1, <3>2
  <2>2. Unwrap(c, w) \in {Refused("short"), Refused("magic")}
    BY <2>1 DEF Unwrap
  <2> QED  BY <2>2, RefusedIs
<1>9. CASE i = 3
  <2>1. w[1] = g[1] /\ w[2] = g[2] /\ w[3] = x /\ w[4] = g[4]
    BY <1>1, <1>6, <1>7, <1>9
  <2>2. CASE c = "udp"
    <3>1. w[3] # 0
      BY <1>2, <1>7, <1>9, <2>1, <2>2
    <3>2. Unwrap(c, w) \in {Refused("short"), Refused("magic"), Refused("truncated")}
      BY <2>2, <3>1 DEF Unwrap
    <3> QED  BY <3>2, RefusedIs
  <2>3. CASE c # "udp"
    <3>1. Unwrap(c, w) = [inner |-> SubSeq(w, 4 + 1, 4 + n)]
      <4>1. Len(w) >= 4 + n
        BY <1>1, <1>6
      <4>2. w \in Seq(Words) /\ n \in Nat
        BY <1>1, <1>6
      <4>3. w[1] = Magic[c][1] /\ w[2] = Magic[c][2] /\ (c = "udp" => w[3] = 0) /\ w[4] = 2 * n
        BY <1>2, <2>1, <2>3
      <4> HIDE DEF n
      <4> QED  BY <4>1, <4>2, <4>3, Opened
    <3>2. Placed(w, 4, words)
      <4>1. \A j \in 1 .. n : g[4 + j] = words[j]
        BY <1>2 DEF Placed
      <4>2. \A j \in 1 .. n : 4 + j \in 1 .. 4 + n /\ 4 + j # i
        BY <1>1, <1>9
      <4>3. \A j \in 1 .. n : w[4 + j] = words[j]
        BY <1>6, <4>1, <4>2
      <4> QED  BY <4>3 DEF Placed
    <3>3. 4 + Len(words) <= Len(w) /\ w \in Seq(Words)
      BY <1>1, <1>6
    <3>4. SubSeq(w, 4 + 1, 4 + Len(words)) = words
      BY <3>2, <3>3, PlacedRead
    <3> QED  BY <3>1, <3>4 DEF Disturbed
  <2> QED  BY <2>2, <2>3
<1>10. CASE i = 4
  <2>1. w[1] = g[1] /\ w[2] = g[2] /\ w[3] = g[3] /\ w[4] = x
    BY <1>1, <1>6, <1>7, <1>10
  <2>2. x = 0 \/ x = 2 * n + 2
    <3>1. x \in {0, (2 * n + 2) % Word}
      BY <1>2, <1>7, <1>10
    <3> HIDE DEF n
    <3> QED  BY <1>1, <3>1, NextEven
  <2>3. CASE x = 0
    <3>1. Unwrap(c, w) = [inner |-> SubSeq(w, 4 + 1, 4 + 0)]
      <4>1. Len(w) >= 4 + 0
        BY <1>1, <1>6
      <4>2. w \in Seq(Words) /\ 0 \in Nat
        BY <1>6
      <4>3. w[1] = Magic[c][1] /\ w[2] = Magic[c][2] /\ (c = "udp" => w[3] = 0) /\ w[4] = 2 * 0
        BY <1>2, <2>1, <2>3
      <4> QED  BY <4>1, <4>2, <4>3, Opened
    <3>2. SubSeq(w, 4 + 1, 4 + 0) = <<>>
      <4>1. 4 + 1 \in Int /\ 4 + 0 \in Int /\ 4 + 0 < 4 + 1
        OBVIOUS
      <4> QED  BY <4>1, SubSeqEmpty
    <3> QED  BY <3>1, <3>2 DEF Disturbed
  <2>4. CASE x = 2 * n + 2
    <3>1. 2 * Len(w) < 8 + w[4]
      BY <1>1, <1>6, <2>1, <2>4
    <3>2. Unwrap(c, w) \in {Refused("short"), Refused("magic"), Refused("truncated")}
      BY <3>1 DEF Unwrap
    <3> QED  BY <3>2, RefusedIs
  <2> QED  BY <2>2, <2>3, <2>4
<1>11. CASE i > 4
  <2> DEFINE j == i - 4
             inner == [words EXCEPT ![j] = x]
  <2>1. j \in 1 .. n /\ 4 + j = i
    BY <1>1, <1>7, <1>11
  <2>2. g[i] = words[j]
    BY <1>2, <2>1 DEF Placed
  <2>3. w[1] = g[1] /\ w[2] = g[2] /\ w[3] = g[3] /\ w[4] = g[4]
    BY <1>1, <1>6, <1>7, <1>11
  <2>4. Unwrap(c, w) = [inner |-> SubSeq(w, 4 + 1, 4 + n)]
    <3>1. Len(w) >= 4 + n
      BY <1>1, <1>6
    <3>2. w \in Seq(Words) /\ n \in Nat
      BY <1>1, <1>6
    <3>3. w[1] = Magic[c][1] /\ w[2] = Magic[c][2] /\ (c = "udp" => w[3] = 0) /\ w[4] = 2 * n
      BY <1>2, <2>3
    <3> HIDE DEF n
    <3> QED  BY <3>1, <3>2, <3>3, Opened
  <2> HIDE DEF j
  <2>5. inner \in Seq(Words) /\ Len(inner) = n /\ \A k \in 1 .. n : inner[k] = IF k = j THEN x ELSE words[k]
    BY <1>4, <2>1, ExceptSeq
  <2> HIDE DEF inner
  <2>6. Placed(w, 4, inner)
    <3>1. \A k \in 1 .. n : g[4 + k] = words[k]
      BY <1>2 DEF Placed
    <3>2. \A k \in 1 .. n : 4 + k \in 1 .. 4 + n /\ (4 + k = i <=> k = j)
      BY <1>1, <2>1
    <3>3. \A k \in 1 .. n : w[4 + k] = inner[k]
      BY <1>6, <2>5, <3>1, <3>2
    <3> QED  BY <2>5, <3>3 DEF Placed
  <2>7. 4 + Len(inner) <= Len(w) /\ w \in Seq(Words) /\ inner \in Seq(Words)
    BY <1>1, <1>6, <2>5
  <2>8. SubSeq(w, 4 + 1, 4 + Len(inner)) = inner
    BY <2>6, <2>7, PlacedRead
  <2>9. Len(inner) = n
    BY <2>5
  <2>9a. j \in {2, 6} \/ SumShows(words, inner)
    <3>1. From(w, 5) = inner
      BY <1>6, <2>8, <2>9 DEF From
    <3>2. From(g, 5) = words
      <4>1. SubSeq(g, 4 + 1, 4 + Len(words)) = words
        BY <1>1, <1>1a, <1>2, PlacedRead
      <4> QED  BY <1>1a, <4>1 DEF From
    <3>3. i \in {6, 10} => j \in {2, 6}
      BY <2>1
    <3>4. i \notin {1, 2, 3, 4}
      BY <1>11
    <3> QED  BY <1>2b, <3>1, <3>2, <3>3, <3>4 DEF Told1
  <2>10. Touched(inner, words)
    <3>1. x \in {0, (words[j] + 2) % Word} \ {words[j]}
      BY <1>7, <2>2
    <3>2. inner = [words EXCEPT ![j] = x]
      BY DEF inner
    <3>3. j \in 1 .. Len(words)
      BY <2>1
    <3> HIDE DEF n
    <3> QED  BY <2>9a, <3>1, <3>2, <3>3, Zenon DEF Touched
  <2> QED  BY <2>4, <2>8, <2>9, <2>10 DEF Disturbed
<1>12. i \in {1, 2} \/ i = 3 \/ i = 4 \/ i > 4
  BY <1>1, <1>7
<1> QED  BY <1>8, <1>9, <1>10, <1>11, <1>12

LEMMA RecordsAccepted ==
  /\ \A p \in Packets8 : Accepted(p)
  /\ \A m \in Messages : Accepted(m)
<1>1. ASSUME NEW p \in Packets8 PROVE Accepted(p)
  <2>1. "version" \in DOMAIN p /\ "version" # "refused"
    BY DEF Packets8
  <2> QED  BY <2>1 DEF Accepted
<1>2. ASSUME NEW m \in Messages PROVE Accepted(m)
  <2>1. "type" \in DOMAIN m /\ "type" # "refused"
    BY DEF Messages
  <2> QED  BY <2>1 DEF Accepted
<1> QED  BY <1>1, <1>2

LEMMA PacketFits ==
  ASSUME NEW src \in AddressWords, NEW dst \in AddressWords, NEW m \in Messages
  PROVE  Packet(src, dst, m) \in Packets8
<1> DEFINE pay == EncodeIcmp(m)
<1>1. pay \in Seq(Words) /\ Len(pay) = 4 + Len(m.payload)
  BY MessageRead
<1>2. HeaderSize + 2 * Len(pay) < Word
  BY <1>1 DEF Messages
<1>3. 0 \in Words
  BY WordRange
<1>4. pay \in Seq(Words)
  BY <1>1
<1> HIDE DEF pay
<1> DEFINE p == [version |-> 8, identification |-> 0, flags |-> 0, offset |-> 0, ttl |-> 64,
                 protocol |-> 1, src |-> src, dst |-> dst, payload |-> pay]
<1>5. p \in [version : 0 .. 15, identification : Words, flags : 0 .. 7, offset : 0 .. 8191,
             ttl : 0 .. 255, protocol : 0 .. 255, src : AddressWords, dst : AddressWords,
             payload : Seq(Words)]
  BY <1>3, <1>4
<1>6. HeaderSize + 2 * Len(p.payload) < Word
  BY <1>2
<1>7. p \in Packets8
  BY <1>5, <1>6 DEF Packets8
<1> QED  BY <1>7 DEF Packet, pay

(* What may have become of a frame on its way.                              *)
Stems(f, g) ==
  /\ f = [to |-> g.to, carrier |-> g.carrier, harm |-> f.harm, words |-> f.words]
  /\ \/ f.harm = "none" /\ f.words = g.words
     \/ f.harm = "cut" /\ f.words \in Cut(g.words)
     \/ f.harm = "padded" /\ f.words \in Padded(g.words)
     \/ f.harm = "changed" /\ f.words \in Changed(g.words)

LEMMA FrameOfFramed ==
  ASSUME NEW c \in Carriers, NEW src \in AddressWords, NEW dst \in AddressWords, NEW m \in Messages
  PROVE  LET words == EncodePacket(Packet(src, dst, m))
             g == FrameOf(c, src, dst, m)
         IN  /\ words \in Seq(Words) /\ 2 * Len(words) < Word /\ EncodingOf(words, Packet(src, dst, m))
             /\ g.to = dst /\ g.carrier = c /\ g.harm = "none" /\ Framed(g.words, c, words)
<1> DEFINE p == Packet(src, dst, m)
           words == EncodePacket(p)
           g == FrameOf(c, src, dst, m)
<1>1. p \in Packets8 /\ EncodingOf(words, p)
  BY PacketFits, EncodedWords
<1> HIDE DEF p, words
<1>2. words \in Seq(Words)
  BY <1>1 DEF EncodingOf
<1>3. 2 * Len(words) < Word
  BY <1>1 DEF EncodingOf, Packets8, HeaderSize
<1>4. c \in {"tunnel", "udp"}
  BY MagicWords
<1>5. 0 \in Words /\ 256 \in Words
  BY WordRange
<1>6. PICK third \in {0, 256} : (c = "udp" => third = 0) /\ g.words = Wrap(c, third, words)
  BY <1>4 DEF FrameOf, FramePacket, Encapsulate, words, p
<1>7. Framed(g.words, c, words)
  <2>1. Framed(Wrap(c, third, words), c, words)
    BY <1>2, <1>3, <1>5, <1>6, FrameWords
  <2> QED  BY <1>6, <2>1
<1>8. g.to = dst /\ g.carrier = c /\ g.harm = "none"
  BY DEF FrameOf
<1> QED  BY <1>1, <1>2, <1>3, <1>7, <1>8 DEF words, p

(* A frame of the kind an endpoint sends, whatever became of it, is refused, *)
(* and then it was cut or changed, or it brings the message it was made for.  *)
LEMMA Understood ==
  ASSUME NEW c \in Carriers, NEW src \in AddressWords, NEW dst \in AddressWords, NEW m \in Messages,
         NEW f, Stems(f, FrameOf(c, src, dst, m))
  PROVE  LET packet == Received(f.carrier, f.words)
             message == DecodeIcmp(packet.payload)
         IN  \/ f.harm \in {"cut", "changed"} /\ (~Accepted(packet) \/ ~Accepted(message))
             \/ /\ Accepted(packet) /\ Accepted(message)
                /\ packet.src = src /\ packet.dst = dst /\ message = m
<1> DEFINE p == Packet(src, dst, m)
           words == EncodePacket(p)
           g == FrameOf(c, src, dst, m)
           packet == Received(f.carrier, f.words)
           message == DecodeIcmp(packet.payload)
           Refuses == ~Accepted(packet) \/ ~Accepted(message)
           Brings == /\ Accepted(packet) /\ Accepted(message)
                     /\ packet.src = src /\ packet.dst = dst /\ message = m
<1>1. /\ words \in Seq(Words) /\ 2 * Len(words) < Word /\ EncodingOf(words, p)
      /\ g.to = dst /\ g.carrier = c /\ g.harm = "none" /\ Framed(g.words, c, words)
  BY FrameOfFramed
<1>2. p \in Packets8 /\ p.payload = EncodeIcmp(m) /\ p.src = src /\ p.dst = dst
  BY PacketFits DEF Packet
<1>3. f.carrier = c
  BY <1>1 DEF Stems
<1>4. DecodeIcmp(<<>>) = Refused("short")
  <2>1. Len(<<>>) < 4
    OBVIOUS
  <2> QED  BY <2>1 DEF DecodeIcmp
<1> HIDE DEF p, words, g
<1>5. ASSUME Unwrap(c, f.words) = [inner |-> words], Accepted(Unwrap(c, f.words)) PROVE Brings
  <2>1. packet = DecodePacket(words)
    BY <1>3, <1>5 DEF Received
  <2>2. packet = p
    BY <1>1, <1>2, <2>1, PacketRead
  <2>3. message = m
    BY <1>2, <2>2, MessageRead
  <2> QED  BY <1>2, <2>2, <2>3, RecordsAccepted
<1>6. CASE f.harm \in {"none", "padded"}
  <2>1. f.words \in {g.words} \cup Padded(g.words)
    BY <1>6 DEF Stems, g
  <2>2. Unwrap(c, f.words) = [inner |-> words] /\ Accepted(Unwrap(c, f.words))
    BY <1>1, <2>1, FrameWhole
  <2> QED  BY <1>5, <2>2
<1>7. CASE f.harm = "cut"
  <2>1. f.words \in Cut(g.words)
    BY <1>7 DEF Stems, g
  <2>2. ~Accepted(Unwrap(c, f.words))
    BY <1>1, <2>1, FrameCut
  <2>3. ~Accepted(packet)
    BY <1>3, <2>2 DEF Received
  <2> QED  BY <1>7, <2>3
<1>8. CASE f.harm = "changed"
  <2>1. f.words \in Changed(g.words)
    BY <1>8 DEF Stems, g
  <2>2. ~Accepted(Unwrap(c, f.words)) \/ Disturbed(Unwrap(c, f.words), words)
    BY <1>1, <2>1, FrameChanged
  <2>3. CASE ~Accepted(Unwrap(c, f.words))
    <3>1. ~Accepted(packet)
      BY <1>3, <2>3 DEF Received
    <3> QED  BY <1>8, <3>1
  <2>4. ASSUME Accepted(Unwrap(c, f.words)), NEW v, v \in {words, <<>>} \/ Touched(v, words),
               Unwrap(c, f.words) = [inner |-> v]
        PROVE  Refuses \/ Brings
    <3>1. packet = DecodePacket(v)
      BY <1>3, <2>4 DEF Received
    <3>2. CASE v = words
      BY <1>5, <2>4, <3>2
    <3>3. CASE v = <<>>
      <4>1. 2 * Len(v) < HeaderSize
        BY <3>3 DEF HeaderSize
      <4>2. packet = Refused("short")
        BY <3>1, <4>1 DEF DecodePacket
      <4> QED  BY <4>2, RefusedIs
    <3>4. CASE Touched(v, words)
      <4>1. PICK j \in 1 .. Len(words) :
              /\ \E y \in {0, (words[j] + 2) % Word} \ {words[j]} : v = [words EXCEPT ![j] = y]
              /\ j \in {2, 6} \/ SumShows(words, v)
        BY <3>4 DEF Touched
      <4>2. PICK y \in {0, (words[j] + 2) % Word} \ {words[j]} : v = [words EXCEPT ![j] = y]
        BY <4>1
      <4>3. ~Accepted(DecodePacket(v)) \/ DecodePacket(v).payload = <<>>
        <5>1. j \in {2, 6} \/ SumShows(words, [words EXCEPT ![j] = y])
          <6>1. j \in {2, 6} \/ SumShows(words, v)
            BY <4>1, Zenon
          <6> QED  BY <4>2, <6>1, Zenon
        <5>2. y \in {0, (words[j] + 2) % Word} /\ y # words[j]
          BY Zenon
        <5>3. \/ ~Accepted(DecodePacket([words EXCEPT ![j] = y]))
              \/ j = 2 /\ DecodePacket([words EXCEPT ![j] = y]).payload = <<>>
          BY <1>1, <1>2, <5>1, <5>2, PacketHarmed, ZenonT(60)
        <5> QED  BY <4>2, <5>3, Zenon
      <4> QED  BY <1>4, <3>1, <4>3, RefusedIs
    <3> QED  BY <2>4, <3>2, <3>3, <3>4
  <2> QED  BY <1>8, <2>2, <2>3, <2>4 DEF Disturbed
<1>9. f.harm \in {"none", "padded", "cut", "changed"}
  BY DEF Stems
<1> QED  BY <1>6, <1>7, <1>8, <1>9

--------------------------------------------------------------------------------
(* Whatever either end accepts was told it (Exchange): every frame under way  *)
(* brings nothing or what may be told.                                       *)
Ends == {Here, There}

Hearings == [at : Ends, src : Ends, dst : Ends, message : Messages]

(* What every frame under way brings, if it brings anything, may be told.   *)
AirTold ==
  \A f \in air : \E h \in Hearings, c \in Carriers :
    h.at = h.dst /\ Told(h) /\ Stems(f, FrameOf(c, h.src, h.dst, h.message))

ExchangeInv ==
  /\ asked \subseteq Echoes \X Carriers
  /\ reported \subseteq Errors \X Carriers
  /\ heard \subseteq Hearings
  /\ AirTold /\ HeardIsTold

LEMMA EchoesFit ==
  ASSUME NEW e \in Echoes
  PROVE  EchoRequest(e.identifier, e.sequence, e.payload) \in Messages
<1>1. e \in [identifier : Words, sequence : Words, payload : Seq(Words)]
  BY ExchangeAssumption
<1>2. HeaderSize + 2 * (4 + Len(e.payload)) < Word
  BY ExchangeAssumption
<1>3. 8 \in IcmpTypes /\ 0 \in 0 .. 255
  BY DEF IcmpTypes
<1> DEFINE m == [type |-> 8, code |-> 0, identifier |-> e.identifier, sequence |-> e.sequence,
                 payload |-> e.payload]
<1>4. m \in [type : IcmpTypes, code : 0 .. 255, identifier : Words, sequence : Words, payload : Seq(Words)]
  BY <1>1, <1>3
<1>5. HeaderSize + 2 * (4 + Len(m.payload)) < Word
  BY <1>2
<1>6. m \in Messages
  BY <1>4, <1>5 DEF Messages
<1> QED  BY <1>6 DEF EchoRequest

LEMMA ErrorsFit ==
  ASSUME NEW e \in Errors
  PROVE  e \in Messages
<1>1. ASSUME NEW p \in Excerpts, NEW type \in {3, 5, 11}, NEW code \in 0 .. 6
      PROVE  Error(type, code, p) \in Messages
  <2> DEFINE m == [type |-> type, code |-> code, identifier |-> 0, sequence |-> 0, payload |-> p]
  <2>1. p \in Seq(Words) /\ HeaderSize + 2 * (4 + Len(p)) < Word
    BY ExchangeAssumption
  <2>2. type \in IcmpTypes /\ code \in 0 .. 255 /\ 0 \in Words
    BY WordRange DEF IcmpTypes
  <2>3. m \in [type : IcmpTypes, code : 0 .. 255, identifier : Words, sequence : Words, payload : Seq(Words)]
    BY <2>1, <2>2
  <2>4. HeaderSize + 2 * (4 + Len(m.payload)) < Word
    BY <2>1
  <2>5. m \in Messages
    BY <2>3, <2>4 DEF Messages
  <2> QED  BY <2>5 DEF Error
<1>2. PICK p \in Excerpts :
        e \in {DestinationUnreachable(c, p) : c \in UnreachableCode} \cup
              {TimeExceeded(c, p) : c \in TimeExceededCode} \cup {Redirect(c, p) : c \in RedirectCode}
  BY Zenon DEF Errors
<1>3. CASE e \in {DestinationUnreachable(c, p) : c \in UnreachableCode}
  <2>1. PICK c \in UnreachableCode : e = Error(3, c, p)
    BY <1>3 DEF DestinationUnreachable
  <2>2. c \in 0 .. 6
    BY DEF UnreachableCode
  <2> QED  BY <1>1, <2>1, <2>2
<1>4. CASE e \in {TimeExceeded(c, p) : c \in TimeExceededCode}
  <2>1. PICK c \in TimeExceededCode : e = Error(11, c, p)
    BY <1>4 DEF TimeExceeded
  <2>2. c \in 0 .. 6
    BY DEF TimeExceededCode
  <2> QED  BY <1>1, <2>1, <2>2
<1>5. CASE e \in {Redirect(c, p) : c \in RedirectCode}
  <2>1. PICK c \in RedirectCode : e = Error(5, c, p)
    BY <1>5 DEF Redirect
  <2>2. c \in 0 .. 6
    BY DEF RedirectCode
  <2> QED  BY <1>1, <2>1, <2>2
<1> QED  BY <1>2, <1>3, <1>4, <1>5

(* A reply says what the request said.                                      *)
LEMMA ReplyFits ==
  ASSUME NEW m \in Messages, m.type = 8, m.code = 0
  PROVE  LET r == EchoReply(m) IN
         /\ r \in Messages /\ r.type = 0 /\ r.code = 0 /\ r.identifier = m.identifier
         /\ r.sequence = m.sequence /\ r.payload = m.payload /\ [r EXCEPT !.type = 8] = m
<1> DEFINE r == [type |-> 0, code |-> 0, identifier |-> m.identifier, sequence |-> m.sequence,
                 payload |-> m.payload]
<1>1. m \in [type : IcmpTypes, code : 0 .. 255, identifier : Words, sequence : Words, payload : Seq(Words)]
  BY DEF Messages
<1>2. HeaderSize + 2 * (4 + Len(m.payload)) < Word
  BY DEF Messages
<1>3. EchoReply(m) = r
  <2> DEFINE t == m.type  k == m.code  i == m.identifier  s == m.sequence  q == m.payload
  <2>1. m = [type |-> t, code |-> k, identifier |-> i, sequence |-> s, payload |-> q]
    BY <1>1
  <2> HIDE DEF t, k, i, s, q
  <2> DEFINE n == [m EXCEPT !.type = 0]
  <2>2. n = [type |-> 0, code |-> k, identifier |-> i, sequence |-> s, payload |-> q]
    BY <2>1
  <2>3. [m EXCEPT !.type = 0, !.code = 0] = [n EXCEPT !.code = 0]
    OBVIOUS
  <2> HIDE DEF n
  <2>4. [n EXCEPT !.code = 0] =
          [type |-> 0, code |-> 0, identifier |-> i, sequence |-> s, payload |-> q]
    BY <2>2
  <2> QED  BY <2>3, <2>4 DEF EchoReply, i, s, q
<1>4. 0 \in IcmpTypes /\ 0 \in 0 .. 255
  BY DEF IcmpTypes
<1>5. r \in [type : IcmpTypes, code : 0 .. 255, identifier : Words, sequence : Words, payload : Seq(Words)]
  BY <1>1, <1>4
<1>6. HeaderSize + 2 * (4 + Len(r.payload)) < Word
  BY <1>2
<1>7. r \in Messages
  BY <1>5, <1>6 DEF Messages
<1>8. [r EXCEPT !.type = 8] = m
  <2>1. m = [type |-> m.type, code |-> m.code, identifier |-> m.identifier, sequence |-> m.sequence,
             payload |-> m.payload]
    BY <1>1
  <2> QED  BY <2>1
<1> QED  BY <1>3, <1>7, <1>8

(* What may be told stays so.                                               *)
LEMMA StillTold ==
  ASSUME NEW h, Told(h), asked \subseteq asked', reported \subseteq reported', heard \subseteq heard'
  PROVE  Told(h)'
<1>1. Requested(h) => Requested(h)'
  BY DEF Requested
<1>2. RequestTold(h) => RequestTold(h)'
  BY <1>1 DEF RequestTold
<1>3. ReplyTold(h) => ReplyTold(h)'
  BY <1>1 DEF ReplyTold
<1>4. ErrorTold(h) => ErrorTold(h)'
  BY DEF ErrorTold
<1> QED  BY <1>2, <1>3, <1>4 DEF Told

LEMMA StillInAir ==
  ASSUME AirTold, asked \subseteq asked', reported \subseteq reported', heard \subseteq heard',
         NEW f \in air
  PROVE  \E h \in Hearings, c \in Carriers :
           h.at = h.dst /\ Told(h)' /\ Stems(f, FrameOf(c, h.src, h.dst, h.message))
<1>1. PICK h \in Hearings, c \in Carriers :
        h.at = h.dst /\ Told(h) /\ Stems(f, FrameOf(c, h.src, h.dst, h.message))
  BY DEF AirTold
<1>2. Told(h)'
  BY <1>1, StillTold
<1> QED  BY <1>1, <1>2

(* A frame just made is as it was made.                                     *)
LEMMA JustMade ==
  ASSUME NEW c \in Carriers, NEW src, NEW dst, NEW m
  PROVE  Stems(FrameOf(c, src, dst, m), FrameOf(c, src, dst, m))
BY DEF Stems, FrameOf

LEMMA ExchangeInitInv == ExchangeInit => ExchangeInv
BY DEF ExchangeInit, ExchangeInv, AirTold, HeardIsTold

LEMMA AskInv ==
  ASSUME ExchangeInv, NEW e \in Echoes, NEW c \in Carriers, Ask(e, c)
  PROVE  ExchangeInv'
<1> DEFINE m == EchoRequest(e.identifier, e.sequence, e.payload)
           h == [at |-> There, src |-> Here, dst |-> There, message |-> m]
           g == FrameOf(c, Here, There, m)
<1>1. /\ asked' = asked \cup {<<e, c>>} /\ air' = air \cup {g}
      /\ reported' = reported /\ heard' = heard /\ refusedFor' = refusedFor
  BY DEF Ask
<1>2. h \in Hearings
  BY EchoesFit DEF Hearings, Ends
<1>3. Told(h)'
  <2>1. m.type = 8 /\ m.code = 0 /\ m.identifier = e.identifier /\ m.sequence = e.sequence /\ m.payload = e.payload
    BY DEF EchoRequest
  <2>2. e = [identifier |-> e.identifier, sequence |-> e.sequence, payload |-> e.payload]
    BY ExchangeAssumption
  <2> HIDE DEF m
  <2>3. Requested(h)'
    BY <1>1, <2>1, <2>2 DEF Requested
  <2> QED  BY <2>1, <2>3 DEF Told, RequestTold
<1>4. Stems(g, FrameOf(c, h.src, h.dst, h.message))
  <2> HIDE DEF m
  <2> QED  BY JustMade
<1>5. AirTold'
  <2> SUFFICES ASSUME NEW f \in air'
               PROVE  \E k \in Hearings, d \in Carriers :
                        k.at = k.dst /\ Told(k)' /\ Stems(f, FrameOf(d, k.src, k.dst, k.message))
    BY DEF AirTold
  <2>1. CASE f \in air
    BY <1>1, <2>1, StillInAir DEF ExchangeInv
  <2>2. CASE f = g
    <3>1. h.at = h.dst
      OBVIOUS
    <3> HIDE DEF h, g
    <3> QED  BY <1>2, <1>3, <1>4, <2>2, <3>1
  <2> QED  BY <1>1, <2>1, <2>2
<1>6. HeardIsTold'
  BY <1>1, StillTold DEF ExchangeInv, HeardIsTold
<1> QED  BY <1>1, <1>5, <1>6 DEF ExchangeInv

LEMMA ReportInv ==
  ASSUME ExchangeInv, NEW e \in Errors, NEW c \in Carriers, Report(e, c)
  PROVE  ExchangeInv'
<1> DEFINE h == [at |-> Here, src |-> There, dst |-> Here, message |-> e]
           g == FrameOf(c, There, Here, e)
<1>1. /\ reported' = reported \cup {<<e, c>>} /\ air' = air \cup {g}
      /\ asked' = asked /\ heard' = heard /\ refusedFor' = refusedFor
  BY DEF Report
<1>2. h \in Hearings
  BY ErrorsFit DEF Hearings, Ends
<1>3. Told(h)'
  BY <1>1, ExchangeAssumption DEF Told, ErrorTold
<1>4. Stems(g, FrameOf(c, h.src, h.dst, h.message))
  BY JustMade
<1>5. AirTold'
  <2> SUFFICES ASSUME NEW f \in air'
               PROVE  \E k \in Hearings, d \in Carriers :
                        k.at = k.dst /\ Told(k)' /\ Stems(f, FrameOf(d, k.src, k.dst, k.message))
    BY DEF AirTold
  <2>1. CASE f \in air
    BY <1>1, <2>1, StillInAir DEF ExchangeInv
  <2>2. CASE f = g
    <3>1. h.at = h.dst
      OBVIOUS
    <3> HIDE DEF h, g
    <3> QED  BY <1>2, <1>3, <1>4, <2>2, <3>1
  <2> QED  BY <1>1, <2>1, <2>2
<1>6. HeardIsTold'
  BY <1>1, StillTold DEF ExchangeInv, HeardIsTold
<1> QED  BY <1>1, <1>5, <1>6 DEF ExchangeInv

LEMMA ArriveInv ==
  ASSUME ExchangeInv, NEW f \in air, Arrive(f)
  PROVE  ExchangeInv'
<1> DEFINE packet == Received(f.carrier, f.words)
           message == DecodeIcmp(packet.payload)
           refused == ~Accepted(packet) \/ ~Accepted(message)
           answered == ~refused /\ f.to = There /\ message.type = 8
           new == [at |-> f.to, src |-> packet.src, dst |-> packet.dst, message |-> message]
           back == FrameOf(f.carrier, packet.dst, packet.src, EchoReply(message))
<1>1. /\ refusedFor' = (IF refused THEN refusedFor \cup {f.harm} ELSE refusedFor)
      /\ heard' = (IF refused THEN heard ELSE heard \cup {new})
      /\ \E rest \in {air, air \ {f}} : air' = IF answered THEN rest \cup {back} ELSE rest
      /\ asked' = asked /\ reported' = reported
  BY DEF Arrive
<1>2. PICK h \in Hearings, c \in Carriers :
        h.at = h.dst /\ Told(h) /\ Stems(f, FrameOf(c, h.src, h.dst, h.message))
  BY DEF ExchangeInv, AirTold
<1>3. h.src \in AddressWords /\ h.dst \in AddressWords /\ h.message \in Messages /\ h.dst \in Ends /\ h.src \in Ends
  BY ExchangeAssumption DEF Hearings, Ends
<1>4. \/ f.harm \in {"cut", "changed"} /\ refused
      \/ ~refused /\ packet.src = h.src /\ packet.dst = h.dst /\ message = h.message
  BY <1>2, <1>3, Understood
<1>5. f.to = h.dst /\ f.carrier \in Carriers
  BY <1>2 DEF Stems, FrameOf
<1> HIDE DEF packet, message
<1>6. CASE refused
  <2>1. heard' = heard /\ refusedFor' = refusedFor \cup {f.harm} /\ f.harm \in {"cut", "changed"}
    BY <1>1, <1>4, <1>6
  <2>2. \A k \in air' : k \in air
    BY <1>1, <1>6
  <2>3. AirTold'
    <3> SUFFICES ASSUME NEW k \in air'
                 PROVE  \E l \in Hearings, d \in Carriers :
                          l.at = l.dst /\ Told(l)' /\ Stems(k, FrameOf(d, l.src, l.dst, l.message))
      BY DEF AirTold
    <3> QED  BY <1>1, <2>1, <2>2, StillInAir DEF ExchangeInv
  <2>4. HeardIsTold'
    BY <1>1, <2>1, StillTold DEF ExchangeInv, HeardIsTold
  <2> QED  BY <1>1, <2>1, <2>3, <2>4 DEF ExchangeInv
<1>7. CASE ~refused
  <2>1. packet.src = h.src /\ packet.dst = h.dst /\ message = h.message /\ new = h
    <3>1. packet.src = h.src /\ packet.dst = h.dst /\ message = h.message
      BY <1>4, <1>7
    <3>2. h = [at |-> h.at, src |-> h.src, dst |-> h.dst, message |-> h.message]
      BY DEF Hearings
    <3> QED  BY <1>2, <1>5, <3>1, <3>2
  <2>2. heard' = heard \cup {h} /\ refusedFor' = refusedFor
    BY <1>1, <1>7, <2>1
  <2> HIDE DEF new
  <2>3. ASSUME NEW k, Told(k) PROVE Told(k)'
    BY <1>1, <2>2, <2>3, StillTold
  <2>4. HeardIsTold' /\ heard' \subseteq Hearings
    BY <1>2, <2>2, <2>3 DEF ExchangeInv, HeardIsTold
  <2>5. AirTold'
    <3> SUFFICES ASSUME NEW k \in air'
                 PROVE  \E l \in Hearings, d \in Carriers :
                          l.at = l.dst /\ Told(l)' /\ Stems(k, FrameOf(d, l.src, l.dst, l.message))
      BY DEF AirTold
    <3>1. k \in air \/ (answered /\ k = back)
      BY <1>1
    <3>2. CASE k \in air
      BY <1>1, <2>2, <3>2, StillInAir DEF ExchangeInv
    <3>3. CASE answered /\ k = back
      <4> DEFINE r == EchoReply(h.message)
                 l == [at |-> Here, src |-> There, dst |-> Here, message |-> r]
      <4>1. h.at = There /\ h.dst = There /\ h.message.type = 8
        BY <1>2, <1>5, <2>1, <3>3
      <4>2. RequestTold(h) /\ h.message.code = 0 /\ h.src = Here
        BY <1>2, <4>1 DEF Told, RequestTold
      <4>3. /\ r \in Messages /\ r.type = 0 /\ r.code = 0 /\ r.identifier = h.message.identifier
            /\ r.sequence = h.message.sequence /\ r.payload = h.message.payload
            /\ [r EXCEPT !.type = 8] = h.message
        BY <1>3, <4>1, <4>2, ReplyFits
      <4>4. back = FrameOf(f.carrier, There, Here, r)
        BY <2>1, <4>1, <4>2
      <4> HIDE DEF r, back
      <4>5. l \in Hearings
        BY <4>3 DEF Hearings, Ends
      <4>6. h = [at |-> There, src |-> Here, dst |-> There, message |-> h.message]
        BY <4>1, <4>2 DEF Hearings
      <4>7. Requested(h)'
        BY <1>1, <4>2 DEF RequestTold, Requested
      <4>8. Requested(l)'
        BY <4>3, <4>7 DEF Requested
      <4>9. ReplyTold(l)'
        BY <2>2, <4>3, <4>6, <4>8 DEF ReplyTold
      <4>10. Told(l)'
        BY <4>3, <4>9, ExchangeAssumption DEF Told
      <4>11. Stems(k, FrameOf(f.carrier, l.src, l.dst, l.message))
        BY <1>5, <3>3, <4>4, JustMade
      <4>12. l.at = l.dst
        OBVIOUS
      <4> HIDE DEF l
      <4> QED  BY <1>5, <4>5, <4>10, <4>11, <4>12
    <3> QED  BY <3>1, <3>2, <3>3
  <2> QED  BY <1>1, <2>4, <2>5 DEF ExchangeInv
<1> QED  BY <1>6, <1>7

LEMMA LoseFrameInv ==
  ASSUME ExchangeInv, NEW f \in air, LoseFrame(f)
  PROVE  ExchangeInv'
<1>1. /\ air' \subseteq air /\ asked' = asked /\ reported' = reported /\ heard' = heard
      /\ refusedFor' = refusedFor
  BY DEF LoseFrame
<1>2. ASSUME NEW h, Told(h) PROVE Told(h)'
  BY <1>1, <1>2, StillTold
<1>3. AirTold'
  BY <1>1, <1>2 DEF ExchangeInv, AirTold
<1>4. HeardIsTold'
  BY <1>1, <1>2 DEF ExchangeInv, HeardIsTold
<1> QED  BY <1>1, <1>3, <1>4 DEF ExchangeInv

LEMMA HarmInv ==
  ASSUME ExchangeInv, NEW f \in air, Harm(f)
  PROVE  ExchangeInv'
<1>1. /\ f.harm = "none" /\ asked' = asked /\ reported' = reported /\ heard' = heard
      /\ refusedFor' = refusedFor
  BY DEF Harm
<1>2. PICK h \in Hearings, c \in Carriers :
        h.at = h.dst /\ Told(h) /\ Stems(f, FrameOf(c, h.src, h.dst, h.message))
  BY DEF ExchangeInv, AirTold
<1> DEFINE g == FrameOf(c, h.src, h.dst, h.message)
<1>3. f.words = g.words /\ f.harm = "none"
  BY <1>1, <1>2 DEF Stems
<1>4. f = [to |-> g.to, carrier |-> g.carrier, harm |-> "none", words |-> f.words]
  BY <1>2, <1>3 DEF Stems
<1>5. PICK w, harm : /\ air' = (air \ {f}) \cup {[f EXCEPT !.words = w, !.harm = harm]}
                     /\ \/ harm = "cut" /\ w \in Cut(f.words)
                        \/ harm = "padded" /\ w \in Padded(f.words)
                        \/ harm = "changed" /\ w \in Changed(f.words)
  BY DEF Harm
<1>6. [f EXCEPT !.words = w, !.harm = harm] =
        [to |-> g.to, carrier |-> g.carrier, harm |-> harm, words |-> w]
  <2> DEFINE a == g.to  b == g.carrier  k == [f EXCEPT !.words = w]
  <2>1. f = [to |-> a, carrier |-> b, harm |-> "none", words |-> f.words]
    BY <1>4
  <2> HIDE DEF a, b
  <2>2. k = [to |-> a, carrier |-> b, harm |-> "none", words |-> w]
    BY <2>1
  <2>3. [f EXCEPT !.words = w, !.harm = harm] = [k EXCEPT !.harm = harm]
    OBVIOUS
  <2> HIDE DEF k
  <2>4. [k EXCEPT !.harm = harm] = [to |-> a, carrier |-> b, harm |-> harm, words |-> w]
    BY <2>2
  <2> QED  BY <2>3, <2>4 DEF a, b
<1>7. Stems([f EXCEPT !.words = w, !.harm = harm], g)
  <2> HIDE DEF g
  <2> DEFINE k == [to |-> g.to, carrier |-> g.carrier, harm |-> harm, words |-> w]
  <2>1. k = [to |-> g.to, carrier |-> g.carrier, harm |-> k.harm, words |-> k.words]
        /\ k.harm = harm /\ k.words = w
    OBVIOUS
  <2> HIDE DEF k
  <2>2. Stems(k, g)
    BY <1>3, <1>5, <2>1 DEF Stems
  <2> QED  BY <1>6, <2>2 DEF k
<1>8. ASSUME NEW l, Told(l) PROVE Told(l)'
  BY <1>1, <1>8, StillTold
<1>9. AirTold'
  <2> SUFFICES ASSUME NEW k \in air'
               PROVE  \E l \in Hearings, d \in Carriers :
                        l.at = l.dst /\ Told(l)' /\ Stems(k, FrameOf(d, l.src, l.dst, l.message))
    BY DEF AirTold
  <2>1. CASE k \in air
    BY <1>1, <2>1, StillInAir DEF ExchangeInv
  <2>2. CASE k = [f EXCEPT !.words = w, !.harm = harm]
    BY <1>2, <1>7, <1>8, <2>2
  <2> QED  BY <1>5, <2>1, <2>2
<1>10. HeardIsTold'
  BY <1>1, <1>8 DEF ExchangeInv, HeardIsTold
<1> QED  BY <1>1, <1>9, <1>10 DEF ExchangeInv

LEMMA ExchangeNextInv == ExchangeInv /\ [ExchangeNext]_exchangeVars => ExchangeInv'
<1> SUFFICES ASSUME ExchangeInv, [ExchangeNext]_exchangeVars PROVE ExchangeInv'
  OBVIOUS
<1>1. ASSUME NEW e \in Echoes, NEW c \in Carriers, Ask(e, c) PROVE ExchangeInv'
  BY <1>1, AskInv
<1>2. ASSUME NEW e \in Errors, NEW c \in Carriers, Report(e, c) PROVE ExchangeInv'
  BY <1>2, ReportInv
<1>3. ASSUME NEW f \in air, Arrive(f) PROVE ExchangeInv'
  BY <1>3, ArriveInv
<1>4. ASSUME NEW f \in air, LoseFrame(f) PROVE ExchangeInv'
  BY <1>4, LoseFrameInv
<1>5. ASSUME NEW f \in air, Harm(f) PROVE ExchangeInv'
  BY <1>5, HarmInv
<1>6. CASE UNCHANGED exchangeVars
  <2>1. /\ air' = air /\ asked' = asked /\ reported' = reported /\ heard' = heard
        /\ refusedFor' = refusedFor
    BY <1>6 DEF exchangeVars
  <2>2. ASSUME NEW h, Told(h) PROVE Told(h)'
    BY <2>1, <2>2, StillTold
  <2>3. AirTold' /\ HeardIsTold'
    BY <2>1, <2>2 DEF ExchangeInv, AirTold, HeardIsTold
  <2> QED  BY <2>1, <2>3 DEF ExchangeInv
<1> QED  BY <1>1, <1>2, <1>3, <1>4, <1>5, <1>6 DEF ExchangeNext

(* What either end accepts was told it by the other, whatever becomes of     *)
(* the frames, but for a change that the packet's sum, 16 bits of CRC-32,    *)
(* does not show (transport.py, tunnel.py, icmpv8.py, packet.py).            *)
THEOREM ExchangeHeardIsTold == ExchangeSpec => []HeardIsTold
<1>1. ExchangeInv => HeardIsTold
  BY DEF ExchangeInv
<1> QED  BY <1>1, ExchangeInitInv, ExchangeNextInv, PTL DEF ExchangeSpec

--------------------------------------------------------------------------------
(***************************************************************************)
(* Files (TraceFiles): what a capture or a file of flow records holds is   *)
(* what was put in it, but for the harm that the file remembers.           *)
(***************************************************************************)

(* A time in two parts, and put together again: what is less than a part is  *)
(* lost.                                                                     *)
LEMMA PartsOfTime ==
  ASSUME NEW t \in Nat, NEW S \in Nat \ {0}, NEW U \in Nat \ {0}, S % U = 0
  PROVE  (t \div S) * S + ((t % S) \div U) * U = t - (t % U)
<1> DEFINE a == t \div S  b == t % S  c == b \div U  d == b % U  k == S \div U
<1>1. a \in Nat /\ b \in Nat /\ t = S * a + b
  BY Divided
<1>2. c \in Nat /\ d \in Nat /\ d < U /\ b = U * c + d
  <2> HIDE DEF b
  <2> QED  BY <1>1, Divided
<1>3. k \in Nat /\ S = U * k
  <2>1. S \in Nat /\ k \in Nat /\ S = U * k + (S % U)
    BY Divided
  <2> HIDE DEF k
  <2> QED  BY <2>1
<1> HIDE DEF a, b, c, d, k
<1>4. t = U * (k * a + c) + d
  <2>1. S * a = U * (k * a)
    BY <1>1, <1>3
  <2> DEFINE ka == k * a
  <2>2. ka \in Nat
    BY <1>1, <1>3
  <2> HIDE DEF ka
  <2>3. U * (ka + c) = U * ka + U * c
    BY <1>2, <2>2
  <2> QED  BY <1>1, <1>2, <2>1, <2>2, <2>3 DEF ka
<1>5. t % U = d
  <2> DEFINE q == k * a + c
  <2>1. q \in Nat
    BY <1>1, <1>2, <1>3
  <2> HIDE DEF q
  <2>2. t = U * q + d
    BY <1>4 DEF q
  <2>3. t \div U \in Nat /\ t % U \in Nat /\ t % U < U /\ t = U * (t \div U) + (t % U)
    BY Divided
  <2> DEFINE r == t \div U  m == t % U
  <2>4. r \in Nat /\ m \in Nat /\ m < U /\ U * q + d = U * r + m
    BY <2>2, <2>3
  <2> HIDE DEF r, m
  <2>5. q = r
    <3>1. CASE q < r
      <4>1. r - q \in Nat \ {0} /\ U * (r - q) = U * r - U * q
        BY <2>1, <2>4, <3>1
      <4> DEFINE e == r - q
      <4>2. e \in Nat \ {0} /\ U * e = d - m
        BY <1>2, <2>1, <2>4, <4>1
      <4> HIDE DEF e
      <4>3. U * e >= U
        BY <4>2
      <4> QED  BY <1>2, <2>4, <4>2, <4>3
    <3>2. CASE q > r
      <4>1. q - r \in Nat \ {0} /\ U * (q - r) = U * q - U * r
        BY <2>1, <2>4, <3>2
      <4> DEFINE e == q - r
      <4>2. e \in Nat \ {0} /\ U * e = m - d
        BY <1>2, <2>1, <2>4, <4>1
      <4> HIDE DEF e
      <4>3. U * e >= U
        BY <4>2
      <4> QED  BY <1>2, <2>4, <4>2, <4>3
    <3> QED  BY <2>1, <2>4, <3>1, <3>2
  <2>6. m = d
    BY <1>2, <2>1, <2>4, <2>5
  <2> QED  BY <2>6 DEF m
<1>6. t - d = S * a + U * c
  BY <1>1, <1>2
<1>7. S * a = a * S /\ U * c = c * U
  BY <1>1, <1>2
<1> QED  BY <1>5, <1>6, <1>7 DEF a, b, c

(* Captured packets, what a file keeps of one, and what is left of that.     *)
Moments == Nat \X Packets8

EntryOf(kind, c) == IF kind = "iv8cap" THEN Line(c) ELSE Record(c)
Halved(e) == [e EXCEPT ![Len(e)] = << >>]
Spoilt(e) == [e EXCEPT ![Len(e)] = Damaged(e[Len(e)])]
Shows(e) == SumShows(e[Len(e)], Damaged(e[Len(e)]))

AllEntries(kind) ==
  LET kept == {EntryOf(kind, c) : c \in Moments} IN
  kept \cup {Halved(e) : e \in kept} \cup {Spoilt(e) : e \in kept}

(* The words of a packet, and what is read of them when one is damaged.     *)
LEMMA PacketWords ==
  ASSUME NEW p \in Packets8
  PROVE  LET w == EncodePacket(p) IN
         /\ w # << >> /\ DecodePacket(w) = p /\ Accepted(p)
         /\ Damaged(w) # << >>
         /\ SumShows(w, Damaged(w)) => ~Accepted(DecodePacket(Damaged(w)))
<1> DEFINE w == EncodePacket(p)
<1>1. EncodingOf(w, p)
  BY EncodedWords
<1> HIDE DEF w
<1>2. w \in Seq(Words)
  BY <1>1 DEF EncodingOf
<1>3. Len(w) \in Nat /\ Len(w) >= 14
  <2>1. Len(w) = 14 + Len(p.payload) /\ Len(p.payload) \in Nat
    BY <1>1 DEF EncodingOf, Packets8
  <2> QED  BY <2>1
<1>4. 3 \in 1 .. Len(w)
  BY <1>3
<1> DEFINE a == w[3]  x == (a + 2) % Word
<1>5. x \in Words /\ x # a
  <2>1. a \in Int /\ 0 <= a /\ a < 65536 /\ Word = 65536
    BY <1>2, <1>4, WordRange
  <2> HIDE DEF a
  <2>2. CASE a + 2 < 65536
    <3>1. (a + 2) % 65536 = a + 2
      BY <2>1, <2>2
    <3> QED  BY <2>1, <2>2, <3>1, WordRange
  <2>3. CASE ~ (a + 2 < 65536)
    <3>1. (a + 2) % 65536 = a + 2 - 65536
      BY <2>1, <2>3
    <3> QED  BY <2>1, <2>3, <3>1, WordRange
  <2> QED  BY <2>2, <2>3
<1>6. Damaged(w) = [w EXCEPT ![3] = x]
  BY DEF Damaged
<1>7. x \in {0, (w[3] + 2) % Word} /\ x # w[3]
  BY <1>5
<1> HIDE DEF x, a
<1>8. Len([w EXCEPT ![3] = x]) = Len(w)
  BY <1>2, <1>4, <1>5, ExceptSeq
<1>9. SumShows(w, [w EXCEPT ![3] = x]) =>
        \/ ~Accepted(DecodePacket([w EXCEPT ![3] = x]))
        \/ 3 = 2 /\ DecodePacket([w EXCEPT ![3] = x]).payload = <<>>
  BY <1>1, <1>4, <1>7, PacketHarmed
<1>10. w # << >> /\ [w EXCEPT ![3] = x] # << >>
  <2>1. Len(<<>>) = 0
    OBVIOUS
  <2> DEFINE v == [w EXCEPT ![3] = x]
  <2>2. Len(w) # 0 /\ Len(v) # 0
    BY <1>3, <1>8
  <2> HIDE DEF v
  <2>3. v # << >> /\ w # << >>
    BY <2>1, <2>2
  <2> QED  BY <2>3 DEF v
<1> QED  BY <1>1, <1>6, <1>9, <1>10, PacketRead, RecordsAccepted DEF w

(* Nothing is no packet.                                                    *)
LEMMA EmptyRefused == ~Accepted(DecodePacket(<< >>))
<1>1. 2 * Len(<<>>) < HeaderSize
  BY DEF HeaderSize
<1>2. DecodePacket(<<>>) = Refused("short")
  BY <1>1 DEF DecodePacket
<1> QED  BY <1>2, RefusedIs

(* What is read of one entry of either file.                                *)
LEMMA LineRead ==
  ASSUME NEW c \in Moments
  PROVE  LET e == EntryOf("iv8cap", c) IN
         /\ e[1] = c[1] /\ DecodePacket(e[2]) = c[2] /\ Accepted(c[2])
         /\ ~Accepted(DecodePacket(Halved(e)[2]))
         /\ Shows(e) => ~Accepted(DecodePacket(Spoilt(e)[2]))
<1> DEFINE w == EncodePacket(c[2])
           e == <<c[1], w>>
<1>1. c[2] \in Packets8
  BY DEF Moments
<1>2. /\ DecodePacket(w) = c[2] /\ Accepted(c[2])
      /\ SumShows(w, Damaged(w)) => ~Accepted(DecodePacket(Damaged(w)))
  BY <1>1, PacketWords
<1>3. EntryOf("iv8cap", c) = e
  BY DEF EntryOf, Line
<1> HIDE DEF w
<1>4. Len(e) = 2 /\ e[1] = c[1] /\ e[2] = w
  OBVIOUS
<1>5. Halved(e)[2] = << >>
  BY <1>4 DEF Halved
<1>6. Spoilt(e)[2] = Damaged(w) /\ (Shows(e) <=> SumShows(w, Damaged(w)))
  BY <1>4 DEF Spoilt, Shows
<1> QED  BY <1>2, <1>3, <1>4, <1>5, <1>6, EmptyRefused

LEMMA RecordRead ==
  ASSUME NEW c \in Moments
  PROVE  LET e == EntryOf("pcap", c) IN
         /\ <<e[1] * NsPerSec + e[2] * NsPerUsec, DecodePacket(e[3])>> = <<InPrecision("pcap", c[1]), c[2]>>
         /\ e[3] # << >> /\ Accepted(DecodePacket(e[3]))
         /\ Halved(e)[3] = << >>
         /\ Spoilt(e)[3] # << >> /\ (Shows(e) => ~Accepted(DecodePacket(Spoilt(e)[3])))
<1> DEFINE w == EncodePacket(c[2])
           s == c[1] \div NsPerSec
           u == (c[1] % NsPerSec) \div NsPerUsec
           e == <<s, u, w>>
<1>1. c[2] \in Packets8 /\ c[1] \in Nat
  BY DEF Moments
<1>2. /\ DecodePacket(w) = c[2] /\ Accepted(c[2])
      /\ SumShows(w, Damaged(w)) => ~Accepted(DecodePacket(Damaged(w)))
      /\ w # << >> /\ Damaged(w) # << >>
  BY <1>1, PacketWords
<1>3. EntryOf("pcap", c) = e
  BY DEF EntryOf, Record
<1>4. s * NsPerSec + u * NsPerUsec = InPrecision("pcap", c[1])
  <2> DEFINE t == c[1]
  <2>1. t \in Nat
    BY <1>1
  <2> HIDE DEF t
  <2>2. (t \div NsPerSec) * NsPerSec + ((t % NsPerSec) \div NsPerUsec) * NsPerUsec = t - (t % NsPerUsec)
    BY <2>1, CaptureAssumption, PartsOfTime
  <2> QED  BY <2>2 DEF t, InPrecision
<1> HIDE DEF w, s, u
<1>5. Len(e) = 3 /\ e[1] = s /\ e[2] = u /\ e[3] = w
  OBVIOUS
<1>6. Halved(e)[3] = << >>
  BY <1>5 DEF Halved
<1>7. Spoilt(e)[3] = Damaged(w) /\ (Shows(e) <=> SumShows(w, Damaged(w)))
  BY <1>5 DEF Spoilt, Shows
<1> QED  BY <1>2, <1>3, <1>4, <1>5, <1>6, <1>7

(* PcapReader._parse, record by record.                                     *)
EntryRead(e) == <<e[1] * NsPerSec + e[2] * NsPerUsec, DecodePacket(e[3])>>
Passed(r, i) == (\E j \in 1 .. i : r[j][3] = << >>) \/ ~Accepted(DecodePacket(r[i][3]))
ReadSteps(read, r) ==
  /\ read[0] = << >>
  /\ \A i \in 1 .. Len(r) :
       read[i] = IF Passed(r, i) THEN read[i - 1] ELSE Append(read[i - 1], EntryRead(r[i]))

LEMMA ParsedBySteps ==
  ASSUME NEW r, Len(r) \in Nat
  PROVE  \E read : ReadSteps(read, r) /\ Parsed(r) = read[Len(r)]
<1> DEFINE n == Len(r)
           T == Seq({EntryRead(r[i]) : i \in 1 .. n})
           Next1(x, i) == IF Passed(r, i) THEN x ELSE Append(x, EntryRead(r[i]))
           All(s) == s = [i \in 0 .. n |-> IF i = 0 THEN << >> ELSE Next1(s[i - 1], i)]
           step == [i \in 1 .. n |-> [x \in T |-> Next1(x, i)]]
           read == CHOOSE s : All(s)
<1>1. n \in Nat
  OBVIOUS
<1>2. \A i \in 1 .. n, x \in T : Next1(x, i) \in T
  <2> SUFFICES ASSUME NEW i \in 1 .. n, NEW x \in T PROVE Next1(x, i) \in T
    OBVIOUS
  <2> DEFINE X == {EntryRead(r[k]) : k \in 1 .. n}  y == EntryRead(r[i])
  <2>1. y \in X /\ x \in Seq(X)
    OBVIOUS
  <2> HIDE DEF X, y
  <2>2. Append(x, y) \in Seq(X)
    BY <2>1
  <2> QED  BY <2>1, <2>2 DEF X, y
<1>3. << >> \in T
  OBVIOUS
<1> HIDE DEF T
<1>4. step \in Steps(n, T)
  <2> HIDE DEF Next1
  <2> QED  BY <1>2 DEF Steps
<1>5. \E s : All(s)
  <2> HIDE DEF Next1, n
  <2>1. PICK s \in Runs(n, T) : Iterated(s, << >>, step, n)
    <3> HIDE DEF step
    <3> QED  BY <1>1, <1>3, <1>4, Iterates
  <2>2. ASSUME NEW i \in 0 .. n PROVE s[i] = IF i = 0 THEN << >> ELSE Next1(s[i - 1], i)
    <3>1. i # 0 => i \in 1 .. n /\ i - 1 \in 0 .. n
      BY <1>1
    <3>2. i # 0 => s[i - 1] \in T
      BY <2>1, <3>1 DEF Runs
    <3> QED  BY <2>1, <3>1, <3>2 DEF Iterated
  <2> HIDE DEF step
  <2>3. s = [i \in 0 .. n |-> s[i]]
    BY <2>1 DEF Runs
  <2>4. s = [i \in 0 .. n |-> IF i = 0 THEN << >> ELSE Next1(s[i - 1], i)]
    BY <2>2, <2>3
  <2> QED  BY <2>4
<1>6. All(read)
  <2> HIDE DEF All
  <2> QED  BY <1>5
<1>7. Parsed(r) = read[n]
  BY DEF Parsed, Passed, EntryRead
<1> HIDE DEF read, n
<1>8. read[0] = << >> /\ \A i \in 1 .. n : read[i] = Next1(read[i - 1], i)
  <2> HIDE DEF Next1
  <2>1. 0 \in 0 .. n /\ \A i \in 1 .. n : i \in 0 .. n /\ i # 0
    BY <1>1
  <2> QED  BY <1>6, <2>1
<1>9. ReadSteps(read, r)
  BY <1>8 DEF ReadSteps, n
<1> QED  BY <1>7, <1>9 DEF n

(* Joining three sequences.                                                 *)
LEMMA Regrouped ==
  ASSUME NEW P
  PROVE  \A x, y, z \in Seq(P) : (x \o y) \o z = x \o (y \o z)
<1> SUFFICES ASSUME NEW x \in Seq(P), NEW y \in Seq(P), NEW z \in Seq(P)
             PROVE  (x \o y) \o z = x \o (y \o z)
  OBVIOUS
<1> QED  BY ConcatAssociative

(* Of records that tell what was captured all are read but one that was      *)
(* harmed (number a; past the last, none was).                              *)
LEMMA ParsedBut ==
  ASSUME NEW P, NEW told \in Seq(P), NEW r, Len(r) \in Nat, Len(r) <= Len(told), NEW a \in 1 .. Len(r) + 1,
         \A i \in 1 .. Len(r) : i # a =>
           r[i][3] # << >> /\ Accepted(DecodePacket(r[i][3])) /\ EntryRead(r[i]) = told[i],
         a \in 1 .. Len(r) => r[a][3] = << >> \/ ~Accepted(DecodePacket(r[a][3])),
         a < Len(r) => r[a][3] # << >>
  PROVE  Parsed(r) = SubSeq(told, 1, a - 1) \o SubSeq(told, a + 1, Len(r))
<1> DEFINE n == Len(r)
           before == SubSeq(told, 1, a - 1)
<1>0. \A u, v, w \in Seq(P) : (u \o v) \o w = u \o (v \o w)
  BY ONLY Regrouped, SMTT(30)
<1>1. PICK read : ReadSteps(read, r) /\ Parsed(r) = read[n]
  BY ParsedBySteps
<1>2. n \in Nat /\ n <= Len(told) /\ Len(told) \in Nat /\ a \in 1 .. n + 1
  OBVIOUS
<1>3. /\ \A i \in 1 .. n : i # a =>
           r[i][3] # << >> /\ Accepted(DecodePacket(r[i][3])) /\ EntryRead(r[i]) = told[i]
      /\ a \in 1 .. n => r[a][3] = << >> \/ ~Accepted(DecodePacket(r[a][3]))
      /\ a < n => r[a][3] # << >>
  OBVIOUS
<1>4. /\ read[0] = << >>
      /\ \A i \in 1 .. n :
           read[i] = IF Passed(r, i) THEN read[i - 1] ELSE Append(read[i - 1], EntryRead(r[i]))
  BY <1>1 DEF ReadSteps
<1> HIDE DEF n
<1>5. \A i \in 1 .. n : Passed(r, i) <=> i = a
  <2> SUFFICES ASSUME NEW i \in 1 .. n PROVE Passed(r, i) <=> i = a
    OBVIOUS
  <2>1. CASE i = a
    <3>1. i \in 1 .. i
      OBVIOUS
    <3> QED  BY <1>3, <2>1, <3>1 DEF Passed
  <2>2. CASE i # a
    <3>1. ASSUME NEW j \in 1 .. i, r[j][3] = << >> PROVE FALSE
      <4>1. j \in 1 .. n /\ (j = a => a < n)
        BY <1>2, <2>2
      <4> QED  BY <1>3, <3>1, <4>1
    <3> QED  BY <1>3, <2>2, <3>1 DEF Passed
  <2> QED  BY <2>1, <2>2
<1>6. \A k \in 0 .. a - 1 : read[k] = SubSeq(told, 1, k)
  <2> DEFINE S == {k \in 0 .. a - 1 : read[k] = SubSeq(told, 1, k)}
  <2>1. 0 \in S
    <3>1. SubSeq(told, 1, 0) = << >>
      <4>1. 1 \in Int /\ 0 \in Int /\ 0 < 1
        OBVIOUS
      <4> QED  BY <4>1, SubSeqEmpty
    <3>2. 0 \in 0 .. a - 1
      BY <1>2
    <3>3. read[0] = SubSeq(told, 1, 0)
      BY <1>4, <3>1
    <3> QED  BY <3>2, <3>3
  <2>2. ASSUME NEW k \in 0 .. (a - 1) - 1, k \in S PROVE k + 1 \in S
    <3>1. k + 1 \in 1 .. n /\ k + 1 # a /\ (k + 1) - 1 = k /\ k + 1 \in 0 .. a - 1
          /\ k + 1 \in 1 .. Len(told) /\ 1 \in 1 .. Len(told)
      BY <1>2
    <3>2. read[k + 1] = Append(read[k], told[k + 1])
      BY <1>3, <1>4, <1>5, <3>1
    <3>3. SubSeq(told, 1, k + 1) = SubSeq(told, 1, (k + 1) - 1) \o <<told[k + 1]>>
      BY <3>1, SubSeqRecursiveSecond
    <3> DEFINE s == SubSeq(told, 1, k)  y == told[k + 1]
    <3>4. s \in Seq(P) /\ y \in P
      BY <3>1
    <3> HIDE DEF s, y
    <3>5. Append(s, y) = s \o <<y>>
      BY <3>4, AppendIsConcat
    <3>6. read[k] = s
      BY <2>2 DEF s
    <3> QED  BY <3>1, <3>2, <3>3, <3>5, <3>6 DEF s, y
  <2>3. \A k \in 0 .. a - 1 : k \in S
    <3> HIDE DEF S
    <3>1. 0 \in Int /\ a - 1 \in Int
      BY <1>2
    <3> QED  BY <2>1, <2>2, <3>1, UpFrom
  <2> QED  BY <2>3
<1>7. before \in Seq(P) /\ read[a - 1] = before
  <2>1. \A i \in 1 .. a - 1 : told[i] \in P
    <3>1. \A i \in 1 .. a - 1 : i \in 1 .. Len(told)
      BY <1>2
    <3> QED  BY <3>1
  <2>2. before \in Seq(P)
    BY <1>2, <2>1, SubSeqProperties
  <2>3. a - 1 \in 0 .. a - 1
    BY <1>2
  <2> QED  BY <1>6, <2>2, <2>3
<1> HIDE DEF before
<1>8. CASE a = n + 1
  <2>1. read[n] = before /\ n < a + 1
    BY <1>2, <1>7, <1>8
  <2>2. SubSeq(told, a + 1, n) = << >>
    BY <1>2, <2>1, SubSeqEmpty
  <2>3. before \o << >> = before
    BY <1>7
  <2> QED  BY <1>1, <2>1, <2>2, <2>3 DEF before, n
<1>9. CASE a # n + 1
  <2>1. \A k \in a .. n : read[k] = before \o SubSeq(told, a + 1, k)
    <3> DEFINE S == {k \in a .. n : read[k] = before \o SubSeq(told, a + 1, k)}
    <3>1. a \in S
      <4>1. a \in a .. n /\ a \in 1 .. n /\ a < a + 1
        BY <1>2, <1>9
      <4>2. read[a] = before
        BY <1>4, <1>5, <1>7, <4>1
      <4>3. SubSeq(told, a + 1, a) = << >>
        BY <1>2, <4>1, SubSeqEmpty
      <4>4. before \o << >> = before
        BY <1>7
      <4> QED  BY <4>1, <4>2, <4>3, <4>4
    <3>2. ASSUME NEW k \in a .. n - 1, k \in S PROVE k + 1 \in S
      <4>1. k + 1 \in 1 .. n /\ k + 1 # a /\ (k + 1) - 1 = k /\ k + 1 \in a .. n
            /\ a + 1 \in 1 .. Len(told) /\ k + 1 \in a + 1 .. Len(told)
        BY <1>2
      <4>2. read[k + 1] = Append(read[k], told[k + 1])
        BY <1>3, <1>4, <1>5, <4>1
      <4>3. SubSeq(told, a + 1, k + 1) = SubSeq(told, a + 1, (k + 1) - 1) \o <<told[k + 1]>>
        BY <4>1, SubSeqRecursiveSecond
      <4> DEFINE s == SubSeq(told, a + 1, k)  y == told[k + 1]  t == <<y>>
      <4>4. \A i \in a + 1 .. k : told[i] \in P
        <5>1. \A i \in a + 1 .. k : i \in 1 .. Len(told)
          BY <1>2
        <5> QED  BY <5>1
      <4>5. s \in Seq(P) /\ y \in P
        <5>1. y \in P
          <6>1. k + 1 \in 1 .. Len(told)
            BY <1>2
          <6> QED  BY <6>1
        <5>2. s \in Seq(P)
          BY <1>2, <4>4, SubSeqProperties
        <5> QED  BY <5>1, <5>2
      <4> HIDE DEF s, y
      <4>6. t \in Seq(P)
        BY <4>5
      <4>7. read[k] = before \o s
        BY <3>2 DEF s
      <4>8. before \o s \in Seq(P)
        BY <1>7, <4>5
      <4>9. Append(before \o s, y) = (before \o s) \o t
        BY <4>5, <4>8, AppendIsConcat
      <4> HIDE DEF t
      <4>10. (before \o s) \o t = before \o (s \o t)
        <5>1. before \in Seq(P)
          BY <1>7
        <5>2. s \in Seq(P)
          BY <4>5
        <5>3. t \in Seq(P)
          BY <4>6
        <5> HIDE DEF S
        <5> QED  BY ONLY <5>1, <5>2, <5>3, <1>0
      <4>11. read[k + 1] = before \o SubSeq(told, a + 1, k + 1)
        BY <4>1, <4>2, <4>3, <4>7, <4>9, <4>10 DEF s, y, t
      <4> QED  BY <4>1, <4>11
    <3>3. \A k \in a .. n : k \in S
      <4> HIDE DEF S
      <4>1. a \in Int /\ n \in Int
        BY <1>2
      <4> QED  BY <3>1, <3>2, <4>1, UpFrom
    <3> QED  BY <3>3
  <2>2. n \in a .. n
    BY <1>2, <1>9
  <2> QED  BY <1>1, <2>1, <2>2 DEF before, n
<1> QED  BY <1>8, <1>9

Shown(kind, c) == <<InPrecision(kind, c[1]), c[2]>>
ToldOf(f) == [i \in DOMAIN f.source |-> Shown(f.kind, f.source[i])]

(* What is read from file f, where l is read.                               *)
Retells(f, l) ==
  LET told == ToldOf(f)
      before == SubSeq(told, 1, f.at - 1)
  IN  l = CASE f.how = "none" -> told
            [] f.how = "gone" -> before
            [] f.how = "part" -> IF f.kind = "iv8cap" THEN << >> ELSE before
            [] f.how = "damaged" -> IF f.kind = "iv8cap" THEN << >>
                                    ELSE before \o SubSeq(told, f.at + 1, Len(told))

LEMMA ReplayRetells == ReplayIsCapture <=> (loaded # NoFile => Retells(file, loaded))
BY DEF ReplayIsCapture, Retells, ToldOf, Shown

Kinds == {"iv8cap", "pcap"}
Kept == {EntryOf(kind, c) : kind \in Kinds, c \in Moments}
Entries == Kept \cup {Halved(e) : e \in Kept} \cup {Spoilt(e) : e \in Kept}

EntryAt(f, i) == EntryOf(f.kind, f.source[i])
LeftAt(f, i) ==
  IF i # f.at THEN EntryAt(f, i)
  ELSE IF f.how = "part" THEN Halved(EntryAt(f, i)) ELSE Spoilt(EntryAt(f, i))

Files == [kind : Kinds, source : Seq(Moments), records : Seq(Entries),
          how : {"none", "gone", "part", "damaged"}, at : Nat]

(* The records of a file are those of what was captured, but for the harm.   *)
HarmIsTold(f) ==
  /\ f \in Files
  /\ f.how = "none" => f.at = 0 /\ Len(f.records) = Len(f.source)
  /\ f.how # "none" => f.at \in 1 .. Len(f.source)
  /\ f.how = "gone" => Len(f.records) = f.at - 1
  /\ f.how = "part" => Len(f.records) = f.at
  /\ f.how = "damaged" => Len(f.records) = Len(f.source) /\ Shows(EntryAt(f, f.at))
  /\ \A i \in 1 .. Len(f.records) : f.records[i] = LeftAt(f, i)

LEMMA InPrecisionNat ==
  ASSUME NEW t \in Nat, NEW kind PROVE InPrecision(kind, t) \in Nat
<1>1. t \div NsPerUsec \in Nat /\ t % NsPerUsec \in Nat
      /\ t = NsPerUsec * (t \div NsPerUsec) + (t % NsPerUsec) /\ NsPerUsec \in Nat
  BY CaptureAssumption, Divided
<1> DEFINE q == t \div NsPerUsec  m == t % NsPerUsec  p == NsPerUsec * q
<1>2. p \in Nat
  BY <1>1
<1>3. t - m = p /\ m \in Nat
  <2> HIDE DEF q, m
  <2>1. t = p + m /\ m \in Nat
    BY <1>1 DEF q, m
  <2> HIDE DEF p
  <2> QED  BY <1>2, <2>1
<1>4. t - (t % NsPerUsec) \in Nat
  BY <1>2, <1>3
<1> QED  BY <1>4 DEF InPrecision

(* What a file tells is a tape.                                             *)
LEMMA ToldMoments ==
  ASSUME NEW f, f.source \in Seq(Moments)
  PROVE  /\ ToldOf(f) \in Seq(Moments) /\ Len(ToldOf(f)) = Len(f.source)
         /\ \A i \in 1 .. Len(f.source) : ToldOf(f)[i] = Shown(f.kind, f.source[i])
<1> DEFINE s == f.source
<1>1. s \in Seq(Moments) /\ DOMAIN s = 1 .. Len(s) /\ Len(s) \in Nat
  OBVIOUS
<1>2. \A i \in 1 .. Len(s) : Shown(f.kind, s[i]) \in Moments
  BY <1>1, InPrecisionNat DEF Shown, Moments
<1>3. ToldOf(f) = [i \in 1 .. Len(s) |-> Shown(f.kind, s[i])]
  BY <1>1 DEF ToldOf
<1> HIDE DEF s
<1>4. \A x : x = [i \in 1 .. Len(s) |-> Shown(f.kind, s[i])] =>
        x \in Seq(Moments) /\ Len(x) = Len(s)
        /\ \A i \in 1 .. Len(s) : x[i] = Shown(f.kind, s[i])
  BY <1>1, <1>2
<1> QED  BY <1>3, <1>4 DEF s

(* The first elements of a sequence.                                        *)
LEMMA Listed ==
  ASSUME NEW P, NEW s \in Seq(P), NEW k \in 0 .. Len(s)
  PROVE  /\ SubSeq(s, 1, k) = [i \in 1 .. k |-> s[i]] /\ SubSeq(s, 1, k) \in Seq(P)
         /\ Len(SubSeq(s, 1, k)) = k
<1>1. k \in Nat /\ k \in Int /\ 1 \in Int /\ \A i \in 1 .. k : s[i] \in P
  OBVIOUS
<1>2. /\ SubSeq(s, 1, k) \in Seq(P) /\ Len(SubSeq(s, 1, k)) = (IF 1 <= k THEN k - 1 + 1 ELSE 0)
      /\ \A i \in 1 .. k - 1 + 1 : SubSeq(s, 1, k)[i] = s[1 + i - 1]
  BY <1>1, SubSeqProperties
<1> DEFINE u == SubSeq(s, 1, k)
<1> HIDE DEF u
<1>3. u \in Seq(P) /\ Len(u) = k /\ \A i \in 1 .. k : u[i] = s[i]
  BY <1>1, <1>2 DEF u
<1>4. u = [i \in 1 .. k |-> u[i]]
  BY <1>3
<1> QED  BY <1>3, <1>4 DEF u

Loaded(records) ==
  LET packets == [i \in DOMAIN records |-> DecodePacket(records[i][2])] IN
  IF \E i \in DOMAIN packets : ~Accepted(packets[i]) THEN << >>
  ELSE [i \in DOMAIN packets |-> <<records[i][1], packets[i]>>]

(* What is known of a file's parts, and of where the harm is.               *)
LEMMA FileParts ==
  ASSUME NEW f, HarmIsTold(f)
  PROVE  /\ f.source \in Seq(Moments) /\ Len(f.source) \in Nat
         /\ \A i \in 1 .. Len(f.source) : f.source[i] \in Moments
         /\ DOMAIN f.records = 1 .. Len(f.records) /\ Len(f.records) \in Nat
         /\ Len(f.records) <= Len(f.source) /\ f.at \in Nat
         /\ f.how \in {"none", "gone", "part", "damaged"}
         /\ f.at \in 1 .. Len(f.records) <=> f.how \in {"part", "damaged"}
<1> DEFINE n == Len(f.source)  m == Len(f.records)  at == f.at
<1>1. f.source \in Seq(Moments) /\ f.records \in Seq(Entries) /\ at \in Nat
      /\ f.how \in {"none", "gone", "part", "damaged"}
  BY DEF HarmIsTold, Files
<1>2. n \in Nat /\ m \in Nat /\ DOMAIN f.records = 1 .. m /\ \A i \in 1 .. n : f.source[i] \in Moments
  BY <1>1
<1>3. /\ f.how = "none" => at = 0 /\ m = n
      /\ f.how # "none" => at \in 1 .. n
      /\ f.how = "gone" => m = at - 1
      /\ f.how = "part" => m = at
      /\ f.how = "damaged" => m = n
  BY DEF HarmIsTold
<1> HIDE DEF n, m, at
<1>4. m <= n
  BY <1>1, <1>2, <1>3
<1>5. at \in 1 .. m <=> f.how \in {"part", "damaged"}
  BY <1>1, <1>2, <1>3
<1> QED  BY <1>1, <1>2, <1>4, <1>5 DEF n, m, at

(* PacketCapture.load: all lines or none.                                   *)
LEMMA LoadRetells ==
  ASSUME NEW f, HarmIsTold(f), f.kind = "iv8cap"
  PROVE  Retells(f, Loaded(f.records)) /\ Loaded(f.records) \in Seq(Moments)
<1> DEFINE rs == f.records  m == Len(rs)  n == Len(f.source)  at == f.at
           told == ToldOf(f)  l == Loaded(rs)
<1>1. /\ f.source \in Seq(Moments) /\ n \in Nat /\ m \in Nat /\ m <= n /\ at \in Nat
      /\ \A i \in 1 .. n : f.source[i] \in Moments
      /\ DOMAIN rs = 1 .. m
      /\ f.how \in {"none", "gone", "part", "damaged"}
      /\ at \in 1 .. m <=> f.how \in {"part", "damaged"}
  BY FileParts
<1>2. told \in Seq(Moments) /\ Len(told) = n
      /\ \A i \in 1 .. n : told[i] = Shown(f.kind, f.source[i])
  BY <1>1, ToldMoments
<1>3. \A i \in 1 .. m : rs[i] = LeftAt(f, i)
  BY DEF HarmIsTold
<1>4. /\ f.how = "none" => at = 0 /\ m = n
      /\ f.how = "gone" => m = at - 1
  BY DEF HarmIsTold
<1>5. ASSUME NEW i \in 1 .. m, i # at
      PROVE  <<rs[i][1], DecodePacket(rs[i][2])>> = told[i] /\ Accepted(DecodePacket(rs[i][2]))
  <2> DEFINE c == f.source[i]
  <2>1. i \in 1 .. n
    BY <1>1
  <2>2. c \in Moments
    BY <1>1, <2>1
  <2>3. rs[i] = EntryOf("iv8cap", c)
    BY <1>3, <1>5 DEF LeftAt, EntryAt
  <2>4. told[i] = <<c[1], c[2]>>
    BY <1>2, <2>1 DEF Shown, InPrecision
  <2> HIDE DEF c, rs, told
  <2> QED  BY <2>2, <2>3, <2>4, LineRead
<1>6. CASE at \in 1 .. m
  <2>1. ~Accepted(DecodePacket(rs[at][2]))
    <3> DEFINE c == f.source[at]
    <3>1. at \in 1 .. n
      BY <1>1, <1>6
    <3>2. c \in Moments
      BY <1>1, <3>1
    <3>3. \/ rs[at] = Halved(EntryOf("iv8cap", c))
          \/ rs[at] = Spoilt(EntryOf("iv8cap", c)) /\ Shows(EntryOf("iv8cap", c))
      <4>1. f.how = "part" \/ f.how = "damaged"
        BY <1>1, <1>6
      <4>2. f.how = "damaged" => Shows(EntryOf("iv8cap", c))
        BY DEF HarmIsTold, EntryAt
      <4> QED  BY <1>3, <1>6, <4>1, <4>2 DEF LeftAt, EntryAt
    <3> HIDE DEF c, rs
    <3> QED  BY <3>2, <3>3, LineRead
  <2>2. l = << >>
    BY <1>1, <1>6, <2>1 DEF Loaded
  <2>3. << >> \in Seq(Moments)
    OBVIOUS
  <2>4. f.how = "part" \/ f.how = "damaged"
    BY <1>1, <1>6
  <2>5. Retells(f, << >>)
    BY <2>4 DEF Retells
  <2> QED  BY <2>2, <2>3, <2>5
<1>7. CASE at \notin 1 .. m
  <2>1. \A i \in 1 .. m : i # at
    BY <1>7
  <2>2. l = [i \in 1 .. m |-> <<rs[i][1], DecodePacket(rs[i][2])>>]
    <3>1. \A i \in 1 .. m : Accepted(DecodePacket(rs[i][2]))
      BY <1>5, <2>1
    <3> HIDE DEF rs, m
    <3> QED  BY <1>1, <3>1 DEF Loaded
  <2>3. l = [i \in 1 .. m |-> told[i]]
    <3> HIDE DEF l, rs, told, m
    <3> QED  BY <1>5, <2>1, <2>2
  <2> HIDE DEF l, told, m, n, at
  <2>4. m \in 0 .. Len(told)
    BY <1>1, <1>2
  <2>5. l = SubSeq(told, 1, m) /\ l \in Seq(Moments)
    BY <1>2, <2>3, <2>4, Listed
  <2>6. CASE f.how = "none"
    <3>1. SubSeq(told, 1, Len(told)) = told
      BY <1>2, SubSeqFull
    <3>2. l = told
      BY <1>2, <1>4, <2>5, <2>6, <3>1
    <3> QED  BY <2>5, <2>6, <3>2 DEF Retells, told, l
  <2>7. CASE f.how = "gone"
    <3>1. l = SubSeq(told, 1, at - 1)
      BY <1>4, <2>5, <2>7
    <3> QED  BY <2>5, <2>7, <3>1 DEF Retells, told, l, at
  <2>8. f.how = "none" \/ f.how = "gone"
    BY <1>1, <1>7 
  <2> QED  BY <2>6, <2>7, <2>8
<1> QED  BY <1>6, <1>7

(* PcapReader._parse: all records but the one that was harmed.              *)
LEMMA ParsedRetells ==
  ASSUME NEW f, HarmIsTold(f), f.kind = "pcap"
  PROVE  Retells(f, Parsed(f.records)) /\ Parsed(f.records) \in Seq(Moments)
<1> DEFINE rs == f.records  m == Len(rs)  n == Len(f.source)  at == f.at
           told == ToldOf(f)  a == IF at = 0 THEN m + 1 ELSE at
<1>1. /\ f.source \in Seq(Moments) /\ n \in Nat /\ m \in Nat /\ m <= n /\ at \in Nat
      /\ \A i \in 1 .. n : f.source[i] \in Moments
      /\ DOMAIN rs = 1 .. m
      /\ f.how \in {"none", "gone", "part", "damaged"}
      /\ at \in 1 .. m <=> f.how \in {"part", "damaged"}
  BY FileParts
<1>2. told \in Seq(Moments) /\ Len(told) = n
      /\ \A i \in 1 .. n : told[i] = Shown(f.kind, f.source[i])
  BY <1>1, ToldMoments
<1>3. \A i \in 1 .. m : rs[i] = LeftAt(f, i)
  BY DEF HarmIsTold
<1>4. /\ f.how = "none" => at = 0 /\ m = n
      /\ f.how # "none" => at \in 1 .. n
      /\ f.how = "gone" => m = at - 1
      /\ f.how = "part" => m = at
      /\ f.how = "damaged" => m = n
  BY DEF HarmIsTold
<1>5. ASSUME NEW i \in 1 .. m, i # a
      PROVE  rs[i][3] # << >> /\ Accepted(DecodePacket(rs[i][3])) /\ EntryRead(rs[i]) = told[i]
  <2> DEFINE c == f.source[i]
  <2>1. i \in 1 .. n /\ i # at
    BY <1>1, <1>5
  <2>2. c \in Moments
    BY <1>1, <2>1
  <2>3. rs[i] = EntryOf("pcap", c)
    BY <1>3, <2>1 DEF LeftAt, EntryAt
  <2>4. told[i] = <<InPrecision("pcap", c[1]), c[2]>>
    BY <1>2, <2>1 DEF Shown
  <2> HIDE DEF c, rs, told
  <2> QED  BY <2>2, <2>3, <2>4, RecordRead DEF EntryRead
<1>6. a \in 1 .. m + 1 /\ (a \in 1 .. m => a = at) /\ (a < m => f.how = "damaged")
  <2> HIDE DEF m, n, at
  <2> QED  BY <1>1, <1>4
<1>7. /\ a \in 1 .. m => rs[a][3] = << >> \/ ~Accepted(DecodePacket(rs[a][3]))
      /\ a < m => rs[a][3] # << >>
  <2> SUFFICES ASSUME a \in 1 .. m
               PROVE  /\ rs[a][3] = << >> \/ ~Accepted(DecodePacket(rs[a][3]))
                      /\ f.how = "damaged" => rs[a][3] # << >>
    <3> HIDE DEF m, a, at
    <3>1. a < m => a \in 1 .. m
      BY <1>1, <1>6
    <3> QED  BY <1>6, <3>1
  <2> DEFINE c == f.source[at]
  <2>1. a = at /\ at \in 1 .. m
    BY <1>6
  <2>2. at \in 1 .. n
    BY <1>1, <2>1
  <2>3. c \in Moments
    BY <1>1, <2>2
  <2>4. rs[at] = IF f.how = "part" THEN Halved(EntryOf("pcap", c)) ELSE Spoilt(EntryOf("pcap", c))
    BY <1>3, <2>1 DEF LeftAt, EntryAt
  <2>5. f.how = "part" \/ f.how = "damaged"
    BY <1>1, <2>1
  <2>6. f.how = "damaged" => Shows(EntryOf("pcap", c))
    BY DEF HarmIsTold, EntryAt
  <2> HIDE DEF c, rs
  <2> QED  BY <2>1, <2>3, <2>4, <2>5, <2>6, RecordRead
<1> HIDE DEF told
<1>8. Parsed(rs) = SubSeq(told, 1, a - 1) \o SubSeq(told, a + 1, m)
  <2> DEFINE k == a
  <2>1. /\ m \in Nat /\ m <= Len(told) /\ k \in 1 .. m + 1
        /\ \A i \in 1 .. m : i # k =>
              rs[i][3] # << >> /\ Accepted(DecodePacket(rs[i][3])) /\ EntryRead(rs[i]) = told[i]
        /\ k \in 1 .. m => rs[k][3] = << >> \/ ~Accepted(DecodePacket(rs[k][3]))
        /\ k < m => rs[k][3] # << >>
    BY <1>1, <1>2, <1>5, <1>6, <1>7
  <2> HIDE DEF k, rs
  <2>2. Parsed(rs) = SubSeq(told, 1, k - 1) \o SubSeq(told, k + 1, m)
    BY <1>2, <2>1, ParsedBut
  <2> QED  BY <2>2 DEF k
<1> DEFINE l == Parsed(rs)
<1> HIDE DEF l, m, n, at, rs, a
<1>9. m \in Int /\ at \in Int /\ a \in Int /\ a + 1 \in Int /\ a - 1 \in 0 .. Len(told)
  BY <1>1, <1>2, <1>6
<1>10. SubSeq(told, 1, a - 1) \in Seq(Moments)
  BY <1>2, <1>9, Listed
<1>11. SubSeq(told, a + 1, m) \in Seq(Moments)
  <2>1. \A i \in a + 1 .. m : told[i] \in Moments
    <3>1. \A i \in a + 1 .. m : i \in 1 .. Len(told)
      BY <1>1, <1>2, <1>6
    <3> QED  BY <1>2, <3>1
  <2> QED  BY <1>9, <2>1, SubSeqProperties
<1>12. l \in Seq(Moments)
  BY <1>8, <1>10, <1>11 DEF l
<1>13. ASSUME f.how # "damaged" PROVE l = SubSeq(told, 1, a - 1)
  <2>1. m < a + 1
    BY <1>1, <1>6, <1>9, <1>13
  <2>2. SubSeq(told, a + 1, m) = << >>
    BY <1>9, <2>1, SubSeqEmpty
  <2> DEFINE u == SubSeq(told, 1, a - 1)
  <2> HIDE DEF u
  <2>3. u \o << >> = u
    BY <1>10 DEF u
  <2> QED  BY <1>8, <2>2, <2>3 DEF u, l
<1>14. CASE f.how = "none"
  <2>1. a - 1 = Len(told)
    BY <1>1, <1>2, <1>4, <1>14 DEF a
  <2>2. SubSeq(told, 1, Len(told)) = told
    BY <1>2, SubSeqFull
  <2>3. l = told
    BY <1>13, <1>14, <2>1, <2>2
  <2> QED  BY <1>12, <1>14, <2>3 DEF Retells, told, l, rs
<1>15. CASE f.how # "none"
  <2>1. a = at
    BY <1>1, <1>4, <1>15 DEF a
  <2>2. CASE f.how = "damaged"
    <3>1. l = SubSeq(told, 1, at - 1) \o SubSeq(told, at + 1, Len(told))
      BY <1>2, <1>4, <1>8, <2>1, <2>2 DEF l
    <3> QED  BY <1>12, <2>2, <3>1 DEF Retells, told, l, rs, at
  <2>3. CASE f.how # "damaged"
    <3>1. l = SubSeq(told, 1, at - 1) /\ (f.how = "gone" \/ f.how = "part")
      BY <1>1, <1>13, <1>15, <2>1, <2>3
    <3> QED  BY <1>12, <3>1 DEF Retells, told, l, rs, at
  <2> QED  BY <2>2, <2>3
<1> QED  BY <1>14, <1>15

(* A file that was just written.                                            *)
LEMMA WrittenTells ==
  ASSUME NEW kind \in Kinds, NEW s \in Seq(Moments), NEW f,
         f = [kind |-> kind, source |-> s, records |-> [i \in DOMAIN s |-> EntryOf(kind, s[i])],
              how |-> "none", at |-> 0]
  PROVE  HarmIsTold(f)
<1> DEFINE rs == [i \in DOMAIN s |-> EntryOf(kind, s[i])]  n == Len(s)
<1>1. n \in Nat /\ DOMAIN s = 1 .. n /\ \A i \in 1 .. n : s[i] \in Moments
  OBVIOUS
<1>2. \A i \in 1 .. n : EntryOf(kind, s[i]) \in Entries
  BY <1>1 DEF Entries, Kept
<1>3. rs \in Seq(Entries) /\ Len(rs) = n /\ \A i \in 1 .. n : rs[i] = EntryOf(kind, s[i])
  <2>1. rs = [i \in 1 .. n |-> EntryOf(kind, s[i])]
    BY <1>1
  <2> DEFINE e(i) == EntryOf(kind, s[i])
  <2> HIDE DEF n
  <2>2. \A i \in 1 .. n : e(i) \in Entries
    BY <1>2
  <2> HIDE DEF e, rs
  <2>3. \A x : x = [i \in 1 .. n |-> e(i)] => x \in Seq(Entries) /\ Len(x) = n /\ \A i \in 1 .. n : x[i] = e(i)
    BY <1>1, <2>2
  <2>4. rs = [i \in 1 .. n |-> e(i)]
    BY <2>1 DEF e
  <2>5. rs \in Seq(Entries) /\ Len(rs) = n /\ \A i \in 1 .. n : rs[i] = e(i)
    BY <2>3, <2>4
  <2> QED  BY <2>5 DEF e
<1> HIDE DEF rs, n
<1>4. /\ f = [kind |-> kind, source |-> s, records |-> rs, how |-> "none", at |-> 0]
      /\ f.kind = kind /\ f.source = s /\ f.records = rs /\ f.how = "none" /\ f.at = 0
  BY DEF rs
<1>5. f \in Files
  BY <1>3, <1>4 DEF Files
<1>6. Len(f.records) = Len(f.source) /\ Len(f.records) = n
  BY <1>3, <1>4 DEF n
<1>7. \A i \in 1 .. Len(f.records) : f.records[i] = LeftAt(f, i)
  <2> SUFFICES ASSUME NEW i \in 1 .. n PROVE f.records[i] = LeftAt(f, i)
    BY <1>6
  <2>1. i # f.at
    BY <1>1, <1>4
  <2>2. f.records[i] = EntryOf(kind, s[i])
    BY <1>3, <1>4
  <2> QED  BY <1>4, <2>1, <2>2 DEF LeftAt, EntryAt
<1> QED  BY <1>4, <1>5, <1>6, <1>7 DEF HarmIsTold

(* What is left of a file that nothing was done to yet.                     *)
LEMMA HarmedTells ==
  ASSUME NEW f, HarmIsTold(f), f.how = "none", NEW at \in 1 .. Len(f.records),
         NEW how \in {"gone", "part", "damaged"}, NEW rs \in Seq(Entries),
         how = "gone" => Len(rs) = at - 1,
         how = "part" => Len(rs) = at /\ rs[at] = Halved(f.records[at]),
         how = "damaged" =>
           Len(rs) = Len(f.records) /\ rs[at] = Spoilt(f.records[at]) /\ Shows(f.records[at]),
         \A i \in 1 .. Len(rs) : i # at => rs[i] = f.records[i]
  PROVE  HarmIsTold([f EXCEPT !.how = how, !.at = at, !.records = rs])
<1> DEFINE g == [f EXCEPT !.how = how, !.at = at, !.records = rs]  m == Len(f.records)
<1>1. f \in Files /\ f.at = 0 /\ m = Len(f.source) /\ \A i \in 1 .. m : f.records[i] = LeftAt(f, i)
  BY DEF HarmIsTold
<1>2. /\ m \in Nat /\ at \in Nat /\ at \in 1 .. m /\ Len(rs) \in Nat
      /\ Len(rs) <= m
  <2>1. f.records \in Seq(Entries)
    BY <1>1 DEF Files
  <2>2. m \in Nat
    BY <2>1
  <2> HIDE DEF m
  <2>3. at \in 1 .. m /\ (how = "damaged" => Len(rs) = m)
    BY DEF m
  <2>4. Len(rs) \in Nat
    OBVIOUS
  <2> QED  BY <2>2, <2>3, <2>4
<1>3. g \in Files /\ g.how = how /\ g.at = at /\ g.records = rs /\ g.kind = f.kind /\ g.source = f.source
  BY <1>1, <1>2 DEF Files
<1> HIDE DEF g, m
<1>4. \A i \in 1 .. m : f.records[i] = EntryAt(g, i)
  <2> SUFFICES ASSUME NEW i \in 1 .. m PROVE f.records[i] = EntryAt(g, i)
    OBVIOUS
  <2>1. i # 0
    BY <1>2
  <2> QED  BY <1>1, <1>3, <2>1 DEF LeftAt, EntryAt
<1>5. \A i \in 1 .. Len(rs) : rs[i] = LeftAt(g, i)
  <2> SUFFICES ASSUME NEW i \in 1 .. Len(rs) PROVE rs[i] = LeftAt(g, i)
    OBVIOUS
  <2>1. i \in 1 .. m
    BY <1>2
  <2>2. CASE i # at
    BY <1>3, <1>4, <2>1, <2>2 DEF LeftAt
  <2>3. CASE i = at
    <3>1. how # "gone"
      BY <1>2, <2>3
    <3>2. rs[i] = IF how = "part" THEN Halved(f.records[at]) ELSE Spoilt(f.records[at])
      BY <2>3, <3>1
    <3>3. f.records[at] = EntryAt(g, i)
      BY <1>4, <2>1, <2>3
    <3> QED  BY <1>3, <2>3, <3>2, <3>3 DEF LeftAt
  <2> QED  BY <2>2, <2>3
<1>6. how = "damaged" => Shows(EntryAt(g, at))
  BY <1>2, <1>4
<1> QED  BY <1>1, <1>2, <1>3, <1>5, <1>6 DEF HarmIsTold, m, g

(* The inductive invariant of the captures and their file.                  *)
CaptureInv ==
  /\ elapsed \in Nat \cup {NotStarted}
  /\ tape \in Seq(Moments)
  /\ file # NoFile => HarmIsTold(file)
  /\ loaded # NoFile => loaded \in Seq(Moments) /\ Retells(file, loaded)

LEMMA CaptureInvInit == CaptureInit => CaptureInv
BY DEF CaptureInit, CaptureInv

LEMMA CaptureInvCapture ==
  ASSUME CaptureInv, CapturePacket PROVE CaptureInv'
<1> DEFINE ns == IF elapsed = NotStarted THEN 0 ELSE elapsed  c == Captured[Len(tape) + 1]
<1>1. tape \in Seq(Moments) /\ Len(tape) \in Nat /\ Captured \in Seq(Packets8)
      /\ Len(tape) < Len(Captured)
  BY CaptureAssumption DEF CaptureInv, CapturePacket
<1>2. c \in Packets8
  <2> DEFINE k == Len(tape) + 1
  <2>1. k \in 1 .. Len(Captured)
    BY <1>1
  <2> HIDE DEF k
  <2>2. Captured[k] \in Packets8
    BY <1>1, <2>1
  <2> QED  BY <2>2 DEF k
<1>3. ns \in Nat
  BY DEF CaptureInv
<1>4. tape' = Append(tape, <<ns, c>>)
  BY DEF CapturePacket
<1> HIDE DEF ns, c
<1>5. <<ns, c>> \in Moments
  BY <1>2, <1>3 DEF Moments
<1> DEFINE e == <<ns, c>>
<1> HIDE DEF e
<1>6. tape' \in Seq(Moments)
  BY <1>1, <1>4, <1>5 DEF e
<1> QED  BY <1>6 DEF CaptureInv, CapturePacket

LEMMA CaptureInvWrite ==
  ASSUME CaptureInv, Save \/ Export PROVE CaptureInv'
<1>1. tape \in Seq(Moments)
  BY DEF CaptureInv
<1>2. ASSUME Save PROVE HarmIsTold(file')
  <2>1. file' = [kind |-> "iv8cap", source |-> tape,
                 records |-> [i \in DOMAIN tape |-> EntryOf("iv8cap", tape[i])],
                 how |-> "none", at |-> 0]
    BY <1>2 DEF Save, Written, EntryOf
  <2>2. "iv8cap" \in Kinds
    BY DEF Kinds
  <2> DEFINE f == file'
  <2> HIDE DEF f
  <2>3. HarmIsTold(f)
    BY <1>1, <2>1, <2>2, WrittenTells DEF f
  <2> QED  BY <2>3 DEF f
<1>3. ASSUME Export PROVE HarmIsTold(file')
  <2>1. file' = [kind |-> "pcap", source |-> tape,
                 records |-> [i \in DOMAIN tape |-> EntryOf("pcap", tape[i])],
                 how |-> "none", at |-> 0]
    BY <1>3 DEF Export, Written, EntryOf
  <2>2. "pcap" \in Kinds
    BY DEF Kinds
  <2> DEFINE f == file'
  <2> HIDE DEF f
  <2>3. HarmIsTold(f)
    BY <1>1, <2>1, <2>2, WrittenTells DEF f
  <2> QED  BY <2>3 DEF f
<1>4. HarmIsTold(file') /\ loaded' = NoFile /\ UNCHANGED <<elapsed, tape>>
  BY <1>2, <1>3 DEF Save, Export
<1> QED  BY <1>4 DEF CaptureInv

LEMMA CaptureInvCut ==
  ASSUME CaptureInv, NEW i, CutFile(i) PROVE CaptureInv'
<1> DEFINE rs == file.records  before == SubSeq(rs, 1, i - 1)  e == Halved(rs[i])
           part == Append(before, e)
<1>1. HarmIsTold(file) /\ i \in DOMAIN rs /\ file.how = "none" /\ loaded' = NoFile
      /\ UNCHANGED <<elapsed, tape>>
      /\ \/ file' = [file EXCEPT !.how = "gone", !.at = i, !.records = before]
         \/ file' = [file EXCEPT !.how = "part", !.at = i, !.records = part]
  BY DEF CutFile, Harmed, CaptureInv, Halved
<1>2. rs \in Seq(Entries) /\ Len(rs) \in Nat /\ DOMAIN rs = 1 .. Len(rs) /\ Len(rs) = Len(file.source)
      /\ file.at = 0
      /\ \A k \in 1 .. Len(rs) : rs[k] = LeftAt(file, k)
  <2>1. rs \in Seq(Entries)
    BY <1>1 DEF HarmIsTold, Files
  <2> QED  BY <1>1, <2>1 DEF HarmIsTold
<1>3. i \in 1 .. Len(rs) /\ i - 1 \in 0 .. Len(rs) /\ i - 1 \in Nat /\ i \in Nat
  BY <1>1, <1>2
<1>4. e \in Entries
  <2>1. rs[i] = EntryOf(file.kind, file.source[i])
    BY <1>2, <1>3 DEF LeftAt, EntryAt
  <2>2. file.kind \in Kinds /\ file.source[i] \in Moments
    <3>1. file.source \in Seq(Moments) /\ i \in 1 .. Len(file.source)
      BY <1>1, <1>2, <1>3 DEF HarmIsTold, Files
    <3> QED  BY <1>1, <3>1 DEF HarmIsTold, Files
  <2> QED  BY <2>1, <2>2 DEF Entries, Kept
<1> HIDE DEF rs, e
<1>5. before = [k \in 1 .. i - 1 |-> rs[k]] /\ before \in Seq(Entries) /\ Len(before) = i - 1
  BY <1>2, <1>3, Listed
<1> HIDE DEF before
<1>6. part \in Seq(Entries) /\ Len(part) = i /\ part[i] = e /\ \A k \in 1 .. i - 1 : part[k] = before[k]
  <2>1. part \in Seq(Entries)
    BY <1>4, <1>5
  <2>2. Len(part) = Len(before) + 1 /\ part[Len(before) + 1] = e
        /\ \A k \in 1 .. Len(before) : part[k] = before[k]
    <3>1. before \in Seq(Entries)
      BY <1>5
    <3>2. \A x \in Seq(Entries), y \in Entries :
            /\ Len(Append(x, y)) = Len(x) + 1 /\ Append(x, y)[Len(x) + 1] = y
            /\ \A k \in 1 .. Len(x) : Append(x, y)[k] = x[k]
      BY ONLY AppendProperties
    <3> QED  BY <1>4, <3>1, <3>2
  <2>3. Len(before) + 1 = i
    BY <1>3, <1>5
  <2> HIDE DEF part
  <2> QED  BY <1>5, <2>1, <2>2, <2>3
<1> HIDE DEF part
<1>7. \A k \in 1 .. Len(before) : k # i => before[k] = rs[k]
  BY <1>5
<1>8. \A k \in 1 .. Len(part) : k # i => part[k] = rs[k]
  <2> SUFFICES ASSUME NEW k \in 1 .. Len(part), k # i PROVE part[k] = rs[k]
    OBVIOUS
  <2>1. k \in 1 .. i - 1
    BY <1>3, <1>6
  <2> QED  BY <1>5, <1>6, <2>1
<1>9. HarmIsTold([file EXCEPT !.how = "gone", !.at = i, !.records = before])
  <2> DEFINE how == "gone"
  <2>1. how \in {"gone", "part", "damaged"} /\ how = "gone"
    OBVIOUS
  <2>2. how # "part" /\ how # "damaged"
    OBVIOUS
  <2> HIDE DEF how
  <2>3. HarmIsTold([file EXCEPT !.how = how, !.at = i, !.records = before])
    BY <1>1, <1>3, <1>5, <1>7, <2>1, <2>2, HarmedTells DEF rs
  <2> QED  BY <2>3 DEF how
<1>10. HarmIsTold([file EXCEPT !.how = "part", !.at = i, !.records = part])
  <2> DEFINE how == "part"
  <2>1. how \in {"gone", "part", "damaged"} /\ how # "gone" /\ how # "damaged"
    OBVIOUS
  <2> HIDE DEF how
  <2>3. HarmIsTold([file EXCEPT !.how = how, !.at = i, !.records = part])
    BY <1>1, <1>3, <1>6, <1>8, <2>1, HarmedTells DEF rs, e
  <2> QED  BY <2>3 DEF how
<1>11. HarmIsTold(file')
  BY <1>1, <1>9, <1>10
<1> QED  BY <1>1, <1>11 DEF CaptureInv

LEMMA CaptureInvDamage ==
  ASSUME CaptureInv, NEW i, Damage(i) PROVE CaptureInv'
<1> DEFINE rs == file.records  e == Spoilt(rs[i])  damaged == [rs EXCEPT ![i] = e]
<1>1. HarmIsTold(file) /\ i \in DOMAIN rs /\ file.how = "none" /\ loaded' = NoFile
      /\ UNCHANGED <<elapsed, tape>>
      /\ file' = [file EXCEPT !.how = "damaged", !.at = i, !.records = damaged]
      /\ Shows(rs[i])
  BY DEF Damage, Harmed, CaptureInv, Spoilt, Damaged, Shows
<1>2. rs \in Seq(Entries) /\ Len(rs) \in Nat /\ DOMAIN rs = 1 .. Len(rs) /\ Len(rs) = Len(file.source)
      /\ file.at = 0
      /\ \A k \in 1 .. Len(rs) : rs[k] = LeftAt(file, k)
  <2>1. rs \in Seq(Entries)
    BY <1>1 DEF HarmIsTold, Files
  <2> QED  BY <1>1, <2>1 DEF HarmIsTold
<1>3. i \in 1 .. Len(rs) /\ i \in Nat
  BY <1>1, <1>2
<1>4. e \in Entries
  <2>1. rs[i] = EntryOf(file.kind, file.source[i])
    BY <1>2, <1>3 DEF LeftAt, EntryAt
  <2>2. file.kind \in Kinds /\ file.source[i] \in Moments
    <3>1. file.source \in Seq(Moments) /\ i \in 1 .. Len(file.source)
      BY <1>1, <1>2, <1>3 DEF HarmIsTold, Files
    <3> QED  BY <1>1, <3>1 DEF HarmIsTold, Files
  <2> QED  BY <2>1, <2>2 DEF Entries, Kept
<1> HIDE DEF rs, e
<1>5. damaged \in Seq(Entries) /\ Len(damaged) = Len(rs)
      /\ \A k \in 1 .. Len(damaged) : damaged[k] = IF k = i THEN e ELSE rs[k]
  BY <1>2, <1>3, <1>4, ExceptSeq
<1> HIDE DEF damaged
<1>6. damaged[i] = e /\ \A k \in 1 .. Len(damaged) : k # i => damaged[k] = rs[k]
  BY <1>3, <1>5
<1>7. HarmIsTold([file EXCEPT !.how = "damaged", !.at = i, !.records = damaged])
  <2> DEFINE how == "damaged"
  <2>1. how \in {"gone", "part", "damaged"} /\ how # "gone" /\ how # "part"
    OBVIOUS
  <2> HIDE DEF how
  <2>3. HarmIsTold([file EXCEPT !.how = how, !.at = i, !.records = damaged])
    BY <1>1, <1>3, <1>5, <1>6, <2>1, HarmedTells DEF rs, e
  <2> QED  BY <2>3 DEF how
<1>8. HarmIsTold(file')
  BY <1>1, <1>7
<1> QED  BY <1>1, <1>8 DEF CaptureInv

LEMMA CaptureInvRead ==
  ASSUME CaptureInv, Load \/ ReadPcap PROVE CaptureInv'
<1>1. file # NoFile /\ HarmIsTold(file) /\ UNCHANGED <<elapsed, tape, file>>
  BY DEF Load, ReadPcap, CaptureInv
<1>2. Retells(file, loaded') /\ loaded' \in Seq(Moments)
  <2>1. CASE Load
    <3>1. file.kind = "iv8cap" /\ loaded' = Loaded(file.records)
      BY <2>1 DEF Load, Loaded
    <3> QED  BY <1>1, <3>1, LoadRetells
  <2>2. CASE ReadPcap
    <3>1. file.kind = "pcap" /\ loaded' = Parsed(file.records)
      BY <2>2 DEF ReadPcap
    <3> QED  BY <1>1, <3>1, ParsedRetells
  <2> QED  BY <2>1, <2>2
<1>3. Retells(file', loaded')
  BY <1>1, <1>2
<1> QED  BY <1>1, <1>2, <1>3 DEF CaptureInv

LEMMA CaptureInvStep == CaptureInv /\ [CaptureNext]_captureVars => CaptureInv'
<1> SUFFICES ASSUME CaptureInv, [CaptureNext]_captureVars PROVE CaptureInv'
  OBVIOUS
<1>1. CASE StartCapture
  BY <1>1 DEF StartCapture, CaptureInv
<1>2. CASE TakeOver
  BY <1>2 DEF TakeOver, CaptureInv
<1>3. CASE CaptureTick
  <2>1. elapsed + 1 \in Nat
    BY <1>3 DEF CaptureTick, CaptureInv
  <2> QED  BY <1>3, <2>1 DEF CaptureTick, CaptureInv
<1>4. CASE UNCHANGED captureVars
  BY <1>4 DEF captureVars, CaptureInv
<1>5. CASE \E i \in DOMAIN Captured : CutFile(i) \/ Damage(i)
  BY <1>5, CaptureInvCut, CaptureInvDamage
<1> QED  BY <1>1, <1>2, <1>3, <1>4, <1>5, CaptureInvCapture, CaptureInvWrite, CaptureInvRead
         DEF CaptureNext

(* An address is eight octets, and is packed as four 16-bit numbers.        *)
LEMMA AddressKept ==
  ASSUME NEW a \in [1 .. 8 -> 0 .. 255]
  PROVE  AddressOfPairs(U32Pair(a)[1], U32Pair(a)[2]) = a
<1>1. \A i \in {1, 2, 3, 4, 5, 6, 7, 8} : a[i] \in 0 .. 255
  BY SMTT(30)
<1>2. \A x, y \in 0 .. 255 : ((x * 256) + y) \div 256 = x /\ ((x * 256) + y) % 256 = y
  BY TwoOctets, SMTT(30)
<1>3. AddressOfPairs(U32Pair(a)[1], U32Pair(a)[2]) =
      <<a[1], a[2], a[3], a[4], a[5], a[6], a[7], a[8]>>
  <2> DEFINE u == U32Pair(a)[1]  v == U32Pair(a)[2]
  <2>1. /\ u[1] = (a[1] * 256) + a[2] /\ u[2] = (a[3] * 256) + a[4]
        /\ v[1] = (a[5] * 256) + a[6] /\ v[2] = (a[7] * 256) + a[8]
    BY DEF U32Pair
  <2> HIDE DEF u, v
  <2>2. ASSUME NEW i \in {1, 3, 5, 7}
        PROVE  /\ ((a[i] * 256) + a[i + 1]) \div 256 = a[i]
               /\ ((a[i] * 256) + a[i + 1]) % 256 = a[i + 1]
    <3> DEFINE x == a[i]  y == a[i + 1]
    <3>1. x \in 0 .. 255 /\ y \in 0 .. 255
      OBVIOUS
    <3> HIDE DEF x, y
    <3>2. ((x * 256) + y) \div 256 = x /\ ((x * 256) + y) % 256 = y
      BY <1>2, <3>1
    <3> QED  BY <3>2 DEF x, y
  <2>3. 1 + 1 = 2 /\ 3 + 1 = 4 /\ 5 + 1 = 6 /\ 7 + 1 = 8
    OBVIOUS
  <2>4. u[1] \div 256 = a[1] /\ u[1] % 256 = a[2]
    BY <2>1, <2>2, <2>3
  <2>5. u[2] \div 256 = a[3] /\ u[2] % 256 = a[4]
    BY <2>1, <2>2, <2>3
  <2>6. v[1] \div 256 = a[5] /\ v[1] % 256 = a[6]
    BY <2>1, <2>2, <2>3
  <2>7. v[2] \div 256 = a[7] /\ v[2] % 256 = a[8]
    BY <2>1, <2>2, <2>3
  <2>8. AddressOfPairs(u, v) = <<a[1], a[2], a[3], a[4], a[5], a[6], a[7], a[8]>>
    BY <2>4, <2>5, <2>6, <2>7 DEF AddressOfPairs
  <2> QED  BY <2>8 DEF u, v
<1>4. <<a[1], a[2], a[3], a[4], a[5], a[6], a[7], a[8]>> = a
  <2> DEFINE b == <<a[1], a[2], a[3], a[4], a[5], a[6], a[7], a[8]>>
  <2>1. b = [i \in 1 .. 8 |-> b[i]]
    OBVIOUS
  <2>2. \A i \in 1 .. 8 : b[i] = a[i]
    OBVIOUS
  <2>3. a = [i \in 1 .. 8 |-> a[i]]
    OBVIOUS
  <2> HIDE DEF b
  <2>4. b = a
    BY <2>1, <2>2, <2>3
  <2> QED  BY <2>4 DEF b
<1> QED  BY <1>3, <1>4

(* A flow record that is packed and unpacked again is the same.             *)
LEMMA RecordKept ==
  ASSUME NEW r \in FlowRecords
  PROVE  DecodeRecord(EncodeRecord(r)) = r
<1> DEFINE A == [1 .. 8 -> 0 .. 255]  s == U32Pair(r.src)  d == U32Pair(r.dst)
<1>1. r \in [src : A, dst : A, packets : Nat, octets : Nat]
  BY FileAssumption
<1>2. AddressOfPairs(s[1], s[2]) = r.src /\ AddressOfPairs(d[1], d[2]) = r.dst
  <2>1. r.src \in A /\ r.dst \in A
    BY <1>1
  <2> HIDE DEF A
  <2> QED  BY <2>1, AddressKept DEF A
<1>3. DecodeRecord(EncodeRecord(r)) =
      [src |-> AddressOfPairs(s[1], s[2]), dst |-> AddressOfPairs(d[1], d[2]),
       packets |-> r.packets, octets |-> r.octets]
  BY DEF DecodeRecord, EncodeRecord
<1> HIDE DEF A, s, d
<1>4. r = [src |-> r.src, dst |-> r.dst, packets |-> r.packets, octets |-> r.octets]
  BY <1>1
<1> QED  BY <1>2, <1>3, <1>4

Codes == {EncodeRecord(r) : r \in FlowRecords}

(* The file holds the first of the records given, and all of them unless the *)
(* write raised or the file was cut.                                        *)
Holds(f, records) ==
  /\ f \in [header : BOOLEAN, count : Nat, chunks : Seq(Codes)]
  /\ f.header => f.count = Len(records)
  /\ Len(f.chunks) <= Len(records)
  /\ \A i \in 1 .. Len(f.chunks) : f.chunks[i] = EncodeRecord(records[i])

(* The inductive invariant of the file of flow records.                     *)
FileInv ==
  /\ given \in Seq(FlowRecords)
  /\ nf8 # NoNf8 =>
       /\ Holds(nf8, given)
       /\ ~raised /\ ~cut => nf8.header /\ Len(nf8.chunks) = Len(given)
  /\ FileTellsRecords

EmptyFile == [header |-> FALSE, count |-> 0, chunks |-> << >>]

(* A file opened for writing is empty.                                      *)
LEMMA EmptyHolds ==
  ASSUME NEW records, Len(records) \in Nat
  PROVE  Holds(EmptyFile, records) /\ ~EmptyFile.header
<1> DEFINE f == EmptyFile
<1>1. f.header = FALSE /\ f.count = 0 /\ f.chunks = << >>
      /\ f = [header |-> FALSE, count |-> 0, chunks |-> << >>]
  BY DEF EmptyFile
<1>2. << >> \in Seq(Codes) /\ Len(<< >>) = 0 /\ 0 \in Nat /\ FALSE \in BOOLEAN
  OBVIOUS
<1>3. f \in [header : BOOLEAN, count : Nat, chunks : Seq(Codes)]
  BY <1>1, <1>2
<1> HIDE DEF f
<1>4. Len(f.chunks) = 0
  BY <1>1, <1>2
<1>5. Holds(f, records)
  BY <1>1, <1>3, <1>4 DEF Holds
<1> QED  BY <1>1, <1>5 DEF f

(* The records before the first that does not pack.                         *)
LEMMA PackableIs ==
  ASSUME NEW records \in Seq(FlowRecords)
  PROVE  /\ Packable(records) \in Seq(FlowRecords)
         /\ Len(Packable(records)) <= Len(records)
         /\ \A i \in 1 .. Len(Packable(records)) : Packable(records)[i] = records[i]
<1> DEFINE stops == {i \in DOMAIN records : ~Fits(records[i])}
           first == CHOOSE i \in stops : \A j \in stops : i <= j
           n == Len(records)
<1>1. n \in Nat /\ DOMAIN records = 1 .. n
  OBVIOUS
<1>2. CASE stops = {}
  <2>1. Packable(records) = records
    BY <1>2 DEF Packable
  <2> QED  BY <1>1, <2>1
<1>3. CASE stops # {}
  <2>1. stops \subseteq Nat /\ stops \subseteq 1 .. n
    BY <1>1
  <2>2. Packable(records) = SubSeq(records, 1, first - 1)
    BY <1>3 DEF Packable
  <2> HIDE DEF stops, n
  <2>3. \E i \in stops : \A j \in stops : i <= j
    BY <1>3, <2>1, MinOfNats
  <2>4. first \in stops
    BY <2>3
  <2> DEFINE k == first - 1
  <2> HIDE DEF first
  <2>5. k \in 0 .. n /\ k <= n /\ n \in Nat
    BY <1>1, <2>1, <2>4
  <2> HIDE DEF k
  <2> DEFINE x == SubSeq(records, 1, k)
  <2>6. x = [i \in 1 .. k |-> records[i]] /\ x \in Seq(FlowRecords) /\ Len(x) = k
    BY <2>5, Listed DEF n
  <2> HIDE DEF x
  <2>7. \A i \in 1 .. k : x[i] = records[i]
    BY <2>6
  <2>8. Packable(records) = x
    BY <2>2 DEF x, k
  <2> QED  BY <2>5, <2>6, <2>7, <2>8 DEF n
<1> QED  BY <1>2, <1>3

LEMMA FileInvInit == FileInit => FileInv
<1>1. << >> \in Seq(FlowRecords)
  OBVIOUS
<1> QED  BY <1>1 DEF FileInit, FileInv, FileTellsRecords

(* A file whose header and records before that one were written.            *)
LEMMA ChunksHeld ==
  ASSUME NEW records \in Seq(FlowRecords), NEW kept \in Seq(FlowRecords), Len(kept) <= Len(records),
         \A i \in 1 .. Len(kept) : kept[i] = records[i], NEW f,
         f = [header |-> TRUE, count |-> Len(records), chunks |-> Chunks(kept)]
  PROVE  Holds(f, records) /\ f.header /\ Len(f.chunks) = Len(kept)
<1> DEFINE c == Chunks(kept)  k == Len(kept)  e(i) == EncodeRecord(kept[i])
<1>1. k \in Nat /\ DOMAIN kept = 1 .. k /\ k <= Len(records) /\ Len(records) \in Nat
      /\ \A i \in 1 .. k : kept[i] \in FlowRecords /\ kept[i] = records[i]
  OBVIOUS
<1>2. c = [i \in 1 .. k |-> e(i)]
  BY <1>1 DEF Chunks
<1>3. \A i \in 1 .. k : e(i) \in Codes
  BY <1>1 DEF Codes
<1> HIDE DEF c, e, k
<1>4. \A x : x = [i \in 1 .. k |-> e(i)] => x \in Seq(Codes) /\ Len(x) = k /\ \A i \in 1 .. k : x[i] = e(i)
  BY <1>1, <1>3
<1>5. c \in Seq(Codes) /\ Len(c) = k /\ \A i \in 1 .. k : c[i] = e(i)
  BY <1>2, <1>4
<1>6. f = [header |-> TRUE, count |-> Len(records), chunks |-> c]
  BY DEF c
<1>7. f.header = TRUE /\ f.count = Len(records) /\ f.chunks = c
      /\ f \in [header : BOOLEAN, count : Nat, chunks : Seq(Codes)]
  BY <1>1, <1>5, <1>6
<1>8. \A i \in 1 .. k : c[i] = EncodeRecord(records[i])
  BY <1>1, <1>5 DEF e
<1> QED  BY <1>1, <1>5, <1>7, <1>8 DEF Holds, k

LEMMA FileInvWrite ==
  ASSUME FileInv, NEW n \in Nat, NEW records \in [1 .. n -> FlowRecords], WriteNf8(records)
  PROVE  FileInv'
<1>1. records \in Seq(FlowRecords) /\ Len(records) \in Nat
  OBVIOUS
<1>2. given' = records /\ readBack' = NoResult
  BY DEF WriteNf8
<1>3. Holds(nf8', records) /\ (~raised' => nf8'.header /\ Len(nf8'.chunks) = Len(records))
  <2>1. CASE Len(records) > MaxCount
    <3>1. nf8' = EmptyFile /\ raised'
      BY <2>1 DEF WriteNf8, EmptyFile
    <3> QED  BY <1>1, <3>1, EmptyHolds
  <2>2. CASE ~(Len(records) > MaxCount)
    <3> DEFINE f == nf8'  kept == Packable(records)
    <3>1. f = [header |-> TRUE, count |-> Len(records), chunks |-> Chunks(kept)]
          /\ raised' = (kept # records)
      BY <2>2 DEF WriteNf8
    <3>2. kept \in Seq(FlowRecords) /\ Len(kept) <= Len(records)
          /\ \A i \in 1 .. Len(kept) : kept[i] = records[i]
      BY <1>1, PackableIs
    <3> HIDE DEF f, kept
    <3>3. Holds(f, records) /\ f.header /\ Len(f.chunks) = Len(kept)
      BY <1>1, <3>1, <3>2, ChunksHeld
    <3>4. ~raised' => kept = records
      BY <3>1
    <3> QED  BY <3>3, <3>4 DEF f
  <2> QED  BY <2>1, <2>2
<1>4. FileTellsRecords'
  BY <1>2 DEF FileTellsRecords
<1>5. given' \in Seq(FlowRecords)
  BY <1>1, <1>2
<1> QED  BY <1>2, <1>3, <1>4, <1>5 DEF FileInv

LEMMA FileInvCut ==
  ASSUME FileInv, NEW n \in Nat, CutNf8(n) PROVE FileInv'
<1> DEFINE c == nf8.chunks  k == SubSeq(c, 1, n)
<1>1. /\ Holds(nf8, given) /\ given \in Seq(FlowRecords) /\ n <= Len(c)
      /\ nf8' \in {[nf8 EXCEPT !.chunks = k], EmptyFile}
      /\ cut' = TRUE /\ readBack' = NoResult /\ given' = given
  BY DEF CutNf8, FileInv, EmptyFile
<1>2. Len(given) \in Nat
  BY <1>1
<1>3. /\ nf8 \in [header : BOOLEAN, count : Nat, chunks : Seq(Codes)]
      /\ nf8.header => nf8.count = Len(given)
      /\ Len(c) <= Len(given)
      /\ \A i \in 1 .. Len(c) : c[i] = EncodeRecord(given[i])
  BY <1>1 DEF Holds
<1>4. c \in Seq(Codes) /\ Len(c) \in Nat
  BY <1>3
<1> HIDE DEF c
<1>5. n \in 0 .. Len(c)
  BY <1>1, <1>4
<1>6. k = [i \in 1 .. n |-> c[i]] /\ k \in Seq(Codes) /\ Len(k) = n
  BY <1>4, <1>5, Listed
<1> HIDE DEF k
<1>7. Holds([nf8 EXCEPT !.chunks = k], given)
  <2> DEFINE f == [nf8 EXCEPT !.chunks = k]
  <2>1. f \in [header : BOOLEAN, count : Nat, chunks : Seq(Codes)] /\ f.header = nf8.header
        /\ f.count = nf8.count /\ f.chunks = k
    BY <1>3, <1>6
  <2> HIDE DEF f
  <2>2. n <= Len(given)
    BY <1>2, <1>3, <1>4, <1>5
  <2>3. \A i \in 1 .. n : k[i] = EncodeRecord(given[i])
    <3>1. \A i \in 1 .. n : i \in 1 .. Len(c) /\ k[i] = c[i]
      BY <1>4, <1>5, <1>6
    <3> QED  BY <1>3, <3>1
  <2>4. Holds(f, given)
    BY <1>3, <1>6, <2>1, <2>2, <2>3 DEF Holds
  <2> QED  BY <2>4 DEF f
<1>8. Holds(nf8', given')
  BY <1>1, <1>2, <1>7, EmptyHolds
<1>9. FileTellsRecords'
  BY <1>1 DEF FileTellsRecords
<1> QED  BY <1>1, <1>8, <1>9 DEF FileInv

LEMMA FileInvRead ==
  ASSUME FileInv, ReadNf8 PROVE FileInv'
<1> DEFINE c == nf8.chunks
<1>1. /\ nf8 # NoNf8 /\ nf8.header /\ UNCHANGED <<given, nf8, raised, cut>>
      /\ readBack' = [i \in {j \in DOMAIN c : j <= nf8.count} |-> DecodeRecord(c[i])]
      /\ given \in Seq(FlowRecords) /\ Holds(nf8, given)
      /\ ~raised /\ ~cut => Len(c) = Len(given)
  BY DEF ReadNf8, FileInv
<1>2. /\ nf8 \in [header : BOOLEAN, count : Nat, chunks : Seq(Codes)]
      /\ nf8.count = Len(given)
      /\ Len(c) <= Len(given)
      /\ \A i \in 1 .. Len(c) : c[i] = EncodeRecord(given[i])
  BY <1>1 DEF Holds
<1>3. DOMAIN c = 1 .. Len(c) /\ Len(c) \in Nat /\ Len(given) \in Nat
  <2>1. c \in Seq(Codes)
    BY <1>2
  <2> QED  BY <1>1, <2>1
<1> DEFINE m == Len(c)  n == Len(given)
<1>4. {j \in DOMAIN c : j <= nf8.count} = 1 .. m
  <2> HIDE DEF c, m
  <2>1. DOMAIN c = 1 .. m /\ m \in Nat /\ n \in Nat /\ m <= n /\ nf8.count = n
    BY <1>2, <1>3 DEF m
  <2> HIDE DEF n
  <2> QED  BY <2>1
<1>5. readBack' = [i \in 1 .. m |-> DecodeRecord(c[i])]
  BY <1>1, <1>4
<1>6. \A i \in 1 .. m : DecodeRecord(c[i]) = given[i] /\ given[i] \in FlowRecords
  <2> SUFFICES ASSUME NEW i \in 1 .. m PROVE DecodeRecord(c[i]) = given[i] /\ given[i] \in FlowRecords
    OBVIOUS
  <2>1. i \in 1 .. n
    BY <1>2, <1>3
  <2>2. given[i] \in FlowRecords
    BY <1>1, <2>1
  <2>3. c[i] = EncodeRecord(given[i])
    BY <1>2
  <2> QED  BY <2>2, <2>3, RecordKept
<1> DEFINE b == readBack'
<1>7. b = [i \in 1 .. m |-> given[i]]
  BY <1>5, <1>6
<1> HIDE DEF b, c, m
<1>8. m \in 0 .. n
  BY <1>2, <1>3 DEF m
<1>9. b = SubSeq(given, 1, m) /\ b \in Seq(FlowRecords) /\ Len(b) = m
  BY <1>1, <1>7, <1>8, Listed
<1>10. DOMAIN b = 1 .. m /\ \A i \in DOMAIN b : b[i] = given[i]
  BY <1>7
<1>11. ~raised /\ ~cut => b = given
  <2>1. SubSeq(given, 1, n) = given
    BY <1>1, SubSeqFull
  <2> QED  BY <1>1, <1>9, <2>1 DEF m
<1>12. FileTellsRecords'
  <2>1. Len(b) <= Len(given)
    BY <1>3, <1>8, <1>9
  <2>2. Len(b) <= Len(given') /\ (\A i \in DOMAIN b : b[i] = given'[i]) /\ (~raised' /\ ~cut' => b = given')
    BY <1>1, <1>10, <1>11, <2>1
  <2> QED  BY <2>2 DEF FileTellsRecords, b
<1> QED  BY <1>1, <1>12 DEF FileInv

LEMMA FileInvStep == FileInv /\ [FileNext]_fileVars => FileInv'
<1> SUFFICES ASSUME FileInv, [FileNext]_fileVars PROVE FileInv'
  OBVIOUS
<1>1. CASE \E n \in 0 .. MaxWritten : \E records \in [1 .. n -> FlowRecords] : WriteNf8(records)
  <2>1. PICK n \in 0 .. MaxWritten : \E records \in [1 .. n -> FlowRecords] : WriteNf8(records)
    BY <1>1
  <2>2. n \in Nat
    BY FileAssumption
  <2> QED  BY <2>1, <2>2, FileInvWrite
<1>2. CASE \E n \in 0 .. MaxWritten : CutNf8(n)
  <2>1. PICK n \in 0 .. MaxWritten : CutNf8(n)
    BY <1>2
  <2>2. n \in Nat
    BY FileAssumption
  <2> QED  BY <2>1, <2>2, FileInvCut
<1>3. CASE UNCHANGED fileVars
  BY <1>3 DEF fileVars, FileInv, FileTellsRecords
<1> QED  BY <1>1, <1>2, <1>3, FileInvRead DEF FileNext

(* What is read back from a file tells no more and nothing else than what   *)
(* was put in it, for every clock precision and every set of packets and    *)
(* records, where the 16-bit sum of a damaged packet shows the damage       *)
(* (capture.py, pcap_export.py, netflow8.py).                               *)
THEOREM FilesAreTold == CaptureSpec /\ FileSpec => []FilesTell
<1>1. CaptureInv /\ FileInv => FilesTell
  BY ReplayRetells DEF CaptureInv, FileInv, FilesTell
<1> QED  BY <1>1, CaptureInvInit, CaptureInvStep, FileInvInit, FileInvStep, PTL
         DEF CaptureSpec, FileSpec
================================================================================
