------------------------------- MODULE Reassembly -------------------------------
(***************************************************************************)
(* Fragmentation and reassembly (fragmentation.py) over a network that     *)
(* delays, reorders, duplicates and loses fragments.                       *)
(*                                                                         *)
(* A payload byte is named by the packet it belongs to and its position    *)
(* there, so that mixing two packets or misplacing a fragment shows in     *)
(* what is reassembled.  Time passes in ticks; ages saturate where the     *)
(* code no longer tells them apart.  Each packet is sent at most once.     *)
(***************************************************************************)
EXTENDS Integers, FiniteSetsExt

CONSTANTS
  Packets,
  Length,         \* packet -> number of payload bytes
  Key,            \* packet -> (src, dst, identification, protocol)
  DontFragment,   \* packets with the DF flag
  Rooms,          \* mtu - HEADER_SIZE of the links packets are sent on
  Unit,           \* FRAG_UNIT
  OffsetMod,      \* 2^13: the wire field of IPv8Packet.to_bytes
  MaxFragments,   \* MAX_FRAGMENTS
  Timeout,        \* REASSEMBLY_TIMEOUT
  Lifetime,       \* how long the network may keep a fragment
  ReuseAfter,     \* a sender reuses a key only after this long
  NoBuffer, NoTotal

Keys == {Key[p] : p \in Packets}

ASSUME ReassemblyAssumption ==
  /\ Length \in [Packets -> Nat \ {0}]
  /\ DontFragment \subseteq Packets
  /\ Unit \in Nat \ {0} /\ OffsetMod \in Nat \ {0} /\ MaxFragments \in Nat \ {0}
  /\ Rooms \subseteq Nat /\ \A r \in Rooms : r >= Unit        \* MIN_MTU
  /\ Timeout \in Nat /\ Lifetime \in Nat /\ ReuseAfter \in Nat
  /\ ReuseAfter > Lifetime

VARIABLES
  net,            \* packet -> its fragments that may still arrive
  sent,           \* packets handed to fragment() so far
  age,            \* packet -> time since it was sent
  buffers,        \* _buffers: key -> _ReassemblyBuffer, or NoBuffer
  out             \* what the last call returned or raised

vars == <<net, sent, age, buffers, out>>

Bytes(p) == [i \in 0 .. Length[p] - 1 |-> <<p, i>>]

Nothing == [kind |-> "none", bytes |-> << >>]

--------------------------------------------------------------------------------
(* fragment(): the payload cut into pieces of at most room bytes, all but   *)
(* the last a multiple of Unit.  off is the offset as it goes on the wire,  *)
(* at is where the data really starts.                                      *)

Piece(p, start, size) ==
  [pkt |-> p, off |-> (start \div Unit) % OffsetMod, at |-> start, len |-> size,
   mf |-> start + size < Length[p]]

Fragments(p, room) ==
  IF Length[p] <= room
  THEN {Piece(p, 0, Length[p])}
  ELSE LET max == (room \div Unit) * Unit
       IN  {Piece(p, k * max, Min({max, Length[p] - k * max})) :
              k \in 0 .. (Length[p] - 1) \div max}

IsFragment(f) == f.mf \/ f.off > 0

--------------------------------------------------------------------------------
(* Reassembler: a buffer holds chunks by byte offset (a later chunk at the  *)
(* same offset replaces the earlier one) and the total length, known once   *)
(* the fragment without MF has arrived.                                     *)

NewBuffer == [chunks |-> {}, total |-> NoTotal, age |-> 0]

StaleNever(b) == FALSE                                 \* fault: timeout not checked
StaleLate(b) == b # NoBuffer /\ b.age > Timeout + 1    \* fault: kept a tick too long
Stale(b) == b # NoBuffer /\ b.age > Timeout

Live == [k \in Keys |-> IF Stale(buffers[k]) THEN NoBuffer ELSE buffers[k]]

ChunkOf(f) == [off |-> f.off * Unit, at |-> f.at, len |-> f.len, pkt |-> f.pkt]

Insert(b, f) ==
  [b EXCEPT !.chunks = {c \in @ : c.off # f.off * Unit} \cup {ChunkOf(f)},
            !.total = IF f.mf THEN @ ELSE f.off * Unit + f.len]

End(c) == c.off + c.len

(* complete: no chunk starts past the end of those before it, and they      *)
(* reach the total length.                                                  *)
CompleteStrict(b) ==                                   \* fault: off by one
  /\ b.total # NoTotal
  /\ \A c \in b.chunks : c.off = 0 \/ \E d \in b.chunks : d.off < c.off /\ End(d) >= c.off
  /\ \E c \in b.chunks : End(c) > b.total
Complete(b) ==
  /\ b.total # NoTotal
  /\ \A c \in b.chunks : c.off = 0 \/ \E d \in b.chunks : d.off < c.off /\ End(d) >= c.off
  /\ \E c \in b.chunks : End(c) >= b.total

(* _assemble: zeros up to the total length, then the chunks written over    *)
(* them in the order of their offsets (a chunk past the end extends it).    *)
Assemble(b) ==
  LET size == Max({b.total} \cup {End(c) : c \in b.chunks})
      over(i) == {c \in b.chunks : c.off <= i /\ i < End(c)}
      last(i) == CHOOSE c \in over(i) : \A d \in over(i) : d.off <= c.off
  IN  [i \in 0 .. size - 1 |->
         IF over(i) = {} THEN <<"zero", 0>> ELSE <<last(i).pkt, last(i).at + (i - last(i).off)>>]

Full(b) == Cardinality(b.chunks) >= MaxFragments

(* process(): expiry first, then one packet.                                *)

PassThrough(f) ==
  /\ ~IsFragment(f)
  /\ buffers' = Live
  /\ out' = [kind |-> "passed", pkt |-> f.pkt, bytes |-> [i \in 0 .. f.len - 1 |-> <<f.pkt, f.at + i>>]]

Buffer(f) == IF Live[Key[f.pkt]] = NoBuffer THEN NewBuffer ELSE Live[Key[f.pkt]]

Collect(f) ==
  /\ IsFragment(f)
  /\ ~Full(Buffer(f))
  /\ LET b == Insert(Buffer(f), f)
     IN  \/ /\ Complete(b)
            /\ buffers' = [Live EXCEPT ![Key[f.pkt]] = NoBuffer]
            /\ out' = [kind |-> "whole", pkt |-> f.pkt, bytes |-> Assemble(b)]
         \/ /\ ~Complete(b)
            /\ buffers' = [Live EXCEPT ![Key[f.pkt]] = b]
            /\ out' = Nothing

TooMany(f) ==
  /\ IsFragment(f)
  /\ Full(Buffer(f))
  /\ buffers' = [Live EXCEPT ![Key[f.pkt]] = Buffer(f)]
  /\ out' = [kind |-> "rejected", pkt |-> f.pkt, bytes |-> << >>]

Process(f) == PassThrough(f) \/ Collect(f) \/ TooMany(f)

--------------------------------------------------------------------------------
Init ==
  /\ net = [p \in Packets |-> {}]
  /\ sent = {}
  /\ age = [p \in Packets |-> 0]
  /\ buffers = [k \in Keys |-> NoBuffer]
  /\ out = Nothing

(* A sender cuts a packet for a link; one that does not fit and has DF is   *)
(* refused.  The key of an earlier packet is not reused too soon.           *)
Send(p, room) ==
  /\ p \notin sent
  /\ \A q \in sent : Key[q] = Key[p] => age[q] >= ReuseAfter
  /\ sent' = sent \cup {p}
  /\ IF Length[p] > room /\ p \in DontFragment
     THEN net' = net /\ out' = [kind |-> "refused", pkt |-> p, bytes |-> << >>]
     ELSE net' = [net EXCEPT ![p] = Fragments(p, room)] /\ out' = Nothing
  /\ UNCHANGED <<age, buffers>>

(* A fragment arrives, in any order; the network may keep a copy.           *)
Deliver(f, copyStays) ==
  /\ f \in net[f.pkt]
  /\ net' = IF copyStays THEN net ELSE [net EXCEPT ![f.pkt] = @ \ {f}]
  /\ Process(f)
  /\ UNCHANGED <<sent, age>>

Lose(f) ==
  /\ f \in net[f.pkt]
  /\ net' = [net EXCEPT ![f.pkt] = @ \ {f}]
  /\ out' = Nothing
  /\ UNCHANGED <<sent, age, buffers>>

(* expire() and flush() of the public interface.                            *)
Expire ==
  /\ buffers' = Live
  /\ out' = Nothing
  /\ UNCHANGED <<net, sent, age>>

Flush ==
  /\ buffers' = [k \in Keys |-> NoBuffer]
  /\ out' = Nothing
  /\ UNCHANGED <<net, sent, age>>

(* The clock: fragments older than the network's lifetime are gone.         *)
Tick ==
  /\ age' = [p \in Packets |->
               IF p \in sent /\ age[p] < ReuseAfter THEN age[p] + 1 ELSE age[p]]
  /\ net' = [p \in Packets |-> IF age[p] >= Lifetime THEN {} ELSE net[p]]
  /\ buffers' = [k \in Keys |->
                   IF buffers[k] # NoBuffer /\ buffers[k].age <= Timeout
                   THEN [buffers[k] EXCEPT !.age = @ + 1] ELSE buffers[k]]
  /\ out' = Nothing
  /\ UNCHANGED sent

InFlight == UNION {net[p] : p \in Packets}

Next ==
  \/ \E p \in Packets, room \in Rooms : Send(p, room)
  \/ \E f \in InFlight, copyStays \in BOOLEAN : Deliver(f, copyStays)
  \/ \E f \in InFlight : Lose(f)
  \/ Expire
  \/ Flush
  \/ Tick

(* Time passes, and the receiver goes on processing packets or calling      *)
(* expire(): expiry is lazy and nothing else frees a buffer.                *)
Spec == Init /\ [][Next]_vars /\ WF_vars(Tick) /\ WF_vars(Expire)

--------------------------------------------------------------------------------
Fragment ==
  [pkt : Packets, off : 0 .. OffsetMod - 1, at : Nat, len : Nat, mf : BOOLEAN]

Chunk == [off : Nat, at : Nat, len : Nat, pkt : Packets]

ReassemblyBuffer ==
  [chunks : SUBSET Chunk, total : Nat \cup {NoTotal}, age : 0 .. Timeout + 1]

ASSUME NoneAssumption == NoTotal \notin Nat /\ NoBuffer \notin ReassemblyBuffer

(* Types; chunks of one buffer belong to its key and sit at different offsets. *)
TypeOK ==
  /\ sent \subseteq Packets
  /\ age \in [Packets -> 0 .. ReuseAfter]
  /\ net \in [Packets -> SUBSET Fragment]
  /\ \A p \in Packets : \A f \in net[p] : f.pkt = p
  /\ buffers \in [Keys -> ReassemblyBuffer \cup {NoBuffer}]
  /\ \A k \in Keys : buffers[k] # NoBuffer =>
       /\ \A c \in buffers[k].chunks : Key[c.pkt] = k
       /\ \A c, d \in buffers[k].chunks : c.off = d.off => c = d

(* Packets the offset field can address, and senders that reuse a key only   *)
(* after every fragment and every buffer of the earlier packet must be gone. *)
Addressable == \A p \in Packets : Length[p] <= Unit * OffsetMod

Undisturbed == ReuseAfter > Lifetime + Timeout /\ Addressable

(* Undisturbed, whatever process() returns is a packet that was sent, byte    *)
(* for byte, and it is the packet of the fragment whose header it carries:   *)
(* loss, duplication and reordering never show in the payload.               *)
ExactReassembly ==
  Undisturbed => (out.kind \in {"whole", "passed"} => out.bytes = Bytes(out.pkt))

(* Undisturbed, a packet is handed out with its last missing fragment: no     *)
(* buffer is left pending with all bytes of a packet in it.  (If a key is     *)
(* reused too soon, what is left of the earlier packet holds the next back.)  *)
NothingHeldBack ==
  Undisturbed =>
    \A k \in Keys, p \in Packets :
      buffers[k] # NoBuffer /\ Key[p] = k =>
        \E i \in 0 .. Length[p] - 1 :
          \A c \in buffers[k].chunks : ~ (c.pkt = p /\ c.at <= i /\ i < c.at + c.len)

(* An incomplete packet is given up: a pending buffer does not stay for     *)
(* ever, whatever late copies arrive.                                       *)
BuffersDrain == \A k \in Keys : []<>(buffers[k] = NoBuffer)

(* "Fragment Offset: 13-bit value in 8-octet units indicating where in the  *)
(* original payload this fragment's data belongs" (fragmentation.py:14-15). *)
OffsetTellsPlace == \A f \in InFlight : f.off * Unit = f.at
================================================================================
