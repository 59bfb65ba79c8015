----------------------------------- MODULE Wire -----------------------------------
(***************************************************************************)
(* What goes over a wire (packet.py, icmpv8.py, tunnel.py, transport.py):  *)
(* an ICMPv8 message in an IPv8 packet in a frame, each as a sequence of   *)
(* 16-bit words; an address is four of them.  Lengths on the wire count    *)
(* octets and are even here.                                               *)
(***************************************************************************)
EXTENDS Integers, Sequences

Word == 65536
Words == 0 .. Word - 1

Refused(why) == [refused |-> why]
Accepted(x) == DOMAIN x # {"refused"}

From(words, i) == SubSeq(words, i, Len(words))

--------------------------------------------------------------------------------
(* The low half of CRC-32 (checksum.py; packet.py keeps no more of it): octet *)
(* by octet, by table, the remainder as four octets, the lowest first.       *)
Octets == 0 .. 255
Remainders == Octets \X Octets \X Octets \X Octets

Bit(a, b, d) == (((a \div d) + (b \div d)) % 2) * d
Xor == [a \in Octets |-> [b \in Octets |->
          Bit(a, b, 1) + Bit(a, b, 2) + Bit(a, b, 4) + Bit(a, b, 8)
            + Bit(a, b, 16) + Bit(a, b, 32) + Bit(a, b, 64) + Bit(a, b, 128)]]

Pulled(octet, above) == (octet \div 2) + ((above % 2) * 128)

Shifted(r) ==
  LET h == <<Pulled(r[1], r[2]), Pulled(r[2], r[3]), Pulled(r[3], r[4]), Pulled(r[4], 0)>> IN
  IF r[1] % 2 = 0 THEN h ELSE <<Xor[h[1]][32], Xor[h[2]][131], Xor[h[3]][184], Xor[h[4]][237]>>

CrcTable ==
  [n \in Octets |->
     LET shifted[i \in 0 .. 8] == IF i = 0 THEN <<n, 0, 0, 0>> ELSE Shifted(shifted[i - 1])
     IN  shifted[8]]

CrcStep(r, octet) ==
  LET t == CrcTable[Xor[r[1]][octet]] IN
  <<Xor[r[2]][t[1]], Xor[r[3]][t[2]], Xor[r[4]][t[3]], t[4]>>

Crc(words) ==
  LET rest[i \in 0 .. Len(words)] ==
        IF i = 0 THEN <<255, 255, 255, 255>>
        ELSE CrcStep(CrcStep(rest[i - 1], words[i] \div 256), words[i] % 256)
      Low(r) == r[1] + 256 * r[2]
  IN  65535 - Low(rest[Len(words)])

--------------------------------------------------------------------------------
(* IPv8Packet.to_bytes and from_bytes.                                       *)
HeaderSize == 28

AddressWords == [1 .. 4 -> Words]

(* Packets whose fields have room in the header, the total length included.  *)
Packets8 ==
  {p \in [version : 0 .. 15, identification : Words, flags : 0 .. 7, offset : 0 .. 8191,
          ttl : 0 .. 255, protocol : 0 .. 255, src : AddressWords, dst : AddressWords,
          payload : Seq(Words)] :
     HeaderSize + 2 * Len(p.payload) < Word}

(* Fields wider than their bits lose the upper ones.                         *)
Header(p, sum) ==
  <<(p.version * 16 + 7) * 256, HeaderSize + 2 * Len(p.payload), p.identification,
    (p.flags % 8) * 8192 + (p.offset % 8192), p.ttl * 256 + p.protocol, sum>> \o p.src \o p.dst

EncodePacket(p) == Header(p, Crc(Header(p, 0) \o p.payload)) \o p.payload

(* What the sum is taken of, the words of a packet with none in its place; and *)
(* whether a change of them shows in 16 bits: of one word, nearly every does. *)
Summed(packet) == [SubSeq(packet, 1, 14) EXCEPT ![6] = 0] \o From(packet, 15)
SumShows(packet, changed) == Crc(Summed(packet)) # Crc(Summed(changed))

PacketOf(words, payload) ==
  [version |-> words[1] \div 4096, identification |-> words[3],
   flags |-> words[4] \div 8192, offset |-> words[4] % 8192,
   ttl |-> words[5] \div 256, protocol |-> words[5] % 256,
   src |-> SubSeq(words, 7, 10), dst |-> SubSeq(words, 11, 14), payload |-> payload]

PayloadSize(words) == IF words[2] < HeaderSize THEN 0 ELSE words[2] - HeaderSize

DecodeUnverified(words) ==       \* fault: the sum is not compared
  IF 2 * Len(words) < HeaderSize THEN Refused("short")
  ELSE IF 2 * Len(words) < HeaderSize + PayloadSize(words) THEN Refused("truncated")
  ELSE PacketOf(words, SubSeq(words, 15, 14 + PayloadSize(words) \div 2))
DecodePacket(words) ==
  IF 2 * Len(words) < HeaderSize THEN Refused("short")
  ELSE IF 2 * Len(words) < HeaderSize + PayloadSize(words) THEN Refused("truncated")
  ELSE LET payload == SubSeq(words, 15, 14 + PayloadSize(words) \div 2)
           summed == [SubSeq(words, 1, 14) EXCEPT ![6] = 0] \o payload
       IN  IF words[6] # Crc(summed) THEN Refused("checksum") ELSE PacketOf(words, payload)

--------------------------------------------------------------------------------
(* ICMPv8: the one's complement sum of RFC 1071 over header and payload.     *)
InternetChecksum(words) ==
  LET sum[i \in 0 .. Len(words)] == IF i = 0 THEN 0 ELSE sum[i - 1] + words[i]
      Carried(total) == (total % Word) + (total \div Word)
  IN  65535 - Carried(Carried(sum[Len(words)]))

IcmpTypes == {0, 3, 5, 8, 11, 12}

EncodeIcmp(m) ==
  LET Start(sum) == <<m.type * 256 + m.code, sum, m.identifier, m.sequence>>
  IN  Start(InternetChecksum(Start(0) \o m.payload)) \o m.payload

DecodeIcmp(words) ==
  IF Len(words) < 4 THEN Refused("short")
  ELSE IF words[2] # InternetChecksum([words EXCEPT ![2] = 0]) THEN Refused("checksum")
  ELSE IF words[1] \div 256 \notin IcmpTypes THEN Refused("type")
  ELSE [type |-> words[1] \div 256, code |-> words[1] % 256, identifier |-> words[3],
        sequence |-> words[4], payload |-> From(words, 5)]

EchoRequest(identifier, sequence, payload) ==
  [type |-> 8, code |-> 0, identifier |-> identifier, sequence |-> sequence, payload |-> payload]

EchoReply(request) == [request EXCEPT !.type = 0, !.code = 0]

UnreachableCode == 0 .. 6
TimeExceededCode == 0 .. 1
RedirectCode == 0 .. 3

Error(type, code, payload) ==
  [type |-> type, code |-> code, identifier |-> 0, sequence |-> 0, payload |-> payload]

DestinationUnreachable(code, payload) == Error(3, code, payload)
TimeExceeded(code, payload) == Error(11, code, payload)
Redirect(code, payload) == Error(5, code, payload)

--------------------------------------------------------------------------------
(* The two frames: 8to4 with flags and a 16-bit length, and the frame of the *)
(* UDP transport with a 32-bit one.                                          *)
Magic == [tunnel |-> <<14420, 13391>>, udp |-> <<18774, 14412>>]
Carriers == DOMAIN Magic

Wrap(carrier, third, words) == Magic[carrier] \o <<third, 2 * Len(words)>> \o words
Encapsulate(words, encrypted) == Wrap("tunnel", IF encrypted THEN 256 ELSE 0, words)
FramePacket(words) == Wrap("udp", 0, words)

(* The third word is the upper half of the length in one, flags in the other. *)
Unwrap(carrier, words) ==
  IF Len(words) < 4 THEN Refused("short")
  ELSE IF SubSeq(words, 1, 2) # Magic[carrier] THEN Refused("magic")
  ELSE IF carrier = "udp" /\ words[3] # 0 THEN Refused("truncated")
  ELSE IF 2 * Len(words) < 8 + words[4] THEN Refused("truncated")
  ELSE [inner |-> SubSeq(words, 5, 4 + words[4] \div 2)]

Received(carrier, words) ==
  LET frame == Unwrap(carrier, words) IN
  IF ~Accepted(frame) THEN frame ELSE DecodePacket(frame.inner)
================================================================================
