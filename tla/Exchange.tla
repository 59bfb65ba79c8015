--------------------------------- MODULE Exchange ---------------------------------
(***************************************************************************)
(* Echo requests and replies between two nodes, and the errors one of them *)
(* reports to the other, through the frames of the UDP transport and of    *)
(* the 8to4 tunnel (transport.py, tunnel.py, icmpv8.py), over a network    *)
(* that loses and repeats frames, cuts them short, adds to them, or        *)
(* changes a word.  A packet's sum has 16 bits, so there are changes it     *)
(* cannot show; those are left out.                                        *)
(***************************************************************************)
EXTENDS Wire, FiniteSets

CONSTANTS
  Here, There,    \* addresses, as words
  Echoes,         \* [identifier, sequence, payload] that Here may send
  Excerpts,       \* payloads of errors
  MaxAsked,       \* bound: different requests and errors; each may be sent again
  MaxHarmed       \* bound on the frames harmed

ASSUME ExchangeAssumption ==
  /\ Here \in AddressWords /\ There \in AddressWords /\ Here # There
  /\ Echoes \subseteq [identifier : Words, sequence : Words, payload : Seq(Words)]
  /\ Excerpts \subseteq Seq(Words)
  /\ \A p \in {e.payload : e \in Echoes} \cup Excerpts : HeaderSize + 2 * (4 + Len(p)) < Word

VARIABLES
  asked,          \* <<echo, carrier>> sent
  reported,       \* <<error, carrier>> that There sent to Here
  air,            \* frames under way: [to, carrier, words, harm]
  heard,          \* messages accepted: [at, src, dst, message]
  refusedFor,     \* what had been done to the frames that were refused
  harmed          \* how many frames were harmed

exchangeVars == <<asked, reported, air, heard, refusedFor, harmed>>

ExchangeInit ==
  asked = {} /\ reported = {} /\ air = {} /\ heard = {} /\ refusedFor = {} /\ harmed = 0

Packet(src, dst, message) ==
  [version |-> 8, identification |-> 0, flags |-> 0, offset |-> 0, ttl |-> 64, protocol |-> 1,
   src |-> src, dst |-> dst, payload |-> EncodeIcmp(message)]

FrameOf(carrier, src, dst, message) ==
  LET words == EncodePacket(Packet(src, dst, message)) IN
  [to |-> dst, carrier |-> carrier, harm |-> "none",
   words |-> IF carrier = "udp" THEN FramePacket(words) ELSE Encapsulate(words, TRUE)]

Ask(echo, carrier) ==
  /\ Cardinality(asked \cup {<<echo, carrier>>}) + Cardinality(reported) <= MaxAsked
  /\ asked' = asked \cup {<<echo, carrier>>}
  /\ air' = air \cup {FrameOf(carrier, Here, There,
                              EchoRequest(echo.identifier, echo.sequence, echo.payload))}
  /\ UNCHANGED <<reported, heard, refusedFor, harmed>>

Errors ==
  UNION {{DestinationUnreachable(c, p) : c \in UnreachableCode} \cup
         {TimeExceeded(c, p) : c \in TimeExceededCode} \cup {Redirect(c, p) : c \in RedirectCode} :
         p \in Excerpts}

Report(error, carrier) ==
  /\ Cardinality(asked) + Cardinality(reported \cup {<<error, carrier>>}) <= MaxAsked
  /\ reported' = reported \cup {<<error, carrier>>}
  /\ air' = air \cup {FrameOf(carrier, There, Here, error)}
  /\ UNCHANGED <<asked, heard, refusedFor, harmed>>

(* _handle_datagram and decapsulate: whatever does not decode is dropped.    *)
Arrive(f) ==
  LET packet == Received(f.carrier, f.words)
      message == DecodeIcmp(packet.payload)
      refused == ~Accepted(packet) \/ ~Accepted(message)
      answered == ~refused /\ f.to = There /\ message.type = 8
  IN  /\ refusedFor' = IF refused THEN refusedFor \cup {f.harm} ELSE refusedFor
      /\ heard' = IF refused THEN heard
                  ELSE heard \cup {[at |-> f.to, src |-> packet.src, dst |-> packet.dst,
                                    message |-> message]}
      /\ \E rest \in {air, air \ {f}} :      \* repeated, or not
           air' = IF answered
                  THEN rest \cup {FrameOf(f.carrier, packet.dst, packet.src, EchoReply(message))}
                  ELSE rest
      /\ UNCHANGED <<asked, reported, harmed>>

LoseFrame(f) == air' = air \ {f} /\ UNCHANGED <<asked, reported, heard, refusedFor, harmed>>

Cut(words) == {SubSeq(words, 1, n) : n \in 0 .. Len(words) - 1}
Padded(words) == {words \o <<n>> : n \in {0, 8}}

(* One word changed: of the frame, the packet's length or its sum in any case, *)
(* another one if the packet's sum shows it.                                 *)
Changed(words) ==
  UNION {{w \in {[words EXCEPT ![i] = x] : x \in {0, (words[i] + 2) % Word} \ {words[i]}} :
            i \in {1, 2, 3, 4, 6, 10} \/ SumShows(From(words, 5), From(w, 5))} :
         i \in DOMAIN words}

Harm(f) ==
  /\ f.harm = "none" /\ harmed < MaxHarmed /\ harmed' = harmed + 1
  /\ \/ \E w \in Cut(f.words) : air' = (air \ {f}) \cup {[f EXCEPT !.words = w, !.harm = "cut"]}
     \/ \E w \in Padded(f.words) : air' = (air \ {f}) \cup {[f EXCEPT !.words = w, !.harm = "padded"]}
     \/ \E w \in Changed(f.words) : air' = (air \ {f}) \cup {[f EXCEPT !.words = w, !.harm = "changed"]}
  /\ UNCHANGED <<asked, reported, heard, refusedFor>>

ExchangeNext ==
  \/ \E e \in Echoes, c \in Carriers : Ask(e, c)
  \/ \E e \in Errors, c \in Carriers : Report(e, c)
  \/ \E f \in air : Arrive(f) \/ LoseFrame(f) \/ Harm(f)

ExchangeSpec == ExchangeInit /\ [][ExchangeNext]_exchangeVars

--------------------------------------------------------------------------------
(* What is accepted was sent: There hears only requests of Here, and Here     *)
(* only errors There reported, with their code, and replies that There gave   *)
(* to a request it had heard, with identifier, sequence and payload of a      *)
(* request, from the address it was sent to, however frames are lost,         *)
(* repeated, cut or padded or a word of one is changed, so long as the sum    *)
(* of 16 bits shows it.  And a frame is refused only if it was cut or         *)
(* changed: what stands behind it is no harm (the 8to4 flags are under no     *)
(* sum).                                                                     *)
Requested(h) ==
  \E c \in Carriers :
    <<[identifier |-> h.message.identifier, sequence |-> h.message.sequence,
       payload |-> h.message.payload], c>> \in asked

RequestTold(h) == h.src = Here /\ h.dst = There /\ h.message.type = 8 /\ Requested(h)

ReplyTold(h) ==
  /\ h.src = There /\ h.dst = Here /\ h.message.type = 0 /\ Requested(h)
  /\ [at |-> There, src |-> Here, dst |-> There,
      message |-> [h.message EXCEPT !.type = 8]] \in heard

ErrorTold(h) == h.src = There /\ \E c \in Carriers : <<h.message, c>> \in reported

Told(h) ==
  IF h.at = There THEN RequestTold(h) /\ h.message.code = 0
  ELSE ErrorTold(h) \/ (ReplyTold(h) /\ h.message.code = 0)

HeardIsTold ==
  /\ \A h \in heard : Told(h)
  /\ refusedFor \subseteq {"cut", "changed"}
================================================================================
