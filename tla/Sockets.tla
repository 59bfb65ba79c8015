--------------------------------- MODULE Sockets ---------------------------------
(***************************************************************************)
(* Sockets of legacy and of IPv8 applications (socket_api.py) that reach   *)
(* services with an even and an odd address each (dns_a8.py), which a load *)
(* balancer picks from (xlate8_lb.py).  An address is [asn, host], the host *)
(* four octets.  A legacy application names the host alone; the ASN comes  *)
(* from what was registered for that host.                                 *)
(***************************************************************************)
EXTENDS Xlate8

CONSTANTS
  Service,        \* [asn, base]: what the balancer serves; base is three octets
  Records,        \* addresses registered with the compatibility layer
  Remote,         \* addresses an IPv8 application connects to
  DefaultAsn,
  Strategies,     \* of the balancer
  NoAddress,
  MaxSelected,    \* bound: connections balanced
  MaxLogged       \* bound: calls made

(* The octets of a number but the last; four octets make a number of 32 bits. *)
Above(n) == n \div 256
FourOctets(n) == n \in Nat /\ Above(Above(Above(n))) < 256

IsAddress8(a) ==
  /\ a \in [asn : Nat, host : Seq(0 .. 255)]
  /\ FourOctets(a.asn) /\ Len(a.host) = 4

ASSUME SocketAssumption ==
  /\ \A a \in Records \cup Remote : IsAddress8(a)
  /\ FourOctets(Service.asn)
  /\ Service.base \in Seq(0 .. 255) /\ Len(Service.base) = 3

VARIABLES
  strategy,       \* LBStrategy
  connections,    \* _connections: addresses; _counter is their number
  xlateTable,     \* CompatLayer._xlate_table: host -> asn
  connected,      \* IPv8Socket._connected, or NoAddress
  log             \* _events, with the registrations between them (history)

socketVars == <<strategy, connections, xlateTable, connected, log>>

(* ------------------------------------------------------- even and odd addresses *)

MakeA8Pair(number, base) ==
  [even |-> [asn |-> number, host |-> Append(base, 2)], odd |-> [asn |-> number, host |-> Append(base, 3)]]

Parity8(a) == a.host[4] % 2

(* val & ~1 and the number after it: nothing carries into the octets before. *)
MakeEvenOddPair(a) ==
  LET even == [a EXCEPT !.host[4] = @ - (@ % 2)]
  IN  [even |-> even, odd |-> [even EXCEPT !.host[4] = @ + 1]]

IsEvenOddPair(a, b) ==
  \E even \in {a, b} : Parity8(even) = 0 /\ {a, b} = {even, [even EXCEPT !.host[4] = @ + 1]}

IsRfc1918(host) ==
  \/ host[1] = 10
  \/ host[1] = 172 /\ host[2] \in 16 .. 31
  \/ host[1] = 192 /\ host[2] = 168

ValidatePublicA8(a) == ~IsRfc1918(a.host)

ToWire(a) ==
  LET n == a.asn
  IN  <<Above(Above(Above(n))), Above(Above(n)) % 256, Above(n) % 256, n % 256>> \o a.host

FromWire(wire) ==
  [asn |-> ((((wire[1] * 256) + wire[2]) * 256 + wire[3]) * 256) + wire[4], host |-> SubSeq(wire, 5, 8)]

(* ----------------------------------------------------------------- the balancer *)

Pair == MakeA8Pair(Service.asn, Service.base)

Choice(counter) ==
  CASE strategy = "even_only" -> Pair.even
    [] strategy = "odd_only" -> Pair.odd
    [] OTHER -> IF counter % 2 = 0 THEN Pair.even ELSE Pair.odd

Select ==
  /\ Len(connections) < MaxSelected
  /\ connections' = Append(connections, Choice(Len(connections)))
  /\ UNCHANGED <<strategy, xlateTable, connected, log>>

Distribute(count) ==
  /\ Len(connections) + count <= MaxSelected
  /\ connections' =
       connections \o [i \in 1 .. count |-> Choice(Len(connections) + i - 1)]
  /\ UNCHANGED <<strategy, xlateTable, connected, log>>

Stats ==
  LET even == Cardinality({i \in DOMAIN connections : Parity8(connections[i]) = 0})
  IN  [even |-> even, odd |-> Len(connections) - even]

ResetLb == connections' = << >> /\ UNCHANGED <<strategy, xlateTable, connected, log>>

(* ------------------------------------------------------------------- the socket *)

Resolve(host) == IF host \in DOMAIN xlateTable THEN xlateTable[host] ELSE DefaultAsn

UpgradeConnect(host) == [asn |-> Resolve(host), host |-> host]

DowngradeToIpv4(a) == a.host

Log(action, to, address) ==
  /\ Len(log) < MaxLogged
  /\ log' = Append(log, [action |-> action, to |-> to, address |-> address])
  /\ UNCHANGED <<strategy, connections>>

RegisterDns8(a) ==
  /\ Log("register", [host |-> a.host], a)
  /\ xlateTable' = [h \in DOMAIN xlateTable \cup {a.host} |-> IF h = a.host THEN a.asn ELSE xlateTable[h]]
  /\ UNCHANGED connected

Connect(to, address) ==
  /\ Log("connect", to, address)
  /\ connected' = address
  /\ UNCHANGED xlateTable

ConnectLegacy(host) == Connect([host |-> host], UpgradeConnect(host))

(* Bound addresses decide nothing; a bind is recorded like the rest.        *)
Bind(host) == Log("bind", [host |-> host], UpgradeConnect(host)) /\ UNCHANGED <<xlateTable, connected>>

(* Neither raises on a socket that is not connected.                        *)
Send == Log("send", NoAddress, connected) /\ UNCHANGED <<xlateTable, connected>>
Recv == Log("recv", NoAddress, connected) /\ UNCHANGED <<xlateTable, connected>>

CloseKeeping == Log("close", NoAddress, NoAddress) /\ UNCHANGED <<xlateTable, connected>>  \* fault
Close ==
  /\ Log("close", NoAddress, NoAddress)
  /\ connected' = NoAddress
  /\ UNCHANGED xlateTable

SocketInit ==
  /\ strategy \in Strategies
  /\ connections = << >>
  /\ xlateTable = << >>
  /\ connected = NoAddress
  /\ log = << >>

SocketNext ==
  \/ Select \/ Distribute(2) \/ ResetLb
  \/ \E a \in Records : RegisterDns8(a)
  \/ \E i \in DOMAIN connections : ConnectLegacy(DowngradeToIpv4(connections[i]))
  \/ \E a \in Remote : Connect(a, a)
  \/ log = << >> /\ Bind(Pair.even.host)
  \/ Send \/ Recv \/ Close

SocketSpec == SocketInit /\ [][SocketNext]_socketVars

--------------------------------------------------------------------------------
LastOf(positions) ==
  IF positions = {} THEN 0 ELSE CHOOSE j \in positions : \A k \in positions : k <= j

(* What call i should go to, by the calls before it alone.                  *)
Named(i) ==
  LET c == LastOf({j \in 1 .. i - 1 : log[j].action \in {"connect", "close"}})
      r == LastOf({j \in 1 .. c - 1 : log[j].action = "register" /\ log[j].to = log[c].to})
  IN  IF c = 0 THEN NoAddress
      ELSE IF log[c].action = "close" THEN NoAddress
      ELSE IF "asn" \in DOMAIN log[c].to THEN log[c].to
      ELSE [asn |-> IF r = 0 THEN DefaultAsn ELSE log[r].address.asn, host |-> log[c].to.host]

(* What is sent and received goes to the address that was connected to last *)
(* and not closed since, in the ASN that was registered for its host when   *)
(* the connection was made, whatever is registered or reset later; the      *)
(* balancer's choices alternate and are spread evenly over a pair that both  *)
(* modules take for one, and that keeps its addresses on the wire.          *)
SendsReachNamed ==
  /\ \A i \in DOMAIN log : log[i].action \in {"send", "recv"} => log[i].address = Named(i)
  /\ \A i \in DOMAIN connections :
       /\ connections[i] \in {Pair.even, Pair.odd}
       /\ strategy \in {"round_robin", "passthrough"} /\ i > 1 =>
            IsEvenOddPair(connections[i - 1], connections[i])
  /\ strategy \in {"round_robin", "passthrough"} => Stats.even - Stats.odd \in {0, 1}
  /\ \A a \in Records \cup {Pair.even, Pair.odd} :
       /\ FromWire(ToWire(a)) = a
       /\ a \in {Pair.even, Pair.odd} => MakeEvenOddPair(a) = Pair
       /\ IsEvenOddPair(MakeEvenOddPair(a).odd, MakeEvenOddPair(a).even)
       /\ ValidatePublicA8(MakeEvenOddPair(a).even) = ValidatePublicA8(a)

(* A name leads to the one it was given to: a service exposed to the other   *)
(* company is reached and answers (interop.py), and what a socket sends goes *)
(* where its application named (socket_api.py, xlate8_lb.py).                *)
NamesLeadHome == Answerable /\ SendsReachNamed
================================================================================
