------------------------------- MODULE Nat8Proofs -------------------------------
(***************************************************************************)
(* Proofs about the NAT8 gateway for every number of sessions, ports,      *)
(* hosts and addresses, and about the translations and sockets beside it.  *)
(***************************************************************************)
EXTENDS Nat8, Sockets, MinFacts, FiniteSetTheorems, SequenceTheorems, TLAPS

--------------------------------------------------------------------------------
(* PAT tables.  The two tables as a pair, so that what holds of the tables  *)
(* after expiry (KeptPat, KeptRev) can be stated with the same words as     *)
(* what holds of the tables themselves.                                     *)
TablesTyped(pt, rv) ==
  /\ pt \in [Sessions -> PatMapping \cup {NoMapping}]
  /\ rv \in [Ports -> Sessions \cup {NoSession}]

Inverse2(pt, rv) ==
  \A s \in Sessions, p \in Ports :
    rv[p] = s <=> (pt[s] # NoMapping /\ pt[s].port = p)

(* The inductive invariant: the types and the correspondence of the tables. *)
PatIInv == PatTypeOK /\ PatBijection

LEMMA TablesOfPat == PatIInv => TablesTyped(pat, rev) /\ Inverse2(pat, rev)
BY DEF PatIInv, PatTypeOK, PatBijection, HasMapping, TablesTyped, Inverse2

(* Expiry takes back both entries of a session and no other port.           *)
LEMMA KeptTables ==
  ASSUME PatIInv
  PROVE  TablesTyped(KeptPat, KeptRev) /\ Inverse2(KeptPat, KeptRev)
<1>1. TablesTyped(pat, rev) /\ Inverse2(pat, rev)
  BY TablesOfPat
<1>2. TablesTyped(KeptPat, KeptRev)
  BY <1>1 DEF TablesTyped, KeptPat, KeptRev
<1>3. ASSUME NEW s \in Sessions, NEW p \in Ports
      PROVE  KeptRev[p] = s <=> (KeptPat[s] # NoMapping /\ KeptPat[s].port = p)
  <2>1. s # NoSession
    BY NoneAssumption
  <2>2. CASE Lapsed(s)
    <3>1. KeptPat[s] = NoMapping
      BY <2>2 DEF KeptPat
    <3>2. KeptRev[p] # s
      <4>1. CASE pat[s].port = p
        BY <2>1, <2>2, <4>1 DEF KeptRev
      <4>2. CASE pat[s].port # p
        BY <1>1, <2>1, <4>2 DEF KeptRev, Inverse2
      <4> QED  BY <4>1, <4>2
    <3> QED  BY <3>1, <3>2
  <2>3. CASE ~Lapsed(s)
    <3>1. KeptPat[s] = pat[s]
      BY <2>3 DEF KeptPat
    <3>2. CASE pat[s] # NoMapping /\ pat[s].port = p
      <4>1. rev[p] = s
        BY <1>1, <3>2 DEF Inverse2
      <4>2. ~ \E t \in Sessions : Lapsed(t) /\ pat[t].port = p
        BY <1>1, <2>3, <4>1 DEF Inverse2, Lapsed, HasMapping
      <4> QED  BY <3>1, <3>2, <4>1, <4>2 DEF KeptRev
    <3>3. CASE ~ (pat[s] # NoMapping /\ pat[s].port = p)
      <4>1. rev[p] # s
        BY <1>1, <3>3 DEF Inverse2
      <4> QED  BY <2>1, <3>1, <3>3, <4>1 DEF KeptRev
    <3> QED  BY <3>2, <3>3
  <2> QED  BY <2>2, <2>3
<1> QED
  BY <1>2, <1>3 DEF Inverse2

(* The scan returns a port nobody holds.                                    *)
LEMMA AllocPortFree ==
  ASSUME nextPort \in Ports, FreePorts # {}
  PROVE  AllocPort \in FreePorts
<1> DEFINE ahead == {p \in FreePorts : p >= nextPort}
<1>1. FreePorts \subseteq Nat /\ ahead \subseteq Nat /\ ahead \subseteq FreePorts
  BY PortAssumption DEF FreePorts, Ports
<1>2. CASE ahead # {}
  <2>1. Min(ahead) \in ahead
    BY <1>1, <1>2, MinOfNats
  <2> QED  BY <1>1, <1>2, <2>1 DEF AllocPort
<1>3. CASE ahead = {}
  <2>1. Min(FreePorts) \in FreePorts
    BY <1>1, MinOfNats
  <2> QED  BY <1>3, <2>1 DEF AllocPort
<1> QED
  BY <1>2, <1>3

(* Ports in the order a scan from n meets them.                             *)
Sooner(n, q, p) == (n <= q /\ q < p) \/ (q < p /\ p < n) \/ (p < n /\ n <= q)

(* The scan misses no free port.                                            *)
LEMMA AllocPortFirst ==
  ASSUME nextPort \in Ports, FreePorts # {}, NEW q \in Ports, Sooner(nextPort, q, AllocPort)
  PROVE  q \notin FreePorts
<1> DEFINE ahead == {p \in FreePorts : p >= nextPort}
<1>1. /\ FreePorts \subseteq Nat /\ ahead \subseteq Nat /\ ahead \subseteq FreePorts
      /\ nextPort \in Nat /\ q \in Nat
  BY PortAssumption DEF FreePorts, Ports
<1>2. CASE ahead # {}
  <2>1. AllocPort \in Nat /\ AllocPort >= nextPort /\ \A p \in ahead : AllocPort <= p
    BY <1>1, <1>2, MinOfNats DEF AllocPort
  <2> QED  BY <1>1, <2>1 DEF Sooner
<1>3. CASE ahead = {}
  <2>1. AllocPort \in Nat /\ \A p \in FreePorts : AllocPort <= p
    BY <1>1, <1>3, MinOfNats DEF AllocPort
  <2>2. \A p \in FreePorts : p < nextPort
    BY <1>1, <1>3
  <2> QED  BY <1>1, <2>1, <2>2 DEF Sooner
<1> QED  BY <1>2, <1>3

LEMMA PortAfterTyped ==
  ASSUME NEW p \in Ports
  PROVE  PortAfter(p) \in Ports
BY PortAssumption DEF PortAfter, Ports

(* Resetting the idle time of a live mapping leaves the correspondence.     *)
LEMMA TouchKeepsTables ==
  ASSUME NEW pt, NEW rv, NEW s \in Sessions,
         TablesTyped(pt, rv), Inverse2(pt, rv), pt[s] # NoMapping
  PROVE  LET q == [pt EXCEPT ![s] = [@ EXCEPT !.idle = 0]]
         IN  TablesTyped(q, rv) /\ Inverse2(q, rv)
<1> DEFINE q == [pt EXCEPT ![s] = [@ EXCEPT !.idle = 0]]
<1>1. pt[s] \in PatMapping
  BY DEF TablesTyped
<1>2. q[s] \in PatMapping /\ q[s].port = pt[s].port
  BY <1>1, TimeAssumption DEF PatMapping, TablesTyped
<1>3. q \in [Sessions -> PatMapping \cup {NoMapping}]
  BY <1>2 DEF TablesTyped
<1>4. \A t \in Sessions : t # s => q[t] = pt[t]
  BY DEF TablesTyped
<1>5. q[s] # NoMapping
  BY <1>2, NoneAssumption
<1> QED
  BY <1>2, <1>3, <1>4, <1>5 DEF TablesTyped, Inverse2

LEMMA PatInitEstablishes == PatInit => PatIInv
<1> SUFFICES ASSUME PatInit PROVE PatIInv
  OBVIOUS
<1>1. PatTypeOK
  BY PortAssumption DEF PatInit, PatTypeOK, Ports, Quiet, PatOutcome
<1>2. PatBijection
  BY NoneAssumption DEF PatInit, PatBijection, HasMapping
<1> QED
  BY <1>1, <1>2 DEF PatIInv

(* Every step leaves the tables typed and inverse to each other; the other  *)
(* variables stay in their types.                                           *)
LEMMA PatNextPreserves == PatIInv /\ [PatNext]_patVars => PatIInv'
<1> SUFFICES ASSUME PatIInv, [PatNext]_patVars PROVE PatIInv'
  OBVIOUS
<1>t. PatTypeOK
  BY DEF PatIInv
<1>i. TablesTyped(pat, rev) /\ Inverse2(pat, rev)
  BY TablesOfPat
<1>k. TablesTyped(KeptPat, KeptRev) /\ Inverse2(KeptPat, KeptRev)
  BY KeptTables
<1>c. ASSUME TablesTyped(pat', rev') /\ Inverse2(pat', rev'),
             nextPort' \in Ports, patAddr' \in Addrs \cup {NoAddr}, patOut' \in PatOutcome
      PROVE  PatIInv'
  BY <1>c DEF PatIInv, PatTypeOK, PatBijection, HasMapping, TablesTyped, Inverse2
<1>q. Quiet \in PatOutcome
  BY DEF Quiet, PatOutcome
<1>1. ASSUME NEW s \in Sessions, PatDropOut(s) PROVE PatIInv'
  <2>1. patOut' \in PatOutcome
    BY <1>1 DEF PatDropOut, PatOutcome
  <2> QED  BY <1>1, <1>k, <1>t, <1>c, <2>1 DEF PatDropOut, PatTypeOK
<1>2. ASSUME NEW s \in Sessions, EgressKnown(s) PROVE PatIInv'
  <2>1. TablesTyped(pat', rev') /\ Inverse2(pat', rev')
    BY <1>2, <1>k, TouchKeepsTables DEF EgressKnown
  <2>2. KeptPat[s].port \in Ports
    BY <1>2, <1>k DEF EgressKnown, TablesTyped, PatMapping
  <2>3. patOut' \in PatOutcome
    BY <1>2, <2>2 DEF EgressKnown, PatOutcome
  <2> QED  BY <1>2, <1>t, <1>c, <2>1, <2>3 DEF EgressKnown, PatTypeOK
<1>3. ASSUME NEW s \in Sessions, EgressNew(s) PROVE PatIInv'
  <2> DEFINE p == AllocPort
             mp == [port |-> p, idle |-> 0]
  <2>1. p \in Ports /\ KeptRev[p] = NoSession
    BY <1>3, <1>t, AllocPortFree DEF EgressNew, PatTypeOK, FreePorts
  <2> HIDE DEF p
  <2>2. mp \in PatMapping /\ mp # NoMapping /\ mp.port = p
    BY <2>1, TimeAssumption, NoneAssumption DEF PatMapping
  <2>3. /\ pat' = [KeptPat EXCEPT ![s] = mp]
        /\ rev' = [KeptRev EXCEPT ![p] = s]
        /\ nextPort' = PortAfter(p)
        /\ patOut' = [kind |-> "sent", session |-> s, port |-> p]
        /\ KeptPat[s] = NoMapping
        /\ UNCHANGED patAddr
    BY <1>3 DEF EgressNew, p
  <2> HIDE DEF mp
  <2>4. TablesTyped(pat', rev')
    BY <1>k, <2>1, <2>2, <2>3 DEF TablesTyped
  <2>5. ASSUME NEW t \in Sessions, NEW q \in Ports
        PROVE  rev'[q] = t <=> (pat'[t] # NoMapping /\ pat'[t].port = q)
    <3>1. t # NoSession
      BY NoneAssumption
    <3>2. KeptRev[q] = t <=> (KeptPat[t] # NoMapping /\ KeptPat[t].port = q)
      BY <1>k DEF Inverse2
    <3>3. pat'[t] = IF t = s THEN mp ELSE KeptPat[t]
      BY <1>k, <2>3 DEF TablesTyped
    <3>4. rev'[q] = IF q = p THEN s ELSE KeptRev[q]
      BY <1>k, <2>3 DEF TablesTyped
    <3> QED  BY <2>1, <2>2, <2>3, <3>1, <3>2, <3>3, <3>4
  <2>6. patOut' \in PatOutcome
    BY <2>1, <2>3 DEF PatOutcome
  <2>7. nextPort' \in Ports
    BY <2>1, <2>3, PortAfterTyped
  <2> QED  BY <1>t, <1>c, <2>3, <2>4, <2>5, <2>6, <2>7 DEF PatTypeOK, Inverse2
<1>4. ASSUME NEW p \in Ports, IngressKnown(p) PROVE PatIInv'
  <2>1. KeptRev[p] \in Sessions
    BY <1>4, <1>k DEF IngressKnown, TablesTyped
  <2>2. TablesTyped(pat', rev') /\ Inverse2(pat', rev')
    BY <1>4, <1>k, <2>1, TouchKeepsTables DEF IngressKnown
  <2>3. patOut' \in PatOutcome
    BY <1>4, <2>1 DEF IngressKnown, PatOutcome
  <2> QED  BY <1>4, <1>t, <1>c, <2>2, <2>3 DEF IngressKnown, PatTypeOK
<1>5. ASSUME NEW p \in Ports, IngressUnknown(p) PROVE PatIInv'
  <2>1. patOut' \in PatOutcome
    BY <1>5 DEF IngressUnknown, PatOutcome
  <2> QED  BY <1>5, <1>k, <1>t, <1>c, <2>1 DEF IngressUnknown, PatTypeOK
<1>6. ASSUME NEW s \in Sessions, ReleasePat(s) PROVE PatIInv'
  <2>1. pat[s] \in PatMapping /\ pat[s].port \in Ports
    BY <1>6, <1>i DEF ReleasePat, HasMapping, TablesTyped, PatMapping
  <2>2. TablesTyped(pat', rev')
    BY <1>6, <1>i, <2>1 DEF ReleasePat, TablesTyped
  <2>3. Inverse2(pat', rev')
    BY <1>6, <1>i, <2>1, NoneAssumption DEF ReleasePat, HasMapping, TablesTyped, Inverse2
  <2> QED  BY <1>6, <1>t, <1>c, <1>q, <2>2, <2>3 DEF ReleasePat, PatTypeOK
<1>7. ASSUME NEW a \in Addrs, SetPatAddress(a) PROVE PatIInv'
  BY <1>7, <1>i, <1>t, <1>c, <1>q DEF SetPatAddress, PatTypeOK
<1>8. ASSUME PatClear PROVE PatIInv'
  <2>1. TablesTyped(pat', rev') /\ Inverse2(pat', rev')
    BY <1>8, NoneAssumption DEF PatClear, TablesTyped, Inverse2
  <2>2. nextPort' \in Ports
    BY <1>8, PortAssumption DEF PatClear, Ports
  <2> QED  BY <1>8, <1>t, <1>c, <1>q, <2>1, <2>2 DEF PatClear, PatTypeOK
<1>9. ASSUME PatTick PROVE PatIInv'
  <2>1. ASSUME NEW s \in Sessions
        PROVE  /\ Aged(s) \in PatMapping \cup {NoMapping}
               /\ Aged(s) # NoMapping <=> pat[s] # NoMapping
               /\ pat[s] # NoMapping => Aged(s).port = pat[s].port
    <3>1. CASE pat[s] = NoMapping
      BY <3>1 DEF Aged, HasMapping
    <3>2. CASE pat[s] # NoMapping
      <4>1. pat[s] \in PatMapping
        BY <1>i, <3>2 DEF TablesTyped
      <4>2. Aged(s) \in PatMapping /\ Aged(s).port = pat[s].port
        BY <4>1, <3>2, TimeAssumption DEF Aged, HasMapping, PatMapping
      <4> QED  BY <3>2, <4>2, NoneAssumption
    <3> QED  BY <3>1, <3>2
  <2>2. TablesTyped(pat', rev') /\ Inverse2(pat', rev')
    BY <1>9, <1>i, <2>1 DEF PatTick, TablesTyped, Inverse2
  <2> QED  BY <1>9, <1>t, <1>c, <1>q, <2>2 DEF PatTick, PatTypeOK
<1>10. CASE UNCHANGED patVars
  BY <1>10, <1>i, <1>t, <1>c DEF patVars, PatTypeOK
<1> QED
  BY <1>1, <1>2, <1>3, <1>4, <1>5, <1>6, <1>7, <1>8, <1>9, <1>10
  DEF PatNext, PatWork, PatEgress, PatIngress, EgressUnconfigured, EgressExhausted

(* A packet is refused only when no address is set or every port is taken.  *)
LEMMA DroppedOnlyWhenFullStep ==
  PatIInv /\ DroppedOnlyWhenFull /\ [PatNext]_patVars => DroppedOnlyWhenFull'
<1> SUFFICES ASSUME PatIInv, DroppedOnlyWhenFull, [PatNext]_patVars
             PROVE DroppedOnlyWhenFull'
  OBVIOUS
<1>k. TablesTyped(KeptPat, KeptRev) /\ Inverse2(KeptPat, KeptRev)
  BY KeptTables
<1>1. ASSUME NEW s \in Sessions, EgressUnconfigured(s) PROVE DroppedOnlyWhenFull'
  BY <1>1 DEF EgressUnconfigured, PatDropOut, DroppedOnlyWhenFull
<1>2. ASSUME NEW s \in Sessions, EgressExhausted(s) PROVE DroppedOnlyWhenFull'
  <2> SUFFICES ASSUME NEW p \in Ports
               PROVE  \E t \in Sessions \ {s} :
                        pat'[t] # NoMapping /\ pat'[t].port = p /\ pat'[t].idle <= IdleTimeout
    BY <1>2 DEF EgressExhausted, PatDropOut, DroppedOnlyWhenFull, HasMapping
  <2>1. KeptRev[p] \in Sessions
    BY <1>2, <1>k DEF EgressExhausted, FreePorts, TablesTyped
  <2>2. KeptPat[KeptRev[p]] # NoMapping /\ KeptPat[KeptRev[p]].port = p
    BY <1>k, <2>1 DEF Inverse2
  <2>3. KeptRev[p] # s /\ pat' = KeptPat
    BY <1>2, <2>2 DEF EgressExhausted, PatDropOut
  <2>4. ~Lapsed(KeptRev[p]) /\ KeptPat[KeptRev[p]] = pat[KeptRev[p]]
    BY <2>1, <2>2 DEF KeptPat
  <2>5. pat[KeptRev[p]] \in PatMapping
    BY <2>1, <2>2, <2>4 DEF PatIInv, PatTypeOK
  <2>6. pat[KeptRev[p]].idle <= IdleTimeout
    BY <2>2, <2>4, <2>5, TimeAssumption DEF Lapsed, HasMapping, PatMapping
  <2> QED  BY <2>1, <2>2, <2>3, <2>4, <2>6
<1>3. ASSUME \/ \E s \in Sessions : EgressKnown(s) \/ EgressNew(s) \/ ReleasePat(s)
             \/ \E p \in Ports : PatIngress(p)
             \/ \E a \in Addrs : SetPatAddress(a)
             \/ PatClear \/ PatTick
      PROVE DroppedOnlyWhenFull'
  <2> SUFFICES patOut'.kind # "dropped_out"
    BY DEF DroppedOnlyWhenFull
  <2>1. ASSUME NEW s \in Sessions, EgressKnown(s) \/ EgressNew(s)
        PROVE  patOut'.kind = "sent"
    BY <2>1 DEF EgressKnown, EgressNew
  <2>2. ASSUME NEW p \in Ports, PatIngress(p)
        PROVE  patOut'.kind \in {"delivered", "dropped_in"}
    <3>1. CASE IngressKnown(p)
      BY <3>1 DEF IngressKnown
    <3>2. CASE IngressUnknown(p)
      BY <3>2 DEF IngressUnknown
    <3> QED  BY <2>2, <3>1, <3>2 DEF PatIngress
  <2>3. ASSUME patOut' = Quiet PROVE patOut'.kind = "none"
    BY <2>3 DEF Quiet
  <2>4. ASSUME NEW s \in Sessions, ReleasePat(s) PROVE patOut' = Quiet
    BY <2>4 DEF ReleasePat
  <2>5. ASSUME NEW a \in Addrs, SetPatAddress(a) PROVE patOut' = Quiet
    BY <2>5 DEF SetPatAddress
  <2>6. PatClear \/ PatTick => patOut' = Quiet
    BY DEF PatClear, PatTick
  <2> QED  BY <1>3, <2>1, <2>2, <2>3, <2>4, <2>5, <2>6
<1>4. CASE UNCHANGED patVars
  BY <1>4 DEF patVars, DroppedOnlyWhenFull, HasMapping
<1> QED
  BY <1>1, <1>2, <1>3, <1>4 DEF PatNext, PatWork, PatEgress

--------------------------------------------------------------------------------
(* Every step of the PAT tables is a step of ExclusiveBinding, under the    *)
(* mapping HeldPort: expiry, release and clear evict, a new mapping evicts  *)
(* what has lapsed and binds, everything else stutters.                     *)

LEMMA BindingInit == PatInit => Binding!Init
BY DEF PatInit, Binding!Init, HeldPort, HasMapping

Evicted == {s \in Sessions : Lapsed(s)}
KeptHeld == [s \in Sessions |-> IF KeptPat[s] # NoMapping THEN KeptPat[s].port ELSE NoPort]

LEMMA ExpiryEvicts == Binding!Without(Evicted) = KeptHeld
BY DEF Binding!Without, Evicted, KeptHeld, HeldPort, KeptPat, Lapsed, HasMapping

LEMMA BindingStep ==
  PatIInv /\ [PatNext]_patVars => [Binding!Next]_HeldPort
<1> SUFFICES ASSUME PatIInv, [PatNext]_patVars PROVE [Binding!Next]_HeldPort
  OBVIOUS
<1>i. TablesTyped(pat, rev) /\ Inverse2(pat, rev)
  BY TablesOfPat
<1>k. TablesTyped(KeptPat, KeptRev) /\ Inverse2(KeptPat, KeptRev)
  BY KeptTables
<1>e. Evicted \in SUBSET Sessions
  BY DEF Evicted
<1>h. HeldPort' = [s \in Sessions |-> IF pat'[s] # NoMapping THEN pat'[s].port ELSE NoPort]
  BY DEF HeldPort, HasMapping
<1>1. ASSUME pat' = KeptPat PROVE Binding!Next
  <2>1. HeldPort' = KeptHeld
    BY <1>1, <1>h DEF KeptHeld
  <2> QED  BY <1>e, <2>1, ExpiryEvicts DEF Binding!Next, Binding!Evict
<1>2. ASSUME NEW s \in Sessions, KeptPat[s] # NoMapping,
             pat' = [KeptPat EXCEPT ![s] = [@ EXCEPT !.idle = 0]]
      PROVE  Binding!Next
  <2>1. KeptPat[s] \in PatMapping
    BY <1>2, <1>k DEF TablesTyped
  <2>2. pat'[s] \in PatMapping /\ pat'[s].port = KeptPat[s].port
    BY <1>2, <1>k, <2>1, TimeAssumption DEF TablesTyped, PatMapping
  <2>3. \A t \in Sessions : t # s => pat'[t] = KeptPat[t]
    BY <1>2, <1>k DEF TablesTyped
  <2>4. HeldPort' = KeptHeld
    BY <1>2, <1>h, <2>2, <2>3, NoneAssumption DEF KeptHeld
  <2> QED  BY <1>e, <2>4, ExpiryEvicts DEF Binding!Next, Binding!Evict
<1>3. ASSUME NEW s \in Sessions, EgressNew(s) PROVE Binding!Next
  <2> DEFINE p == AllocPort
             mp == [port |-> p, idle |-> 0]
  <2>1. p \in Ports /\ KeptRev[p] = NoSession
    BY <1>3, AllocPortFree DEF EgressNew, PatIInv, PatTypeOK, FreePorts
  <2> HIDE DEF p
  <2>2. mp \in PatMapping /\ mp # NoMapping /\ mp.port = p
    BY <2>1, TimeAssumption, NoneAssumption DEF PatMapping
  <2>3. pat' = [KeptPat EXCEPT ![s] = mp] /\ KeptPat[s] = NoMapping
    BY <1>3 DEF EgressNew, p
  <2> HIDE DEF mp
  <2>4. \A t \in Sessions : pat'[t] = IF t = s THEN mp ELSE KeptPat[t]
    BY <1>k, <2>3 DEF TablesTyped
  <2>5. HeldPort' = [KeptHeld EXCEPT ![s] = p]
    BY <1>h, <2>2, <2>4 DEF KeptHeld
  <2>6. KeptHeld[s] = NoPort
    BY <2>3 DEF KeptHeld
  <2>7. \A t \in Sessions : KeptHeld[t] # p
    <3> SUFFICES ASSUME NEW t \in Sessions PROVE KeptHeld[t] # p
      OBVIOUS
    <3>1. t # NoSession /\ NoPort # p
      BY <2>1, NoneAssumption
    <3> QED  BY <1>k, <2>1, <3>1 DEF KeptHeld, Inverse2
  <2>8. Binding!EvictAndBind(Evicted, s, p)
    BY <2>5, <2>6, <2>7, ExpiryEvicts DEF Binding!EvictAndBind
  <2> QED  BY <1>e, <2>1, <2>8 DEF Binding!Next
<1>4. ASSUME NEW s \in Sessions, ReleasePat(s) PROVE Binding!Next
  <2>1. \A t \in Sessions : pat'[t] = IF t = s THEN NoMapping ELSE pat[t]
    BY <1>4, <1>i DEF ReleasePat, TablesTyped
  <2>2. HeldPort' = Binding!Without({s})
    BY <1>h, <2>1 DEF Binding!Without, HeldPort, HasMapping
  <2> QED  BY <2>2 DEF Binding!Next, Binding!Evict
<1>5. ASSUME PatClear PROVE Binding!Next
  <2>1. HeldPort' = Binding!Without(Sessions)
    BY <1>5, <1>h DEF PatClear, Binding!Without
  <2> QED  BY <2>1 DEF Binding!Next, Binding!Evict
<1>6. ASSUME PatTick PROVE HeldPort' = HeldPort
  <2>1. ASSUME NEW s \in Sessions
        PROVE  (pat'[s] # NoMapping <=> pat[s] # NoMapping)
               /\ (pat[s] # NoMapping => pat'[s].port = pat[s].port)
    <3>1. pat'[s] = Aged(s)
      BY <1>6 DEF PatTick
    <3>2. CASE pat[s] = NoMapping
      BY <3>1, <3>2 DEF Aged, HasMapping
    <3>3. CASE pat[s] # NoMapping
      <4>1. pat[s] \in PatMapping
        BY <1>i, <3>3 DEF TablesTyped
      <4>2. Aged(s) \in PatMapping /\ Aged(s).port = pat[s].port
        BY <4>1, <3>3, TimeAssumption DEF Aged, HasMapping, PatMapping
      <4> QED  BY <3>1, <3>3, <4>2, NoneAssumption
    <3> QED  BY <3>2, <3>3
  <2> QED  BY <1>h, <2>1 DEF HeldPort, HasMapping
<1>7. ASSUME pat' = pat PROVE HeldPort' = HeldPort
  BY <1>7, <1>h DEF HeldPort, HasMapping
<1>8. ASSUME NEW s \in Sessions, PatEgress(s) PROVE Binding!Next
  BY <1>8, <1>1, <1>2, <1>3
  DEF PatEgress, EgressUnconfigured, EgressKnown, EgressExhausted, PatDropOut
<1>9. ASSUME NEW p \in Ports, PatIngress(p) PROVE Binding!Next
  <2>1. CASE IngressKnown(p)
    <3>1. KeptRev[p] \in Sessions
      BY <1>k, <2>1 DEF IngressKnown, TablesTyped
    <3> QED  BY <1>2, <2>1, <3>1 DEF IngressKnown
  <2>2. CASE IngressUnknown(p)
    BY <1>1, <2>2 DEF IngressUnknown
  <2> QED  BY <1>9, <2>1, <2>2 DEF PatIngress
<1>10. ASSUME (\E a \in Addrs : SetPatAddress(a)) \/ UNCHANGED patVars
       PROVE  HeldPort' = HeldPort
  BY <1>7, <1>10 DEF SetPatAddress, patVars
<1> QED
  BY <1>4, <1>5, <1>6, <1>8, <1>9, <1>10 DEF PatNext, PatWork

--------------------------------------------------------------------------------
(* The table of the static and dynamic modes.  Accounts(t, u, A) relates a  *)
(* table t to the used addresses u and the pool's addresses A; it adds to   *)
(* DynamicAccounted where static externals come from, which OneToOne needs. *)
Dyn(t, h) == t[h] # Unmapped /\ t[h].kind = "dynamic"
Sta(t, h) == t[h] # Unmapped /\ t[h].kind = "static"

Accounts(t, u, A) ==
  /\ t \in [Hosts -> PoolMapping \cup {Unmapped}]
  /\ u \subseteq A /\ A \subseteq PoolCandidates
  /\ \A h \in Hosts : Dyn(t, h) => t[h].ext \in u
  /\ \A g, h \in Hosts : Dyn(t, g) /\ Dyn(t, h) /\ t[g].ext = t[h].ext => g = h
  /\ \A h \in Hosts : Sta(t, h) => <<h, t[h].ext>> \in StaticPairs

(* o is a strict order of M in which every non-empty set has a first        *)
(* element; that is what the reverse lookup needs to return a mapping.      *)
Ordered(o, M) ==
  /\ o \subseteq M \X M
  /\ \A e \in o : <<e[2], e[1]>> \notin o
  /\ \A T \in SUBSET M : T # {} => \E h \in T : \A g \in T \ {h} : <<h, g>> \in o

PoolIInv ==
  /\ dynamic \in BOOLEAN /\ pool \in Seq(PoolCandidates) /\ poolOut \in PoolOutcome
  /\ Accounts(table, used, PoolAddrs)
  /\ Ordered(older, Mapped)

LEMMA PoolIInvImplies == PoolIInv => PoolTypeOK /\ DynamicAccounted /\ OneToOne
<1> SUFFICES ASSUME PoolIInv PROVE PoolTypeOK /\ DynamicAccounted /\ OneToOne
  OBVIOUS
<1>1. PoolTypeOK
  BY PoolAssumption DEF PoolIInv, PoolTypeOK, Accounts, Ordered
<1>2. DynamicAccounted
  BY DEF PoolIInv, DynamicAccounted, DynamicHosts, Mapped, Accounts, Dyn
<1>3. ASSUME StaticsApart, NEW g \in Mapped, NEW h \in Mapped, table[g].ext = table[h].ext
      PROVE  g = h
  <2>1. \A k \in Mapped : k \in Hosts /\ (Dyn(table, k) \/ Sta(table, k))
    BY DEF Mapped, PoolIInv, Accounts, PoolMapping, Dyn, Sta
  <2>2. \A k \in Hosts : Dyn(table, k) => table[k].ext \in PoolCandidates
    BY DEF PoolIInv, Accounts
  <2>3. \A k \in Hosts : Sta(table, k) =>
          <<k, table[k].ext>> \in StaticPairs /\ table[k].ext \notin PoolCandidates
    BY <1>3 DEF PoolIInv, Accounts, StaticsApart
  <2>4. CASE Dyn(table, g) /\ Dyn(table, h)
    BY <1>3, <2>1, <2>4 DEF PoolIInv, Accounts
  <2>5. CASE Sta(table, g) /\ Sta(table, h)
    <3>1. <<g, table[g].ext>>[2] = <<h, table[h].ext>>[2]
          => <<g, table[g].ext>>[1] = <<h, table[h].ext>>[1]
      BY <1>3, <2>1, <2>3, <2>5 DEF StaticsApart
    <3> QED  BY <1>3, <3>1
  <2> QED  BY <1>3, <2>1, <2>2, <2>3, <2>4, <2>5
<1> QED
  BY <1>1, <1>2, <1>3 DEF OneToOne

LEMMA PoolInitEstablishes == PoolInit => PoolIInv
BY DEF PoolInit, PoolIInv, Accounts, Ordered, Mapped, PoolAddrs, Dyn, Sta, PoolQuiet, PoolOutcome

(* Expiry returns the address of every host it removes and no other.        *)
LEMMA KeptAccounts ==
  ASSUME PoolIInv
  PROVE  Accounts(KeptTable, KeptUsed, PoolAddrs)
<1>1. Accounts(table, used, PoolAddrs)
  BY DEF PoolIInv
<1>2. \A h \in Hosts : KeptTable[h] = IF h \in LapsedHosts THEN Unmapped ELSE table[h]
  BY DEF KeptTable
<1>3. KeptTable \in [Hosts -> PoolMapping \cup {Unmapped}]
  BY <1>1 DEF KeptTable, Accounts
<1>4. ASSUME NEW h \in Hosts, Dyn(KeptTable, h) PROVE KeptTable[h].ext \in KeptUsed
  <2>1. h \notin LapsedHosts /\ Dyn(table, h) /\ KeptTable[h] = table[h]
    BY <1>2, <1>4 DEF Dyn
  <2>2. \A g \in LapsedHosts : g \in Hosts /\ Dyn(table, g)
    BY DEF LapsedHosts, DynamicHosts, Mapped, Dyn
  <2>3. \A g \in LapsedHosts : table[g].ext # table[h].ext
    BY <1>1, <2>1, <2>2 DEF Accounts
  <2>4. table[h].ext \in used
    BY <1>1, <2>1 DEF Accounts
  <2> QED  BY <2>1, <2>3, <2>4 DEF KeptUsed
<1>5. \A g, h \in Hosts :
        Dyn(KeptTable, g) /\ Dyn(KeptTable, h) /\ KeptTable[g].ext = KeptTable[h].ext => g = h
  BY <1>1, <1>2 DEF Accounts, Dyn
<1>6. \A h \in Hosts : Sta(KeptTable, h) => <<h, KeptTable[h].ext>> \in StaticPairs
  BY <1>1, <1>2 DEF Accounts, Sta
<1> QED
  BY <1>1, <1>3, <1>4, <1>5, <1>6 DEF Accounts, KeptUsed

LEMMA OrderedWithout ==
  ASSUME NEW H, PoolIInv
  PROVE  Ordered(OlderWithout(H), Mapped \ H)
<1>1. Ordered(older, Mapped)
  BY DEF PoolIInv
<1>2. \A T \in SUBSET (Mapped \ H) :
        T # {} => \E h \in T : \A g \in T \ {h} : <<h, g>> \in OlderWithout(H)
  <2> SUFFICES ASSUME NEW T \in SUBSET (Mapped \ H), T # {}
               PROVE  \E h \in T : \A g \in T \ {h} : <<h, g>> \in OlderWithout(H)
    OBVIOUS
  <2>1. PICK h \in T : \A g \in T \ {h} : <<h, g>> \in older
    BY <1>1 DEF Ordered
  <2> QED  BY <2>1 DEF OlderWithout
<1>3. OlderWithout(H) \subseteq (Mapped \ H) \X (Mapped \ H)
  BY <1>1 DEF Ordered, OlderWithout
<1>4. \A e \in OlderWithout(H) : <<e[2], e[1]>> \notin OlderWithout(H)
  BY <1>1 DEF Ordered, OlderWithout
<1> QED  BY <1>2, <1>3, <1>4 DEF Ordered

LEMMA OrderedAppend ==
  ASSUME NEW o, NEW M, NEW h, Ordered(o, M), h \notin M
  PROVE  Ordered(AppendTo(o, M, h), M \cup {h})
<1> DEFINE n == AppendTo(o, M, h)
<1>1. n \subseteq (M \cup {h}) \X (M \cup {h})
  BY DEF Ordered, AppendTo
<1>2. ASSUME NEW e \in n PROVE <<e[2], e[1]>> \notin n
  BY DEF Ordered, AppendTo
<1>3. ASSUME NEW T \in SUBSET (M \cup {h}), T # {}
      PROVE  \E f \in T : \A g \in T \ {f} : <<f, g>> \in n
  <2>1. CASE T = {h}
    BY <2>1
  <2>2. CASE T # {h}
    <3>1. T \ {h} \in SUBSET M /\ T \ {h} # {}
      BY <1>3, <2>2
    <3>2. PICK f \in T \ {h} : \A g \in (T \ {h}) \ {f} : <<f, g>> \in o
      BY <3>1 DEF Ordered
    <3> QED  BY <3>1, <3>2 DEF AppendTo
  <2> QED  BY <2>1, <2>2
<1> QED  BY <1>1, <1>2, <1>3 DEF Ordered

(* Using a mapping changes neither its address nor anyone else's.           *)
LEMMA TouchedAccounts ==
  ASSUME NEW t, NEW u, NEW A, NEW h \in Hosts, Accounts(t, u, A), t[h] # Unmapped
  PROVE  /\ Accounts(Touched(t, h), u, A)
         /\ \A g \in Hosts : Touched(t, h)[g] # Unmapped <=> t[g] # Unmapped
<1>1. t[h] \in PoolMapping
  BY DEF Accounts
<1>2. CASE t[h].kind = "dynamic"
  <2> DEFINE mp == [t[h] EXCEPT !.idle = 0]
  <2>1. mp \in PoolMapping /\ mp.ext = t[h].ext /\ mp.kind = "dynamic"
    BY <1>1, <1>2, PoolAssumption DEF PoolMapping
  <2>2. Touched(t, h) = [t EXCEPT ![h] = mp]
    BY <1>2 DEF Touched
  <2> HIDE DEF mp
  <2>3. \A g \in Hosts : Touched(t, h)[g] = IF g = h THEN mp ELSE t[g]
    BY <2>2 DEF Accounts
  <2>4. mp # Unmapped
    BY <2>1, PoolAssumption
  <2>5. Touched(t, h) \in [Hosts -> PoolMapping \cup {Unmapped}]
    BY <2>1, <2>2 DEF Accounts
  <2> QED  BY <1>2, <2>1, <2>3, <2>4, <2>5 DEF Accounts, Dyn, Sta
<1>3. CASE t[h].kind # "dynamic"
  BY <1>3 DEF Touched
<1> QED  BY <1>2, <1>3

(* The pool entry taken is not in use.                                      *)
LEMMA AllocateUnused ==
  ASSUME pool \in Seq(PoolCandidates), UnusedAt # {}
  PROVE  Allocate \in PoolAddrs /\ Allocate \notin KeptUsed
<1>1. UnusedAt \subseteq Nat
  BY DEF UnusedAt
<1>2. Min(UnusedAt) \in UnusedAt
  BY <1>1, MinOfNats
<1> QED
  BY <1>2 DEF UnusedAt, Allocate, PoolAddrs

LEMMA PoolNextPreserves == PoolIInv /\ [PoolNext]_poolVars => PoolIInv'
<1> SUFFICES ASSUME PoolIInv, [PoolNext]_poolVars PROVE PoolIInv'
  OBVIOUS
<1>i. /\ dynamic \in BOOLEAN /\ pool \in Seq(PoolCandidates) /\ poolOut \in PoolOutcome
      /\ Accounts(table, used, PoolAddrs)
      /\ Ordered(older, Mapped)
  BY DEF PoolIInv
<1>k. Accounts(KeptTable, KeptUsed, PoolAddrs)
  BY KeptAccounts
<1>o. Ordered(KeptOlder, KeptMapped)
  BY OrderedWithout DEF KeptOlder, KeptMapped
<1>m. KeptMapped = {h \in Hosts : KeptTable[h] # Unmapped}
  BY DEF KeptMapped, KeptTable, Mapped
<1>n. Mapped' = {h \in Hosts : table'[h] # Unmapped}
  BY DEF Mapped
<1>c. ASSUME dynamic' = dynamic, pool' = pool, poolOut' \in PoolOutcome,
             Accounts(table', used', PoolAddrs), Ordered(older', Mapped')
      PROVE  PoolIInv'
  <2>1. PoolAddrs' = PoolAddrs
    BY <1>c DEF PoolAddrs
  <2> QED  BY <1>i, <1>c, <2>1 DEF PoolIInv
<1>q. PoolQuiet \in PoolOutcome
  BY DEF PoolQuiet, PoolOutcome
<1>1. ASSUME NEW h \in Hosts, PoolEgressKnown(h) PROVE PoolIInv'
  <2>1. KeptTable[h] # Unmapped /\ KeptTable[h] = table[h]
    BY <1>1, <1>m DEF PoolEgressKnown, KeptTable
  <2>2. Accounts(table', used', PoolAddrs) /\ Mapped' = KeptMapped
    BY <1>1, <1>k, <1>m, <1>n, <2>1, TouchedAccounts DEF PoolEgressKnown
  <2>3. table[h].ext \in Externals
    BY <1>i, <2>1 DEF Accounts, PoolMapping
  <2>4. poolOut' \in PoolOutcome
    BY <1>1, <2>3 DEF PoolEgressKnown, PoolOutcome
  <2> QED  BY <1>1, <1>c, <1>o, <2>2, <2>4 DEF PoolEgressKnown
<1>2. ASSUME NEW h \in Hosts, PoolEgressNew(h) PROVE PoolIInv'
  <2> DEFINE a == Allocate
             mp == [ext |-> a, kind |-> "dynamic", idle |-> 0]
  <2>1. a \in PoolAddrs /\ a \notin KeptUsed
    BY <1>2, <1>i, AllocateUnused DEF PoolEgressNew
  <2> HIDE DEF a
  <2>2. a \in PoolCandidates /\ a \in Externals
    BY <1>i, <2>1, PoolAssumption DEF Accounts
  <2>3. mp \in PoolMapping /\ mp # Unmapped /\ mp.ext = a /\ mp.kind = "dynamic"
    BY <2>2, PoolAssumption DEF PoolMapping
  <2>4. /\ table' = [KeptTable EXCEPT ![h] = mp]
        /\ older' = AppendTo(KeptOlder, KeptMapped, h)
        /\ used' = KeptUsed \cup {a}
        /\ poolOut' = [kind |-> "sent", host |-> h, ext |-> a]
        /\ h \notin KeptMapped
        /\ dynamic' = dynamic /\ pool' = pool
    BY <1>2 DEF PoolEgressNew, a
  <2> HIDE DEF mp
  <2>5. \A g \in Hosts : table'[g] = IF g = h THEN mp ELSE KeptTable[g]
    BY <1>k, <2>4 DEF Accounts
  <2>6. table' \in [Hosts -> PoolMapping \cup {Unmapped}]
    BY <1>k, <2>3, <2>4 DEF Accounts
  <2>7. Mapped' = KeptMapped \cup {h}
    BY <1>m, <1>n, <2>3, <2>5
  <2>8. Ordered(older', Mapped')
    BY <1>o, <2>4, <2>7, OrderedAppend
  <2>9. \A g \in Hosts : Dyn(table', g) <=> g = h \/ Dyn(KeptTable, g)
    BY <1>m, <2>3, <2>4, <2>5 DEF Dyn
  <2>10. \A g \in Hosts : Dyn(table', g) => table'[g].ext \in used'
    BY <1>k, <2>3, <2>4, <2>5, <2>9 DEF Accounts
  <2>11. \A f, g \in Hosts :
           Dyn(table', f) /\ Dyn(table', g) /\ table'[f].ext = table'[g].ext => f = g
    BY <1>k, <2>1, <2>3, <2>5, <2>9 DEF Accounts
  <2>12. \A g \in Hosts : Sta(table', g) => <<g, table'[g].ext>> \in StaticPairs
    BY <1>k, <2>3, <2>5 DEF Accounts, Sta
  <2>13. Accounts(table', used', PoolAddrs)
    BY <1>k, <2>1, <2>4, <2>6, <2>10, <2>11, <2>12 DEF Accounts
  <2>14. poolOut' \in PoolOutcome
    BY <2>2, <2>4 DEF PoolOutcome
  <2> QED  BY <1>c, <2>4, <2>8, <2>13, <2>14
<1>3. ASSUME NEW h \in Hosts, PoolEgressDropped(h) PROVE PoolIInv'
  <2>1. poolOut' \in PoolOutcome
    BY <1>3 DEF PoolEgressDropped, PoolOutcome
  <2> QED  BY <1>3, <1>c, <1>k, <1>m, <1>n, <1>o, <2>1 DEF PoolEgressDropped
<1>4. ASSUME NEW e \in Externals, PoolIngressKnown(e) PROVE PoolIInv'
  <2> DEFINE h == FirstMatch(e)
  <2>1. Matches(e) \subseteq KeptMapped /\ KeptMapped \subseteq Hosts
    BY <1>m DEF Matches
  <2>2. h \in Matches(e)
    <3>1. Matches(e) \in SUBSET Mapped /\ Matches(e) # {}
      BY <1>4, <2>1 DEF PoolIngressKnown, KeptMapped
    <3>2. \E x \in Matches(e) : \A g \in Matches(e) \ {x} : <<x, g>> \in older
      BY <1>i, <3>1 DEF Ordered
    <3> QED  BY <3>2 DEF FirstMatch
  <2>3. h \in Hosts /\ KeptTable[h] # Unmapped
    BY <1>m, <2>1, <2>2
  <2> HIDE DEF h
  <2>4. table' = Touched(KeptTable, h) /\ poolOut' = [kind |-> "delivered", host |-> h, ext |-> e]
    BY <1>4 DEF PoolIngressKnown, h
  <2>5. Accounts(table', KeptUsed, PoolAddrs) /\ Mapped' = KeptMapped
    BY <1>k, <1>m, <1>n, <2>3, <2>4, TouchedAccounts
  <2>6. poolOut' \in PoolOutcome
    BY <2>3, <2>4 DEF PoolOutcome
  <2> QED  BY <1>4, <1>c, <1>o, <2>5, <2>6 DEF PoolIngressKnown
<1>5. ASSUME NEW e \in Externals, PoolIngressUnknown(e) PROVE PoolIInv'
  <2>1. poolOut' \in PoolOutcome
    BY <1>5 DEF PoolIngressUnknown, PoolOutcome
  <2> QED  BY <1>5, <1>c, <1>k, <1>m, <1>n, <1>o, <2>1 DEF PoolIngressUnknown

<1>6. ASSUME NEW h \in Hosts, Release(h) PROVE PoolIInv'
  <2>1. /\ h \in Mapped
        /\ table' = [table EXCEPT ![h] = Unmapped]
        /\ older' = OlderWithout({h})
        /\ used' = IF table[h].kind = "dynamic" THEN used \ {table[h].ext} ELSE used
        /\ poolOut' = PoolQuiet /\ dynamic' = dynamic /\ pool' = pool
    BY <1>6 DEF Release
  <2>2. \A g \in Hosts : table'[g] = IF g = h THEN Unmapped ELSE table[g]
    BY <1>i, <2>1 DEF Accounts
  <2>3. Mapped' = Mapped \ {h}
    BY <1>n, <2>2 DEF Mapped
  <2>4. Ordered(older', Mapped')
    BY <2>1, <2>3, OrderedWithout
  <2>5. \A g \in Hosts : Dyn(table', g) => table'[g].ext \in used'
    <3> SUFFICES ASSUME NEW g \in Hosts, Dyn(table', g) PROVE table[g].ext \in used'
      BY <2>2 DEF Dyn
    <3>1. g # h /\ Dyn(table, g) /\ table[g].ext \in used
      BY <1>i, <2>2 DEF Dyn, Accounts
    <3>2. CASE table[h].kind = "dynamic"
      <4>1. Dyn(table, h)
        BY <2>1, <3>2 DEF Mapped, Dyn
      <4>2. table[g].ext # table[h].ext
        BY <1>i, <3>1, <4>1 DEF Accounts
      <4> QED  BY <2>1, <3>1, <3>2, <4>2
    <3>3. CASE table[h].kind # "dynamic"
      BY <2>1, <3>1, <3>3
    <3> QED  BY <3>2, <3>3
  <2>6. /\ table' \in [Hosts -> PoolMapping \cup {Unmapped}]
        /\ used' \subseteq PoolAddrs
    BY <1>i, <2>1 DEF Accounts
  <2>7. Accounts(table', used', PoolAddrs)
    BY <1>i, <2>2, <2>5, <2>6 DEF Accounts, Dyn, Sta
  <2> QED  BY <1>c, <1>q, <2>1, <2>4, <2>7
<1>7. ASSUME NEW st \in StaticPairs, AddStaticMapping(st[1], st[2]) PROVE PoolIInv'
  <2> DEFINE h == st[1]
             mp == [ext |-> st[2], kind |-> "static", idle |-> 0]
  <2>1. h \in Hosts /\ st = <<h, mp.ext>> /\ mp \in PoolMapping /\ mp.kind = "static"
    BY PoolAssumption DEF PoolMapping
  <2>2. mp # Unmapped
    BY <2>1, PoolAssumption
  <2>3. /\ table' = [table EXCEPT ![h] = mp]
        /\ older' = IF h \in Mapped THEN older ELSE AppendTo(older, Mapped, h)
        /\ poolOut' = PoolQuiet /\ dynamic' = dynamic /\ pool' = pool /\ used' = used
    BY <1>7 DEF AddStaticMapping
  <2> HIDE DEF h, mp
  <2>4. \A g \in Hosts : table'[g] = IF g = h THEN mp ELSE table[g]
    BY <1>i, <2>3 DEF Accounts
  <2>5. Mapped' = Mapped \cup {h}
    BY <1>n, <2>1, <2>2, <2>4 DEF Mapped
  <2>6. Ordered(older', Mapped')
    <3>1. CASE h \in Mapped
      <4>1. Mapped' = Mapped /\ older' = older
        BY <2>3, <2>5, <3>1
      <4> QED  BY <1>i, <4>1
    <3>2. CASE h \notin Mapped
      BY <1>i, <2>3, <2>5, <3>2, OrderedAppend
    <3> QED  BY <3>1, <3>2
  <2>7. table' \in [Hosts -> PoolMapping \cup {Unmapped}]
    BY <1>i, <2>1, <2>3 DEF Accounts
  <2>8. Accounts(table', used', PoolAddrs)
    BY <1>i, <2>1, <2>3, <2>4, <2>7 DEF Accounts, Dyn, Sta
  <2> QED  BY <1>c, <1>q, <2>3, <2>6, <2>8
<1>8. ASSUME NEW a \in PoolCandidates, AddPoolAddress(a) PROVE PoolIInv'
  <2>1. pool' = Append(pool, a) /\ poolOut' = PoolQuiet
        /\ UNCHANGED <<dynamic, table, older, used>>
    BY <1>8 DEF AddPoolAddress
  <2>2. pool' \in Seq(PoolCandidates)
    BY <1>i, <2>1
  <2>3. PoolAddrs \subseteq PoolAddrs' /\ PoolAddrs' \subseteq PoolCandidates
    BY <1>i, <2>1, <2>2 DEF PoolAddrs
  <2>4. Accounts(table', used', PoolAddrs')
    BY <1>i, <2>1, <2>3 DEF Accounts
  <2>5. Mapped' = Mapped
    BY <2>1, <1>n DEF Mapped
  <2> QED  BY <1>i, <1>q, <2>1, <2>2, <2>4, <2>5 DEF PoolIInv
<1>9. ASSUME PoolClear PROVE PoolIInv'
  <2>1. Mapped' = {}
    BY <1>9, <1>n DEF PoolClear
  <2>2. Accounts(table', used', PoolAddrs)
    BY <1>9, <1>i DEF PoolClear, Accounts, Dyn, Sta
  <2>3. Ordered(older', Mapped')
    BY <1>9, <2>1 DEF PoolClear, Ordered
  <2> QED  BY <1>9, <1>c, <1>q, <2>2, <2>3 DEF PoolClear
<1>10. ASSUME PoolTick PROVE PoolIInv'
  <2> DEFINE aged(h) == IF h \in DynamicHosts /\ table[h].idle <= PoolIdleTimeout
                        THEN [table[h] EXCEPT !.idle = @ + 1] ELSE table[h]
  <2>1. ASSUME NEW h \in Hosts
        PROVE  /\ aged(h) \in PoolMapping \cup {Unmapped}
               /\ aged(h) # Unmapped <=> table[h] # Unmapped
               /\ table[h] # Unmapped => aged(h).ext = table[h].ext /\ aged(h).kind = table[h].kind
    <3>1. CASE table[h] = Unmapped
      BY <3>1 DEF DynamicHosts, Mapped
    <3>2. CASE table[h] # Unmapped
      <4>1. table[h] \in PoolMapping
        BY <1>i, <3>2 DEF Accounts
      <4>2. aged(h) \in PoolMapping /\ aged(h).ext = table[h].ext /\ aged(h).kind = table[h].kind
        BY <4>1, PoolAssumption DEF PoolMapping
      <4> QED  BY <3>2, <4>2, PoolAssumption
    <3> QED  BY <3>1, <3>2
  <2>2. table' = [h \in Hosts |-> aged(h)] /\ used' = used /\ older' = older
    BY <1>10 DEF PoolTick
  <2> HIDE DEF aged
  <2>3. Mapped' = Mapped
    BY <1>n, <2>1, <2>2 DEF Mapped
  <2>4. \A h \in Hosts : (Dyn(table', h) <=> Dyn(table, h)) /\ (Sta(table', h) <=> Sta(table, h))
    BY <2>1, <2>2 DEF Dyn, Sta
  <2>5. table' \in [Hosts -> PoolMapping \cup {Unmapped}]
    BY <2>1, <2>2
  <2>6. \A h \in Hosts : table[h] # Unmapped => table'[h].ext = table[h].ext
    BY <2>1, <2>2
  <2>7. Accounts(table', used', PoolAddrs)
    BY <1>i, <2>2, <2>4, <2>5, <2>6 DEF Accounts, Dyn, Sta
  <2> QED  BY <1>10, <1>c, <1>i, <1>q, <2>2, <2>3, <2>7 DEF PoolTick
<1>11. CASE UNCHANGED poolVars
  <2>1. Mapped' = Mapped
    BY <1>11 DEF poolVars, Mapped
  <2> QED  BY <1>11, <1>c, <1>i, <2>1 DEF poolVars
<1> QED
  BY <1>1, <1>2, <1>3, <1>4, <1>5, <1>6, <1>7, <1>8, <1>9, <1>10, <1>11
  DEF PoolNext, PoolEgress, PoolIngress

--------------------------------------------------------------------------------
(* The gateway as a whole: each step is a step of one table and leaves the  *)
(* other alone.                                                             *)
IInv == mode \in {"pat", "host"} /\ PatIInv /\ PoolIInv /\ DroppedOnlyWhenFull

LEMMA NextSplits == [Next]_vars => [PatNext]_patVars /\ [PoolNext]_poolVars
BY DEF Next, PatStep, HostStep, vars

LEMMA GatewayInvariant == Spec => []IInv
<1>1. Init => IInv
  <2>1. PatInit => DroppedOnlyWhenFull
    BY DEF PatInit, Quiet, DroppedOnlyWhenFull
  <2> QED  BY <2>1, PatInitEstablishes, PoolInitEstablishes DEF Init, IInv
<1>2. IInv /\ [Next]_vars => IInv'
  <2> SUFFICES ASSUME IInv, [Next]_vars PROVE IInv'
    OBVIOUS
  <2>1. [PatNext]_patVars /\ [PoolNext]_poolVars
    BY NextSplits
  <2>2. mode' \in {"pat", "host"}
    BY DEF IInv, Next, PatStep, HostStep, vars
  <2> QED
    BY <2>1, <2>2, PatNextPreserves, PoolNextPreserves, DroppedOnlyWhenFullStep DEF IInv
<1> QED
  BY <1>1, <1>2, PTL DEF Spec

(* Type correctness of the gateway's state (NATGateway.__init__ and every   *)
(* method that assigns to it).                                              *)
THEOREM TypeCorrect == Spec => []TypeOK
<1>1. IInv => TypeOK
  BY PoolIInvImplies DEF IInv, TypeOK, PatIInv
<1> QED
  BY <1>1, GatewayInvariant, PTL

(* _pat_mappings and _pat_reverse stay inverse to each other through        *)
(* egress, expiry, release and clear.                                       *)
THEOREM PatTablesInverse == Spec => []PatBijection
<1>1. IInv => PatBijection
  BY DEF IInv, PatIInv
<1> QED
  BY <1>1, GatewayInvariant, PTL

(* _egress_pat refuses a packet only if no address is set or every port is  *)
(* held by another session that is not idle.                                *)
THEOREM RefusedOnlyWhenFull == Spec => []DroppedOnlyWhenFull
<1>1. IInv => DroppedOnlyWhenFull
  BY DEF IInv
<1> QED
  BY <1>1, GatewayInvariant, PTL

(* _pool_used covers every dynamic mapping, and no two dynamic mappings     *)
(* share an address, through static overrides too.                          *)
THEOREM DynamicAddressesAccounted == Spec => []DynamicAccounted
<1>1. IInv => DynamicAccounted
  BY PoolIInvImplies DEF IInv
<1> QED
  BY <1>1, GatewayInvariant, PTL

(* With statics kept apart, no two hosts share an external address.         *)
THEOREM TranslationOneToOne == Spec => []OneToOne
<1>1. IInv => OneToOne
  BY PoolIInvImplies DEF IInv
<1> QED
  BY <1>1, GatewayInvariant, PTL

(* PAT implements the exclusive binding of sessions to ports.               *)
THEOREM PatImplementsBinding == Spec => PatRefinesBinding
<1>1. Init => Binding!Init
  BY BindingInit DEF Init
<1>2. IInv /\ [Next]_vars => [Binding!Next]_HeldPort
  BY NextSplits, BindingStep DEF IInv
<1> QED
  BY <1>1, <1>2, GatewayInvariant, PTL DEF Spec, PatRefinesBinding, Binding!Spec

(* What was free ever since a port was handed out comes sooner than that     *)
(* port in the scan that is next.                                            *)
RoundIInv ==
  /\ untouched \in [Ports -> SUBSET Ports]
  /\ \A p \in Ports : \A q \in untouched[p] : rev[q] = NoSession /\ Sooner(nextPort, q, p)

(* The scan goes on behind the port it found.                                *)
LEMMA ScanMovesOn ==
  ASSUME NEW n \in Ports, NEW a \in Ports, NEW p \in Ports, NEW q \in Ports, q # a,
         ~Sooner(n, q, a), p = a \/ Sooner(n, q, p), p # q
  PROVE  Sooner(PortAfter(a), q, p)
BY PortAssumption DEF Sooner, PortAfter, Ports

LEMMA RoundStart == RoundInit => RoundIInv
BY DEF RoundInit, RoundIInv

LEMMA HandedOutIsOne ==
  ASSUME NEW s \in Sessions, EgressNew(s)
  PROVE  HandedOut = {AllocPort} /\ patOut'.port = AllocPort
<1>1. \A t \in Sessions : EgressNew(t) => patOut'.port = AllocPort
  BY DEF EgressNew
<1> QED  BY <1>1 DEF HandedOut

LEMMA RoundKeeps ==
  ASSUME IInv, RoundIInv, [RoundNext]_roundVars
  PROVE  RoundIInv'
<1>t. /\ nextPort \in Ports /\ KeptRev = [p \in Ports |-> KeptRev[p]]
      /\ untouched \in [Ports -> SUBSET Ports]
  BY DEF IInv, PatIInv, PatTypeOK, KeptRev, RoundIInv
<1>1. ASSUME PatWork, untouched' = StillUntouched PROVE RoundIInv'
  <2>1. /\ untouched' \in [Ports -> SUBSET Ports]
        /\ \A p \in Ports : \A q \in untouched'[p] : rev'[q] = NoSession /\ q \in Ports
    BY <1>1, <1>t DEF StillUntouched
  <2>2. ASSUME NEW s \in Sessions, EgressNew(s), NEW p \in Ports, NEW q \in untouched'[p]
        PROVE  Sooner(nextPort', q, p)
    <3> DEFINE a == AllocPort
    <3>1. a \in FreePorts /\ a \in Ports /\ KeptRev[a] = NoSession /\ FreePorts # {}
      BY <1>t, <2>2, AllocPortFree DEF EgressNew, FreePorts
    <3>2. HandedOut = {a}
      BY <2>2, HandedOutIsOne
    <3>3. nextPort' = PortAfter(a) /\ rev' = [KeptRev EXCEPT ![a] = s] /\ s # NoSession
      BY <2>2, NoneAssumption DEF EgressNew
    <3>4. q \in Ports /\ rev'[q] = NoSession
      BY <2>1, <2>2
    <3>5. IF p = a THEN q # a ELSE q \in untouched[p]
      BY <1>1, <2>2, <3>2 DEF StillUntouched
    <3>6. \A r \in Ports : Sooner(nextPort, r, a) => r \notin FreePorts
      BY <1>t, <3>1, AllocPortFirst
    <3> HIDE DEF a
    <3>7. q # a /\ KeptRev[q] = NoSession
      BY <1>t, <3>1, <3>3, <3>4
    <3>8. ~Sooner(nextPort, q, a)
      BY <3>4, <3>6, <3>7 DEF FreePorts
    <3>9. p = a \/ Sooner(nextPort, q, p)
      BY <3>5 DEF RoundIInv
    <3>10. p # q
      BY <1>t, <3>4, <3>5, <3>9, <3>1 DEF Sooner, Ports
    <3> QED  BY <1>t, <3>1, <3>3, <3>4, <3>7, <3>8, <3>9, <3>10, ScanMovesOn
  <2>3. ASSUME \A s \in Sessions : ~EgressNew(s), NEW p \in Ports, NEW q \in untouched'[p]
        PROVE  Sooner(nextPort', q, p)
    <3>1. HandedOut = {}
      BY <2>3 DEF HandedOut
    <3>2. q \in untouched[p]
      BY <1>1, <2>3, <3>1 DEF StillUntouched
    <3>3. nextPort' = nextPort
      BY <1>1, <2>3
         DEF PatWork, PatEgress, EgressUnconfigured, EgressKnown, EgressExhausted, PatDropOut,
             PatIngress, IngressKnown, IngressUnknown, ReleasePat, SetPatAddress, PatTick
    <3> QED  BY <2>3, <3>2, <3>3 DEF RoundIInv
  <2> QED  BY <2>1, <2>2, <2>3 DEF RoundIInv
<1>2. CASE untouched' = [p \in Ports |-> {}]
  BY <1>2 DEF RoundIInv
<1>3. CASE HostStep /\ UNCHANGED untouched
  BY <1>3 DEF RoundIInv, HostStep, patVars
<1>4. CASE UNCHANGED roundVars
  BY <1>4 DEF RoundIInv, roundVars, vars, patVars
<1> QED  BY <1>1, <1>2, <1>3, <1>4 DEF RoundNext

(* For every range of ports and all orders of packets, expiry, release and   *)
(* reconfiguration: a port is handed out again only after every other port   *)
(* was held at some moment since it was handed out before (_alloc_pat_port).  *)
THEOREM PortsTakeTurns == RoundSpec => PortsGoRound
<1> DEFINE Turn == \A s \in Sessions : EgressNew(s) => untouched[patOut'.port] = {}
<1>1. IInv /\ RoundIInv => Turn
  <2> SUFFICES ASSUME IInv, RoundIInv, NEW s \in Sessions, EgressNew(s),
                      NEW q \in untouched[patOut'.port]
               PROVE  FALSE
    OBVIOUS
  <2>1. patOut'.port = AllocPort /\ nextPort \in Ports /\ FreePorts # {}
    BY HandedOutIsOne DEF EgressNew, IInv, PatIInv, PatTypeOK
  <2>2. AllocPort \in Ports
    BY <2>1, AllocPortFree DEF FreePorts
  <2>3. q \in Ports /\ rev[q] = NoSession /\ Sooner(nextPort, q, AllocPort)
    BY <2>1, <2>2 DEF RoundIInv
  <2>4. KeptRev[q] = NoSession
    BY <2>3 DEF KeptRev
  <2> QED  BY <2>1, <2>3, <2>4, AllocPortFirst DEF FreePorts
<1>2. RoundSpec => Spec
  <2>1. RoundInit => Init
    BY DEF RoundInit
  <2>2. [RoundNext]_roundVars => [Next]_vars
    BY DEF RoundNext, roundVars, Next, PatStep, PatNext
  <2> QED  BY <2>1, <2>2, PTL DEF RoundSpec, Spec
<1>3. RoundSpec => []RoundIInv
  BY <1>2, RoundStart, RoundKeeps, GatewayInvariant, PTL DEF RoundSpec
<1>4. IInv /\ RoundIInv => [Turn]_patVars
  BY <1>1
<1> QED
  BY <1>2, <1>3, <1>4, GatewayInvariant, PTL DEF PortsGoRound

--------------------------------------------------------------------------------
(* The carrier's translations.  Binding i was made at turn i - 1 of the pool *)
(* and of the ports, whoever asked: that alone says when an outside address, *)
(* or a port, comes back.                                                    *)
HostOfTurn(i) == (i - 1) % PoolSize

PortCount == LastPort - FirstPort + 1
PortOfTurn(i) == FirstPort + ((i - 1) % PortCount)

Made(b, i) ==
  /\ b.inside \in Insiders /\ ~Refused(b.inside)
  /\ b.outside = [b.inside EXCEPT !.host = HostOfTurn(i)]
  /\ b.port = PortOfTurn(i)

CgnatIInv ==
  /\ bindings \in Seq([inside : Insiders, outside : [prefix : Nat, host : Nat], port : Nat])
  /\ poolIndex = Len(bindings)
  /\ nextOutside = PortOfTurn(Len(bindings) + 1)
  /\ \A i \in DOMAIN bindings : Made(bindings[i], i)

LEMMA RemainderSteps ==
  ASSUME NEW M \in Nat \ {0}, NEW n \in Nat
  PROVE  /\ n % M \in 0 .. M - 1 /\ 0 % M = 0
         /\ (n + 1) % M = IF (n % M) + 1 = M THEN 0 ELSE (n % M) + 1
<1> DEFINE q == n \div M
           r == n % M
<1>1. q \in Nat /\ n = q * M + r /\ r \in 0 .. M - 1 /\ 0 % M = 0
  BY SMTT(30)
<1> HIDE DEF q, r
<1>2. q * M \in Nat /\ (q + 1) * M = q * M + M /\ q + 1 \in Nat
  BY <1>1
<1>3. \A a \in Nat, b \in 0 .. M - 1 : (a * M + b) % M = b
  BY SMTT(30)
<1>4. CASE r + 1 = M
  <2>1. n + 1 = (q + 1) * M + 0
    BY <1>1, <1>2, <1>4
  <2> QED  BY <1>1, <1>2, <1>3, <1>4, <2>1 DEF r
<1>5. CASE r + 1 # M
  <2>1. n + 1 = q * M + (r + 1) /\ r + 1 \in 0 .. M - 1
    BY <1>1, <1>2, <1>5
  <2> QED  BY <1>1, <1>3, <1>5, <2>1 DEF r
<1> QED  BY <1>4, <1>5

LEMMA SameRemainder ==
  ASSUME NEW M \in Nat \ {0}, NEW m \in Nat, NEW n \in Nat, m <= n, m % M = n % M
  PROVE  (n - m) % M = 0 /\ (m < n => n - m >= M)
<1> DEFINE q == n \div M
           r == m \div M
<1>1. q \in Nat /\ r \in Nat /\ n = q * M + (n % M) /\ m = r * M + (m % M)
  BY SMTT(30)
<1>2. m % M \in 0 .. M - 1
  BY RemainderSteps
<1> HIDE DEF q, r
<1>3. r <= q
  <2>1. \A a, b \in Nat : a < b => a * M + M <= b * M
    BY SMTT(30)
  <2> QED  BY <1>1, <1>2, <2>1
<1>4. PICK k \in Nat : q = r + k
  BY <1>1, <1>3
<1>5. n - m = k * M
  <2>1. q * M = r * M + k * M
    BY <1>1, <1>4
  <2>2. q * M \in Nat /\ r * M \in Nat /\ k * M \in Nat
    BY <1>1
  <2> QED  BY <1>1, <1>2, <2>1, <2>2
<1>6. (k * M) % M = 0 /\ (k # 0 => k * M >= M) /\ (k = 0 => k * M = 0)
  BY SMTT(30)
<1> QED  BY <1>5, <1>6

(* The last position that passes is the one the reverse lookup takes.        *)
LEMMA LatestIsFound ==
  ASSUME NEW addr, bindings \in Seq([inside : Insiders, outside : [prefix : Nat, host : Nat], port : Nat]),
         NEW i \in DOMAIN bindings, bindings[i].outside = addr,
         \A j \in DOMAIN bindings : bindings[j].outside = addr => j <= i
  PROVE  ReverseTranslate(addr) = bindings[i].inside
<1> DEFINE I == {j \in 1 .. Len(bindings) : bindings[j].outside = addr}
<1>1. i \in I /\ I \subseteq Nat /\ \A j \in I : i >= j
  BY SMTT(30)
<1>2. Max(I) = i
  <2>1. \A x \in I : (\A y \in I : x >= y) => x = i
    BY <1>1, SMTT(30)
  <2> QED  BY <1>1, <2>1 DEF Max
<1>3. SelectLastInSeq(bindings, LAMBDA b : b.outside = addr) = i
  BY <1>1, <1>2 DEF SelectLastInSeq
<1> QED
  BY <1>1, <1>3 DEF ReverseTranslate

LEMMA CgnatKeeps == CgnatIInv /\ [CgnatNext]_cgnatVars => CgnatIInv'
<1> SUFFICES ASSUME CgnatIInv, [CgnatNext]_cgnatVars PROVE CgnatIInv'
  OBVIOUS
<1> DEFINE T == [inside : Insiders, outside : [prefix : Nat, host : Nat], port : Nat]
<1>i. /\ bindings \in Seq(T) /\ poolIndex = Len(bindings) /\ Len(bindings) \in Nat
      /\ nextOutside = PortOfTurn(Len(bindings) + 1)
      /\ \A i \in DOMAIN bindings : Made(bindings[i], i)
      /\ DOMAIN bindings = 1 .. Len(bindings)
  BY DEF CgnatIInv
<1>n. PortCount \in Nat \ {0}
  BY CgnatAssumption DEF PortCount
<1>1. ASSUME NEW addr \in Insiders, Translate(addr) PROVE CgnatIInv'
  <2> DEFINE k == Len(bindings)
             b == [inside |-> addr, outside |-> Translated(addr), port |-> nextOutside]
  <2>1. HostOfTurn(k + 1) = NextOutside /\ NextOutside \in Nat
    BY <1>i, CgnatAssumption, RemainderSteps DEF HostOfTurn, NextOutside
  <2>2. PortOfTurn(k + 1) \in Nat /\ PortOfTurn(k + 2) = PortFollowing
    <3>1. k % PortCount \in 0 .. PortCount - 1
          /\ (k + 1) % PortCount = IF (k % PortCount) + 1 = PortCount THEN 0 ELSE (k % PortCount) + 1
      BY <1>i, <1>n, RemainderSteps
    <3>2. (k + 1) - 1 = k /\ (k + 2) - 1 = k + 1
      BY <1>i
    <3>3. PortOfTurn(k + 1) = FirstPort + (k % PortCount) /\ PortOfTurn(k + 2) = FirstPort + ((k + 1) % PortCount)
      BY <3>2 DEF PortOfTurn
    <3> DEFINE r == k % PortCount
               t == (k + 1) % PortCount
    <3> HIDE DEF r, t
    <3>4. /\ r \in 0 .. PortCount - 1 /\ t = IF r + 1 = PortCount THEN 0 ELSE r + 1
          /\ nextOutside = FirstPort + r /\ PortOfTurn(k + 2) = FirstPort + t
          /\ PortOfTurn(k + 1) = FirstPort + r
      BY <1>i, <3>1, <3>3 DEF r, t
    <3> QED  BY <3>4, CgnatAssumption DEF PortFollowing, PortCount
  <2>3. addr \in [prefix : Nat, host : Nat]
    BY CgnatAssumption
  <2>4. Translated(addr) = [addr EXCEPT !.host = HostOfTurn(k + 1)] /\ Translated(addr) \in [prefix : Nat, host : Nat]
    BY <2>1, <2>3 DEF Translated
  <2>5. b \in T /\ Made(b, k + 1)
    BY <1>1, <1>i, <2>2, <2>4 DEF Translate, Made
  <2>6. bindings' = Append(bindings, b) /\ asn' = asn /\ poolIndex' = poolIndex + 1 /\ nextOutside' = PortFollowing
    BY <1>1 DEF Translate
  <2> HIDE DEF b, T
  <2>7. /\ bindings' \in Seq(T) /\ Len(bindings') = k + 1 /\ DOMAIN bindings' = 1 .. k + 1
        /\ bindings'[k + 1] = b /\ \A i \in DOMAIN bindings : bindings'[i] = bindings[i]
    BY <1>i, <2>5, <2>6
  <2>8. \A i \in DOMAIN bindings' : Made(bindings'[i], i)
    <3>1. \A i \in DOMAIN bindings' : i = k + 1 \/ i \in DOMAIN bindings
      BY <1>i, <2>7
    <3> QED  BY <1>i, <2>5, <2>7, <3>1
  <2>9. (\A i \in DOMAIN bindings : Made(bindings[i], i))'
    BY <2>6, <2>8 DEF Made, Refused, HostOfTurn, PortOfTurn, PortCount
  <2>10. PortOfTurn(Len(bindings) + 1)' = PortFollowing
    <3>1. (k + 1) + 1 = k + 2
      BY <1>i
    <3> QED  BY <2>2, <2>7, <3>1 DEF PortOfTurn, PortCount
  <2> QED  BY <1>i, <2>6, <2>7, <2>9, <2>10 DEF CgnatIInv, T
<1>2. ASSUME CgnatFlush PROVE CgnatIInv'
  <2>1. FirstPort + (0 % PortCount) = FirstPort
    BY <1>n, CgnatAssumption, RemainderSteps
  <2>2. bindings' = << >> /\ poolIndex' = 0 /\ nextOutside' = FirstPort
    BY <1>2 DEF CgnatFlush
  <2>3. PortOfTurn(Len(bindings) + 1)' = FirstPort
    BY <2>1, <2>2 DEF PortOfTurn, PortCount
  <2> QED  BY <2>2, <2>3 DEF CgnatIInv
<1>3. ASSUME UNCHANGED cgnatVars PROVE CgnatIInv'
  BY <1>3 DEF cgnatVars, CgnatIInv, Made, Refused, HostOfTurn, PortOfTurn, PortCount
<1> QED  BY <1>1, <1>2, <1>3 DEF CgnatNext, TranslateRefused

LEMMA CgnatStarts == CgnatInit => CgnatIInv
<1> SUFFICES ASSUME CgnatInit PROVE CgnatIInv
  OBVIOUS
<1>1. bindings = << >> /\ poolIndex = 0 /\ nextOutside = FirstPort
  BY DEF CgnatInit
<1>2. PortCount \in Nat \ {0}
  BY CgnatAssumption DEF PortCount
<1>3. PortOfTurn(Len(bindings) + 1) = FirstPort
  BY <1>1, <1>2, CgnatAssumption, RemainderSteps DEF PortOfTurn
<1> QED  BY <1>1, <1>3 DEF CgnatIInv

LEMMA CgnatInvariant == CgnatSpec => []CgnatIInv
BY CgnatStarts, CgnatKeeps, PTL DEF CgnatSpec

LEMMA TurnsTell == CgnatIInv => ReachedForOneRound
<1> SUFFICES ASSUME CgnatIInv, NEW i \in DOMAIN bindings
             PROVE  /\ Len(bindings) - i < PoolSize => ReverseTranslate(bindings[i].outside) = bindings[i].inside
                    /\ ValidTranslation(bindings[i].inside, bindings[i].outside)
                    /\ \A j \in 1 .. i - 1 :
                         /\ bindings[j].outside.host = bindings[i].outside.host => (i - j) % PoolSize = 0
                         /\ bindings[j].port = bindings[i].port => (i - j) % (LastPort - FirstPort + 1) = 0
  BY DEF ReachedForOneRound
<1>i. /\ bindings \in Seq([inside : Insiders, outside : [prefix : Nat, host : Nat], port : Nat])
      /\ \A k \in DOMAIN bindings : Made(bindings[k], k)
      /\ DOMAIN bindings = 1 .. Len(bindings) /\ Len(bindings) \in Nat
  BY DEF CgnatIInv
<1>j. /\ i \in Nat \ {0} /\ i <= Len(bindings)
      /\ \A j \in Nat \ {0} : j <= i => j \in DOMAIN bindings
  BY <1>i
<1>n. PortCount \in Nat \ {0} /\ PoolSize \in Nat \ {0}
  BY CgnatAssumption DEF PortCount
<1>1. \A k \in DOMAIN bindings :
        /\ bindings[k].outside.host = (k - 1) % PoolSize
        /\ bindings[k].port = FirstPort + ((k - 1) % PortCount)
        /\ bindings[k].outside.prefix = bindings[k].inside.prefix
        /\ k - 1 \in Nat
  <2> SUFFICES ASSUME NEW k \in DOMAIN bindings
               PROVE  /\ bindings[k].outside.host = (k - 1) % PoolSize
                      /\ bindings[k].port = FirstPort + ((k - 1) % PortCount)
                      /\ bindings[k].outside.prefix = bindings[k].inside.prefix
                      /\ k - 1 \in Nat
    OBVIOUS
  <2>1. bindings[k].inside \in [prefix : Nat, host : Nat]
    BY <1>i, CgnatAssumption DEF Made
  <2>2. bindings[k].outside = [bindings[k].inside EXCEPT !.host = HostOfTurn(k)] /\ bindings[k].port = PortOfTurn(k)
    BY <1>i DEF Made
  <2>3. k - 1 \in Nat
    BY <1>i
  <2> QED  BY <2>1, <2>2, <2>3 DEF HostOfTurn, PortOfTurn
<1>2. ASSUME NEW j \in 1 .. i - 1
      PROVE  /\ bindings[j].outside.host = bindings[i].outside.host => (i - j) % PoolSize = 0
             /\ bindings[j].port = bindings[i].port => (i - j) % PortCount = 0
  <2>1. j \in DOMAIN bindings /\ j - 1 <= i - 1 /\ j - 1 \in Nat /\ i - 1 \in Nat
        /\ (i - 1) - (j - 1) = i - j
    <3>1. j \in Nat \ {0} /\ j <= i - 1
      BY <1>j
    <3> QED  BY <1>j, <3>1
  <2>2. (j - 1) % PoolSize = (i - 1) % PoolSize => (i - j) % PoolSize = 0
    BY <1>n, <2>1, SameRemainder
  <2>3. (j - 1) % PortCount = (i - 1) % PortCount => (i - j) % PortCount = 0
    BY <1>n, <2>1, SameRemainder
  <2>4. (j - 1) % PortCount \in Nat /\ (i - 1) % PortCount \in Nat
    <3>1. \A n \in Nat : n % PortCount \in 0 .. PortCount - 1
      BY <1>n, RemainderSteps
    <3>2. 0 .. PortCount - 1 \subseteq Nat
      BY <1>n
    <3> QED  BY <2>1, <3>1, <3>2
  <2>5. FirstPort + ((j - 1) % PortCount) = FirstPort + ((i - 1) % PortCount)
          => (j - 1) % PortCount = (i - 1) % PortCount
    BY <2>4, CgnatAssumption
  <2> QED  BY <1>1, <2>1, <2>2, <2>3, <2>5
<1>3. ASSUME Len(bindings) - i < PoolSize
      PROVE  ReverseTranslate(bindings[i].outside) = bindings[i].inside
  <2>1. ASSUME NEW j \in DOMAIN bindings, bindings[j].outside = bindings[i].outside PROVE j <= i
    <3> SUFFICES ASSUME i < j PROVE FALSE
      BY <1>i
    <3>1. i - 1 \in Nat /\ j - 1 \in Nat /\ i - 1 < j - 1 /\ (j - 1) - (i - 1) < PoolSize
      <4> DEFINE n == Len(bindings)
      <4>1. j \in Nat \ {0} /\ j <= n /\ n \in Nat /\ i \in Nat \ {0} /\ n - i < PoolSize
        <5>1. DOMAIN bindings = 1 .. n /\ n \in Nat
          BY <1>i
        <5>2. n - i < PoolSize
          BY <1>3
        <5>3. i \in Nat \ {0}
          BY <1>j
        <5> HIDE DEF n
        <5>4. j \in Nat \ {0} /\ j <= n
          BY <5>1
        <5> QED  BY <5>1, <5>2, <5>3, <5>4
      <4> HIDE DEF n
      <4>2. \A x, y \in Nat \ {0} : x < y => x - 1 \in Nat /\ y - 1 \in Nat /\ x - 1 < y - 1 /\ (y - 1) - (x - 1) = y - x
        OBVIOUS
      <4>3. j - i < PoolSize
        BY <1>n, <4>1
      <4> QED  BY <4>1, <4>2, <4>3
    <3>2. (i - 1) % PoolSize = (j - 1) % PoolSize
      BY <1>1, <2>1
    <3>3. (j - 1) - (i - 1) >= PoolSize
      BY <1>n, <3>1, <3>2, SameRemainder
    <3> QED  BY <1>n, <3>1, <3>3
  <2> QED  BY <1>i, <2>1, LatestIsFound
<1>4. ValidTranslation(bindings[i].inside, bindings[i].outside)
  BY <1>1, <1>i DEF Made, Refused, ValidTranslation
<1> QED  BY <1>2, <1>3, <1>4 DEF PortCount

(* A device is found at its outside address until the pool has gone round,   *)
(* and addresses and ports come back only after whole rounds                 *)
(* (cgnat.py, translate and reverse_translate).                              *)
THEOREM ReachedInItsRound == CgnatSpec => []ReachedForOneRound
BY CgnatInvariant, TurnsTell, PTL

--------------------------------------------------------------------------------
(* North-south flows.  The table is a sequence of entries of known devices;  *)
(* the rest follows from what one call does to it.                           *)
FlowEntries ==
  [device : {k[1] : k \in FlowKeys}, port : {k[2] : k \in FlowKeys},
   external : Servers, outPort : OutPorts]

FlowIInv ==
  /\ records \in [DnsNames -> Servers \cup {Blocked}]
  /\ xlate \in Seq(FlowEntries)

LEMMA EarliestIs ==
  ASSUME NEW S, S \subseteq Nat, S # {}
  PROVE  /\ Earliest(S) \in S /\ \A j \in S : Earliest(S) <= j
         /\ \A i \in S : (\A j \in S : i <= j) => Earliest(S) = i
<1>1. \E i \in S : \A j \in S : i <= j
  BY MinOfNats
<1>2. Earliest(S) \in S /\ \A j \in S : Earliest(S) <= j
  BY <1>1 DEF Earliest
<1>3. \A i, j \in Nat : i <= j /\ j <= i => i = j
  OBVIOUS
<1> QED  BY <1>2, <1>3

(* What writing an entry makes of the table, and where its key is then.      *)
LEMMA EntryWritten ==
  ASSUME NEW e \in FlowEntries, xlate \in Seq(FlowEntries)
  PROVE  LET t == WithEntry(e)
             at == KeysAt(t, e.device, e.port)
         IN /\ t \in Seq(FlowEntries) /\ at # {} /\ at \subseteq DOMAIN t /\ t[Earliest(at)] = e
            /\ \/ t = Append(xlate, e)
               \/ \E i \in DOMAIN xlate :
                    /\ xlate[i].device = e.device /\ xlate[i].port = e.port
                    /\ t = [xlate EXCEPT ![i] = e]
<1> DEFINE t == WithEntry(e)
           at == KeysAt(t, e.device, e.port)
           before == KeysAt(xlate, e.device, e.port)
<1>1. before \subseteq DOMAIN xlate /\ DOMAIN xlate \subseteq Nat
  BY DEF KeysAt
<1>2. CASE before = {}
  <2>1. t = Append(xlate, e)
    BY <1>2 DEF WithEntry
  <2>2. /\ t \in Seq(FlowEntries) /\ DOMAIN t = 1 .. Len(xlate) + 1
        /\ t[Len(xlate) + 1] = e /\ \A i \in 1 .. Len(xlate) : t[i] = xlate[i]
    BY <2>1
  <2>3. at = {Len(xlate) + 1}
    <3>1. \A i \in 1 .. Len(xlate) : ~(xlate[i].device = e.device /\ xlate[i].port = e.port)
      BY <1>2 DEF KeysAt
    <3>2. \A i \in 1 .. Len(xlate) + 1 : i \in 1 .. Len(xlate) \/ i = Len(xlate) + 1
      OBVIOUS
    <3> QED  BY <2>2, <3>1, <3>2 DEF KeysAt
  <2>4. Earliest(at) = Len(xlate) + 1
    BY <2>3 DEF Earliest
  <2> QED  BY <2>1, <2>2, <2>3, <2>4
<1>3. CASE before # {}
  <2> DEFINE k == Earliest(before)
  <2>1. k \in before
    BY <1>1, <1>3, EarliestIs
  <2>2. t = [xlate EXCEPT ![k] = e]
    BY <1>3 DEF WithEntry
  <2> HIDE DEF k
  <2>3. k \in DOMAIN xlate /\ xlate[k].device = e.device /\ xlate[k].port = e.port
    BY <2>1 DEF KeysAt
  <2>4. /\ t \in Seq(FlowEntries) /\ DOMAIN t = DOMAIN xlate /\ t[k] = e
        /\ \A i \in DOMAIN xlate \ {k} : t[i] = xlate[i]
    BY <2>2, <2>3
  <2>5. at = before
    BY <2>3, <2>4 DEF KeysAt
  <2> QED  BY <2>1, <2>2, <2>3, <2>4, <2>5 DEF k, KeysAt
<1> QED  BY <1>2, <1>3

(* An entry at the end takes no replies from those before it.                *)
LEMMA AppendTakesNothing ==
  ASSUME NEW entries \in Seq(FlowEntries), NEW e \in FlowEntries, NEW s, NEW q,
         TranslateIngress(s, q, entries) # Blocked
  PROVE  TranslateIngress(s, q, Append(entries, e)) = TranslateIngress(s, q, entries)
<1> DEFINE t == Append(entries, e)
           at == {i \in DOMAIN entries : entries[i].external = s /\ entries[i].outPort = q}
           after == {i \in DOMAIN t : t[i].external = s /\ t[i].outPort = q}
<1>1. at # {} /\ at \subseteq Nat
  BY DEF TranslateIngress
<1>2. /\ DOMAIN t = 1 .. Len(entries) + 1 /\ DOMAIN entries = 1 .. Len(entries) /\ Len(entries) \in Nat
      /\ \A i \in DOMAIN entries : t[i] = entries[i]
  OBVIOUS
<1>3. at \subseteq after /\ after \subseteq at \cup {Len(entries) + 1} /\ after \subseteq Nat
  <2> HIDE DEF t
  <2>1. \A i \in 1 .. Len(entries) + 1 : i \in 1 .. Len(entries) \/ i = Len(entries) + 1
    BY <1>2
  <2>2. \A i \in 1 .. Len(entries) : i \in 1 .. Len(entries) + 1
    BY <1>2
  <2> QED  BY <1>2, <2>1, <2>2
<1>4. Earliest(at) \in at /\ \A j \in at : Earliest(at) <= j
  BY <1>1, EarliestIs
<1>5. Earliest(at) <= Len(entries) + 1
  BY <1>2, <1>4
<1>6. Earliest(at) \in after /\ \A j \in after : Earliest(at) <= j
  BY <1>3, <1>4, <1>5
<1>7. Earliest(after) = Earliest(at)
  BY <1>3, <1>6, EarliestIs
<1>8. TranslateIngress(s, q, entries) = entries[Earliest(at)].device
  BY <1>1 DEF TranslateIngress
<1>9. TranslateIngress(s, q, t) = t[Earliest(after)].device
  BY <1>6 DEF TranslateIngress
<1> QED  BY <1>2, <1>4, <1>7, <1>8, <1>9

(* What RepliesStay says of a step, in its two halves.                       *)
RepliesKept ==
  \A s \in Servers, q \in OutPorts :
    Receiver(s, q) # Blocked /\ Receiver(s, q)' # Receiver(s, q)
      => Rewritten \/ Len(xlate') < Len(xlate)

TripHome ==
  trip' # trip /\ trip'.device # Blocked =>
    /\ trip'.back # Blocked
    /\ \/ trip'.back = trip'.device
       \/ \E i, j \in DOMAIN xlate' :
            /\ i < j /\ xlate'[i].device = trip'.back /\ Same(xlate'[i], xlate'[j])
            /\ xlate'[j].device = trip'.device /\ xlate'[j].port = trip'.port

LEMMA WritingKeepsReplies ==
  ASSUME NEW e \in FlowEntries, xlate \in Seq(FlowEntries), xlate' = WithEntry(e)
  PROVE  RepliesKept /\ xlate' \in Seq(FlowEntries)
<1>1. /\ xlate' \in Seq(FlowEntries)
      /\ \/ xlate' = Append(xlate, e)
         \/ \E i \in DOMAIN xlate :
              /\ xlate[i].device = e.device /\ xlate[i].port = e.port
              /\ xlate' = [xlate EXCEPT ![i] = e]
  BY EntryWritten
<1>2. CASE xlate' = Append(xlate, e)
  BY <1>1, <1>2, AppendTakesNothing DEF RepliesKept, Receiver
<1>3. ASSUME NEW i \in DOMAIN xlate, xlate[i].device = e.device, xlate[i].port = e.port,
             xlate' = [xlate EXCEPT ![i] = e]
      PROVE  RepliesKept
  <2>1. CASE Same(e, xlate[i])
    <3>1. xlate[i] \in FlowEntries
      OBVIOUS
    <3>2. xlate[i] = e
      BY <1>3, <2>1, <3>1 DEF Same, FlowEntries
    <3>3. xlate' = xlate
      BY <1>3, <3>2
    <3> QED  BY <3>3 DEF RepliesKept, Receiver
  <2>2. CASE ~Same(e, xlate[i])
    <3>1. xlate'[i] = e /\ i \in DOMAIN xlate'
      BY <1>3
    <3> QED  BY <1>3, <2>2, <3>1 DEF Rewritten, RepliesKept
  <2> QED  BY <2>1, <2>2
<1> QED  BY <1>1, <1>2, <1>3

LEMMA TripsComeHome ==
  ASSUME FlowIInv, NEW n \in DnsNames, NEW k \in FlowKeys, NEW q \in OutPorts,
         RoundTrip(n, k[1], k[2], q)
  PROVE  TripHome
<1> DEFINE e == Entry(k[1], k[2], DnsLookup(n), q)
           t == WithEntry(e)
           at == KeysAt(t, e.device, e.port)
           j == Earliest(at)
           out == TranslateEgress(k[1], k[2], t)
           back == {i \in DOMAIN t : t[i].external = out /\ t[i].outPort = q}
           i0 == Earliest(back)
<1>1. e \in FlowEntries /\ e.device = k[1] /\ e.port = k[2] /\ e.outPort = q
  BY DEF FlowIInv, RoundTrip, DnsLookup, Entry, FlowEntries
<1>2. /\ xlate' = t
      /\ trip' = [device |-> k[1], port |-> k[2], out |-> out, back |-> TranslateIngress(out, q, t)]
  BY DEF RoundTrip
<1> HIDE DEF e
<1>3. t \in Seq(FlowEntries) /\ at # {} /\ at \subseteq DOMAIN t /\ t[j] = e
  BY <1>1, EntryWritten DEF FlowIInv
<1> HIDE DEF t
<1>4. j \in at /\ j \in DOMAIN t /\ DOMAIN t \subseteq Nat
  <2>1. DOMAIN t \subseteq Nat
    BY <1>3
  <2>2. at \subseteq Nat
    BY <1>3, <2>1
  <2> QED  BY <1>3, <2>1, <2>2, EarliestIs
<1>5. out = e.external
  BY <1>1, <1>3 DEF TranslateEgress
<1> HIDE DEF at, j, out
<1>6. j \in back
  BY <1>1, <1>3, <1>4, <1>5
<1>7. back \subseteq DOMAIN t /\ i0 \in back /\ i0 <= j
  <2>1. back \subseteq Nat
    BY <1>4
  <2> QED  BY <1>6, <2>1, EarliestIs
<1>8. TranslateIngress(out, q, t) = t[i0].device
  BY <1>6 DEF TranslateIngress
<1>9. t[i0] \in FlowEntries /\ t[i0].external = out /\ t[i0].outPort = q
  BY <1>3, <1>7
<1> HIDE DEF back, i0
<1>10. t[i0].device # Blocked
  BY <1>9, FlowAssumption DEF FlowEntries
<1>11. trip'.back = t[i0].device /\ trip'.device = k[1] /\ trip'.port = k[2]
  BY <1>2, <1>8
<1>12. CASE i0 = j
  BY <1>1, <1>3, <1>10, <1>11, <1>12 DEF TripHome
<1>13. CASE i0 # j
  <2>1. i0 < j /\ i0 \in DOMAIN t
    BY <1>4, <1>7, <1>13
  <2>2. Same(t[i0], t[j])
    BY <1>1, <1>3, <1>5, <1>9 DEF Same
  <2> QED  BY <1>1, <1>2, <1>3, <1>4, <1>10, <1>11, <2>1, <2>2 DEF TripHome
<1> QED  BY <1>12, <1>13

LEMMA FlowSteps == FlowIInv /\ [XlateNext]_flowTableVars => FlowIInv' /\ RepliesKept /\ TripHome
<1> SUFFICES ASSUME FlowIInv, [XlateNext]_flowTableVars PROVE FlowIInv' /\ RepliesKept /\ TripHome
  OBVIOUS
<1>i. records \in [DnsNames -> Servers \cup {Blocked}] /\ xlate \in Seq(FlowEntries)
  BY DEF FlowIInv
<1>s. xlate' = xlate => RepliesKept
  BY DEF RepliesKept, Receiver
<1>t. trip' = trip \/ trip'.device = Blocked => TripHome
  BY DEF TripHome
<1>n. NoTrip.device = Blocked /\ \A x : [NoTrip EXCEPT !.out = x].device = Blocked
                                     /\ [NoTrip EXCEPT !.back = x].device = Blocked
  BY DEF NoTrip
<1>e. ASSUME NEW k \in FlowKeys, NEW s \in Servers, NEW q \in OutPorts
      PROVE  Entry(k[1], k[2], s, q) \in FlowEntries
  BY DEF Entry, FlowEntries
<1>1. ASSUME NEW n \in DnsNames, NEW s \in Servers, AddRecord(n, s)
      PROVE  FlowIInv' /\ RepliesKept /\ TripHome
  BY <1>1, <1>i, <1>s, <1>t DEF AddRecord, FlowIInv
<1>2. ASSUME NEW k \in FlowKeys, RemoveEntry(k[1], k[2])
      PROVE  FlowIInv' /\ RepliesKept /\ TripHome
  <2> DEFINE at == KeysAt(xlate, k[1], k[2])
  <2>1. /\ xlate' = IF at = {} THEN xlate ELSE RemoveAt(xlate, Earliest(at))
        /\ records' = records /\ trip' = trip
    BY <1>2 DEF RemoveEntry
  <2>2. CASE at = {}
    BY <1>i, <1>s, <1>t, <2>1, <2>2 DEF FlowIInv
  <2>3. CASE at # {}
    <3> DEFINE i == Earliest(at)
               n == Len(xlate)
    <3>1. i \in 1 .. n /\ n \in Nat
      <4>1. at \subseteq 1 .. n /\ at \subseteq Nat
        BY <1>i DEF KeysAt
      <4> QED  BY <1>i, <2>3, <4>1, EarliestIs
    <3>2. xlate' = SubSeq(xlate, 1, i - 1) \o SubSeq(xlate, i + 1, n)
      BY <2>1, <2>3 DEF RemoveAt
    <3> HIDE DEF i
    <3>3. SubSeq(xlate, 1, i - 1) \in Seq(FlowEntries) /\ Len(SubSeq(xlate, 1, i - 1)) = i - 1
      BY <1>i, <3>1
    <3>4. SubSeq(xlate, i + 1, n) \in Seq(FlowEntries) /\ Len(SubSeq(xlate, i + 1, n)) = n - i
      BY <1>i, <3>1
    <3>5. xlate' \in Seq(FlowEntries) /\ Len(xlate') = (i - 1) + (n - i)
      BY <3>2, <3>3, <3>4
    <3>6. Len(xlate') < Len(xlate)
      BY <3>1, <3>5
    <3> QED  BY <1>i, <1>t, <2>1, <3>5, <3>6 DEF FlowIInv, RepliesKept
  <2> QED  BY <2>2, <2>3
<1>3. ASSUME NEW k \in FlowKeys, SendOut(k[1], k[2])
      PROVE  FlowIInv' /\ RepliesKept /\ TripHome
  BY <1>3, <1>i, <1>n, <1>s, <1>t DEF SendOut, FlowIInv
<1>4. ASSUME NEW k \in FlowKeys, NEW s \in Servers, NEW q \in OutPorts,
             CreateXlateEntry(Entry(k[1], k[2], s, q))
      PROVE  FlowIInv' /\ RepliesKept /\ TripHome
  BY <1>4, <1>e, <1>i, <1>t, WritingKeepsReplies DEF CreateXlateEntry, FlowIInv
<1>5. ASSUME NEW k \in FlowKeys, NEW n \in DnsNames, NEW q \in OutPorts,
             EgressFlow(n, k[1], k[2], q)
      PROVE  FlowIInv' /\ RepliesKept /\ TripHome
  <2>1. CASE DnsLookup(n) = Blocked
    BY <1>5, <1>i, <1>n, <1>s, <1>t, <2>1 DEF EgressFlow, FlowIInv
  <2>2. CASE DnsLookup(n) # Blocked
    <3>1. DnsLookup(n) \in Servers
      BY <1>i, <2>2 DEF DnsLookup
    <3>2. /\ xlate' = WithEntry(Entry(k[1], k[2], DnsLookup(n), q)) /\ records' = records
          /\ trip' = [NoTrip EXCEPT !.out = TranslateEgress(k[1], k[2], xlate')]
      BY <1>5, <2>2 DEF EgressFlow
    <3>3. trip'.device = Blocked
      BY <1>n, <3>2
    <3> QED  BY <1>e, <1>i, <1>t, <3>1, <3>2, <3>3, WritingKeepsReplies DEF FlowIInv
  <2> QED  BY <2>1, <2>2
<1>6. ASSUME NEW k \in FlowKeys, NEW n \in DnsNames, NEW q \in OutPorts,
             RoundTrip(n, k[1], k[2], q)
      PROVE  FlowIInv' /\ RepliesKept /\ TripHome
  <2>1. DnsLookup(n) \in Servers
    BY <1>6, <1>i DEF RoundTrip, DnsLookup
  <2>2. xlate' = WithEntry(Entry(k[1], k[2], DnsLookup(n), q)) /\ records' = records
    BY <1>6 DEF RoundTrip
  <2>3. RepliesKept /\ xlate' \in Seq(FlowEntries)
    BY <1>e, <1>i, <2>1, <2>2, WritingKeepsReplies
  <2>4. TripHome
    BY <1>6, TripsComeHome
  <2> QED  BY <1>i, <2>2, <2>3, <2>4 DEF FlowIInv
<1>7. ASSUME NEW s \in Servers, NEW q \in OutPorts, IngressFlow(s, q)
      PROVE  FlowIInv' /\ RepliesKept /\ TripHome
  BY <1>7, <1>i, <1>n, <1>s, <1>t DEF IngressFlow, FlowIInv
<1>8. ASSUME UNCHANGED flowTableVars PROVE FlowIInv' /\ RepliesKept /\ TripHome
  BY <1>8, <1>i, <1>s, <1>t DEF flowTableVars, FlowIInv
<1> QED  BY <1>1, <1>2, <1>3, <1>4, <1>5, <1>6, <1>7, <1>8 DEF XlateNext

(* A round trip that gets out comes back to its device unless an older key   *)
(* stands for the same address and port, and no new flow takes the replies   *)
(* of an older one (xlate8_flow.py, XLATE8Table.create_entry).               *)
THEOREM RepliesFindTheirWay == FlowSpec => RepliesStay
<1>1. XlateInit => FlowIInv
  BY DEF XlateInit, FlowIInv
<1>2. FlowIInv /\ [XlateNext]_flowTableVars => FlowIInv' /\ [TripHome /\ RepliesKept]_flowTableVars
  BY FlowSteps
<1> QED
  BY <1>1, <1>2, PTL DEF FlowSpec, RepliesStay, TripHome, RepliesKept

--------------------------------------------------------------------------------
(* Two companies.  An address between them leads to the service that was     *)
(* exposed there last, whatever was exposed and moved before: that is what   *)
(* an answer needs.                                                          *)
Exposed(c, i) == exposedAt[c][i] # Unexposed

InteropTypes ==
  /\ exposedAt \in [Companies -> [Internals -> Meeting \cup {Unexposed}]]
  /\ exposes \in [Companies -> [Meeting -> Internals \cup {Unexposed}]]
  /\ stamp \in [Companies -> [Internals -> Nat]]
  /\ exposures \in Nat

ExposedLast ==
  /\ \A c \in Companies, i \in Internals :
       /\ stamp[c][i] <= exposures /\ (stamp[c][i] > 0 <=> Exposed(c, i))
       /\ Exposed(c, i) =>
            /\ exposes[c][exposedAt[c][i]] # Unexposed
            /\ stamp[c][i] <= stamp[c][exposes[c][exposedAt[c][i]]]
  /\ \A c \in Companies, x \in Meeting :
       exposes[c][x] # Unexposed => stamp[c][exposes[c][x]] > 0

SentToExposed ==
  lastSent.step = "delivered" =>
    \E d \in Companies \ {lastSent.by} : lastSent.to \in Internals /\ stamp[d][lastSent.to] > 0

InteropIInv == InteropTypes /\ ExposedLast /\ SentToExposed

Other(c) == CHOOSE d \in Companies : d # c

LEMMA OtherCompany ==
  ASSUME NEW c \in Companies
  PROVE  Other(c) \in Companies /\ Other(c) # c /\ Other(Other(c)) = c
<1>1. PICK a, b \in Companies : a # b /\ Companies = {a, b}
  BY BridgeAssumption
<1>2. \A d \in Companies : Other(d) \in Companies /\ Other(d) # d
  <2> SUFFICES ASSUME NEW d \in Companies PROVE Other(d) \in Companies /\ Other(d) # d
    OBVIOUS
  <2>1. \E e \in Companies : e # d
    BY <1>1
  <2> QED  BY <2>1 DEF Other
<1> QED  BY <1>1, <1>2

LEMMA ExposeKeeps ==
  ASSUME InteropIInv, NEW c \in Companies, NEW i \in Internals, NEW x \in Meeting,
         ExposeService(c, i, x)
  PROVE  InteropIInv'
<1>1. /\ exposedAt' = [exposedAt EXCEPT ![c][i] = x] /\ exposes' = [exposes EXCEPT ![c][x] = i]
      /\ stamp' = [stamp EXCEPT ![c][i] = exposures + 1] /\ exposures' = exposures + 1
      /\ lastSent' = lastSent
  BY DEF ExposeService, Behind
<1>2. /\ \A d \in Companies, j \in Internals :
           exposedAt'[d][j] = IF d = c /\ j = i THEN x ELSE exposedAt[d][j]
      /\ \A d \in Companies, y \in Meeting :
           exposes'[d][y] = IF d = c /\ y = x THEN i ELSE exposes[d][y]
      /\ \A d \in Companies, j \in Internals :
           stamp'[d][j] = IF d = c /\ j = i THEN exposures + 1 ELSE stamp[d][j]
  BY <1>1 DEF InteropIInv, InteropTypes
<1>3. InteropTypes'
  BY <1>1 DEF InteropIInv, InteropTypes
<1>4. /\ \A d \in Companies, j \in Internals :
           /\ exposedAt[d][j] \in Meeting \cup {Unexposed}
           /\ stamp[d][j] \in Nat /\ stamp[d][j] <= exposures
      /\ \A d \in Companies, y \in Meeting : exposes[d][y] \in Internals \cup {Unexposed}
      /\ exposures \in Nat /\ x # Unexposed /\ i # Unexposed
  BY BridgeAssumption DEF InteropIInv, InteropTypes, ExposedLast
<1>5. \A d \in Companies, j \in Internals :
        /\ stamp[d][j] <= stamp'[d][j] /\ stamp'[d][j] \in Nat /\ stamp'[d][j] <= exposures + 1
        /\ stamp[d][j] > 0 => stamp'[d][j] > 0
  BY <1>2, <1>4
<1>6. ASSUME NEW d \in Companies, NEW j \in Internals
      PROVE  /\ stamp'[d][j] > 0 <=> exposedAt'[d][j] # Unexposed
             /\ exposedAt'[d][j] # Unexposed =>
                  /\ exposes'[d][exposedAt'[d][j]] # Unexposed
                  /\ stamp'[d][j] <= stamp'[d][exposes'[d][exposedAt'[d][j]]]
  <2>1. CASE d = c /\ j = i
    BY <1>2, <1>4, <2>1
  <2>2. CASE ~(d = c /\ j = i)
    <3>1. exposedAt'[d][j] = exposedAt[d][j] /\ stamp'[d][j] = stamp[d][j]
      BY <1>2, <2>2
    <3>2. stamp'[d][j] > 0 <=> exposedAt'[d][j] # Unexposed
      BY <3>1 DEF InteropIInv, ExposedLast, Exposed
    <3>3. CASE exposedAt[d][j] # Unexposed
      <4> DEFINE y == exposedAt[d][j]
                 m == exposes[d][y]
      <4>1. y \in Meeting /\ m \in Internals /\ m # Unexposed /\ stamp[d][j] <= stamp[d][m]
        BY <1>4, <3>3 DEF InteropIInv, ExposedLast, Exposed
      <4>2. CASE d = c /\ y = x
        <5>1. exposes'[d][y] = i /\ stamp'[d][i] = exposures + 1
          BY <1>2, <4>1, <4>2
        <5> QED  BY <1>4, <3>1, <3>2, <5>1
      <4>3. CASE ~(d = c /\ y = x)
        <5>1. exposes'[d][y] = m
          BY <1>2, <4>1, <4>3
        <5>2. stamp[d][m] <= stamp'[d][m] /\ stamp[d][m] \in Nat /\ stamp'[d][m] \in Nat /\ stamp[d][j] \in Nat
          BY <1>4, <1>5, <4>1
        <5> QED  BY <3>1, <3>2, <4>1, <5>1, <5>2
      <4> QED  BY <4>2, <4>3
    <3> QED  BY <3>1, <3>2, <3>3
  <2> QED  BY <2>1, <2>2
<1>7. ASSUME NEW d \in Companies, NEW y \in Meeting, exposes'[d][y] # Unexposed
      PROVE  stamp'[d][exposes'[d][y]] > 0
  <2>1. CASE d = c /\ y = x
    BY <1>2, <1>4, <2>1
  <2>2. CASE ~(d = c /\ y = x)
    BY <1>2, <1>4, <1>5, <1>7, <2>2 DEF InteropIInv, ExposedLast
  <2> QED  BY <2>1, <2>2
<1>8. ExposedLast'
  BY <1>1, <1>5, <1>6, <1>7 DEF ExposedLast, Exposed
<1>9. SentToExposed'
  BY <1>1, <1>5 DEF InteropIInv, SentToExposed
<1> QED  BY <1>3, <1>8, <1>9 DEF InteropIInv

LEMMA BridgeKeeps ==
  ASSUME InteropIInv, NEW c \in Companies, NEW i \in Internals, NEW x \in Meeting,
         BridgeSend(c, i, x)
  PROVE  InteropIInv'
<1>1. lastSent' = Crossing(c, i, x) /\ UNCHANGED <<exposedAt, exposes, exposures, stamp>>
  BY DEF BridgeSend
<1>2. /\ Crossing(c, i, x).by = c /\ Crossing(c, i, x).to = exposes[Other(c)][x]
      /\ Crossing(c, i, x).step = "delivered" => exposes[Other(c)][x] # Unexposed
  BY DEF Crossing, Other, TranslateInbound
<1>3. Other(c) \in Companies \ {c}
  BY OtherCompany
<1>4. exposes[Other(c)][x] # Unexposed =>
        exposes[Other(c)][x] \in Internals /\ stamp[Other(c)][exposes[Other(c)][x]] > 0
  BY <1>3 DEF InteropIInv, InteropTypes, ExposedLast
<1>5. SentToExposed'
  BY <1>1, <1>2, <1>3, <1>4 DEF SentToExposed
<1> QED  BY <1>1, <1>5 DEF InteropIInv, InteropTypes, ExposedLast, Exposed

LEMMA InteropInvariant == InteropSpec => []InteropIInv
<1>1. InteropInit => InteropIInv
  <2> SUFFICES ASSUME InteropInit PROVE InteropIInv
    OBVIOUS
  <2>1. InteropTypes
    BY DEF InteropInit, InteropTypes
  <2>2. ExposedLast
    <3>1. /\ \A c \in Companies, i \in Internals : exposedAt[c][i] = Unexposed /\ stamp[c][i] = 0
          /\ \A c \in Companies, x \in Meeting : exposes[c][x] = Unexposed
          /\ exposures = 0
      BY DEF InteropInit
    <3> QED  BY <3>1 DEF ExposedLast, Exposed
  <2>3. SentToExposed
    BY DEF InteropInit, SentToExposed
  <2> QED  BY <2>1, <2>2, <2>3 DEF InteropIInv
<1>2. InteropIInv /\ [InteropNext]_interopVars => InteropIInv'
  <2>1. InteropIInv /\ UNCHANGED interopVars => InteropIInv'
    BY DEF interopVars, InteropIInv, InteropTypes, ExposedLast, Exposed, SentToExposed
  <2> QED  BY <2>1, ExposeKeeps, BridgeKeeps DEF InteropNext
<1> QED  BY <1>1, <1>2, PTL DEF InteropSpec

LEMMA AnswersArrive == InteropIInv => Answerable
<1> SUFFICES ASSUME InteropIInv PROVE Answerable
  OBVIOUS
<1>1. ASSUME NEW c \in Companies, NEW i \in Internals, NEW x \in Meeting,
             Crossing(c, i, x).step = "delivered"
      PROVE  LET other == CHOOSE d \in Companies : d # c
                 answer == Crossing(other, Crossing(c, i, x).to, Crossing(c, i, x).seen)
             IN /\ answer.step = "delivered"
                /\ stamp[c][answer.to] >= stamp[c][i]
                /\ Isolated => stamp[other][answer.to] = 0
  <2> DEFINE o == Other(c)
             seen == exposedAt[c][i]
             to == exposes[o][x]
             home == exposes[c][seen]
  <2>1. o \in Companies /\ o # c /\ Other(o) = c
    BY OtherCompany
  <2>2. /\ Crossing(c, i, x).to = to /\ Crossing(c, i, x).seen = seen
        /\ to # Unexposed /\ seen # Unexposed
    BY <1>1 DEF Crossing, Other, TranslateInbound, TranslateOutbound
  <2>3. to \in Internals /\ seen \in Meeting
    BY <2>1, <2>2 DEF InteropIInv, InteropTypes
  <2>4. exposedAt[o][to] # Unexposed
    BY <2>1, <2>2, <2>3 DEF InteropIInv, ExposedLast, Exposed
  <2>5. home # Unexposed /\ home \in Internals /\ stamp[c][i] <= stamp[c][home] /\ stamp[c][home] > 0
    BY <2>2, <2>3 DEF InteropIInv, InteropTypes, ExposedLast, Exposed
  <2>6. stamp[c][i] \in Nat /\ stamp[c][home] \in Nat /\ stamp[o][home] \in Nat
    BY <2>1, <2>5 DEF InteropIInv, InteropTypes
  <2>7. exposedAt[c][home] # Unexposed /\ (exposedAt[o][home] = Unexposed => ~(stamp[o][home] > 0))
    BY <2>1, <2>5 DEF InteropIInv, ExposedLast, Exposed
  <2>8. Isolated => exposedAt[o][home] = Unexposed
    <3>1. ASSUME Isolated PROVE exposedAt[o][home] = Unexposed
      <4>1. PICK d \in Companies : exposedAt[d][home] = Unexposed
        BY <2>5, <3>1 DEF Isolated
      <4>2. d = o
        BY <2>1, <2>7, <4>1, BridgeAssumption
      <4> QED  BY <4>1, <4>2
    <3> QED  BY <3>1
  <2> HIDE DEF o
  <2>9. /\ Crossing(o, to, seen).step = "delivered" /\ Crossing(o, to, seen).to = home
    BY <2>1, <2>4, <2>5 DEF Crossing, Other, TranslateInbound, TranslateOutbound
  <2>10. o = CHOOSE d \in Companies : d # c
    BY DEF o, Other
  <2> HIDE DEF to, seen, home
  <2> QED  BY <2>2, <2>5, <2>6, <2>7, <2>8, <2>9, <2>10
<1>2. lastSent.step = "delivered" => \E d \in Companies \ {lastSent.by} : stamp[d][lastSent.to] > 0
  BY DEF InteropIInv, SentToExposed
<1> QED  BY <1>1, <1>2 DEF Answerable

(* Whatever a bridge between two companies delivers can be answered, at the  *)
(* address that was seen, and the answer reaches the sender or the service   *)
(* its company put there since (interop.py, InteropBridge).                  *)
THEOREM BridgesAnswer == InteropSpec => []Answerable
BY InteropInvariant, AnswersArrive, PTL

--------------------------------------------------------------------------------
(* Sockets.  Where a call should go is a matter of the calls before it, so   *)
(* what is true of the log stays true of a longer one.                       *)
Calls ==
  [action : {"register", "connect", "bind", "send", "recv", "close"},
   to : [host : Seq(0 .. 255)] \cup [asn : Nat, host : Seq(0 .. 255)] \cup {NoAddress},
   address : [asn : Nat \cup {DefaultAsn}, host : Seq(0 .. 255)] \cup {NoAddress}]

Turns(l, n) == {j \in 1 .. n : l[j].action \in {"connect", "close"}}
Entries(l, n, to) == {j \in 1 .. n : l[j].action = "register" /\ l[j].to = to}

Told(l, n, to) ==
  LET r == LastOf(Entries(l, n, to)) IN IF r = 0 THEN DefaultAsn ELSE l[r].address.asn

NamedIn(l, i) ==
  LET c == LastOf(Turns(l, i - 1))
  IN  IF c = 0 THEN NoAddress
      ELSE IF l[c].action = "close" THEN NoAddress
      ELSE IF "asn" \in DOMAIN l[c].to THEN l[c].to
      ELSE [asn |-> Told(l, c - 1, l[c].to), host |-> l[c].to.host]

LEMMA NamedByLog == \A i : Named(i) = NamedIn(log, i)
BY DEF Named, NamedIn, Turns, Entries, Told

LEMMA LastOfIs ==
  ASSUME NEW n \in Nat, NEW S \in SUBSET (1 .. n)
  PROVE  /\ S = {} => LastOf(S) = 0
         /\ S # {} => LastOf(S) \in S
         /\ \A x \in S : (\A y \in S : y <= x) => LastOf(S) = x
<1>1. CASE S = {}
  BY <1>1 DEF LastOf
<1>2. CASE S # {}
  <2> DEFINE D == {n - x : x \in S}
  <2>1. D \subseteq Nat /\ D # {}
    <3>1. \A x \in S : n - x \in Nat
      OBVIOUS
    <3>2. PICK x \in S : TRUE
      BY <1>2
    <3>3. n - x \in D
      OBVIOUS
    <3> QED  BY <3>1, <3>3
  <2>2. PICK d \in D : \A e \in D : d <= e
    BY <2>1, MinOfNats
  <2>3. PICK x \in S : d = n - x
    BY <2>2
  <2>4. \A y \in S : n - y \in D /\ y \in Nat
    OBVIOUS
  <2>5. \A y \in S : y <= x
    BY <2>2, <2>3, <2>4
  <2>6. LastOf(S) \in S /\ \A y \in S : y <= LastOf(S)
    BY <1>2, <2>5 DEF LastOf
  <2>7. \A y, z \in S : y <= z /\ z <= y => y = z
    OBVIOUS
  <2> QED  BY <1>2, <2>6, <2>7
<1> QED  BY <1>1, <1>2

(* One more call, and what it changes of the two answers.                    *)
LEMMA LogGrows ==
  ASSUME NEW l \in Seq(Calls), NEW e \in Calls
  PROVE  LET m == Append(l, e)
             n == Len(l)
         IN /\ m \in Seq(Calls) /\ Len(m) = n + 1 /\ DOMAIN m = 1 .. n + 1
            /\ m[n + 1] = e /\ \A j \in 1 .. n : m[j] = l[j]
            /\ \A i \in 1 .. n + 1 : NamedIn(m, i) = NamedIn(l, i)
            /\ \A to : Told(m, n + 1, to) =
                 IF e.action = "register" /\ e.to = to THEN e.address.asn ELSE Told(l, n, to)
            /\ NamedIn(m, n + 2) =
                 IF e.action = "close" THEN NoAddress
                 ELSE IF e.action # "connect" THEN NamedIn(l, n + 1)
                 ELSE IF "asn" \in DOMAIN e.to THEN e.to
                 ELSE [asn |-> Told(l, n, e.to), host |-> e.to.host]
<1> DEFINE m == Append(l, e)
           n == Len(l)
<1>1. /\ m \in Seq(Calls) /\ Len(m) = n + 1 /\ DOMAIN m = 1 .. n + 1 /\ n \in Nat
      /\ m[n + 1] = e /\ \A j \in 1 .. n : m[j] = l[j]
  OBVIOUS
<1> HIDE DEF m, n
<1>2. ASSUME NEW k \in 0 .. n
      PROVE  Turns(m, k) = Turns(l, k) /\ \A to : Entries(m, k, to) = Entries(l, k, to)
  <2>1. \A j \in 1 .. k : m[j] = l[j]
    BY <1>1
  <2> QED  BY <2>1 DEF Turns, Entries
<1>3. ASSUME NEW k \in 0 .. n, NEW to PROVE Told(m, k, to) = Told(l, k, to)
  <2> DEFINE S == Entries(l, k, to)
  <2>1. S \in SUBSET (1 .. k) /\ k \in Nat /\ Entries(m, k, to) = S
    BY <1>1, <1>2 DEF Entries
  <2>2. LastOf(S) = 0 \/ LastOf(S) \in 1 .. k
    <3> HIDE DEF S
    <3> QED  BY <2>1, LastOfIs
  <2>3. LastOf(S) # 0 => m[LastOf(S)] = l[LastOf(S)]
    BY <1>1, <2>2
  <2> QED  BY <2>1, <2>3 DEF Told
<1>4. ASSUME NEW i \in 1 .. n + 1 PROVE NamedIn(m, i) = NamedIn(l, i)
  <2> DEFINE c == LastOf(Turns(l, i - 1))
  <2>1. i - 1 \in 0 .. n /\ i - 1 \in Nat /\ Turns(m, i - 1) = Turns(l, i - 1)
    BY <1>1, <1>2
  <2>2. c = 0 \/ c \in 1 .. i - 1
    <3>1. Turns(l, i - 1) \in SUBSET (1 .. i - 1)
      BY DEF Turns
    <3> QED  BY <2>1, <3>1, LastOfIs
  <2>3. NamedIn(l, i) =
          IF c = 0 THEN NoAddress
          ELSE IF l[c].action = "close" THEN NoAddress
          ELSE IF "asn" \in DOMAIN l[c].to THEN l[c].to
          ELSE [asn |-> Told(l, c - 1, l[c].to), host |-> l[c].to.host]
    BY DEF NamedIn
  <2>4. NamedIn(m, i) =
          IF c = 0 THEN NoAddress
          ELSE IF m[c].action = "close" THEN NoAddress
          ELSE IF "asn" \in DOMAIN m[c].to THEN m[c].to
          ELSE [asn |-> Told(m, c - 1, m[c].to), host |-> m[c].to.host]
    BY <2>1 DEF NamedIn
  <2> HIDE DEF c
  <2>5. CASE c = 0
    BY <2>3, <2>4, <2>5
  <2>6. CASE c \in 1 .. i - 1
    <3>1. c - 1 \in 0 .. n /\ m[c] = l[c]
      BY <1>1, <2>6
    <3>2. Told(m, c - 1, l[c].to) = Told(l, c - 1, l[c].to)
      BY <1>3, <3>1
    <3> QED  BY <2>3, <2>4, <3>1, <3>2
  <2> QED  BY <2>2, <2>5, <2>6
<1>5. ASSUME NEW to
      PROVE  Told(m, n + 1, to) =
               IF e.action = "register" /\ e.to = to THEN e.address.asn ELSE Told(l, n, to)
  <2>0. \A j \in 1 .. n + 1 : j \in 1 .. n \/ j = n + 1
    BY <1>1
  <2>1. CASE e.action = "register" /\ e.to = to
    <3> DEFINE S == Entries(m, n + 1, to)
    <3>1. S \in SUBSET (1 .. n + 1) /\ n + 1 \in S /\ n + 1 \in Nat
      BY <1>1, <2>1 DEF Entries
    <3> HIDE DEF S
    <3>2. LastOf(S) = n + 1
      <4>1. \A y \in S : y <= n + 1
        BY <1>1, <3>1
      <4> QED  BY <3>1, <4>1, LastOfIs
    <3> QED  BY <1>1, <2>1, <3>2 DEF Told, S
  <2>2. CASE ~(e.action = "register" /\ e.to = to)
    <3>1. Entries(m, n + 1, to) = Entries(m, n, to)
      BY <1>1, <2>0, <2>2 DEF Entries
    <3>2. Told(m, n + 1, to) = Told(m, n, to)
      BY <3>1 DEF Told
    <3>3. n \in 0 .. n
      BY <1>1
    <3> QED  BY <1>3, <2>2, <3>2, <3>3
  <2> QED  BY <2>1, <2>2
<1>6. NamedIn(m, n + 2) =
        IF e.action = "close" THEN NoAddress
        ELSE IF e.action # "connect" THEN NamedIn(l, n + 1)
        ELSE IF "asn" \in DOMAIN e.to THEN e.to
        ELSE [asn |-> Told(l, n, e.to), host |-> e.to.host]
  <2>0. (\A j \in 1 .. n + 1 : j \in 1 .. n \/ j = n + 1) /\ (n + 2) - 1 = n + 1 /\ (n + 1) - 1 = n
    BY <1>1
  <2>1. CASE e.action \in {"connect", "close"}
    <3> DEFINE S == Turns(m, n + 1)
    <3>1. S \in SUBSET (1 .. n + 1) /\ n + 1 \in S /\ n + 1 \in Nat
      BY <1>1, <2>1 DEF Turns
    <3> HIDE DEF S
    <3>2. LastOf(S) = n + 1
      <4>1. \A y \in S : y <= n + 1
        BY <1>1, <3>1
      <4> QED  BY <3>1, <4>1, LastOfIs
    <3>3. Told(m, n, e.to) = Told(l, n, e.to) /\ n + 1 # 0
      <4>1. n \in 0 .. n /\ n + 1 # 0
        BY <1>1
      <4> QED  BY <1>3, <4>1
    <3>4. LastOf(Turns(m, (n + 2) - 1)) = n + 1
      BY <2>0, <3>2 DEF S
    <3>5. NamedIn(m, n + 2) =
            IF e.action = "close" THEN NoAddress
            ELSE IF "asn" \in DOMAIN e.to THEN e.to
            ELSE [asn |-> Told(m, (n + 1) - 1, e.to), host |-> e.to.host]
      BY <1>1, <3>3, <3>4 DEF NamedIn
    <3> QED  BY <2>0, <2>1, <3>3, <3>5
  <2>2. CASE e.action \notin {"connect", "close"}
    <3>1. Turns(m, n + 1) = Turns(m, n)
      BY <1>1, <2>0, <2>2 DEF Turns
    <3>2. NamedIn(m, n + 2) = NamedIn(m, n + 1)
      BY <2>0, <3>1 DEF NamedIn
    <3>3. n + 1 \in 1 .. n + 1
      BY <1>1
    <3> QED  BY <1>4, <2>2, <3>2, <3>3
  <2> QED  BY <2>1, <2>2
<1> QED  BY <1>1, <1>4, <1>5, <1>6 DEF m, n

(* The socket and the layer below it remember what the log says.             *)
LogIInv ==
  /\ log \in Seq(Calls)
  /\ connected = NamedIn(log, Len(log) + 1)
  /\ connected \in [asn : Nat \cup {DefaultAsn}, host : Seq(0 .. 255)] \cup {NoAddress}
  /\ \A host \in Seq(0 .. 255) :
       /\ Resolve(host) = Told(log, Len(log), [host |-> host])
       /\ Resolve(host) \in Nat \cup {DefaultAsn}
  /\ \A i \in DOMAIN log : log[i].action \in {"send", "recv"} => log[i].address = NamedIn(log, i)

BalanceIInv ==
  /\ connections \in Seq({Pair.even, Pair.odd})
  /\ \A i \in DOMAIN connections : connections[i] = Choice(i - 1)

SocketIInv == LogIInv /\ BalanceIInv

LEMMA CallLogged ==
  ASSUME LogIInv, NEW e \in Calls, log' = Append(log, e),
         e.action \in {"send", "recv"} => e.address = connected
  PROVE  /\ log' \in Seq(Calls)
         /\ (\A i \in DOMAIN log : log[i].action \in {"send", "recv"} => log[i].address = NamedIn(log, i))'
         /\ \A host : Told(log', Len(log'), [host |-> host]) =
                     IF e.action = "register" /\ e.to = [host |-> host] THEN e.address.asn
                     ELSE Told(log, Len(log), [host |-> host])
         /\ NamedIn(log', Len(log') + 1) =
              IF e.action = "close" THEN NoAddress
              ELSE IF e.action # "connect" THEN connected
              ELSE IF "asn" \in DOMAIN e.to THEN e.to
              ELSE [asn |-> Told(log, Len(log), e.to), host |-> e.to.host]
<1> DEFINE n == Len(log)
<1>i. /\ log \in Seq(Calls) /\ connected = NamedIn(log, n + 1) /\ n \in Nat /\ DOMAIN log = 1 .. n
      /\ \A i \in DOMAIN log : log[i].action \in {"send", "recv"} => log[i].address = NamedIn(log, i)
  BY DEF LogIInv
<1>1. /\ log' \in Seq(Calls) /\ Len(log') = n + 1 /\ DOMAIN log' = 1 .. n + 1
      /\ log'[n + 1] = e /\ \A j \in 1 .. n : log'[j] = log[j]
      /\ \A i \in 1 .. n + 1 : NamedIn(log', i) = NamedIn(log, i)
      /\ \A to : Told(log', n + 1, to) =
           IF e.action = "register" /\ e.to = to THEN e.address.asn ELSE Told(log, n, to)
      /\ NamedIn(log', n + 2) =
           IF e.action = "close" THEN NoAddress
           ELSE IF e.action # "connect" THEN NamedIn(log, n + 1)
           ELSE IF "asn" \in DOMAIN e.to THEN e.to
           ELSE [asn |-> Told(log, n, e.to), host |-> e.to.host]
  BY <1>i, LogGrows
<1>2. (n + 1) + 1 = n + 2
  BY <1>i
<1>3. Len(log') + 1 = n + 2
  BY <1>1, <1>2
<1> HIDE DEF n
<1>4. ASSUME NEW i \in 1 .. n + 1, log'[i].action \in {"send", "recv"}
      PROVE  log'[i].address = NamedIn(log', i)
  <2>1. CASE i = n + 1
    BY <1>1, <1>4, <1>i, <2>1
  <2>2. CASE i # n + 1
    <3>1. i \in 1 .. n
      BY <1>i, <2>2, SMTT(30)
    <3> QED  BY <1>1, <1>4, <1>i, <3>1, SMTT(30)
  <2> QED  BY <2>1, <2>2
<1>5. (\A i \in DOMAIN log : log[i].action \in {"send", "recv"} => log[i].address = NamedIn(log, i))'
  BY <1>1, <1>4 DEF NamedIn, Turns, Told, Entries
<1>6. \A host : Told(log', Len(log'), [host |-> host]) =
        IF e.action = "register" /\ e.to = [host |-> host] THEN e.address.asn
        ELSE Told(log, Len(log), [host |-> host])
  BY <1>1 DEF n
<1> QED  BY <1>1, <1>3, <1>5, <1>6, <1>i

LEMMA PairTyped ==
  /\ Pair.even \in [asn : Nat, host : Seq(0 .. 255)] /\ Pair.odd \in [asn : Nat, host : Seq(0 .. 255)]
  /\ Pair.even.asn = Service.asn /\ Pair.odd.asn = Service.asn
  /\ Len(Pair.even.host) = 4 /\ Len(Pair.odd.host) = 4
  /\ Pair.even.host[4] = 2 /\ Pair.odd.host[4] = 3
  /\ \A k \in 1 .. 3 : Pair.even.host[k] = Service.base[k] /\ Pair.odd.host[k] = Service.base[k]
<1>1. Service.base \in Seq(0 .. 255) /\ Len(Service.base) = 3 /\ Service.asn \in Nat
  BY SocketAssumption DEF FourOctets
<1>2. ASSUME NEW v \in 0 .. 255
      PROVE  /\ Append(Service.base, v) \in Seq(0 .. 255) /\ Len(Append(Service.base, v)) = 4
             /\ Append(Service.base, v)[4] = v
             /\ \A k \in 1 .. 3 : Append(Service.base, v)[k] = Service.base[k]
  <2> DEFINE b == Service.base
             t == Append(b, v)
  <2>1. b \in Seq(0 .. 255) /\ Len(b) = 3
    BY <1>1
  <2> HIDE DEF b
  <2>2. /\ t \in Seq(0 .. 255) /\ Len(t) = Len(b) + 1 /\ t[Len(b) + 1] = v
        /\ \A k \in 1 .. Len(b) : t[k] = b[k]
    <3> DEFINE D == 0 .. 255
    <3>1. b \in Seq(D) /\ v \in D
      BY <2>1
    <3> HIDE DEF D
    <3>2. /\ t \in Seq(D) /\ Len(t) = Len(b) + 1 /\ t[Len(b) + 1] = v
          /\ \A k \in 1 .. Len(b) : t[k] = b[k]
      BY <3>1, AppendProperties
    <3> QED  BY <3>2 DEF D
  <2>3. Len(b) + 1 = 4 /\ 1 .. Len(b) = 1 .. 3
    BY <2>1
  <2> HIDE DEF t
  <2>4. Len(t) = 4 /\ t[4] = v /\ \A k \in 1 .. 3 : t[k] = b[k]
    BY <2>2, <2>3, SMTT(30)
  <2> QED  BY <2>2, <2>4 DEF t, b
<1>3. /\ Pair.even = [asn |-> Service.asn, host |-> Append(Service.base, 2)]
      /\ Pair.odd = [asn |-> Service.asn, host |-> Append(Service.base, 3)]
  BY SMTT(30) DEF Pair, MakeA8Pair
<1> DEFINE p == Append(Service.base, 2)
           q == Append(Service.base, 3)
<1>4. /\ p \in Seq(0 .. 255) /\ q \in Seq(0 .. 255) /\ Len(p) = 4 /\ Len(q) = 4 /\ p[4] = 2 /\ q[4] = 3
      /\ \A k \in 1 .. 3 : p[k] = Service.base[k] /\ q[k] = Service.base[k]
  <2>1. 2 \in 0 .. 255 /\ 3 \in 0 .. 255
    OBVIOUS
  <2> QED  BY <1>2, <2>1, ZenonT(60)
<1> HIDE DEF p, q
<1> QED  BY <1>1, <1>3, <1>4 DEF p, q

LEMMA LogKeeps ==
  ASSUME LogIInv, BalanceIInv, [SocketNext]_socketVars
  PROVE  LogIInv'
<1>i. /\ log \in Seq(Calls) /\ connected = NamedIn(log, Len(log) + 1)
      /\ connected \in [asn : Nat \cup {DefaultAsn}, host : Seq(0 .. 255)] \cup {NoAddress}
      /\ \A host \in Seq(0 .. 255) :
           /\ Resolve(host) = Told(log, Len(log), [host |-> host])
           /\ Resolve(host) \in Nat \cup {DefaultAsn}
  BY DEF LogIInv
<1>q. UNCHANGED <<xlateTable, connected, log>> => LogIInv'
  <2> SUFFICES ASSUME xlateTable' = xlateTable, connected' = connected, log' = log PROVE LogIInv'
    OBVIOUS
  <2>1. /\ \A i : (NamedIn(log, i))' = NamedIn(log', i)
        /\ (NamedIn(log, Len(log) + 1))' = NamedIn(log', Len(log') + 1)
        /\ \A host : (Told(log, Len(log), [host |-> host]))' = Told(log', Len(log'), [host |-> host])
        /\ \A host : Resolve(host)' = Resolve(host)
    BY DEF NamedIn, Turns, Told, Entries, Resolve
  <2> QED  BY <2>1 DEF LogIInv
(* A call that registers nothing leaves what is resolved.                    *)
<1>c. ASSUME NEW e \in Calls, log' = Append(log, e), xlateTable' = xlateTable, e.action # "register",
             e.action \in {"send", "recv"} => e.address = connected,
             connected' = IF e.action = "close" THEN NoAddress
                          ELSE IF e.action # "connect" THEN connected
                          ELSE IF "asn" \in DOMAIN e.to THEN e.to
                          ELSE [asn |-> Told(log, Len(log), e.to), host |-> e.to.host],
             connected' \in [asn : Nat \cup {DefaultAsn}, host : Seq(0 .. 255)] \cup {NoAddress}
      PROVE  LogIInv'
  <2>1. /\ log' \in Seq(Calls)
        /\ (\A i \in DOMAIN log : log[i].action \in {"send", "recv"} => log[i].address = NamedIn(log, i))'
        /\ \A host : Told(log', Len(log'), [host |-> host]) = Told(log, Len(log), [host |-> host])
        /\ NamedIn(log', Len(log') + 1) = connected'
    BY <1>c, CallLogged
  <2>2. \A host : Resolve(host)' = Resolve(host)
    BY <1>c DEF Resolve
  <2>3. /\ (NamedIn(log, Len(log) + 1))' = NamedIn(log', Len(log') + 1)
        /\ \A host : (Told(log, Len(log), [host |-> host]))' = Told(log', Len(log'), [host |-> host])
    BY DEF NamedIn, Turns, Told, Entries
  <2> QED  BY <1>c, <1>i, <2>1, <2>2, <2>3 DEF LogIInv
<1>h. \A a : a \in [asn : Nat, host : Seq(0 .. 255)] =>
        /\ [host |-> a.host] \in [host : Seq(0 .. 255)] /\ "asn" \in DOMAIN a
        /\ a \in [asn : Nat \cup {DefaultAsn}, host : Seq(0 .. 255)]
        /\ a.asn \in Nat /\ a.host \in Seq(0 .. 255)
  OBVIOUS
<1>1. ASSUME NEW a \in Records, RegisterDns8(a) PROVE LogIInv'
  <2> DEFINE e == [action |-> "register", to |-> [host |-> a.host], address |-> a]
  <2>1. a \in [asn : Nat, host : Seq(0 .. 255)]
    BY SocketAssumption DEF IsAddress8
  <2>2. e \in Calls /\ e.action = "register" /\ e.to = [host |-> a.host] /\ e.address.asn = a.asn
    BY <1>h, <2>1 DEF Calls
  <2>3. /\ log' = Append(log, e) /\ connected' = connected
        /\ xlateTable' = [h \in DOMAIN xlateTable \cup {a.host} |-> IF h = a.host THEN a.asn ELSE xlateTable[h]]
    BY <1>1 DEF RegisterDns8, Log
  <2> HIDE DEF e
  <2>4. /\ log' \in Seq(Calls)
        /\ (\A i \in DOMAIN log : log[i].action \in {"send", "recv"} => log[i].address = NamedIn(log, i))'
        /\ \A host : Told(log', Len(log'), [host |-> host]) =
                     IF e.to = [host |-> host] THEN a.asn ELSE Told(log, Len(log), [host |-> host])
        /\ NamedIn(log', Len(log') + 1) = connected
    BY <2>2, <2>3, CallLogged
  <2>5. \A host : e.to = [host |-> host] <=> host = a.host
    <3>1. \A host : [host |-> host].host = host
      OBVIOUS
    <3> QED  BY <2>2, <3>1
  <2>6. \A host : Resolve(host)' = IF host = a.host THEN a.asn ELSE Resolve(host)
    BY <2>3 DEF Resolve
  <2>7. /\ (NamedIn(log, Len(log) + 1))' = NamedIn(log', Len(log') + 1)
        /\ \A host : (Told(log, Len(log), [host |-> host]))' = Told(log', Len(log'), [host |-> host])
    BY DEF NamedIn, Turns, Told, Entries
  <2>8. \A host \in Seq(0 .. 255) :
          /\ Resolve(host)' = (Told(log, Len(log), [host |-> host]))'
          /\ Resolve(host)' \in Nat \cup {DefaultAsn}
    BY <1>i, <1>h, <2>1, <2>4, <2>5, <2>6, <2>7
  <2> QED  BY <1>i, <2>3, <2>4, <2>7, <2>8 DEF LogIInv
<1>2. ASSUME NEW i \in DOMAIN connections, ConnectLegacy(DowngradeToIpv4(connections[i])) PROVE LogIInv'
  <2> DEFINE h == connections[i].host
             e == [action |-> "connect", to |-> [host |-> h], address |-> UpgradeConnect(h)]
  <2>1. h \in Seq(0 .. 255)
    <3>1. connections[i] \in {Pair.even, Pair.odd}
      BY DEF BalanceIInv
    <3> QED  BY <3>1, PairTyped
  <2>2. UpgradeConnect(h) = [asn |-> Told(log, Len(log), [host |-> h]), host |-> h]
        /\ UpgradeConnect(h) \in [asn : Nat \cup {DefaultAsn}, host : Seq(0 .. 255)]
    BY <1>i, <2>1 DEF UpgradeConnect
  <2>3. log' = Append(log, e) /\ connected' = UpgradeConnect(h) /\ xlateTable' = xlateTable
    BY <1>2 DEF ConnectLegacy, Connect, Log, DowngradeToIpv4
  <2> HIDE DEF h
  <2>4. e \in Calls /\ e.action = "connect" /\ e.to = [host |-> h] /\ e.to.host = h
    BY <2>1, <2>2 DEF Calls
  <2>5. "asn" \notin DOMAIN e.to
    BY <2>4
  <2> HIDE DEF e
  <2> QED  BY <1>c, <2>2, <2>3, <2>4, <2>5
<1>3. ASSUME NEW a \in Remote, Connect(a, a) PROVE LogIInv'
  <2> DEFINE e == [action |-> "connect", to |-> a, address |-> a]
  <2>1. a \in [asn : Nat, host : Seq(0 .. 255)]
    BY SocketAssumption DEF IsAddress8
  <2>2. e \in Calls /\ e.action = "connect" /\ e.to = a /\ "asn" \in DOMAIN e.to
    BY <1>h, <2>1 DEF Calls
  <2>3. log' = Append(log, e) /\ connected' = a /\ xlateTable' = xlateTable
    BY <1>3 DEF Connect, Log
  <2> HIDE DEF e
  <2> QED  BY <1>c, <1>h, <2>1, <2>2, <2>3
<1>4. ASSUME Bind(Pair.even.host) PROVE LogIInv'
  <2> DEFINE h == Pair.even.host
             e == [action |-> "bind", to |-> [host |-> h], address |-> UpgradeConnect(h)]
  <2>1. h \in Seq(0 .. 255)
    BY PairTyped
  <2>2. UpgradeConnect(h) \in [asn : Nat \cup {DefaultAsn}, host : Seq(0 .. 255)]
    BY <1>i, <2>1 DEF UpgradeConnect
  <2>3. log' = Append(log, e) /\ connected' = connected /\ xlateTable' = xlateTable
    BY <1>4 DEF Bind, Log
  <2> HIDE DEF h
  <2>4. e \in Calls /\ e.action = "bind"
    BY <2>1, <2>2 DEF Calls
  <2> HIDE DEF e
  <2> QED  BY <1>c, <1>i, <2>3, <2>4
<1>5. ASSUME Send \/ Recv PROVE LogIInv'
  <2>1. PICK act \in {"send", "recv"} :
          /\ log' = Append(log, [action |-> act, to |-> NoAddress, address |-> connected])
          /\ connected' = connected /\ xlateTable' = xlateTable
    BY <1>5 DEF Send, Recv, Log
  <2> DEFINE e == [action |-> act, to |-> NoAddress, address |-> connected]
  <2>2. e \in Calls /\ e.action = act /\ e.address = connected
    BY <1>i DEF Calls
  <2>3. log' = Append(log, e)
    BY <2>1
  <2> HIDE DEF e
  <2> QED  BY <1>c, <1>i, <2>1, <2>2, <2>3
<1>6. ASSUME Close PROVE LogIInv'
  <2> DEFINE e == [action |-> "close", to |-> NoAddress, address |-> NoAddress]
  <2>1. e \in Calls /\ e.action = "close"
    BY DEF Calls
  <2>2. log' = Append(log, e) /\ connected' = NoAddress /\ xlateTable' = xlateTable
    BY <1>6 DEF Close, Log
  <2> HIDE DEF e
  <2> QED  BY <1>c, <2>1, <2>2
<1>7. ASSUME Select \/ Distribute(2) \/ ResetLb \/ UNCHANGED socketVars PROVE LogIInv'
  BY <1>7, <1>q DEF Select, Distribute, ResetLb, socketVars
<1> QED  BY <1>1, <1>2, <1>3, <1>4, <1>5, <1>6, <1>7 DEF SocketNext

LEMMA BalanceKeeps ==
  ASSUME BalanceIInv, [SocketNext]_socketVars
  PROVE  BalanceIInv'
<1> DEFINE n == Len(connections)
           T == {Pair.even, Pair.odd}
<1>i. /\ connections \in Seq(T) /\ n \in Nat /\ DOMAIN connections = 1 .. n
      /\ \A i \in DOMAIN connections : connections[i] = Choice(i - 1)
  BY DEF BalanceIInv
<1>t. \A k : Choice(k) \in T
  BY DEF Choice
<1>s. strategy' = strategy
  BY DEF SocketNext, Select, Distribute, ResetLb, RegisterDns8, ConnectLegacy, Connect, Bind, Send, Recv, Close,
         Log, socketVars
<1>c. \A k : Choice(k)' = Choice(k)
  BY <1>s DEF Choice
<1> HIDE DEF T
<1>1. CASE Select
  <2>1. connections' = Append(connections, Choice(n))
    BY <1>1 DEF Select
  <2>2. Choice(n) \in T
    BY <1>t
  <2> DEFINE d == Choice(n)
  <2> HIDE DEF d
  <2>3. /\ connections' \in Seq(T) /\ DOMAIN connections' = 1 .. n + 1 /\ connections'[n + 1] = d
        /\ \A i \in 1 .. n : connections'[i] = connections[i]
    BY <1>i, <2>1, <2>2 DEF d
  <2>4. ASSUME NEW i \in DOMAIN connections' PROVE connections'[i] = Choice(i - 1)'
    <3>1. i \in 1 .. n \/ (i = n + 1 /\ i - 1 = n)
      BY <1>i, <2>3
    <3> QED  BY <1>c, <1>i, <2>3, <3>1 DEF d
  <2> QED  BY <2>3, <2>4 DEF BalanceIInv, T
<1>2. CASE Distribute(2)
  <2> DEFINE new == [i \in 1 .. 2 |-> Choice(n + i - 1)]
  <2>1. connections' = connections \o new
    BY <1>2 DEF Distribute
  <2>2. new \in Seq(T) /\ Len(new) = 2 /\ \A i \in 1 .. 2 : new[i] = Choice(n + i - 1)
    BY <1>t
  <2> HIDE DEF new
  <2>3. /\ connections' \in Seq(T) /\ DOMAIN connections' = 1 .. n + 2
        /\ \A i \in 1 .. n : connections'[i] = connections[i]
        /\ \A i \in 1 .. 2 : connections'[n + i] = new[i]
    <3>1. /\ connections' \in Seq(T) /\ Len(connections') = n + 2
          /\ \A i \in 1 .. n + 2 : connections'[i] = IF i <= n THEN connections[i] ELSE new[i - n]
      <4>1. \A a, b \in Seq(T) :
              /\ a \o b \in Seq(T) /\ Len(a \o b) = Len(a) + Len(b)
              /\ \A i \in 1 .. Len(a) + Len(b) : (a \o b)[i] = IF i <= Len(a) THEN a[i] ELSE b[i - Len(a)]
        BY ConcatProperties
      <4>2. /\ connections \o new \in Seq(T) /\ Len(connections \o new) = n + Len(new)
            /\ \A i \in 1 .. n + Len(new) :
                 (connections \o new)[i] = IF i <= n THEN connections[i] ELSE new[i - n]
        BY <1>i, <2>2, <4>1
      <4> QED  BY <2>1, <2>2, <4>2
    <3>2. \A i \in 1 .. n : i \in 1 .. n + 2 /\ i <= n
      BY <1>i
    <3>3. \A i \in 1 .. 2 : n + i \in 1 .. n + 2 /\ ~(n + i <= n) /\ (n + i) - n = i
      BY <1>i
    <3>4. DOMAIN connections' = 1 .. n + 2
      BY <3>1
    <3> HIDE DEF n
    <3> QED  BY <3>1, <3>2, <3>3, <3>4
  <2>4. ASSUME NEW i \in DOMAIN connections' PROVE connections'[i] = Choice(i - 1)'
    <3>1. i \in 1 .. n \/ \E k \in 1 .. 2 : i = n + k /\ i - 1 = n + k - 1
      <4>1. i \in 1 .. n \/ i = n + 1 \/ i = n + 2
        BY <1>i, <2>3
      <4> QED  BY <1>i, <4>1
    <3> QED  BY <1>c, <1>i, <2>2, <2>3, <3>1
  <2> QED  BY <2>3, <2>4 DEF BalanceIInv, T
<1>3. CASE ResetLb
  BY <1>3 DEF ResetLb, BalanceIInv
<1>4. CASE connections' = connections
  BY <1>4, <1>c, <1>i DEF BalanceIInv, T
<1>5. Select \/ Distribute(2) \/ ResetLb \/ connections' = connections
  BY DEF SocketNext, RegisterDns8, ConnectLegacy, Connect, Bind, Send, Recv, Close, Log, socketVars
<1> QED  BY <1>1, <1>2, <1>3, <1>4, <1>5

LEMMA SocketInvariant == SocketSpec => []SocketIInv
<1>1. SocketInit => SocketIInv
  <2> SUFFICES ASSUME SocketInit PROVE LogIInv /\ BalanceIInv
    BY DEF SocketIInv
  <2>1. log = << >> /\ connections = << >> /\ connected = NoAddress /\ xlateTable = << >>
    BY DEF SocketInit
  <2>2. Turns(log, 0) = {} /\ \A to : Entries(log, 0, to) = {}
    BY DEF Turns, Entries
  <2>3. NamedIn(log, 1) = NoAddress /\ \A to : Told(log, 0, to) = DefaultAsn
    BY <2>2 DEF NamedIn, Told, LastOf
  <2>4. Len(log) = 0 /\ log \in Seq(Calls) /\ DOMAIN log = {} /\ DOMAIN xlateTable = {}
    BY <2>1
  <2>5. \A host : Resolve(host) = DefaultAsn
    BY <2>4 DEF Resolve
  <2>6. NamedIn(log, Len(log) + 1) = NoAddress
    BY <2>3, <2>4
  <2>7. LogIInv
    BY <2>1, <2>3, <2>4, <2>5, <2>6 DEF LogIInv
  <2> QED  BY <2>1, <2>7 DEF BalanceIInv
<1>2. SocketIInv /\ [SocketNext]_socketVars => SocketIInv'
  BY LogKeeps, BalanceKeeps DEF SocketIInv
<1> QED  BY <1>1, <1>2, PTL DEF SocketSpec

LEMMA FourAndFour ==
  ASSUME NEW S, NEW s \in Seq(S), NEW t \in Seq(S), Len(s) = 4, Len(t) = 4
  PROVE  (\A k \in 1 .. 4 : (s \o t)[k] = s[k]) /\ SubSeq(s \o t, 5, 8) = t
<1> DEFINE w == s \o t
<1>1. /\ w \in Seq(S) /\ Len(w) = 8
      /\ \A i \in 1 .. 8 : w[i] = IF i <= 4 THEN s[i] ELSE t[i - 4]
  <2>1. /\ w \in Seq(S) /\ Len(w) = Len(s) + Len(t)
        /\ \A i \in 1 .. Len(s) + Len(t) : w[i] = IF i <= Len(s) THEN s[i] ELSE t[i - Len(s)]
    BY ConcatProperties
  <2>2. Len(s) + Len(t) = 8
    OBVIOUS
  <2> HIDE DEF w
  <2> QED  BY <2>1, <2>2
<1> HIDE DEF w
<1>2. \A k \in 1 .. 4 : w[k] = s[k]
  BY <1>1
<1> DEFINE u == SubSeq(w, 5, 8)
<1>3. u \in Seq(S) /\ Len(u) = 4 /\ \A k \in 1 .. 4 : u[k] = t[k]
  <2>1. u \in Seq(S) /\ Len(u) = 4 /\ \A k \in 1 .. 4 : u[k] = w[5 + k - 1]
    <3>1. \A i \in 5 .. 8 : w[i] \in S
      <4>1. \A k \in 1 .. 4 : t[k] \in S
        BY ElementOfSeq
      <4>2. \A i \in 5 .. 8 : i \in 1 .. 8 /\ ~(i <= 4) /\ i - 4 \in 1 .. 4
        OBVIOUS
      <4> QED  BY <1>1, <4>1, <4>2
    <3>2. /\ u \in Seq(S) /\ Len(u) = (IF 5 <= 8 THEN 8 - 5 + 1 ELSE 0)
          /\ \A i \in 1 .. 8 - 5 + 1 : u[i] = w[5 + i - 1]
      BY <3>1, SubSeqProperties
    <3> HIDE DEF u
    <3> QED  BY <3>2
  <2>2. \A k \in 1 .. 4 : 5 + k - 1 \in 1 .. 8 /\ ~(5 + k - 1 <= 4) /\ (5 + k - 1) - 4 = k
    OBVIOUS
  <2> HIDE DEF u
  <2> QED  BY <1>1, <2>1, <2>2
<1> HIDE DEF u
<1>4. u = t
  BY <1>3, SeqEqual
<1> QED  BY <1>2, <1>4 DEF w, u

(* Eight octets carry an address.                                            *)
LEMMA WireKept ==
  ASSUME NEW a, IsAddress8(a)
  PROVE  FromWire(ToWire(a)) = a
<1> DEFINE n == a.asn
           x == Above(n)
           y == Above(x)
           z == Above(y)
           q == n % 256
           r == x % 256
           t == y % 256
           s == <<z, t, r, q>>
           w == ToWire(a)
           D == 0 .. 255
<1>1. n \in Nat /\ a.host \in Seq(0 .. 255) /\ Len(a.host) = 4
      /\ a = [asn |-> n, host |-> a.host] /\ z < 256
  BY DEF IsAddress8, FourOctets
<1> HIDE DEF n
<1>2. ASSUME NEW m \in Nat
      PROVE  m = Above(m) * 256 + (m % 256) /\ Above(m) \in Nat /\ m % 256 \in 0 .. 255
  BY SMTT(30) DEF Above
<1>3. /\ x \in Nat /\ y \in Nat /\ z \in Nat
      /\ q \in 0 .. 255 /\ r \in 0 .. 255 /\ t \in 0 .. 255
      /\ n = x * 256 + q /\ x = y * 256 + r /\ y = z * 256 + t
  BY <1>1, <1>2
<1>w. w = s \o a.host
  BY DEF ToWire, n
<1> HIDE DEF x, y, z, q, r, t, w
<1>4. s \in Seq(D) /\ Len(s) = 4 /\ s[1] = z /\ s[2] = t /\ s[3] = r /\ s[4] = q
  <2>1. q \in D /\ r \in D /\ t \in D /\ z \in D
    <3>1. z \in Nat /\ z < 256
      BY <1>1, <1>3
    <3>2. z \in D
      BY <3>1
    <3> QED  BY <1>3, <3>2
  <2> HIDE DEF D
  <2> QED  BY <2>1
<1>6. a.host \in Seq(D)
  BY <1>1
<1> HIDE DEF s, D
<1>7. w[1] = s[1] /\ w[2] = s[2] /\ w[3] = s[3] /\ w[4] = s[4] /\ SubSeq(w, 5, 8) = a.host
  <2>1. (\A k \in 1 .. 4 : w[k] = s[k]) /\ SubSeq(w, 5, 8) = a.host
    <3>1. Len(a.host) = 4 /\ Len(s) = 4 /\ s \in Seq(D)
      BY <1>1, <1>4
    <3>2. (\A k \in 1 .. 4 : (s \o a.host)[k] = s[k]) /\ SubSeq(s \o a.host, 5, 8) = a.host
      BY <1>6, <3>1, FourAndFour
    <3> QED  BY <1>w, <3>2
  <2> QED  BY <2>1
<1>8. FromWire(w) = [asn |-> ((((w[1] * 256) + w[2]) * 256 + w[3]) * 256) + w[4], host |-> SubSeq(w, 5, 8)]
  BY DEF FromWire
<1>9. ((((w[1] * 256) + w[2]) * 256 + w[3]) * 256) + w[4] = n
  BY <1>3, <1>4, <1>7
<1> QED  BY <1>1, <1>7, <1>8, <1>9 DEF w

(* The two addresses made of one: its octets but for the last bit.           *)
LEMMA EvenAndOdd ==
  ASSUME NEW a, IsAddress8(a)
  PROVE  LET even == MakeEvenOddPair(a).even
             odd == MakeEvenOddPair(a).odd
             v == a.host[4] - (a.host[4] % 2)
         IN /\ MakeEvenOddPair(a) = [even |-> even, odd |-> odd]
            /\ even = [asn |-> a.asn, host |-> [a.host EXCEPT ![4] = v]]
            /\ odd = [asn |-> a.asn, host |-> [a.host EXCEPT ![4] = v + 1]]
            /\ odd = [even EXCEPT !.host[4] = @ + 1]
            /\ Parity8(even) = 0 /\ v % 2 = 0
            /\ even.host[1] = a.host[1] /\ even.host[2] = a.host[2]
<1> DEFINE even == MakeEvenOddPair(a).even
           odd == MakeEvenOddPair(a).odd
           h == a.host
           v == h[4] - (h[4] % 2)
<1>1. a = [asn |-> a.asn, host |-> h] /\ h \in Seq(0 .. 255) /\ Len(h) = 4
  BY DEF IsAddress8
<1>2. h \in [1 .. 4 -> 0 .. 255]
  <2> DEFINE D == 0 .. 255
  <2>1. h \in Seq(D) /\ Len(h) = 4
    BY <1>1
  <2> HIDE DEF D, h
  <2>2. h \in [1 .. 4 -> D]
    BY <2>1, LenProperties
  <2> QED  BY <2>2 DEF D
<1>3. v \in Nat /\ v % 2 = 0
  <2>1. h[4] \in Nat
    BY <1>2
  <2> HIDE DEF h
  <2> QED  BY <2>1, SMTT(30)
<1>4. even = [a EXCEPT !.host[4] = @ - (@ % 2)] /\ odd = [even EXCEPT !.host[4] = @ + 1]
      /\ MakeEvenOddPair(a) = [even |-> even, odd |-> odd]
  BY DEF MakeEvenOddPair
<1>5. even = [asn |-> a.asn, host |-> [h EXCEPT ![4] = v]]
  <2>1. even = [a EXCEPT !.host = [h EXCEPT ![4] = v]]
    BY <1>4
  <2> HIDE DEF even, h, v
  <2> QED  BY <1>1, <2>1
<1> HIDE DEF even, odd, h, v
<1>6. /\ even.host = [h EXCEPT ![4] = v] /\ even.host[4] = v
      /\ even.host[1] = h[1] /\ even.host[2] = h[2] /\ even.asn = a.asn
  BY <1>2, <1>5
<1>7. odd = [even EXCEPT !.host = [even.host EXCEPT ![4] = v + 1]]
  BY <1>4, <1>6
<1>8. odd = [asn |-> a.asn, host |-> [even.host EXCEPT ![4] = v + 1]]
  BY <1>5, <1>6, <1>7
<1>9. [even.host EXCEPT ![4] = v + 1] = [h EXCEPT ![4] = v + 1]
  BY <1>2, <1>6
<1>10. Parity8(even) = 0
  BY <1>3, <1>6 DEF Parity8
<1> QED  BY <1>3, <1>4, <1>5, <1>6, <1>8, <1>9, <1>10 DEF even, odd, h, v

(* Both modules make the same pair of a service.                             *)
LEMMA PairFits ==
  /\ IsAddress8(Pair.even) /\ IsAddress8(Pair.odd)
  /\ MakeEvenOddPair(Pair.even) = Pair /\ MakeEvenOddPair(Pair.odd) = Pair
  /\ Parity8(Pair.even) = 0 /\ Parity8(Pair.odd) = 1
  /\ IsEvenOddPair(Pair.even, Pair.odd) /\ IsEvenOddPair(Pair.odd, Pair.even)
<1> DEFINE D == 0 .. 255
           e == Pair.even
           o == Pair.odd
           he == e.host
           ho == o.host
           n == Service.asn
<1>1. /\ e = [asn |-> n, host |-> he] /\ o = [asn |-> n, host |-> ho]
      /\ Pair = [even |-> e, odd |-> o]
  BY DEF Pair, MakeA8Pair
<1>2. /\ he \in Seq(D) /\ ho \in Seq(D) /\ Len(he) = 4 /\ Len(ho) = 4 /\ he[4] = 2 /\ ho[4] = 3
      /\ \A k \in 1 .. 3 : he[k] = ho[k]
  BY PairTyped
<1>3. IsAddress8(e) /\ IsAddress8(o)
  BY <1>2, PairTyped, SocketAssumption DEF IsAddress8
<1> HIDE DEF D
<1>4. he \in [1 .. 4 -> D] /\ ho \in [1 .. 4 -> D]
  <2> HIDE DEF he, ho
  <2> QED  BY <1>2, LenProperties
<1>5. /\ [he EXCEPT ![4] = 2] = he /\ [he EXCEPT ![4] = 3] = ho
      /\ [ho EXCEPT ![4] = 2] = he /\ [ho EXCEPT ![4] = 3] = ho
  <2>1. \A k \in 1 .. 4 : k \in 1 .. 3 \/ k = 4
    OBVIOUS
  <2> HIDE DEF he, ho
  <2>2. \A f \in [1 .. 4 -> D] : f = [k \in 1 .. 4 |-> f[k]]
    OBVIOUS
  <2>3. /\ \A k \in 1 .. 4 : [he EXCEPT ![4] = 2][k] = he[k] /\ [he EXCEPT ![4] = 3][k] = ho[k]
        /\ \A k \in 1 .. 4 : [ho EXCEPT ![4] = 2][k] = he[k] /\ [ho EXCEPT ![4] = 3][k] = ho[k]
    BY <1>2, <1>4, <2>1
  <2> QED  BY <1>2, <1>4, <2>3
<1>6. ASSUME NEW a \in {e, o}
      PROVE  /\ MakeEvenOddPair(a) = Pair
             /\ MakeEvenOddPair(a).odd = [MakeEvenOddPair(a).even EXCEPT !.host[4] = @ + 1]
             /\ Parity8(MakeEvenOddPair(a).even) = 0
  <2> DEFINE v == a.host[4] - (a.host[4] % 2)
  <2>1. IsAddress8(a) /\ a.asn = n
    BY <1>1, <1>3
  <2>2. v = 2
    <3>1. a.host[4] = 2 \/ a.host[4] = 3
      BY <1>2
    <3> QED  BY <3>1, SMTT(30)
  <2>3. /\ MakeEvenOddPair(a) = [even |-> MakeEvenOddPair(a).even, odd |-> MakeEvenOddPair(a).odd]
        /\ MakeEvenOddPair(a).even = [asn |-> a.asn, host |-> [a.host EXCEPT ![4] = v]]
        /\ MakeEvenOddPair(a).odd = [asn |-> a.asn, host |-> [a.host EXCEPT ![4] = v + 1]]
        /\ MakeEvenOddPair(a).odd = [MakeEvenOddPair(a).even EXCEPT !.host[4] = @ + 1]
        /\ Parity8(MakeEvenOddPair(a).even) = 0
    BY <2>1, EvenAndOdd
  <2>4. [a.host EXCEPT ![4] = 2] = he /\ [a.host EXCEPT ![4] = 3] = ho
    BY <1>5
  <2> HIDE DEF v, he, ho
  <2>5. v + 1 = 3
    BY <2>2
  <2>6. MakeEvenOddPair(a).even = e /\ MakeEvenOddPair(a).odd = o
    BY <1>1, <2>1, <2>2, <2>3, <2>4, <2>5
  <2> QED  BY <1>1, <2>3, <2>6
<1>7. o = [e EXCEPT !.host[4] = @ + 1] /\ Parity8(e) = 0
  <2>1. MakeEvenOddPair(e) = Pair
    BY <1>6
  <2>2. MakeEvenOddPair(e).even = e /\ MakeEvenOddPair(e).odd = o
    BY <2>1
  <2> QED  BY <1>6, <2>2
<1>8. Parity8(o) = 1
  BY <1>2, SMTT(30) DEF Parity8
<1>9. IsEvenOddPair(e, o) /\ IsEvenOddPair(o, e)
  <2> HIDE DEF e, o
  <2> QED  BY <1>7 DEF IsEvenOddPair
<1> QED  BY <1>3, <1>6, <1>7, <1>8, <1>9

(* Every other place of a line, from the first on.                           *)
Alternate(n) == {i \in 1 .. n : (i - 1) % 2 = 0}

HalvesAt(n) ==
  /\ IsFiniteSet(Alternate(n)) /\ Cardinality(Alternate(n)) \in Nat
  /\ 2 * Cardinality(Alternate(n)) = IF n % 2 = 0 THEN n ELSE n + 1

LEMMA Halves == \A n \in Nat : HalvesAt(n)
<1>1. HalvesAt(0)
  <2>1. Alternate(0) = {}
    BY DEF Alternate
  <2> QED  BY <2>1, FS_EmptySet DEF HalvesAt
<1>2. ASSUME NEW n \in Nat, HalvesAt(n) PROVE HalvesAt(n + 1)
  <2>1. \A i \in 1 .. n + 1 : i \in 1 .. n \/ i = n + 1
    OBVIOUS
  <2>2. n + 1 \notin Alternate(n) /\ (n + 1) - 1 = n
    BY DEF Alternate
  <2>3. (n % 2 = 0 /\ (n + 1) % 2 = 1) \/ (n % 2 = 1 /\ (n + 1) % 2 = 0)
    BY SMTT(30)
  <2>4. CASE n % 2 = 0
    <3>1. Alternate(n + 1) = Alternate(n) \cup {n + 1}
      BY <2>1, <2>2, <2>4 DEF Alternate
    <3>2. IsFiniteSet(Alternate(n + 1)) /\ Cardinality(Alternate(n + 1)) = Cardinality(Alternate(n)) + 1
      BY <1>2, <2>2, <3>1, FS_AddElement DEF HalvesAt
    <3> DEFINE c == Cardinality(Alternate(n))
    <3>3. c \in Nat /\ 2 * c = n
      BY <1>2, <2>4 DEF HalvesAt
    <3>4. Cardinality(Alternate(n + 1)) = c + 1
      BY <3>2
    <3> HIDE DEF c
    <3>5. 2 * (c + 1) = n + 2 /\ (n + 1) + 1 = n + 2
      BY <3>3
    <3> QED  BY <2>3, <2>4, <3>2, <3>3, <3>4, <3>5 DEF HalvesAt
  <2>5. CASE n % 2 = 1
    <3>1. Alternate(n + 1) = Alternate(n)
      BY <2>1, <2>2, <2>5 DEF Alternate
    <3> QED  BY <1>2, <2>3, <2>5, <3>1 DEF HalvesAt
  <2> QED  BY <2>3, <2>4, <2>5
<1> DEFINE B == {n \in Nat : ~HalvesAt(n)}
<1>3. SUFFICES ASSUME B # {} PROVE FALSE
  OBVIOUS
<1>4. PICK m \in B : \A k \in B : m <= k
  BY <1>3, MinOfNats
<1>5. m # 0 /\ m \in Nat
  BY <1>1
<1>6. m - 1 \in Nat /\ m - 1 \notin B /\ (m - 1) + 1 = m
  BY <1>4, <1>5
<1>7. HalvesAt(m)
  BY <1>2, <1>6
<1> QED  BY <1>7

LEMMA ChoicesAlternate ==
  ASSUME BalanceIInv, strategy \in {"round_robin", "passthrough"}
  PROVE  /\ \A i \in DOMAIN connections :
              connections[i] = IF (i - 1) % 2 = 0 THEN Pair.even ELSE Pair.odd
         /\ \A i \in DOMAIN connections : i > 1 => IsEvenOddPair(connections[i - 1], connections[i])
         /\ Stats.even - Stats.odd \in {0, 1}
<1> DEFINE n == Len(connections)
<1>i. DOMAIN connections = 1 .. n /\ n \in Nat
  BY DEF BalanceIInv
<1>1. \A i \in DOMAIN connections :
        connections[i] = IF (i - 1) % 2 = 0 THEN Pair.even ELSE Pair.odd
  BY DEF BalanceIInv, Choice
<1>2. ASSUME NEW i \in DOMAIN connections, i > 1
      PROVE  IsEvenOddPair(connections[i - 1], connections[i])
  <2>1. i - 1 \in DOMAIN connections /\ i - 1 \in Nat /\ (i - 1) - 1 \in Nat
    BY <1>i, <1>2
  <2>2. \/ ((i - 1) - 1) % 2 = 0 /\ (i - 1) % 2 = 1
        \/ ((i - 1) - 1) % 2 = 1 /\ (i - 1) % 2 = 0
    <3>1. \A k \in Nat : k - 1 \in Nat =>
            \/ (k - 1) % 2 = 0 /\ k % 2 = 1
            \/ (k - 1) % 2 = 1 /\ k % 2 = 0
      BY SMTT(30)
    <3> QED  BY <2>1, <3>1
  <2>3. connections[i - 1] = IF ((i - 1) - 1) % 2 = 0 THEN Pair.even ELSE Pair.odd
    BY <1>1, <2>1
  <2> QED  BY <1>1, <2>2, <2>3, PairFits
<1>3. {i \in DOMAIN connections : Parity8(connections[i]) = 0} = Alternate(n)
  <2>1. \A i \in DOMAIN connections : Parity8(connections[i]) = 0 <=> (i - 1) % 2 = 0
    BY <1>1, PairFits
  <2> QED  BY <1>i, <2>1 DEF Alternate
<1>4. Stats.even - Stats.odd \in {0, 1}
  <2> DEFINE c == Cardinality(Alternate(n))
  <2>1. Stats.even = c /\ Stats.odd = n - c
    BY <1>3 DEF Stats
  <2>2. c \in Nat /\ (2 * c = n \/ 2 * c = n + 1)
    <3>1. HalvesAt(n)
      BY <1>i, Halves
    <3> QED  BY <3>1 DEF HalvesAt
  <2> HIDE DEF c, n
  <2>3. c - (n - c) = 0 \/ c - (n - c) = 1
    BY <1>i, <2>2
  <2> QED  BY <2>1, <2>3
<1> QED  BY <1>1, <1>2, <1>4

LEMMA SocketsReach == SocketIInv => SendsReachNamed
<1> SUFFICES ASSUME LogIInv, BalanceIInv PROVE SendsReachNamed
  BY DEF SocketIInv
<1>1. \A i \in DOMAIN log : log[i].action \in {"send", "recv"} => log[i].address = Named(i)
  BY NamedByLog DEF LogIInv
<1>2. \A i \in DOMAIN connections : connections[i] \in {Pair.even, Pair.odd}
  BY DEF BalanceIInv
<1>3. ASSUME NEW a \in Records \cup {Pair.even, Pair.odd}
      PROVE  /\ FromWire(ToWire(a)) = a
             /\ a \in {Pair.even, Pair.odd} => MakeEvenOddPair(a) = Pair
             /\ IsEvenOddPair(MakeEvenOddPair(a).odd, MakeEvenOddPair(a).even)
             /\ ValidatePublicA8(MakeEvenOddPair(a).even) = ValidatePublicA8(a)
  <2> DEFINE even == MakeEvenOddPair(a).even
             odd == MakeEvenOddPair(a).odd
  <2>1. IsAddress8(a)
    BY PairFits, SocketAssumption
  <2>2. /\ odd = [even EXCEPT !.host[4] = @ + 1] /\ Parity8(even) = 0
        /\ even.host[1] = a.host[1] /\ even.host[2] = a.host[2]
    BY <2>1, EvenAndOdd
  <2>3. FromWire(ToWire(a)) = a
    BY <2>1, WireKept
  <2>4. a \in {Pair.even, Pair.odd} => MakeEvenOddPair(a) = Pair
    BY PairFits
  <2> HIDE DEF even, odd
  <2>5. IsEvenOddPair(odd, even)
    BY <2>2 DEF IsEvenOddPair
  <2>6. ValidatePublicA8(even) = ValidatePublicA8(a)
    BY <2>2 DEF ValidatePublicA8, IsRfc1918
  <2> QED  BY <2>3, <2>4, <2>5, <2>6 DEF even, odd
<1>4. /\ \A i \in DOMAIN connections :
           strategy \in {"round_robin", "passthrough"} /\ i > 1 =>
             IsEvenOddPair(connections[i - 1], connections[i])
      /\ strategy \in {"round_robin", "passthrough"} => Stats.even - Stats.odd \in {0, 1}
  BY ChoicesAlternate
<1> QED  BY <1>1, <1>2, <1>3, <1>4 DEF SendsReachNamed

(* Names lead home: what bridges deliver is answered, and sockets send where *)
(* their applications named, over either address of a service.               *)
THEOREM NamesAreKept == InteropSpec /\ SocketSpec => []NamesLeadHome
BY InteropInvariant, AnswersArrive, SocketInvariant, SocketsReach, PTL DEF NamesLeadHome

================================================================================
