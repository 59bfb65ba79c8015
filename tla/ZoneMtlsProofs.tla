----------------------------- MODULE ZoneMtlsProofs -----------------------------
(***************************************************************************)
(* Proofs about ZoneMtls and ZoneRecords, for any number of clients,       *)
(* sessions, certificates and messages.  The invariant adds to Agreement   *)
(* what makes it inductive: every CertificateVerify answers a ServerHello  *)
(* its subject was sent.  For messages it adds that a ServerHello went to  *)
(* one client only, so that a key tells the session and its client.        *)
(***************************************************************************)
EXTENDS ZoneRecords, TLAPS

(* A signed certificate is one this CA has issued.                          *)
OwnCert(c) == \E n \in 1 .. Len(issued) : c = issued[n]

Answered ==
  \A cv \in verifies : [sid |-> cv.transcript, client |-> cv.cert.subject] \in hellos

IInv == TypeOK /\ Answered /\ Agreement

(* The log of certificates only grows, and no entry changes.                *)
LEMMA AppendedCert ==
  ASSUME TypeOK, NEW c, issued' = Append(issued, c)
  PROVE  /\ Len(issued') = Len(issued) + 1
         /\ \A n \in 1 .. Len(issued) : issued'[n] = issued[n]
         /\ issued'[Len(issued) + 1] = c
  BY DEF TypeOK, CaTypeOK

(* A certificate that passes verification and is signed by this CA is in    *)
(* its log, under its serial number.                                        *)
LEMMA SignedIsIssued ==
  ASSUME TypeOK, NEW c \in Certs, c.signed
  PROVE  \E n \in 1 .. Len(issued) : c = issued[n] /\ c.serial = n
  BY CertAuthorityAssumption DEF TypeOK, CaTypeOK, Certs

LEMMA InitIInv == Init => IInv
  <1> SUFFICES ASSUME Init PROVE IInv
    OBVIOUS
  <1>1. CaTypeOK
    <2>1. Certificate(1, CaName, "CA", ServerValidity) \in CertificateSet
      BY CertAuthorityAssumption DEF Init, CaInit, SelfSigned, Certificate, CertificateSet
    <2>2. Certificate(ServerSerial, ServerName, "SERVER", ServerValidity) \in CertificateSet
      BY CertAuthorityAssumption DEF Init, CaInit, SelfSigned, Certificate, CertificateSet, ServerSerial
    <2> DEFINE server == Certificate(ServerSerial, ServerName, "SERVER", ServerValidity)
    <2>3. SelfSigned \in CertificateSet /\ SelfSigned.serial = 1 /\ SelfSigned.signed
      BY <2>1 DEF SelfSigned, Certificate
    <2>4. server \in CertificateSet /\ server.serial = ServerSerial /\ server.signed
      BY <2>2 DEF Certificate
    <2>5. OfNewAuthority \in Seq(CertificateSet) /\ Len(OfNewAuthority) = 1
          /\ OfNewAuthority[1] = SelfSigned
      BY <2>3 DEF OfNewAuthority
    <2>6. issued = Append(OfNewAuthority, server) /\ now = 0 /\ revoked = {}
      BY DEF Init, CaInit
    <2> HIDE DEF server
    <2>7. /\ issued \in Seq(CertificateSet) /\ Len(issued) = 2
          /\ issued[1] = SelfSigned /\ issued[2] = server
      BY <2>4, <2>5, <2>6
    <2> QED
      BY <2>3, <2>4, <2>6, <2>7 DEF CaTypeOK, ServerSerial
  <1>2. TypeOK
    BY <1>1, ZoneMtlsAssumption DEF Init, TypeOK, SessionIds
  <1>3. Answered /\ Agreement
    BY DEF Init, Answered, Agreement, Established
  <1> QED
    BY <1>2, <1>3 DEF IInv

--------------------------------------------------------------------------------
(* The certificate authority's steps: certificates stay what they are.      *)
LEMMA CaStepIInv ==
  ASSUME IInv, CaStep, UNCHANGED mtlsVars PROVE IInv'
  <1> USE DEF IInv, mtlsVars
  <1>1. ASSUME NEW client \in Clients, NEW type \in CertTypes, NEW days \in Validities,
               IssueCertificate(client, type, days)
        PROVE  IInv'
    <2> DEFINE c == Certificate(Len(issued) + 1, client, type, days)
    <2>1. c \in CertificateSet
      BY <1>1, CertAuthorityAssumption DEF TypeOK, CaTypeOK, Certificate, CertificateSet
    <2>2. issued' = Append(issued, c)
      BY <1>1 DEF IssueCertificate
    <2> HIDE DEF c
    <2>3. /\ Len(issued') = Len(issued) + 1
          /\ \A n \in 1 .. Len(issued) : issued'[n] = issued[n]
          /\ issued'[Len(issued) + 1] = c
      BY <2>2, AppendedCert
    <2>4. c.serial = Len(issued) + 1 /\ c.signed
      BY DEF c, Certificate
    <2>5. issued' \in Seq(CertificateSet)
      BY <2>1, <2>2 DEF TypeOK, CaTypeOK
    <2>6. CaTypeOK'
      <3>1. \A n \in 1 .. Len(issued') : issued'[n].serial = n /\ issued'[n].signed
        BY <2>3, <2>4 DEF TypeOK, CaTypeOK
      <3>2. revoked' \subseteq 1 .. Len(issued') /\ Len(issued') >= ServerSerial /\ now' \in Nat
        BY <1>1, <2>3 DEF TypeOK, CaTypeOK, IssueCertificate, ServerSerial
      <3> QED
        BY <2>5, <3>1, <3>2 DEF CaTypeOK
    <2>7. Certs \subseteq Certs'
      BY <2>3 DEF Certs, TypeOK, CaTypeOK
    <2>8. TypeOK'
      <3>1. verifies' \subseteq [cert : Certs', transcript : 1 .. started']
        BY <2>7 DEF TypeOK
      <3>2. /\ started' \in 0 .. MaxSessions
            /\ DOMAIN sessions' = SessionIds
            /\ authenticated' \subseteq Clients
            /\ hellos' \subseteq [sid : 1 .. started', client : Clients]
        BY DEF TypeOK
      <3>3. \A sid \in SessionIds : sessions'[sid] # NoSession =>
              /\ sid <= started'
              /\ sessions'[sid].state \in {"SERVER_HELLO_SENT", "ESTABLISHED"}
              /\ IF Established(sid)' THEN sessions'[sid].subject \in Clients
                                      ELSE sessions'[sid].subject = NoOne
        BY DEF TypeOK, Established
      <3> QED
        BY <2>6, <3>1, <3>2, <3>3 DEF TypeOK
    <2>9. Answered'
      BY DEF Answered
    <2>10. Agreement'
      <3> SUFFICES ASSUME NEW sid \in SessionIds, Established(sid)
                   PROVE  /\ [sid |-> sid, client |-> sessions[sid].subject] \in hellos
                          /\ \E n \in 1 .. Len(issued') :
                               /\ issued'[n].type = "CLIENT"
                               /\ issued'[n].subject = sessions[sid].subject
                               /\ [cert |-> issued'[n], transcript |-> sid] \in verifies
        BY DEF Agreement, Established
      <3>1. PICK n \in 1 .. Len(issued) :
              /\ issued[n].type = "CLIENT"
              /\ issued[n].subject = sessions[sid].subject
              /\ [cert |-> issued[n], transcript |-> sid] \in verifies
        BY DEF Agreement
      <3>2. n \in 1 .. Len(issued') /\ issued'[n] = issued[n]
        BY <2>3 DEF TypeOK, CaTypeOK
      <3> QED
        BY <3>1, <3>2 DEF Agreement
    <2> QED
      BY <2>8, <2>9, <2>10
  <1>2. ASSUME NEW n \in 1 .. Len(issued), RevokeCertificate(n) PROVE IInv'
    <2>1. CaTypeOK' /\ Certs' = Certs
      BY <1>2 DEF RevokeCertificate, TypeOK, CaTypeOK, Certs
    <2> QED
      BY <1>2, <2>1 DEF RevokeCertificate, TypeOK, Answered, Agreement, Established
  <1>3. CASE CaTick
    <2>1. CaTypeOK' /\ Certs' = Certs
      BY <1>3 DEF CaTick, TypeOK, CaTypeOK, Certs
    <2> QED
      BY <1>3, <2>1 DEF CaTick, TypeOK, Answered, Agreement, Established
  <1> QED
    BY <1>1, <1>2, <1>3 DEF CaStep

(* The authority's part of the type invariant depends on its state alone.   *)
LEMMA CaUnchanged ==
  ASSUME TypeOK, UNCHANGED caVars PROVE CaTypeOK' /\ Certs' = Certs
  BY DEF TypeOK, caVars, CaTypeOK, Certs

LEMMA StartIInv ==
  ASSUME IInv, NEW client \in Clients, StartHandshake(client) PROVE IInv'
  <1> USE DEF IInv, StartHandshake, NewSession, ServerHello, caVars
  <1>1. CaTypeOK' /\ Certs' = Certs
    BY CaUnchanged
  <1>2. started' \in 0 .. MaxSessions /\ started + 1 \in SessionIds
    BY ZoneMtlsAssumption DEF TypeOK, SessionIds
  <1>3. \A sid \in SessionIds :
          sessions'[sid] = IF sid = started + 1
                           THEN [state |-> "SERVER_HELLO_SENT", subject |-> NoOne]
                           ELSE sessions[sid]
    BY <1>2 DEF TypeOK
  <1>4. TypeOK'
    <2>1. \A sid \in SessionIds : sessions'[sid] # NoSession =>
            /\ sid <= started'
            /\ sessions'[sid].state \in {"SERVER_HELLO_SENT", "ESTABLISHED"}
            /\ IF Established(sid)' THEN sessions'[sid].subject \in Clients ELSE sessions'[sid].subject = NoOne
      BY <1>3 DEF TypeOK, Established, SessionIds
    <2>2. hellos' \subseteq [sid : 1 .. started', client : Clients]
      BY <1>2 DEF TypeOK
    <2>3. verifies' \subseteq [cert : Certs', transcript : 1 .. started']
      BY <1>1, <1>2 DEF TypeOK
    <2> QED
      BY <1>1, <1>2, <2>1, <2>2, <2>3 DEF TypeOK
  <1>5. Answered'
    BY DEF Answered
  <1>6. Agreement'
    BY <1>3 DEF Agreement, Established
  <1> QED
    BY <1>4, <1>5, <1>6

LEMMA ClientIInv ==
  ASSUME IInv, NEW hello \in hellos, NEW cert \in Certs, ClientHandshake(hello, cert)
  PROVE  IInv'
  <1> USE DEF IInv, ClientHandshake, caVars
  <1>1. CaTypeOK' /\ Certs' = Certs
    BY CaUnchanged
  <1>2. hello \in [sid : 1 .. started, client : Clients]
    BY DEF TypeOK
  <1>3. [sid |-> hello.sid, client |-> cert.subject] = hello
    BY <1>2
  <1>4. TypeOK'
    BY <1>1, <1>2 DEF TypeOK, Established
  <1>5. Answered'
    <2> DEFINE new == [cert |-> cert, transcript |-> hello.sid]
    <2>1. new.cert = cert /\ new.transcript = hello.sid
      OBVIOUS
    <2>2. verifies' = verifies \cup {new}
      OBVIOUS
    <2> HIDE DEF new
    <2>3. [sid |-> new.transcript, client |-> new.cert.subject] \in hellos
      BY <1>3, <2>1
    <2> QED
      BY <2>2, <2>3 DEF Answered
  <1>6. Agreement'
    BY DEF Agreement, Established
  <1> QED
    BY <1>4, <1>5, <1>6

(* Dropping a session leaves the others as they were.                       *)
LEMMA DropIInv ==
  ASSUME IInv, NEW sid \in SessionIds,
         sessions' = [sessions EXCEPT ![sid] = NoSession],
         authenticated' \subseteq authenticated,
         UNCHANGED <<started, hellos, verifies, caVars>>
  PROVE  IInv'
  <1> USE DEF IInv, caVars
  <1>1. CaTypeOK' /\ Certs' = Certs
    BY CaUnchanged
  <1>2. \A s \in SessionIds : sessions'[s] = IF s = sid THEN NoSession ELSE sessions[s]
    BY DEF TypeOK
  <1>3. TypeOK'
    BY <1>1, <1>2 DEF TypeOK, Established
  <1>4. Answered' /\ Agreement'
    BY <1>2 DEF Answered, Agreement, Established
  <1> QED
    BY <1>3, <1>4

(* The step that establishes a session: the certificate is this CA's, and   *)
(* the client was sent this session's ServerHello.                          *)
LEMMA AdmitFacts ==
  ASSUME IInv, NEW sid \in SessionIds, NEW cv \in verifies, Accepts(sid, cv)
  PROVE  /\ [sid |-> sid, client |-> cv.cert.subject] \in hellos
         /\ cv.cert.subject \in Clients
         /\ \E n \in 1 .. Len(issued) :
              /\ issued[n] = cv.cert /\ issued[n].type = "CLIENT"
              /\ n \notin revoked
              /\ issued[n].notBefore <= now /\ now < issued[n].notAfter
              /\ [cert |-> issued[n], transcript |-> sid] \in verifies
  <1> USE DEF IInv
  <1>1. VerifyCertificate(cv.cert) /\ cv.cert.type = "CLIENT" /\ cv.transcript = sid
    BY DEF Accepts, Signs
  <1>2. cv \in [cert : Certs, transcript : 1 .. started]
    BY DEF TypeOK
  <1>3. cv = [cert |-> cv.cert, transcript |-> sid]
    BY <1>1, <1>2
  <1>4. [sid |-> sid, client |-> cv.cert.subject] \in hellos
    BY <1>1 DEF Answered
  <1>5. cv.cert.subject \in Clients
    <2>1. [sid |-> sid, client |-> cv.cert.subject] \in [sid : 1 .. started, client : Clients]
      BY <1>4 DEF TypeOK
    <2> QED
      BY <2>1
  <1>6. PICK n \in 1 .. Len(issued) : cv.cert = issued[n] /\ cv.cert.serial = n
    BY <1>1, <1>2, SignedIsIssued DEF VerifyCertificate
  <1>7. n \notin revoked /\ issued[n].notBefore <= now /\ now < issued[n].notAfter
    BY <1>1, <1>6 DEF VerifyCertificate, ValidAt
  <1> QED
    BY <1>1, <1>3, <1>4, <1>5, <1>6, <1>7

LEMMA AdmitIInv ==
  ASSUME IInv, NEW sid \in SessionIds, NEW cv \in verifies, sessions[sid] # NoSession,
         Admit(sid, cv), UNCHANGED <<started, hellos, verifies, caVars>>
  PROVE  IInv'
  <1> USE DEF IInv, caVars
  <1>1. CaTypeOK' /\ Certs' = Certs
    BY CaUnchanged
  <1> DEFINE new == [state |-> "ESTABLISHED", subject |-> cv.cert.subject]
  <1>2. /\ [sid |-> sid, client |-> cv.cert.subject] \in hellos
        /\ cv.cert.subject \in Clients
        /\ \E n \in 1 .. Len(issued) :
             /\ issued[n] = cv.cert /\ issued[n].type = "CLIENT"
             /\ [cert |-> issued[n], transcript |-> sid] \in verifies
    BY AdmitFacts DEF Admit
  <1>3. \A s \in SessionIds : sessions'[s] = IF s = sid THEN new ELSE sessions[s]
    BY DEF Admit, TypeOK
  <1>4. new.state = "ESTABLISHED" /\ new.subject = cv.cert.subject
    OBVIOUS
  <1>5. authenticated' = authenticated \cup {cv.cert.subject} /\ DOMAIN sessions' = SessionIds
    BY DEF Admit, TypeOK
  <1> HIDE DEF new
  <1>6. TypeOK'
    <2>1. \A s \in SessionIds : sessions'[s] # NoSession =>
            /\ s <= started'
            /\ sessions'[s].state \in {"SERVER_HELLO_SENT", "ESTABLISHED"}
            /\ IF Established(s)' THEN sessions'[s].subject \in Clients ELSE sessions'[s].subject = NoOne
      BY <1>2, <1>3, <1>4 DEF TypeOK, Established
    <2> QED
      BY <1>1, <1>2, <1>5, <2>1 DEF TypeOK
  <1>7. Answered'
    BY DEF Answered
  <1>8. Agreement'
    BY <1>2, <1>3, <1>4 DEF Agreement, Established
  <1> QED
    BY <1>6, <1>7, <1>8

LEMMA StepIInv == IInv /\ [Next]_vars => IInv'
  <1> SUFFICES ASSUME IInv, [Next]_vars PROVE IInv'
    OBVIOUS
  <1>1. CASE CaStep /\ UNCHANGED mtlsVars
    BY <1>1, CaStepIInv
  <1>2. ASSUME NEW client \in Clients, StartHandshake(client) PROVE IInv'
    BY <1>2, StartIInv
  <1>3. ASSUME NEW hello \in hellos, NEW cert \in Certs, ClientHandshake(hello, cert)
        PROVE  IInv'
    BY <1>3, ClientIInv
  <1>4. ASSUME NEW sid \in SessionIds, NEW cv \in verifies, CompleteHandshake(sid, cv)
        PROVE  IInv'
    <2>1. CASE Admit(sid, cv)
      BY <1>4, <2>1, AdmitIInv DEF CompleteHandshake
    <2>2. CASE Reject(sid, cv)
      BY <1>4, <2>2, DropIInv DEF CompleteHandshake, Reject
    <2> QED
      BY <1>4, <2>1, <2>2 DEF CompleteHandshake
  <1>5. ASSUME NEW sid \in SessionIds, RevokeSession(sid) PROVE IInv'
    BY <1>5, DropIInv DEF RevokeSession
  <1>6. CASE UNCHANGED vars
    BY <1>6, CaUnchanged DEF vars, mtlsVars, caVars, IInv, TypeOK, Answered, Agreement, Established
  <1> QED
    BY <1>1, <1>2, <1>3, <1>4, <1>5, <1>6 DEF Next

THEOREM Inductive == Spec => []IInv
  BY InitIInv, StepIInv, PTL DEF Spec

--------------------------------------------------------------------------------
(* Every reachable state is well typed: sessions exist only under ids that  *)
(* were handed out, and have a subject exactly when established.            *)
THEOREM TypeCorrect == Spec => []TypeOK
  BY Inductive, PTL DEF IInv

(* Server and client agree on who an established session belongs to.        *)
THEOREM HandshakeAgreement == Spec => []Agreement
  BY Inductive, PTL DEF IInv

(* No session is established for a client without a valid certificate at    *)
(* that very moment.                                                        *)
THEOREM NoAdmissionWithoutCertificate == Spec => AdmittedWithCertificate
  <1>1. IInv /\ [Next]_vars =>
          [\A sid \in SessionIds : Established(sid)' /\ ~Established(sid)
             => HoldsCertificate(sessions'[sid].subject)]_vars
    <2> SUFFICES ASSUME IInv, Next, NEW s \in SessionIds,
                        Established(s)', ~Established(s)
                 PROVE  HoldsCertificate(sessions'[s].subject)
      BY DEF vars
    <2> USE DEF IInv
    <2>1. CASE UNCHANGED sessions
      BY <2>1 DEF Established
    <2>2. ASSUME NEW client \in Clients, StartHandshake(client) PROVE FALSE
      BY <2>2, ZoneMtlsAssumption DEF StartHandshake, NewSession, ServerHello, Established, TypeOK, SessionIds
    <2>3. ASSUME NEW sid \in SessionIds, NEW cv \in verifies, CompleteHandshake(sid, cv)
          PROVE  HoldsCertificate(sessions'[s].subject)
      <3>1. CASE Admit(sid, cv)
        <4>1. s = sid
          BY <3>1 DEF Admit, Established, TypeOK
        <4>2. sessions'[s].subject = cv.cert.subject
          BY <3>1, <4>1 DEF Admit, TypeOK
        <4>3. \E n \in 1 .. Len(issued) :
                /\ issued[n] = cv.cert /\ issued[n].type = "CLIENT"
                /\ n \notin revoked
                /\ issued[n].notBefore <= now /\ now < issued[n].notAfter
          BY <3>1, AdmitFacts DEF Admit
        <4> QED
          BY <4>2, <4>3 DEF HoldsCertificate
      <3>2. CASE Reject(sid, cv)
        BY <3>2 DEF Reject, Established, TypeOK
      <3> QED
        BY <2>3, <3>1, <3>2 DEF CompleteHandshake
    <2>4. ASSUME NEW sid \in SessionIds, RevokeSession(sid) PROVE FALSE
      BY <2>4 DEF RevokeSession, Established, TypeOK
    <2> QED
      BY <2>1, <2>2, <2>3, <2>4 DEF Next, mtlsVars, ClientHandshake
  <1> QED
    BY <1>1, Inductive, PTL DEF Spec, AdmittedWithCertificate

(* Only the end of a session of its own takes a client's authentication.    *)
THEOREM NoStrayDeauthentication == Spec => DeauthenticatedWithSession
  <1>1. IInv /\ [Next]_vars =>
          [\A client \in authenticated \ authenticated' :
             \E sid \in SessionIds :
               Established(sid) /\ sessions[sid].subject = client /\ sessions'[sid] = NoSession]_vars
    <2> SUFFICES ASSUME IInv, Next, NEW c \in authenticated \ authenticated'
                 PROVE  \E sid \in SessionIds :
                          Established(sid) /\ sessions[sid].subject = c /\ sessions'[sid] = NoSession
      BY DEF vars
    <2>1. PICK sid \in SessionIds : RevokeSession(sid)
      BY DEF Next, mtlsVars, StartHandshake, NewSession, ServerHello, ClientHandshake, CompleteHandshake, Admit, Reject
    <2>2. c = sessions[sid].subject /\ c \in Clients /\ sessions'[sid] = NoSession
      BY <2>1 DEF RevokeSession, IInv, TypeOK
    <2>3. Established(sid)
      BY <2>1, <2>2, ZoneMtlsAssumption DEF RevokeSession, IInv, TypeOK
    <2> QED
      BY <2>2, <2>3
  <1> QED
    BY <1>1, Inductive, PTL DEF Spec, DeauthenticatedWithSession

--------------------------------------------------------------------------------
(* The certificate that the zone's server presents is the authority's own.  *)
ServersOwn == ServerCert.type = "SERVER" /\ ServerCert.issuer = CaName

(* No two clients were answered under one session id.                       *)
OneClientEach == \A g, h \in hellos : g.sid = h.sid => g = h

(* A message carries the key of the session and the client it was made for. *)
KeyFits ==
  \A m \in messages :
    /\ m \in [key : [client : Clients, server : SessionIds], text : Texts, intact : {TRUE},
              sid : SessionIds, subject : Clients]
    /\ m.key = [client |-> m.subject, server |-> m.sid]

RecordsIInv == IInv /\ ServersOwn /\ OneClientEach /\ KeyFits /\ RecordsStayInSession

(* The session's key names the client it is established with.               *)
LEMMA KeyOfSession ==
  ASSUME RecordsIInv, NEW sid \in SessionIds, Established(sid)
  PROVE  SessionKey(sid) = [client |-> sessions[sid].subject, server |-> sid]
  <1> DEFINE h == [sid |-> sid, client |-> sessions[sid].subject]
  <1>1. h \in hellos /\ h.sid = sid /\ h.client = sessions[sid].subject
    BY DEF RecordsIInv, IInv, Agreement
  <1> HIDE DEF h
  <1>2. \A g \in hellos : g.sid = sid => g = h
    BY <1>1 DEF RecordsIInv, OneClientEach
  <1>3. (CHOOSE g \in hellos : g.sid = sid) = h
    BY <1>1, <1>2
  <1> QED
    BY <1>1, <1>3 DEF SessionKey, ClientOf

LEMMA InitRecords == Init /\ RecordsInit => RecordsIInv
  <1> SUFFICES ASSUME Init, RecordsInit PROVE RecordsIInv
    OBVIOUS
  <1>1. ServersOwn
    <2> DEFINE server == Certificate(ServerSerial, ServerName, "SERVER", ServerValidity)
    <2>1. server.type = "SERVER" /\ server.issuer = CaName
      BY DEF Certificate
    <2> HIDE DEF server
    <2>2. issued = Append(<<SelfSigned>>, server)
      BY DEF server, Init, CaInit, OfNewAuthority
    <2>3. issued[2] = server
      BY <2>2
    <2> QED
      BY <2>1, <2>3 DEF ServersOwn, ServerCert, ServerSerial
  <1>2. OneClientEach /\ KeyFits /\ RecordsStayInSession
    BY DEF Init, RecordsInit, OneClientEach, KeyFits, RecordsStayInSession
  <1> QED
    BY <1>1, <1>2, InitIInv DEF RecordsIInv

(* Certificates already issued do not change.                               *)
LEMMA ServersOwnKept == IInv /\ ServersOwn /\ [Next]_vars => ServersOwn'
  <1> SUFFICES ASSUME IInv, ServersOwn, [Next]_vars PROVE ServersOwn'
    OBVIOUS
  <1>1. CASE UNCHANGED issued
    BY <1>1 DEF ServersOwn, ServerCert
  <1>2. ASSUME NEW client \in Clients, NEW type \in CertTypes, NEW days \in Validities,
               IssueCertificate(client, type, days)
        PROVE  ServersOwn'
    <2> DEFINE c == Certificate(Len(issued) + 1, client, type, days)
    <2>1. issued' = Append(issued, c)
      BY <1>2 DEF IssueCertificate
    <2> HIDE DEF c
    <2>2. \A n \in 1 .. Len(issued) : issued'[n] = issued[n]
      BY <2>1, AppendedCert DEF IInv
    <2>3. ServerSerial \in 1 .. Len(issued)
      BY DEF IInv, TypeOK, CaTypeOK, ServerSerial
    <2> QED
      BY <2>2, <2>3 DEF ServersOwn, ServerCert
  <1> QED
    BY <1>1, <1>2 DEF Next, CaStep, RevokeCertificate, CaTick, StartHandshake, ClientHandshake,
       CompleteHandshake, RevokeSession, caVars, vars

(* A session id is answered once, as ids are counted up.                    *)
LEMMA OneClientKept == IInv /\ OneClientEach /\ [Next]_vars => OneClientEach'
  <1> SUFFICES ASSUME IInv, OneClientEach, [Next]_vars PROVE OneClientEach'
    OBVIOUS
  <1>1. CASE UNCHANGED hellos
    BY <1>1 DEF OneClientEach
  <1>2. ASSUME NEW client \in Clients, StartHandshake(client) PROVE OneClientEach'
    <2> DEFINE new == ServerHello(started + 1, client)
    <2>1. hellos' = hellos \cup {new} /\ new.sid = started + 1
      BY <1>2 DEF StartHandshake, ServerHello
    <2> HIDE DEF new
    <2>2. \A g \in hellos : g.sid \in 1 .. started
      BY DEF IInv, TypeOK
    <2>3. \A g \in hellos : g.sid # new.sid
      BY <2>1, <2>2 DEF IInv, TypeOK
    <2> QED
      BY <2>1, <2>3 DEF OneClientEach
  <1> QED
    BY <1>1, <1>2 DEF Next, mtlsVars, ClientHandshake, CompleteHandshake, RevokeSession, vars

LEMMA EncryptKeeps ==
  ASSUME RecordsIInv, NEW sid \in SessionIds, NEW text \in Texts, EncryptForClient(sid, text)
  PROVE  KeyFits' /\ RecordsStayInSession'
  <1> DEFINE new == [key |-> SessionKey(sid), text |-> text, intact |-> TRUE,
                     sid |-> sid, subject |-> sessions[sid].subject]
  <1>1. messages' = messages \cup {new} /\ opened' = opened
    BY DEF EncryptForClient
  <1>2. SessionKey(sid) = [client |-> sessions[sid].subject, server |-> sid]
    BY KeyOfSession DEF EncryptForClient
  <1>3. sessions[sid].subject \in Clients
    BY DEF RecordsIInv, IInv, TypeOK, EncryptForClient, Established
  <1>4. /\ new \in [key : [client : Clients, server : SessionIds], text : Texts, intact : {TRUE},
                     sid : SessionIds, subject : Clients]
        /\ new.key = [client |-> new.subject, server |-> new.sid]
    BY <1>2, <1>3
  <1> HIDE DEF new
  <1> QED
    BY <1>1, <1>4 DEF RecordsIInv, KeyFits, RecordsStayInSession

LEMMA DecryptKeeps ==
  ASSUME RecordsIInv, NEW sid \in SessionIds,
         NEW msg \in messages \cup {Alter(m) : m \in messages}, DecryptFromClient(sid, msg)
  PROVE  KeyFits' /\ RecordsStayInSession'
  <1>1. msg.intact /\ msg.key = SessionKey(sid) /\ Established(sid)
    BY DEF DecryptFromClient, MacHolds
  <1>2. SessionKey(sid) = [client |-> sessions[sid].subject, server |-> sid]
    BY <1>1, KeyOfSession
  <1>3. msg \in messages
    <2>1. ASSUME NEW m \in messages, msg = Alter(m) PROVE FALSE
      <3>1. m \in [key : [client : Clients, server : SessionIds], text : Texts, intact : {TRUE},
                   sid : SessionIds, subject : Clients]
        BY DEF RecordsIInv, KeyFits
      <3>2. Alter(m).intact = FALSE
        BY <3>1 DEF Alter
      <3> QED
        BY <1>1, <2>1, <3>2
    <2> QED
      BY <2>1
  <1>4. msg.key = [client |-> msg.subject, server |-> msg.sid]
    BY <1>3 DEF RecordsIInv, KeyFits
  <1>5. msg.sid = sid /\ msg.subject = sessions[sid].subject
    BY <1>1, <1>2, <1>4
  <1> DEFINE new == [sid |-> sid, subject |-> sessions[sid].subject,
                     text |-> Plaintext(sid, msg), of |-> msg]
  <1>6. opened' = opened \cup {new} /\ messages' = messages
    BY DEF DecryptFromClient
  <1>7. new.of.sid = new.sid /\ new.of.subject = new.subject /\ new.text = new.of.text
    BY <1>1, <1>5 DEF Plaintext
  <1> HIDE DEF new
  <1> QED
    BY <1>6, <1>7 DEF RecordsIInv, KeyFits, RecordsStayInSession

LEMMA StepRecords ==
  RecordsIInv /\ [(Next /\ UNCHANGED recordVars) \/ RecordsNext]_<<vars, recordVars>>
    => RecordsIInv'
  <1> SUFFICES ASSUME RecordsIInv,
                      [(Next /\ UNCHANGED recordVars) \/ RecordsNext]_<<vars, recordVars>>
               PROVE  RecordsIInv'
    OBVIOUS
  <1>1. [Next]_vars
    BY DEF RecordsNext, EncryptForClient, DecryptFromClient
  <1>2. IInv' /\ ServersOwn' /\ OneClientEach'
    BY <1>1, StepIInv, ServersOwnKept, OneClientKept DEF RecordsIInv
  <1>3. KeyFits' /\ RecordsStayInSession'
    <2>1. CASE UNCHANGED recordVars
      BY <2>1 DEF RecordsIInv, KeyFits, RecordsStayInSession, recordVars
    <2>2. ASSUME NEW sid \in SessionIds, NEW text \in Texts, EncryptForClient(sid, text)
          PROVE  KeyFits' /\ RecordsStayInSession'
      BY <2>2, EncryptKeeps
    <2>3. ASSUME NEW sid \in SessionIds, NEW msg \in messages \cup {Alter(m) : m \in messages},
                 DecryptFromClient(sid, msg)
          PROVE  KeyFits' /\ RecordsStayInSession'
      BY <2>3, DecryptKeeps
    <2> QED
      BY <2>1, <2>2, <2>3 DEF RecordsNext
  <1> QED
    BY <1>2, <1>3 DEF RecordsIInv

--------------------------------------------------------------------------------
(* verify_certificate gives no reason exactly for what it accepts.          *)
LEMMA ReasonOfRefusal ==
  ASSUME TypeOK, NEW c, c.notBefore \in Nat, c.notAfter \in Nat, c.signed \in BOOLEAN
  PROVE  Reason(c) = "none" <=> VerifyCertificate(c)
  BY DEF TypeOK, CaTypeOK, Reason, VerifyCertificate, ValidAt

(* The handshake in one call and in steps, at any moment of the authority.  *)
LEMMA OneCallAgrees == TypeOK /\ ServersOwn => OneShotAgrees
  <1> SUFFICES ASSUME TypeOK, ServersOwn, NEW cert \in Presented
               PROVE
        LET result == PerformHandshake(cert)
        IN /\ result.state \in HandshakeStates
           /\ result.state = "FAILED" => result.alert \in AlertDescriptions
           /\ \A sid \in SessionIds : Waiting(sid) =>
                (result.state = "ESTABLISHED") =
                  ( /\ VerifyCertificate(ServerCert) /\ ServerCert.type = "SERVER"
                    /\ Accepts(sid, [cert |-> cert, transcript |-> sid]) )
           /\ VerifyCertificate(ServerCert) /\ cert.issuer # CaName => result.alert = "UNKNOWN_CA"
           /\ ServerCert.serial \in revoked => result.alert = "CERTIFICATE_REVOKED"
           /\ result.alert = "CERTIFICATE_EXPIRED" =>
                IF ValidAt(ServerCert) THEN cert.serial \notin revoked /\ now >= cert.notAfter
                                       ELSE ServerCert.serial \notin revoked
    BY DEF OneShotAgrees
  <1> DEFINE server == ServerCert
             result == PerformHandshake(cert)
  <1>1. ServerCert \in CertificateSet
    BY DEF TypeOK, CaTypeOK, ServerCert, ServerSerial
  <1>2. Certs \subseteq CertificateSet
    BY CertAuthorityAssumption DEF TypeOK, CaTypeOK, Certs
  <1>3. cert.notBefore \in Nat /\ cert.notAfter \in Nat /\ cert.signed \in BOOLEAN
    BY <1>2 DEF Presented, CertificateSet
  <1>4. server.notBefore \in Nat /\ server.notAfter \in Nat /\ server.signed \in BOOLEAN
        /\ server.type = "SERVER" /\ server.issuer = CaName /\ server.signed
    BY <1>1 DEF CertificateSet, ServersOwn, TypeOK, CaTypeOK, ServerCert, ServerSerial
  <1>5. Reason(server) = "none" <=> VerifyCertificate(server)
    BY <1>4, ReasonOfRefusal
  <1>6. Reason(cert) = "none" <=> VerifyCertificate(cert)
    BY <1>3, ReasonOfRefusal
  <1>7. result = IF Reason(server) # "none" THEN Failed(AlertOf(Reason(server)))
                 ELSE IF Reason(cert) # "none" THEN Failed(AlertOf(Reason(cert)))
                 ELSE IF cert.type # "CLIENT" THEN Failed("BAD_CERTIFICATE")
                 ELSE Succeeded(cert.subject)
    BY <1>4 DEF PerformHandshake
  <1>8. \A reason : AlertOf(reason) \in AlertDescriptions
    BY DEF AlertOf, AlertDescriptions
  <1>9. \A alert : Failed(alert).state = "FAILED" /\ Failed(alert).alert = alert
    BY DEF Failed
  <1>10. \A client : Succeeded(client).state = "ESTABLISHED" /\ Succeeded(client).alert = "none"
    BY DEF Succeeded
  <1> HIDE DEF server, result
  <1>11. (result.state = "ESTABLISHED") =
           (VerifyCertificate(server) /\ VerifyCertificate(cert) /\ cert.type = "CLIENT")
    BY <1>5, <1>6, <1>7, <1>9, <1>10 DEF VerifyCertificate
  <1>12. /\ result.state \in HandshakeStates
         /\ result.state = "FAILED" => result.alert \in AlertDescriptions
    BY <1>7, <1>8, <1>9, <1>10 DEF HandshakeStates, AlertDescriptions
  <1>13. ASSUME NEW sid \in SessionIds, Waiting(sid)
         PROVE  (result.state = "ESTABLISHED") =
                  ( /\ VerifyCertificate(server) /\ server.type = "SERVER"
                    /\ Accepts(sid, [cert |-> cert, transcript |-> sid]) )
    <2>1. Accepts(sid, [cert |-> cert, transcript |-> sid]) =
            (VerifyCertificate(cert) /\ cert.type = "CLIENT")
      BY <1>13 DEF Accepts, Waiting, Signs
    <2> QED
      BY <1>4, <1>11, <2>1
  <1>14. VerifyCertificate(server) /\ cert.issuer # CaName => result.alert = "UNKNOWN_CA"
    BY <1>5, <1>7, <1>9 DEF Reason, AlertOf
  <1>15. server.serial \in revoked => result.alert = "CERTIFICATE_REVOKED"
    BY <1>4, <1>7, <1>9 DEF Reason, AlertOf
  <1>16. ASSUME result.alert = "CERTIFICATE_EXPIRED"
         PROVE  IF ValidAt(server) THEN cert.serial \notin revoked /\ now >= cert.notAfter
                                   ELSE server.serial \notin revoked
    <2>1. \A reason : AlertOf(reason) = "CERTIFICATE_EXPIRED" => reason = "expired"
      BY DEF AlertOf
    <2>2. Reason(server) = "expired" => server.serial \notin revoked /\ now >= server.notAfter
      BY DEF Reason
    <2>3. Reason(cert) = "expired" => cert.serial \notin revoked /\ now >= cert.notAfter
      BY DEF Reason
    <2>4. CASE Reason(server) # "none"
      BY <1>4, <1>7, <1>9, <1>16, <2>1, <2>2, <2>4 DEF ValidAt, TypeOK, CaTypeOK
    <2>5. CASE Reason(server) = "none"
      <3>1. Reason(cert) = "expired"
        BY <1>7, <1>9, <1>10, <1>16, <2>1, <2>5
      <3> QED
        BY <1>5, <2>3, <2>5, <3>1 DEF VerifyCertificate
    <2> QED
      BY <2>4, <2>5
  <1> QED
    BY <1>12, <1>13, <1>14, <1>15, <1>16 DEF server, result

(* A handshake in one call ends as the one in steps would, with the alert   *)
(* that says why, and a message opens only in the session and for the       *)
(* client it was encrypted for.                                             *)
THEOREM MessagesKeepTheirSession == RecordsSpec => []HandshakesKeep
  <1>1. RecordsSpec => []RecordsIInv
    BY InitRecords, StepRecords, PTL DEF RecordsSpec
  <1>2. RecordsIInv => HandshakesKeep
    BY OneCallAgrees DEF RecordsIInv, IInv, HandshakesKeep
  <1> QED
    BY <1>1, <1>2, PTL
================================================================================
