------------------------------- MODULE ZoneMtls --------------------------------
(***************************************************************************)
(* A zone's certificate authority and its mutual TLS with devices.         *)
(***************************************************************************)
EXTENDS Integers, Sequences

--------------------------------------------------------------------------------
(***************************************************************************)
(* The certificate authority of a zone (mtls.py, CertificateAuthority).    *)
(* Serial numbers are the positions in the log of issued certificates.     *)
(* A certificate says which CA it names as issuer and whether its          *)
(* signature is one made with this CA's key; key pairs, extensions and     *)
(* fingerprints are left out.                                              *)
(***************************************************************************)
CONSTANTS
  CaName,         \* the name of this CA
  ServerName,     \* subject of the zone server's certificate
  Clients,        \* subjects of client certificates
  ForeignCerts,   \* certificates presented here that other CAs signed
  CertTypes,      \* types of certificates issued to clients
  Validities,     \* lifetimes certificates are issued with
  ServerValidity, \* lifetime of the CA and server certificates
  MaxSerial,      \* bound: certificates issued
  MaxTime         \* bound: the clock

VARIABLES
  now,            \* the clock
  issued,         \* _issued, by serial number; _next_serial is its length + 1
  revoked         \* _revoked: serial numbers

caVars == <<now, issued, revoked>>

Certificate(serial, subject, type, days) ==
  [serial |-> serial, subject |-> subject, type |-> type, issuer |-> CaName, signed |-> TRUE,
   notBefore |-> now, notAfter |-> now + days]

CertificateSet ==
  [serial : Nat, subject : Clients \cup {ServerName, CaName},
   type : {"CA", "SERVER", "CLIENT"}, issuer : STRING, signed : BOOLEAN,
   notBefore : Nat, notAfter : Nat]

ASSUME CertAuthorityAssumption ==
  /\ CaName \in STRING
  /\ CaName \notin Clients /\ ServerName \notin Clients
  /\ CertTypes \subseteq {"CA", "SERVER", "CLIENT"}
  /\ Validities \subseteq Nat /\ ServerValidity \in Nat
  /\ MaxSerial \in Nat /\ MaxTime \in Nat
  /\ \A c \in ForeignCerts : c \in CertificateSet /\ ~c.signed

SelfSigned == Certificate(1, CaName, "CA", ServerValidity)

(* What a new authority has issued.                                         *)
OfNewAuthority == <<SelfSigned>>

ServerSerial == 2

(* make_mtls_zone_setup: the self-signed certificate takes the first serial *)
(* number, the zone server's certificate the second.                        *)
CaInit ==
  /\ now = 0
  /\ issued = Append(OfNewAuthority,
                     Certificate(ServerSerial, ServerName, "SERVER", ServerValidity))
  /\ revoked = {}

ServerCert == issued[ServerSerial]

IssueCertificate(subject, type, days) ==
  /\ Len(issued) < MaxSerial
  /\ issued' = Append(issued, Certificate(Len(issued) + 1, subject, type, days))
  /\ UNCHANGED <<now, revoked>>

RevokeCertificate(serial) ==
  /\ serial \in 1 .. Len(issued)
  /\ revoked' = revoked \cup {serial}
  /\ UNCHANGED <<now, issued>>

CaTick ==
  /\ now < MaxTime
  /\ now' = now + 1
  /\ UNCHANGED <<issued, revoked>>

ValidAt(c) == c.notBefore <= now /\ now < c.notAfter

VerifyNoCrl(c) == c.issuer = CaName /\ c.signed /\ ValidAt(c)   \* fault: CRL ignored
VerifyCertificate(c) ==
  /\ c.issuer = CaName
  /\ c.serial \notin revoked
  /\ c.signed
  /\ ValidAt(c)

CaTypeOK ==
  /\ now \in Nat
  /\ issued \in Seq(CertificateSet)
  /\ Len(issued) >= ServerSerial
  /\ \A n \in 1 .. Len(issued) : issued[n].serial = n /\ issued[n].signed
  /\ revoked \subseteq 1 .. Len(issued)

--------------------------------------------------------------------------------
(***************************************************************************)
(* Mutual TLS between devices and a zone server (mtls.py, MTLSSession,     *)
(* client_handshake and ZoneServerMTLS).                                   *)
(*                                                                         *)
(* A handshake is three calls with anything between them: the server       *)
(* answers a ClientHello and keeps a session, the client checks the        *)
(* server's certificate and signs the transcript, the server checks the    *)
(* client's certificate and the signature.  Certificates are issued and    *)
(* revoked and time passes meanwhile; a CertificateVerify may come late,   *)
(* twice, or with the id of another session, and several sessions of one   *)
(* client may be open.  The server's random value is fresh in every        *)
(* session, so the session id stands for the transcript.                   *)
(***************************************************************************)
CONSTANTS
  MaxSessions,    \* bound: sessions started
  NoSession, NoOne

SessionIds == 1 .. MaxSessions

ASSUME ZoneMtlsAssumption ==
  /\ MaxSessions \in Nat
  /\ NoOne \notin Clients \cup {ServerName, CaName}
  /\ NoSession \notin [state : {"SERVER_HELLO_SENT", "ESTABLISHED"},
                       subject : Clients \cup {ServerName, CaName, NoOne}]

VARIABLES
  started,        \* number of sessions started so far
  sessions,       \* _active_sessions: id -> MTLSSession, or NoSession
  authenticated,  \* _authenticated_clients
  hellos,         \* ServerHello answers: session id and the client it went to
  verifies        \* CertificateVerify messages made by clients

mtlsVars == <<started, sessions, authenticated, hellos, verifies>>
vars == <<caVars, mtlsVars>>

Certs == {issued[n] : n \in 1 .. Len(issued)} \cup ForeignCerts

--------------------------------------------------------------------------------
NewSession == [state |-> "SERVER_HELLO_SENT", subject |-> NoOne]

(* The answer carries the fresh random value, for which the id stands.      *)
ServerHello(sid, client) == [sid |-> sid, client |-> client]

StartHandshake(client) ==
  /\ started < MaxSessions
  /\ started' = started + 1
  /\ sessions' = [sessions EXCEPT ![started + 1] = NewSession]
  /\ hellos' = hellos \cup {ServerHello(started + 1, client)}
  /\ UNCHANGED <<authenticated, verifies, caVars>>

(* The client goes on only with a server it could verify.  It presents a    *)
(* certificate made out to it, which may be one of another CA, expired or   *)
(* revoked by now.                                                          *)
ClientHandshake(hello, cert) ==
  /\ VerifyCertificate(ServerCert)
  /\ ServerCert.type = "SERVER"
  /\ cert.subject = hello.client
  /\ verifies' = verifies \cup {[cert |-> cert, transcript |-> hello.sid]}
  /\ UNCHANGED <<started, sessions, authenticated, hellos, caVars>>

SignsAnything(sid, cv) == TRUE                   \* fault: signature not checked
Signs(sid, cv) == cv.transcript = sid

Accepts(sid, cv) ==
  /\ sessions[sid].state = "SERVER_HELLO_SENT"
  /\ VerifyCertificate(cv.cert)
  /\ cv.cert.type = "CLIENT"
  /\ Signs(sid, cv)

Admit(sid, cv) ==
  /\ Accepts(sid, cv)
  /\ sessions' = [sessions EXCEPT ![sid] =
                    [state |-> "ESTABLISHED", subject |-> cv.cert.subject]]
  /\ authenticated' = authenticated \cup {cv.cert.subject}

(* Any alert drops the session, also the one that says that a session is    *)
(* past this message because it is established already.                     *)
Reject(sid, cv) ==
  /\ ~Accepts(sid, cv)
  /\ sessions' = [sessions EXCEPT ![sid] = NoSession]
  /\ UNCHANGED authenticated

(* An id that is not in _active_sessions changes nothing.                   *)
CompleteHandshake(sid, cv) ==
  /\ sessions[sid] # NoSession
  /\ Admit(sid, cv) \/ Reject(sid, cv)
  /\ UNCHANGED <<started, hellos, verifies, caVars>>

RevokeSession(sid) ==
  /\ sessions[sid] # NoSession
  /\ sessions' = [sessions EXCEPT ![sid] = NoSession]
  /\ authenticated' = authenticated \ {sessions[sid].subject}
  /\ UNCHANGED <<started, hellos, verifies, caVars>>

--------------------------------------------------------------------------------
Init ==
  /\ CaInit
  /\ started = 0
  /\ sessions = [sid \in SessionIds |-> NoSession]
  /\ authenticated = {}
  /\ hellos = {}
  /\ verifies = {}

CaStep ==
  \/ \E client \in Clients, type \in CertTypes, days \in Validities :
       IssueCertificate(client, type, days)
  \/ \E n \in 1 .. Len(issued) : RevokeCertificate(n)
  \/ CaTick

Next ==
  \/ CaStep /\ UNCHANGED mtlsVars
  \/ \E client \in Clients : StartHandshake(client)
  \/ \E hello \in hellos, cert \in Certs : ClientHandshake(hello, cert)
  \/ \E sid \in SessionIds, cv \in verifies : CompleteHandshake(sid, cv)
  \/ \E sid \in SessionIds : RevokeSession(sid)

Spec == Init /\ [][Next]_vars

--------------------------------------------------------------------------------
Established(sid) == sessions[sid] # NoSession /\ sessions[sid].state = "ESTABLISHED"

(* Types; a session has a subject exactly when it is established, and no    *)
(* session id is in use that was not handed out.                            *)
TypeOK ==
  /\ CaTypeOK
  /\ started \in 0 .. MaxSessions
  /\ DOMAIN sessions = SessionIds
  /\ \A sid \in SessionIds : sessions[sid] # NoSession =>
       /\ sid <= started
       /\ sessions[sid].state \in {"SERVER_HELLO_SENT", "ESTABLISHED"}
       /\ IF Established(sid) THEN sessions[sid].subject \in Clients
                              ELSE sessions[sid].subject = NoOne
  /\ authenticated \subseteq Clients
  /\ hellos \subseteq [sid : 1 .. started, client : Clients]
  /\ verifies \subseteq [cert : Certs, transcript : 1 .. started]

(* Server and client agree: whoever an established session is bound to is   *)
(* the client that was sent this session's ServerHello, verified the server *)
(* and signed this very handshake, with a client certificate of this CA -   *)
(* whatever messages are repeated, late or mixed up between sessions.       *)
Agreement ==
  \A sid \in SessionIds : Established(sid) =>
    /\ [sid |-> sid, client |-> sessions[sid].subject] \in hellos
    /\ \E n \in 1 .. Len(issued) :
         /\ issued[n].type = "CLIENT"
         /\ issued[n].subject = sessions[sid].subject
         /\ [cert |-> issued[n], transcript |-> sid] \in verifies

(* A client gets in only while it holds a certificate that is valid and not *)
(* revoked, however long ago the handshake began: what happened to the      *)
(* certificate in between counts (complete_handshake).                      *)
HoldsCertificate(client) ==
  \E n \in 1 .. Len(issued) :
    /\ issued[n].subject = client /\ issued[n].type = "CLIENT"
    /\ n \notin revoked
    /\ issued[n].notBefore <= now /\ now < issued[n].notAfter

AdmittedWithCertificate ==
  [][\A sid \in SessionIds :
       Established(sid)' /\ ~Established(sid) => HoldsCertificate(sessions'[sid].subject)]_vars

(* A client stops being authenticated only with an established session of   *)
(* its own: no failed, repeated or abandoned handshake of it or of another  *)
(* client takes that away.                                                  *)
DeauthenticatedWithSession ==
  [][\A client \in authenticated \ authenticated' :
       \E sid \in SessionIds :
         Established(sid) /\ sessions[sid].subject = client /\ sessions'[sid] = NoSession]_vars

(* "Check if a client subject has been authenticated" (mtls.py:756): a      *)
(* client with an established session has been.                             *)
EstablishedIsAuthenticated ==
  \A sid \in SessionIds : Established(sid) => sessions[sid].subject \in authenticated
================================================================================
