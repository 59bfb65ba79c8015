------------------------------ MODULE ZoneRecords ------------------------------
(***************************************************************************)
(* The encrypted messages of established sessions (mtls.py, MTLSSession    *)
(* encrypt and decrypt, ZoneServerMTLS encrypt_for_client and              *)
(* decrypt_from_client).                                                   *)
(*                                                                         *)
(* Messages outlive the sessions they belong to: they may be repeated, be  *)
(* presented under the id of another session, come after the session was   *)
(* revoked, or be altered on the way.  A message is the key its MAC was    *)
(* made with, its text, and whether it still is what was sent.             *)
(***************************************************************************)
EXTENDS ZoneMtls, FiniteSets

CONSTANTS
  Texts,          \* what is encrypted
  Garbage,        \* what decrypting with another key, or altered bytes, gives
  MaxMessages     \* bound: messages encrypted

ASSUME ZoneRecordsAssumption == MaxMessages \in Nat /\ Garbage \notin Texts

VARIABLES
  messages,       \* EncryptedMessages made so far
  opened          \* what decrypt_from_client returned, and in which session

recordVars == <<messages, opened>>

ClientOf(sid) == (CHOOSE hello \in hellos : hello.sid = sid).client

(* Derived from both random values and the server's private key.  A client  *)
(* may send the same random value in every hello; the server's is fresh.    *)
KeyWithoutServerRandom(sid) == [client |-> ClientOf(sid), server |-> 0]    \* fault
SessionKey(sid) == [client |-> ClientOf(sid), server |-> sid]

EncryptForClient(sid, text) ==
  /\ Established(sid)
  /\ Cardinality(messages) < MaxMessages
  /\ messages' = messages \cup
       {[key |-> SessionKey(sid), text |-> text, intact |-> TRUE,
         sid |-> sid, subject |-> sessions[sid].subject]}
  /\ UNCHANGED <<opened, vars>>

(* Bytes of a message are altered on the way.                               *)
Alter(msg) == [msg EXCEPT !.intact = FALSE]

MacHolds(sid, msg) == msg.intact /\ msg.key = SessionKey(sid)

Plaintext(sid, msg) ==
  IF msg.intact /\ msg.key = SessionKey(sid) THEN msg.text ELSE Garbage

(* None for a session that is gone or not established, and for a message    *)
(* whose MAC does not match: nothing is remembered of those.                *)
DecryptFromClient(sid, msg) ==
  /\ Established(sid)
  /\ MacHolds(sid, msg)
  /\ opened' = opened \cup {[sid |-> sid, subject |-> sessions[sid].subject,
                             text |-> Plaintext(sid, msg), of |-> msg]}
  /\ UNCHANGED <<messages, vars>>

RecordsInit == messages = {} /\ opened = {}

RecordsNext ==
  \E sid \in SessionIds :
    \/ \E text \in Texts : EncryptForClient(sid, text)
    \/ \E msg \in messages \cup {Alter(m) : m \in messages} : DecryptFromClient(sid, msg)

(* Sessions come and go while messages are made and opened.                 *)
RecordsSpec ==
  /\ Init /\ RecordsInit
  /\ [][(Next /\ UNCHANGED recordVars) \/ RecordsNext]_<<vars, recordVars>>

--------------------------------------------------------------------------------
(* Whatever decrypt_from_client returned is, unaltered, what was encrypted  *)
(* in that very session and for the client that session is still bound to:  *)
(* a message repeated under another session of the same client, after the   *)
(* session ended, or altered on the way gives nothing.                      *)
RecordsStayInSession ==
  \A o \in opened :
    /\ o.of.sid = o.sid
    /\ o.of.subject = o.subject
    /\ o.text = o.of.text

--------------------------------------------------------------------------------
(***************************************************************************)
(* The handshake in one call (mtls.py, perform_mtls_handshake), with the   *)
(* alert it ends in when it fails.  Client and server of the call work     *)
(* with the zone's certificate authority, and nothing comes between its    *)
(* steps: it opens a session of its own, which no server keeps.            *)
(***************************************************************************)
HandshakeStates ==
  {"IDLE", "CLIENT_HELLO_SENT", "SERVER_HELLO_SENT", "CERT_VERIFY", "ESTABLISHED", "FAILED"}

AlertDescriptions ==
  {"CERTIFICATE_EXPIRED", "CERTIFICATE_UNKNOWN", "CERTIFICATE_REVOKED", "BAD_CERTIFICATE",
   "HANDSHAKE_FAILURE", "DECRYPT_ERROR", "UNKNOWN_CA"}

(* verify_certificate's reason: the first that applies, none for a good one. *)
Reason(cert) ==
  IF cert.issuer # CaName THEN "unknown issuer"
  ELSE IF cert.serial \in revoked THEN "revoked"
  ELSE IF ~cert.signed THEN "invalid signature"
  ELSE IF now >= cert.notAfter THEN "expired"
  ELSE IF now < cert.notBefore THEN "not yet valid"
  ELSE "none"

AlertOf(reason) ==
  CASE reason = "expired" -> "CERTIFICATE_EXPIRED"
    [] reason = "revoked" -> "CERTIFICATE_REVOKED"
    [] reason = "unknown issuer" -> "UNKNOWN_CA"
    [] OTHER -> "BAD_CERTIFICATE"

Failed(alert) == [state |-> "FAILED", alert |-> alert, subject |-> NoOne]
Succeeded(client) == [state |-> "ESTABLISHED", alert |-> "none", subject |-> client]

(* The hello meets a session that is idle, so it is answered; the client     *)
(* looks at the server's certificate, then the server at the client's; the   *)
(* signature is made over the randoms the session has.                       *)
PerformHandshake(cert) ==
  IF Reason(ServerCert) # "none" THEN Failed(AlertOf(Reason(ServerCert)))
  ELSE IF ServerCert.type # "SERVER" THEN Failed("BAD_CERTIFICATE")
  ELSE IF Reason(cert) # "none" THEN Failed(AlertOf(Reason(cert)))
  ELSE IF cert.type # "CLIENT" THEN Failed("BAD_CERTIFICATE")
  ELSE Succeeded(cert.subject)

--------------------------------------------------------------------------------
(* The one call and the three are the same: it succeeds exactly where a      *)
(* client that goes on would be admitted to a session that waits for it, and *)
(* the alert of a failure tells a revoked certificate from an expired one -  *)
(* the server's before the client's.                                         *)
Waiting(sid) == sessions[sid] # NoSession /\ sessions[sid].state = "SERVER_HELLO_SENT"

Presented == Certs \cup {[cert EXCEPT !.issuer = CaName \o "-2"] : cert \in Certs}

OneShotAgrees ==
  \A cert \in Presented :
    LET result == PerformHandshake(cert)
    IN /\ result.state \in HandshakeStates
       /\ result.state = "FAILED" => result.alert \in AlertDescriptions
       /\ \A sid \in SessionIds : Waiting(sid) =>
            (result.state = "ESTABLISHED") =
              ( /\ VerifyCertificate(ServerCert) /\ ServerCert.type = "SERVER"
                /\ Accepts(sid, [cert |-> cert, transcript |-> sid]) )
       /\ VerifyCertificate(ServerCert) /\ cert.issuer # CaName => result.alert = "UNKNOWN_CA"
       /\ ServerCert.serial \in revoked => result.alert = "CERTIFICATE_REVOKED"
       /\ result.alert = "CERTIFICATE_EXPIRED" =>
            IF ValidAt(ServerCert) THEN cert.serial \notin revoked /\ now >= cert.notAfter
                                   ELSE ServerCert.serial \notin revoked

(* A handshake in one call ends as one step by step, and what is encrypted in *)
(* a session opens only there.                                                *)
HandshakesKeep == OneShotAgrees /\ RecordsStayInSession
================================================================================
