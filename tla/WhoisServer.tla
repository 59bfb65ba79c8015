------------------------------- MODULE WhoisServer -------------------------------
(***************************************************************************)
(* The queries of a WHOIS8 server other than the lookup of an ASN, and the *)
(* signatures on its records (whois8_proto.py, WHOIS8Server, sign_record   *)
(* and verify_signature).                                                  *)
(*                                                                         *)
(* A record is frozen and carries its signature along: a caller changes    *)
(* one by registering a copy with other fields, which keeps the signature  *)
(* it had.  The signature covers ASN and holder (country and registry are  *)
(* left out with the holder's name), not the active flag and not the       *)
(* anycast address.  signing_secret is a field that a caller may set.      *)
(***************************************************************************)
EXTENDS Naturals, Sequences, FiniteSets

CONSTANTS
  ServerAsns, ServerReserved,  \* ASNs, and those _reserved_reason refuses
  Holders,
  SigningSecrets, NoSecret,
  PrefixLengths,
  Unsigned, Unregistered, NoRouteRecord,
  MaxSigned                    \* bound: signatures made

VARIABLES
  roll,          \* _registry: ASN -> record, or Unregistered
  routeRecords,  \* _routes: ASN -> prefix length, or NoRouteRecord
  secret,        \* signing_secret, or NoSecret
  signatures     \* history: what sign_record was ever called for

queryVars == <<roll, routeRecords, secret, signatures>>

ASSUME WhoisServerAssumption ==
  /\ ServerReserved \subseteq ServerAsns /\ PrefixLengths \subseteq Nat /\ MaxSigned \in Nat
  /\ NoSecret \notin SigningSecrets
  /\ Unsigned \notin [asn : ServerAsns, holder : Holders, key : SigningSecrets]
  /\ Unregistered \notin [holder : Holders, active : BOOLEAN, anycast : BOOLEAN,
                          signature : [asn : ServerAsns, holder : Holders, key : SigningSecrets]
                                        \cup {Unsigned}]

Signature(asn, holder, key) == [asn |-> asn, holder |-> holder, key |-> key]

RollRecord(holder, active, anycast, signature) ==
  [holder |-> holder, active |-> active, anycast |-> anycast, signature |-> signature]

(* fault: any signature made with the secret will do                         *)
VerifyKeyOnly(asn, record) == record.signature # Unsigned /\ record.signature.key = secret
VerifySignature(asn, record) == record.signature = Signature(asn, record.holder, secret)

--------------------------------------------------------------------------------
SignRecord(asn, holder, key) ==
  /\ Cardinality(signatures) < MaxSigned
  /\ signatures' = signatures \cup {Signature(asn, holder, key)}

(* Anyone who has the secret may sign a record before registering it.       *)
SignOutside(asn, holder, key) ==
  SignRecord(asn, holder, key) /\ UNCHANGED <<roll, routeRecords, secret>>

(* register_asn: the server signs what comes without a signature, and takes *)
(* a record that has one as it is.                                          *)
RollRegister(asn, record) ==
  /\ asn \notin ServerReserved
  /\ secret = NoSecret \/ record.signature # Unsigned
  /\ roll' = [roll EXCEPT ![asn] = record]
  /\ UNCHANGED <<routeRecords, secret, signatures>>

RollRegisterSigning(asn, record) ==
  /\ asn \notin ServerReserved
  /\ secret # NoSecret /\ record.signature = Unsigned
  /\ SignRecord(asn, record.holder, secret)
  /\ roll' = [roll EXCEPT ![asn] =
       [record EXCEPT !.signature = Signature(asn, record.holder, secret)]]
  /\ UNCHANGED <<routeRecords, secret>>

RollRegisterRoute(asn, length) ==
  /\ roll[asn] # Unregistered
  /\ length <= 16
  /\ routeRecords' = [routeRecords EXCEPT ![asn] = length]
  /\ UNCHANGED <<roll, secret, signatures>>

RollUnregister(asn) ==
  /\ roll[asn] # Unregistered
  /\ roll' = [roll EXCEPT ![asn] = Unregistered]
  /\ routeRecords' = [routeRecords EXCEPT ![asn] = NoRouteRecord]
  /\ UNCHANGED <<secret, signatures>>

SetSecret(key) == secret' = key /\ UNCHANGED <<roll, routeRecords, signatures>>

--------------------------------------------------------------------------------
(* The answers of handle_query, which change nothing but a counter.  Only   *)
(* the first looks at the reserved ranges.                                  *)
NoSuchAsn == [code |-> "NOT_FOUND"]
Found(asn, code) == [code |-> code, record |-> roll[asn]]

RouteValidate(asn, length) ==
  IF asn \in ServerReserved THEN [code |-> "RESERVED"]
  ELSE IF roll[asn] = Unregistered THEN NoSuchAsn
  ELSE IF ~roll[asn].active THEN Found(asn, "EXPIRED")
  ELSE IF length > 16 THEN Found(asn, "TOO_SPECIFIC")
  ELSE [code |-> "OK", record |-> roll[asn], route |-> routeRecords[asn]]

AnycastLookup(asn) ==
  IF roll[asn] = Unregistered THEN NoSuchAsn
  ELSE Found(asn, IF roll[asn].anycast THEN "OK" ELSE "NOT_FOUND")

BulkQuery(asns) ==
  LET records[n \in 0 .. Len(asns)] ==
        IF n = 0 THEN << >>
        ELSE IF roll[asns[n]] = Unregistered THEN records[n - 1]
        ELSE Append(records[n - 1], roll[asns[n]])
  IN  [code |-> "OK", records |-> records[Len(asns)]]

(* With no secret set the code is OK too; only the reason tells.            *)
RecordVerify(asn) ==
  IF roll[asn] = Unregistered THEN NoSuchAsn
  ELSE IF secret = NoSecret THEN Found(asn, "OK")
  ELSE Found(asn, IF VerifySignature(asn, roll[asn]) THEN "OK" ELSE "SIGNATURE_FAIL")

--------------------------------------------------------------------------------
QueryInit ==
  /\ roll = [asn \in ServerAsns |-> Unregistered]
  /\ routeRecords = [asn \in ServerAsns |-> NoRouteRecord]
  /\ secret \in SigningSecrets \cup {NoSecret}
  /\ signatures = {}

QueryNext ==
  \/ \E asn \in ServerAsns, holder \in Holders :
       \/ \E active, anycast \in BOOLEAN, signature \in signatures \cup {Unsigned} :
            LET record == RollRecord(holder, active, anycast, signature)
            IN  RollRegister(asn, record) \/ RollRegisterSigning(asn, record)
       \/ \E key \in SigningSecrets : SignOutside(asn, holder, key)
  \/ \E asn \in ServerAsns :
       \/ \E length \in PrefixLengths : RollRegisterRoute(asn, length)
       \/ RollUnregister(asn)
  \/ \E key \in SigningSecrets \cup {NoSecret} : SetSecret(key)

--------------------------------------------------------------------------------
QuerySpec == QueryInit /\ [][QueryNext]_queryVars

(* While a secret is set, a record that RECORD_VERIFY confirms names, for   *)
(* that very ASN, a holder somebody signed for with the secret in force: no *)
(* copy of a record for another ASN or holder, none signed before the       *)
(* secret changed and none taken while nothing was signed is confirmed.     *)
(* No query gives a record for a reserved ASN, although most of them do not *)
(* look at the ranges, and a route comes only with its ASN's record.        *)
VouchedWasSigned ==
  \A asn \in ServerAsns :
    /\ RecordVerify(asn).code = "OK" /\ secret # NoSecret
         => Signature(asn, RecordVerify(asn).record.holder, secret) \in signatures
    /\ asn \in ServerReserved =>
         /\ RecordVerify(asn).code = "NOT_FOUND" /\ AnycastLookup(asn).code = "NOT_FOUND"
         /\ BulkQuery(<<asn>>).records = << >>
    /\ routeRecords[asn] # NoRouteRecord =>
         \A length \in PrefixLengths : RouteValidate(asn, length).code # "NOT_FOUND"
================================================================================
