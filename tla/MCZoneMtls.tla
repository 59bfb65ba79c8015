------------------------------- MODULE MCZoneMtls -------------------------------
(* Two clients, two sessions, two certificates issued to them, and one of    *)
(* another CA that uses the same name.  Messages come on top of sessions in  *)
(* the behaviours with focus "records", in which certificates do not expire. *)
EXTENDS ZoneRecords

CONSTANTS a, b

VARIABLE focus

MCClients == {a, b}

MCForeignCerts ==
  {[serial |-> 3, subject |-> b, type |-> "CLIENT", issuer |-> "ca", signed |-> FALSE,
    notBefore |-> 0, notAfter |-> 5]}

MCInit == Init /\ RecordsInit /\ focus \in {"handshakes", "records"}

MCNext ==
  /\ \/ focus = "handshakes" /\ Next /\ UNCHANGED recordVars
     \/ focus = "records" /\ UNCHANGED <<recordVars, now>> /\ Next
     \/ focus = "records" /\ RecordsNext
  /\ UNCHANGED focus

MCSpec == MCInit /\ [][MCNext]_<<vars, recordVars, focus>>
================================================================================
