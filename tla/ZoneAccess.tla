------------------------------ MODULE ZoneAccess -------------------------------
(***************************************************************************)
(* Who may do what in a zone: the token caches and the rule engines of its *)
(* zone servers (the pair beside the DHCP8 server), which share neither.    *)
(***************************************************************************)
EXTENDS Dhcp8, Sequences, FiniteSetsExt

--------------------------------------------------------------------------------
(***************************************************************************)
(* The OAuth8 token caches of the zone servers (zoneserver.py, OAuth8Cache).*)
(* A token is what is in it and the secret it was signed with: two tokens  *)
(* issued with the same contents at the same time are the same string.     *)
(* Tokens that do not parse are left out.                                  *)
(***************************************************************************)
CONSTANTS
  KeyIds, Secrets, NoKey,
  Subjects, TokenDuration

VARIABLES
  keys,           \* _keys: cache -> key id -> secret, or NoKey
  revokedTokens,  \* _revoked: cache -> tokens
  tokens          \* tokens issued so far, wherever they are now

oauthVars == <<keys, revokedTokens, tokens>>

ASSUME OAuth8Assumption == NoKey \notin Secrets /\ TokenDuration \in Nat

OAuthInit ==
  /\ keys = [c \in ZoneServers |-> [k \in KeyIds |-> NoKey]]
  /\ revokedTokens = [c \in ZoneServers |-> {}]
  /\ tokens = {}

RegisterKey(c, k, secret) ==
  /\ keys' = [keys EXCEPT ![c][k] = secret]
  /\ UNCHANGED <<revokedTokens, tokens>>

UnregisterKey(c, k) ==
  /\ keys[c][k] # NoKey
  /\ keys' = [keys EXCEPT ![c][k] = NoKey]
  /\ UNCHANGED <<revokedTokens, tokens>>

RevokeToken(c, token) ==
  /\ revokedTokens' = [revokedTokens EXCEPT ![c] = @ \cup {token}]
  /\ UNCHANGED <<keys, tokens>>

TokenTimeless(c, k, subject, t) ==               \* fault: time not in the payload
  [kid |-> k, secret |-> keys[c][k], subject |-> subject, exp |-> TokenDuration]
Token(c, k, subject, t) ==
  [kid |-> k, secret |-> keys[c][k], subject |-> subject, exp |-> t + TokenDuration]

IssueToken(c, k, subject, t) ==
  /\ keys[c][k] # NoKey
  /\ tokens' = tokens \cup {Token(c, k, subject, t)}
  /\ UNCHANGED <<keys, revokedTokens>>

ValidateToken(c, token, t) ==
  /\ token \notin revokedTokens[c]
  /\ keys[c][token.kid] = token.secret
  /\ t < token.exp

OAuthTypeOK ==
  /\ keys \in [ZoneServers -> [KeyIds -> Secrets \cup {NoKey}]]
  /\ tokens \subseteq [kid : KeyIds, secret : Secrets, subject : Subjects, exp : Nat]
  /\ revokedTokens \in [ZoneServers -> SUBSET tokens]

--------------------------------------------------------------------------------
(***************************************************************************)
(* The ACL8 engines of the zone servers (zoneserver.py, ACL8Engine): rules *)
(* in the order they were added, the first that matches decides, and what  *)
(* none matches is denied.                                                 *)
(***************************************************************************)
CONSTANTS
  Ends,           \* what sources and destinations are called
  Anyone,            \* "*"
  MaxRules        \* bound: rules of one engine

VARIABLE rules    \* _rules: engine -> sequence of rules

ASSUME Acl8Assumption == MaxRules \in Nat

Rule == [source : Ends \cup {Anyone}, destination : Ends \cup {Anyone}, action : {"PERMIT", "DENY"}]

AclInit == rules = [e \in ZoneServers |-> << >>]

AddRule(e, rule) ==
  /\ Len(rules[e]) < MaxRules
  /\ rules' = [rules EXCEPT ![e] = Append(@, rule)]

Without(seq, index) == SubSeq(seq, 1, index - 1) \o SubSeq(seq, index + 1, Len(seq))

RemoveRule(e, index) ==
  rules' = [rules EXCEPT ![e] = Without(@, index)]

Matching(e, source, destination) ==
  {i \in DOMAIN rules[e] : /\ rules[e][i].source \in {Anyone, source}
                           /\ rules[e][i].destination \in {Anyone, destination}}

DecidingLast(e, source, destination) ==          \* fault: the last match wins
  LET hits == Matching(e, source, destination) IN IF hits = {} THEN 0 ELSE Max(hits)
(* The rule that decides, 0 when it is the default.                         *)
Deciding(e, source, destination) ==
  LET hits == Matching(e, source, destination) IN IF hits = {} THEN 0 ELSE Min(hits)

Evaluate(e, source, destination) ==
  LET i == Deciding(e, source, destination) IN IF i = 0 THEN "DENY" ELSE rules[e][i].action

AclTypeOK == rules \in [ZoneServers -> Seq(Rule)]
================================================================================
