------------------------------- MODULE Accounts -------------------------------
(***************************************************************************)
(* The static resolver: which account a request's scope names, and which   *)
(* agent key is then fetched for it, over every configuration a deployment *)
(* may be given.  An operator redeploys with another configuration at will.*)
(***************************************************************************)
EXTENDS Integers, Sequences

CONSTANTS
  Ids,        \* account ids
  AgentKeys,  \* agent keys
  Scopes,     \* scope keys of [accounts.<scope>]
  BadScopes,  \* those outside [a-z0-9_] or too long
  Blank,      \* an id or key that is empty once trimmed
  Absent,     \* no entry
  Singles,    \* the [account] entries an operator may deploy
  Tables      \* the [accounts.<scope>] tables an operator may deploy

ScopesAssumption == BadScopes \subseteq Scopes /\ "" \notin Scopes

\* What the comparison of endpoints can tell apart: the URL proper (already in
\* canonical form), and how it was written.
Endpoint ==
  [scheme : {"https", "http", "ftp"}, host : {"none", "a", "b"}, userinfo : BOOLEAN,
   spelling : {"canonical", "variant"}, slash : BOOLEAN, fragment : BOOLEAN]

\* Endpoint::parse.
Parses(e) == e.scheme \in {"https", "http"} /\ e.host # "none" /\ ~e.userinfo

\* Variant: the URLs are compared as written.
NormalizedTextually(e) == e

\* Endpoint::normalized: the transport's canonical form without fragment or
\* trailing slash.
Normalized(e) == [e EXCEPT !.spelling = "canonical", !.slash = FALSE, !.fragment = FALSE]

(***************************************************************************)
(* StaticAccount: of its document defaults and its seller block, the       *)
(* language and which of the text fields are not XML 1.0 text.             *)
(***************************************************************************)
TextFields ==
  {"currency", "exchange_rate_bank", "template", "number_prefix", "extra_logo", "aggregator",
   "bank", "bank_account", "signer_name", "reply_to", "subject", "body"}

StaticAccount ==
  [id : Ids \cup {Blank}, key : AgentKeys \cup {Blank}, endpoint : Endpoint,
   language : {"known", "unknown"}, notText : SUBSET TextFields]

\* A configuration is read into entries; Absent is none of them.
EntriesAssumption ==
  /\ Absent \notin StaticAccount /\ Singles \subseteq StaticAccount
  /\ \A many \in Tables :
       DOMAIN many \subseteq Scopes /\ \A s \in DOMAIN many : many[s] \in StaticAccount

\* Account::validate.
Validates(a) == a.language = "known" /\ a.notText = {}

\* Entry::build accepts the entry.
Builds(a) == a.id # Blank /\ a.key # Blank /\ Parses(a.endpoint) /\ Validates(a)

\* StaticResolver::multi: no id and no endpoint with its key twice.
Distinct(accounts) ==
  \A s, t \in DOMAIN accounts : s # t =>
    /\ accounts[s].id # accounts[t].id
    /\ ~(/\ Normalized(accounts[s].endpoint) = Normalized(accounts[t].endpoint)
         /\ accounts[s].key = accounts[t].key)

\* TryFrom<StaticConfig>: one shape, at least one account, every entry sound.
Accepted(account, accounts) ==
  \/ account # Absent /\ accounts = << >> /\ Builds(account)
  \/ /\ account = Absent /\ DOMAIN accounts # {}
     /\ DOMAIN accounts \cap BadScopes = {}
     /\ \A s \in DOMAIN accounts : Builds(accounts[s])
     /\ Distinct(accounts)

-----------------------------------------------------------------------------
VARIABLES
  account,    \* the configured [account], or Absent
  accounts,   \* the configured [accounts.<scope>]
  request,    \* the scope of the request being served ("" if none)
  served      \* the account resolved for it and the key fetched, or a fault

vars == <<account, accounts, request, served>>

Unserved == [by |-> "none"]

Entries ==
  IF account # Absent THEN {account} ELSE {accounts[s] : s \in DOMAIN accounts}

TypeOK ==
  /\ account \in StaticAccount \cup {Absent}
  /\ DOMAIN accounts \subseteq Scopes /\ \A s \in DOMAIN accounts : accounts[s] \in StaticAccount
  /\ account # Absent => accounts = << >>
  /\ request \in Scopes \cup {""}
  /\ \A e \in Entries : e.id # Blank /\ e.key # Blank /\ Parses(e.endpoint)
  /\ served.by \in {"none", "unscoped", "unknown", "key"}

\* AccountResolver::resolve: the account, or Absent.
Resolve(scope) ==
  CASE account # Absent /\ scope = "" -> account
    [] account = Absent /\ scope \in DOMAIN accounts -> accounts[scope]
    [] OTHER -> Absent

\* CredentialStore::fetch: the key of an entry under that reference, the id.
Fetched(ref, key) == \E e \in Entries : e.id = ref /\ e.key = key

Deploy(one, many) ==
  /\ Accepted(one, many)
  /\ account' = one /\ accounts' = many
  /\ request' = "" /\ served' = Unserved

Serve(scope) ==
  /\ request' = scope
  /\ IF Resolve(scope) # Absent
     THEN \E key \in AgentKeys :
            /\ Fetched(Resolve(scope).id, key)
            /\ served' = [by |-> "key", account |-> Resolve(scope), key |-> key]
     ELSE served' = [by |-> IF account = Absent /\ scope = "" THEN "unscoped" ELSE "unknown"]
  /\ UNCHANGED <<account, accounts>>

Init ==
  /\ \/ account \in Singles /\ accounts = << >>
     \/ account = Absent /\ accounts \in Tables
  /\ Accepted(account, accounts)
  /\ request = "" /\ served = Unserved

Next ==
  \/ \E many \in Tables : Deploy(Absent, many)
  \/ \E one \in Singles, many \in Tables : Deploy(one, many)
  \/ \E scope \in Scopes \cup {""} : Serve(scope)

Spec == Init /\ [][Next]_vars

-----------------------------------------------------------------------------
(* Properties.                                                             *)

(***************************************************************************)
(* A request is served under the very entry configured for its scope and   *)
(* with that entry's key: no scope falls back on another account, and the  *)
(* reference the journal keeps instead of the key finds the right key.     *)
(***************************************************************************)
ServedUnderItsScope ==
  served.by = "key" =>
    /\ served.account = IF account # Absent THEN account ELSE accounts[request]
    /\ account # Absent => request = ""
    /\ served.key = served.account.key

(***************************************************************************)
(* No two scopes are knowingly the same account: their requests never go   *)
(* to one URL with one key, however the two endpoints are spelled.         *)
(***************************************************************************)
ScopesAreSeparate ==
  \A s, t \in DOMAIN accounts :
    /\ accounts[s].key = accounts[t].key
    /\ accounts[s].endpoint.scheme = accounts[t].endpoint.scheme
    /\ accounts[s].endpoint.host = accounts[t].endpoint.host
    => s = t

AccountsAreSeparate == ServedUnderItsScope /\ ScopesAreSeparate
=============================================================================
