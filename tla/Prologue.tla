------------------------------- MODULE Prologue -------------------------------
(***************************************************************************)
(* One invocation of a handler over its executions: pin the namespace,     *)
(* resolve the account, then run the body's steps, each of which acquires  *)
(* the credentials only if it really executes.  The configuration, the     *)
(* keys in the store change at any moment, the resolver, the store and     *)
(* szamlazz.hu answer or not, and an execution may be lost at any step.    *)
(***************************************************************************)
EXTENDS Integers, Sequences

CONSTANTS
  Namespaces, Accounts, Keys,
  Invalid,      \* accounts that Account::validate refuses
  BadKeys,      \* keys that no request XML can carry
  Gone,         \* no credentials under the reference
  None,
  Handlers,     \* the handlers: whether they retain work, and their body's steps
  MaxTries,     \* executions a bounded run policy allows
  MaxChanges,   \* redeployments and rotations (the model's own bound)
  MaxAttempts   \* invocation attempts before a handler pauses or is killed

FETCH_ATTEMPTS == 3

\* The step kinds of a body: run_reading, run_reading_with_policy,
\* run_best_effort and run_operating of a write.
Kinds == {"prerequisite", "verification", "hint", "write"}

\* Resolution: the journaled answers of the account step.
Resolution == Accounts \cup {"unscoped", "unknown"}

Codes == {"ok", "unknown_account", "unavailable", "credentials_rejected", "outcome_unknown",
          "cancelled", "killed"}

Client == [account : Accounts, key : Keys]

(***************************************************************************)
(* Only handlers of Szamlazz.Agent, which retain nothing, write through    *)
(* run_operating, and the write is the last step of their bodies.          *)
(***************************************************************************)
PrologueAssumption ==
  /\ MaxTries \in Nat \ {0} /\ MaxAttempts \in Nat \ {0} /\ MaxChanges \in Nat
  /\ Invalid \subseteq Accounts /\ BadKeys \subseteq Keys
  /\ Gone \notin Keys /\ {"unscoped", "unknown"} \cap Accounts = {}
  /\ None \notin Namespaces \cup Resolution \cup Codes \cup Client
  /\ \A h \in Handlers :
       /\ h.retains \in BOOLEAN /\ h.body \in Seq(Kinds)
       /\ \A k \in DOMAIN h.body : h.body[k] = "write" => ~h.retains /\ k = Len(h.body)

VARIABLES
  handler,    \* the handler invoked
  deployed,   \* what the deployment's configuration says now
  store,      \* the keys of the credential store
  changes,    \* redeployments and rotations so far
  journal,    \* the recorded results: ns, account, runs
  phase,      \* "waiting" for an execution, "running", "paused" or "done"
  cell,       \* Execution::gateway, the client of this execution
  fetches,    \* failed fetches of the running loop
  tries,      \* failed executions of the current run under its policy
  attempts,   \* failed invocation attempts
  outcome,    \* how the invocation ended
  sent,       \* the requests that left, with what they were sent under
  held        \* the keys the store held at some moment of this execution

vars == <<handler, deployed, store, changes, journal, phase, cell, fetches, tries, attempts,
          outcome, sent, held>>
environment == <<deployed, store, changes>>

Step == handler.body[Len(journal.runs) + 1]
InBody == journal.account \in Accounts \ Invalid /\ Len(journal.runs) < Len(handler.body)

TypeOK ==
  /\ handler \in Handlers
  /\ deployed \in [ns : Namespaces, resolves : Resolution]
  /\ store \in [Accounts -> Keys \cup {Gone}]
  /\ changes \in 0..MaxChanges
  /\ journal \in [ns : Namespaces \cup {None}, account : Resolution \cup {None},
                  runs : Seq({"answered", "omitted"})]
  /\ Len(journal.runs) <= Len(handler.body)
  /\ phase \in {"waiting", "running", "paused", "done"}
  /\ cell \in {None} \cup Client
  /\ fetches \in 0..(FETCH_ATTEMPTS - 1) /\ tries \in 0..(MaxTries - 1)
  /\ attempts \in 0..(MaxAttempts - 1)
  /\ outcome \in Codes \cup {None} /\ (outcome # None <=> phase = "done")
  /\ sent \subseteq [ns : Namespaces, account : Accounts, key : Keys, kind : Kinds]

HeldNow == {<<a, store[a]>> : a \in Accounts}

-----------------------------------------------------------------------------
(* The ends of an execution.                                               *)

\* Variant: the client survives into the next execution.
LeaveCached(next) == phase' = next /\ UNCHANGED cell /\ fetches' = 0

\* An execution is left: its client and its fetch loop go with it.
Leave(next) == phase' = next /\ cell' = None /\ fetches' = 0

Ends(code) == Leave("done") /\ outcome' = code

\* A completed run: its result is recorded and the next one starts afresh.
Records(result) ==
  /\ journal' = [journal EXCEPT !.runs = Append(@, result)]
  /\ tries' = 0 /\ attempts' = 0 /\ fetches' = 0

\* The attempt failed under the handler's invocation policy: another execution,
\* or at the limit a pause where work is retained and the end where it is not.
AttemptFails ==
  /\ IF attempts + 1 < MaxAttempts
     THEN Leave("waiting") /\ attempts' = attempts + 1 /\ UNCHANGED outcome
     ELSE /\ UNCHANGED attempts
          /\ IF handler.retains THEN Leave("paused") /\ UNCHANGED outcome ELSE Ends("killed")
  /\ UNCHANGED <<journal, tries>>

\* What an exhausted run policy makes of the step.
Exhausted ==
  \/ /\ journal.account \in Accounts /\ Step = "hint"
     /\ Records("omitted")
     /\ UNCHANGED <<phase, cell, outcome>>
  \/ /\ ~(journal.account \in Accounts /\ Step = "hint")
     /\ Ends(IF journal.account \in Accounts /\ Step = "write" THEN "outcome_unknown"
             ELSE "unavailable")
     /\ UNCHANGED <<journal, tries, attempts>>

\* The run failed under a bounded policy: another execution, without spending an
\* invocation attempt, or exhaustion.
PolicyFails ==
  \/ /\ tries + 1 < MaxTries
     /\ tries' = tries + 1 /\ Leave("waiting")
     /\ UNCHANGED <<journal, attempts, outcome>>
  \/ tries + 1 = MaxTries /\ Exhausted

\* A run without policy fails with its attempt, one with a policy under it.
RunFails(retained) == IF retained THEN AttemptFails ELSE PolicyFails

Retained == handler.retains /\ Step = "prerequisite"

-----------------------------------------------------------------------------
(* execute and run_prologue.                                               *)

Execute ==
  /\ phase = "waiting"
  /\ phase' = "running" /\ held' = HeldNow
  /\ UNCHANGED <<environment, handler, journal, cell, fetches, tries, attempts, outcome, sent>>

\* The namespace the execution's external ids carry.
Namespace == journal.ns

Pin ==
  /\ phase = "running" /\ journal.ns = None
  /\ journal' = [journal EXCEPT !.ns = deployed.ns]
  /\ tries' = 0 /\ attempts' = 0
  /\ UNCHANGED <<environment, handler, phase, cell, fetches, outcome, sent, held>>

\* The account step: an answer is recorded, unscoped and unknown too; a resolver
\* that is down or silent past CALL_DEADLINE is a failure of the run.
Resolve ==
  /\ phase = "running" /\ journal.ns # None /\ journal.account = None
  /\ \/ /\ journal' = [journal EXCEPT !.account = deployed.resolves]
        /\ tries' = 0 /\ attempts' = 0
        /\ UNCHANGED <<phase, cell, fetches, outcome>>
     \/ RunFails(handler.retains)
  /\ UNCHANGED <<environment, handler, sent, held>>

\* account_of: no account, or one that is not valid.
Refuse ==
  /\ phase = "running" /\ journal.account \in {"unscoped", "unknown"} \cup Invalid
  /\ Ends(IF journal.account \in Invalid THEN "unavailable" ELSE "unknown_account")
  /\ UNCHANGED <<environment, handler, journal, tries, attempts, sent, held>>

-----------------------------------------------------------------------------
(* Execution::gateway, inside the run that executes.                       *)

\* The client could not be had: the run's kind decides.
InitFails ==
  \/ Retained /\ AttemptFails
  \/ Step = "hint" /\ Records("omitted") /\ UNCHANGED <<phase, cell, outcome>>
  \/ /\ ~Retained /\ Step # "hint"
     /\ Ends("unavailable") /\ UNCHANGED <<journal, tries, attempts>>

\* The loop has made its last attempt with this one.
Spent == fetches + 1 = FETCH_ATTEMPTS

\* fetch_credentials and open: up to three bounded calls while the store is
\* unavailable; a reference it does not know and a key that cannot be written
\* end the loop.
Fetch ==
  /\ phase = "running" /\ InBody /\ cell = None
  /\ \/ /\ store[journal.account] \in Keys \ BadKeys
        /\ cell' = [account |-> journal.account, key |-> store[journal.account]]
        /\ fetches' = 0
        /\ UNCHANGED <<journal, phase, tries, attempts, outcome>>
     \/ store[journal.account] \in BadKeys \cup {Gone} /\ InitFails
     \/ /\ ~Spent
        /\ fetches' = fetches + 1
        /\ UNCHANGED <<journal, phase, cell, tries, attempts, outcome>>
     \/ Spent /\ InitFails
  /\ UNCHANGED <<environment, handler, sent, held>>

\* The step's own exchange: answered and recorded, refused for its credentials,
\* or unanswered and a failure of the run.
Perform ==
  /\ phase = "running" /\ InBody /\ cell # None
  /\ sent' = sent \cup {[ns |-> Namespace, account |-> cell.account, key |-> cell.key,
                         kind |-> Step]}
  /\ \/ Records("answered") /\ UNCHANGED <<phase, cell, outcome>>
     \/ /\ Step # "hint"
        /\ Ends("credentials_rejected") /\ UNCHANGED <<journal, tries, attempts>>
     \/ RunFails(Retained)
  /\ UNCHANGED <<environment, handler, held>>

\* Every run is recorded: the body answers from the journal alone.
Finish ==
  /\ phase = "running" /\ Len(journal.runs) = Len(handler.body)
  /\ Ends("ok")
  /\ UNCHANGED <<environment, handler, journal, tries, attempts, sent, held>>

-----------------------------------------------------------------------------
(* Restate and the operator.                                               *)

Crash ==
  /\ phase = "running" /\ AttemptFails
  /\ UNCHANGED <<environment, handler, sent, held>>

Resume ==
  /\ phase = "paused" /\ phase' = "waiting" /\ attempts' = 0
  /\ UNCHANGED <<environment, handler, journal, cell, fetches, tries, outcome, sent, held>>

\* resolve_exhausted, read_exhausted, and the write sites: a cancelled run's code.
CancelledAs == IF InBody /\ Step = "write" THEN "outcome_unknown" ELSE "cancelled"

Cancel ==
  /\ phase # "done" /\ (journal.account = None \/ InBody)
  /\ Ends(CancelledAs)
  /\ UNCHANGED <<environment, handler, journal, tries, attempts, sent, held>>

Redeploy(ns, resolves) ==
  /\ deployed' = [ns |-> ns, resolves |-> resolves]
  /\ UNCHANGED <<handler, store, journal, phase, cell, fetches, tries, attempts, outcome,
                 sent, held>>

Rotate(account, key) ==
  /\ store' = [store EXCEPT ![account] = key]
  /\ held' = held \cup {<<account, key>>}
  /\ UNCHANGED <<handler, deployed, journal, phase, cell, fetches, tries, attempts, outcome,
                 sent>>

Init ==
  /\ handler \in Handlers
  /\ deployed \in [ns : Namespaces, resolves : Resolution]
  /\ store \in [Accounts -> Keys \cup {Gone}]
  /\ changes = 0
  /\ journal = [ns |-> None, account |-> None, runs |-> << >>]
  /\ phase = "waiting" /\ cell = None /\ fetches = 0 /\ tries = 0 /\ attempts = 0
  /\ outcome = None /\ sent = {} /\ held = {}

System == Execute \/ Pin \/ Resolve \/ Refuse \/ Fetch \/ Perform \/ Finish

\* The configuration and the keys matter only before the end.
Environment ==
  /\ phase # "done" /\ changes < MaxChanges /\ changes' = changes + 1
  /\ \/ \E ns \in Namespaces, resolves \in Resolution : Redeploy(ns, resolves)
     \/ \E account \in Accounts, key \in Keys \cup {Gone} : Rotate(account, key)

Next == System \/ Crash \/ Resume \/ Cancel \/ Environment

Spec == Init /\ [][Next]_vars /\ WF_vars(System)

-----------------------------------------------------------------------------
(* Properties.                                                             *)

(***************************************************************************)
(* Whatever is redeployed meanwhile, all requests of an invocation leave   *)
(* under one namespace and one account, the ones its first execution       *)
(* recorded: a retried step never looks for, or issues, another document.  *)
(***************************************************************************)
OneIdentityPerInvocation ==
  \A request \in sent : request.ns = journal.ns /\ request.account = journal.account

(***************************************************************************)
(* A client works with a key its store held during this very execution: a  *)
(* rotation or a removal reaches every later execution.                    *)
(***************************************************************************)
KeysAreOfThisExecution == cell # None => <<cell.account, cell.key>> \in held

(***************************************************************************)
(* An outage of the resolver, the store or szamlazz.hu never refuses an    *)
(* exclusive handler's work: only a configuration error or the operator's  *)
(* own verification ends it as unavailable.                                *)
(***************************************************************************)
OutagesNeverRefuseRetainedWork ==
  handler.retains /\ outcome \in {"unavailable", "killed"} =>
    \/ journal.account \in Invalid
    \/ InBody /\ Step = "verification"

(***************************************************************************)
(* A fault that says the invocation was cancelled and nothing was sent is  *)
(* true of its writes, over all its executions.                            *)
(***************************************************************************)
CancelledWroteNothing == outcome = "cancelled" => \A request \in sent : request.kind # "write"

(***************************************************************************)
(* What an invocation keeps over its executions, whatever changes.         *)
(***************************************************************************)
InvocationsKeepTheirIdentity ==
  /\ OneIdentityPerInvocation /\ KeysAreOfThisExecution
  /\ CancelledWroteNothing /\ OutagesNeverRefuseRetainedWork

(***************************************************************************)
(* An invocation whose runs are all recorded is answered (or waits for the *)
(* operator, if its executions keep being lost) although every service may *)
(* be down for good.                                                       *)
(***************************************************************************)
RecordedWorkNeedsNobody ==
  Len(journal.runs) = Len(handler.body) ~> phase \in {"done", "paused"}

(***************************************************************************)
(* A handler that retains nothing ends, whatever is down and however long. *)
(***************************************************************************)
BoundedWorkEnds == ~handler.retains ~> phase = "done"
=============================================================================
