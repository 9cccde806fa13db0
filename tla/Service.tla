------------------------------- MODULE Service -------------------------------
(***************************************************************************)
(* The worker's parts that share no state, side by side: a behaviour is    *)
(* one component's, chosen at the start, and leaves the variables of the   *)
(* others alone.                                                           *)
(***************************************************************************)
EXTENDS Integers, Sequences

CONSTANTS
  Components,                                   \* the components a behaviour may be of
  Calls, MaxAttempts,                           \* calls, and attempts before one is killed
  MaxDocs, MaxRuns, Targets, Holdings,          \* status and storno
  Sizes,                                        \* credit
  Ids, AgentKeys, Blank, Scopes, BadScopes, Singles, AccountTables, Absent, \* accounts
  Namespaces, Accounts, Keys, Invalid, BadKeys, Handlers, Gone, None,
  MaxTries, MaxChanges,                                                     \* prologue
  Configs, Took, Unset, Infinite, NoError                                   \* config

VARIABLES component,
  link, seen, result, status, history,          \* status
  stray, open,                                  \* storno
  serialised, began, reversed, ledger, taken,   \* credit
  docs,                                         \* status and storno
  calls, late,                                  \* storno and credit
  tries,                                        \* status and prologue
  account, accounts, request, served,           \* accounts
  handler, deployed, store, changes, journal, cell, fetches, attempts, outcome, sent, held,
  config, error, step, now, executions, failed, delay,
  phase                                         \* prologue and config

-----------------------------------------------------------------------------
(* The components *)

Status == INSTANCE OrderStatus       \* Szamlazz.Order.get, while documents come and go
Storno == INSTANCE AgentStorno       \* Szamlazz.Agent.storno
            WITH Invocation <- Calls
Credit == INSTANCE CreditEntries     \* Szamlazz.Agent.set_credit_entries
Table == INSTANCE Accounts           \* the account table and the requests served from it
           WITH Tables <- AccountTables
Call == INSTANCE Prologue            \* the prologue of a handler
Config == INSTANCE WorkerConfig      \* the worker's configuration

ASSUME Bounds == /\ Status!StatusBounds
                 /\ Storno!StornoBounds /\ Storno!StornoAccount
                 /\ Credit!CreditBounds
                 /\ Table!ScopesAssumption /\ Table!EntriesAssumption
                 /\ Call!PrologueAssumption /\ Config!ConfigsAssumption

-----------------------------------------------------------------------------
(* Composition *)

forStatus == <<link, seen, result, status, history>>
forStorno == <<stray, open>>
forCredit == <<serialised, began, reversed, ledger, taken>>
forCalls == <<calls, late>>
forAccounts == <<account, accounts, request, served>>
forPrologue == <<handler, deployed, store, changes, journal, cell, fetches, attempts,
                 outcome, sent, held>>
forConfig == <<config, error, step, now, executions, failed, delay>>

vars == <<component, forStatus, forStorno, forCredit, forCalls, forAccounts, forPrologue,
          forConfig, docs, tries, phase>>

Idle == "idle"
IdleStatus == link = Idle /\ seen = Idle /\ result = Idle /\ status = Idle /\ history = Idle
IdleStorno == stray = Idle /\ open = Idle
IdleCredit == serialised = Idle /\ began = Idle /\ reversed = Idle /\ ledger = Idle /\ taken = Idle
IdleCalls == calls = Idle /\ late = Idle
IdleAccounts == account = Idle /\ accounts = Idle /\ request = Idle /\ served = Idle
IdlePrologue ==
  /\ handler = Idle /\ deployed = Idle /\ store = Idle /\ changes = Idle /\ journal = Idle
  /\ cell = Idle /\ fetches = Idle /\ attempts = Idle /\ outcome = Idle
  /\ sent = Idle /\ held = Idle
IdleConfig ==
  /\ config = Idle /\ error = Idle /\ step = Idle /\ now = Idle /\ executions = Idle
  /\ failed = Idle /\ delay = Idle
IdleDocs == docs = Idle
IdleTries == tries = Idle
IdlePhase == phase = Idle

Init ==
  /\ component \in Components
  /\ \/ /\ component = "status" /\ Status!Init
        /\ IdleStorno /\ IdleCredit /\ IdleCalls /\ IdleAccounts /\ IdlePrologue /\ IdleConfig
        /\ IdlePhase
     \/ /\ component = "storno" /\ Storno!Init
        /\ IdleStatus /\ IdleCredit /\ IdleAccounts /\ IdlePrologue /\ IdleConfig
        /\ IdleTries /\ IdlePhase
     \/ /\ component = "credit" /\ Credit!Init
        /\ IdleStatus /\ IdleStorno /\ IdleAccounts /\ IdlePrologue /\ IdleConfig
        /\ IdleDocs /\ IdleTries /\ IdlePhase
     \/ /\ component = "accounts" /\ Table!Init
        /\ IdleStatus /\ IdleStorno /\ IdleCredit /\ IdleCalls /\ IdlePrologue /\ IdleConfig
        /\ IdleDocs /\ IdleTries /\ IdlePhase
     \/ /\ component = "prologue" /\ Call!Init
        /\ IdleStatus /\ IdleStorno /\ IdleCredit /\ IdleCalls /\ IdleAccounts /\ IdleConfig
        /\ IdleDocs
     \/ /\ component = "config" /\ Config!Init
        /\ IdleStatus /\ IdleStorno /\ IdleCredit /\ IdleCalls /\ IdleAccounts /\ IdlePrologue
        /\ IdleDocs /\ IdleTries

StatusStep ==
  /\ component = "status" /\ Status!Next
  /\ UNCHANGED <<component, forStorno, forCredit, forCalls, forAccounts, forPrologue, forConfig,
                 phase>>

StornoStep ==
  /\ component = "storno" /\ Storno!Next
  /\ UNCHANGED <<component, forStatus, forCredit, forAccounts, forPrologue, forConfig, tries,
                 phase>>

CreditStep ==
  /\ component = "credit" /\ Credit!Next
  /\ UNCHANGED <<component, serialised, forStatus, forStorno, forAccounts, forPrologue, forConfig,
                 docs, tries, phase>>

AccountsStep ==
  /\ component = "accounts" /\ Table!Next
  /\ UNCHANGED <<component, forStatus, forStorno, forCredit, forCalls, forPrologue, forConfig,
                 docs, tries, phase>>

PrologueStep ==
  /\ component = "prologue" /\ Call!Next
  /\ UNCHANGED <<component, forStatus, forStorno, forCredit, forCalls, forAccounts, forConfig,
                 docs>>

ConfigStep ==
  /\ component = "config" /\ Config!Next
  /\ UNCHANGED <<component, forStatus, forStorno, forCredit, forCalls, forAccounts, forPrologue,
                 docs, tries>>

Next == StatusStep \/ StornoStep \/ CreditStep \/ AccountsStep \/ PrologueStep \/ ConfigStep

Spec == Init /\ [][Next]_vars

-----------------------------------------------------------------------------
(* Properties: each component's own, of its behaviours *)

\* The state of the running component has its type.
TypeOK ==
  /\ component = "status" => Status!TypeOK
  /\ component = "storno" => Storno!TypeOK
  /\ component = "credit" => Credit!TypeOK
  /\ component = "accounts" => Table!TypeOK
  /\ component = "prologue" => Call!TypeOK
  /\ component = "config" => Config!TypeOK

\* get: each slot is what the slot held at some moment of the call, and a proforma
\* reported as consumed was converted (service/status.rs).
StatusIsTrue ==
  component = "status" => Status!StatusIsTrue

\* storno: a caller told its invoice is reversed can rely on it, one told nothing was
\* touched sent nothing, a refusal of the only send is final, every further send is paid for
\* with an execution the policy allows, and no send reverses a document of an order
\* (service/storno.rs, gateway.rs).
StornoIsAccountedFor ==
  component = "storno" => Storno!StornoIsAccountedFor

\* set_credit_entries: an answered call took effect, a refused one has none, and no call
\* clears the invoice's ledger (service/agent.rs).
CreditAnswersAreTrue ==
  component = "credit" => Credit!CreditAnswersAreTrue

\* set_credit_entries: only an interrupted execution registers twice, or puts an older
\* snapshot over a newer one of callers that take turns (service/agent.rs).
OnlyInterruptionsRepeat ==
  component = "credit" => Credit!OnlyInterruptionsRepeat

\* Accounts: a request is served under the entry of its scope, and no two scopes share an
\* account of szamlazz.hu (account/static_resolver.rs).
AccountsAreSeparate ==
  component = "accounts" => Table!AccountsAreSeparate

\* Prologue: all requests of an invocation leave under one identity, with a key the store
\* held in their execution; an invocation reported cancelled wrote nothing; an outage never
\* refuses work an exclusive handler retains (service/prologue.rs, service/support.rs).
InvocationsKeepTheirIdentity ==
  component = "prologue" => Call!InvocationsKeepTheirIdentity

\* Configuration: retries of a reversal keep their distance, a failing step ends within its
\* configured time, and the text a policy is stored as says the same policy (config.rs).
PoliciesHold ==
  component = "config" => Config!PoliciesHold

\* Configuration: errors come in the order the comment on check gives (config.rs).
ReportedInOrder == component = "config" => Config!ReportedInOrder

=============================================================================
