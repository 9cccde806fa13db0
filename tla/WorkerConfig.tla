----------------------------- MODULE WorkerConfig -----------------------------
(***************************************************************************)
(* A deployment's retry policies: which configurations the worker accepts, *)
(* which error it reports first, how a policy is written back as text, and *)
(* what an accepted policy makes of a step that goes on failing.  Times    *)
(* are in milliseconds, a factor is in halves.                             *)
(***************************************************************************)
EXTENDS Integers, Sequences

CONSTANTS
  Configs,     \* the configurations an operator writes
  Unset,       \* no max_attempts; no [query] table
  Infinite,    \* a factor that is a float but no finite number
  Took,        \* how long an execution of a failing step may take
  NoError

Tables == {"issue", "read", "query", "resolve"}

REQUEST_TIMEOUT == 60000
RE_CHECK_MARGIN == 30000
MIN_INITIAL_DELAY == REQUEST_TIMEOUT + RE_CHECK_MARGIN

\* RetryPolicyConfig, and the tables of a configuration.
Policies ==
  [max_attempts : Nat \cup {Unset}, initial_delay : Nat, factor : Nat \cup {Infinite},
   max_delay : Nat, max_duration : Nat]

Deployable ==
  [issue : Policies, read : Policies, query : Policies \cup {Unset}, resolve : Policies]

Errors == {"attempts", "floor", "order", "factor"}

ConfigsAssumption ==
  /\ Configs \subseteq Deployable /\ Took \subseteq Nat
  /\ Unset \notin Nat \cup Policies /\ Infinite \notin Nat
  /\ NoError \notin Errors \cup (Tables \X Errors)

-----------------------------------------------------------------------------
(* WorkerConfig::check.                                                    *)

Zero(policy) == policy.max_attempts = 0

\* Variant: the order of the delays is not checked.
CheckFactor(policy) ==
  IF policy.factor = Infinite \/ policy.factor < 2 THEN "factor" ELSE NoError

\* RetryPolicyConfig::check_delays.
CheckDelays(policy) ==
  IF policy.initial_delay > policy.max_delay THEN "order"
  ELSE IF policy.factor = Infinite THEN "factor"
  ELSE IF policy.factor < 2 THEN "factor"
  ELSE NoError

\* The checks in the order the function makes them, each with its table.
Checks(config) ==
  LET attempts(t) == <<t, IF Zero(config[t]) THEN "attempts" ELSE NoError>>
      delays(t) == <<t, CheckDelays(config[t])>>
      query == IF config.query = Unset THEN << >> ELSE <<attempts("query"), delays("query")>>
      floor == <<"issue", IF config.issue.initial_delay < MIN_INITIAL_DELAY THEN "floor"
                          ELSE NoError>>
  IN <<attempts("issue"), attempts("read")>> \o query
     \o <<attempts("resolve"), floor, delays("issue"), delays("read"), delays("resolve")>>

Fails(check) == check[2] # NoError

\* WorkerConfig::validate: the first violated invariant, or NoError.
Validate(config) ==
  LET checks == Checks(config)
      violated == {k \in DOMAIN checks : Fails(checks[k])}
  IN IF violated = {} THEN NoError
     ELSE checks[CHOOSE k \in violated : \A j \in violated : k <= j]

-----------------------------------------------------------------------------
(* Durations as text, an amount and a unit.                                *)

SECOND == 1000
MINUTE == 60 * SECOND
HOUR == 60 * MINUTE

\* format_duration: the largest unit that divides evenly.  It drops what is below
\* a millisecond, as its doc says; durations here are of whole milliseconds.
Format(d) ==
  IF d > 0 /\ d % SECOND # 0 THEN <<d, 1>>
  ELSE IF d > 0 /\ d % HOUR = 0 THEN <<d \div HOUR, HOUR>>
  ELSE IF d > 0 /\ d % MINUTE = 0 THEN <<d \div MINUTE, MINUTE>>
  ELSE <<d \div SECOND, SECOND>>

\* parse_duration.
Parse(text) == text[1] * text[2]

\* A policy serialized and deserialized, field by field.
Reread(policy) ==
  [policy EXCEPT !.initial_delay = Parse(Format(@)), !.max_delay = Parse(Format(@)),
                 !.max_duration = Parse(Format(@))]

-----------------------------------------------------------------------------
VARIABLES
  config,      \* the deployment's configuration
  error,       \* validate's answer, NoError once accepted
  step,        \* the table of the step that runs, or "none"
  now,         \* time since the step began
  executions,  \* executions of the step so far
  failed,      \* when the last execution failed
  delay,       \* the policy's next delay
  phase        \* "written", "refused", "serving", "waiting", "running", "exhausted"

vars == <<config, error, step, now, executions, failed, delay, phase>>
run == <<step, now, executions, failed, delay>>

\* RetryPolicyConfig::run_retry_policy, every field set.
RunRetryPolicy(policy) == policy

\* query_retry_policy: an omitted table inherits the configured read policy.
Configured(table) ==
  IF table = "query" /\ config.query = Unset THEN config.read ELSE config[table]

PolicyOf(table) == RunRetryPolicy(Configured(table))

TypeOK ==
  /\ DOMAIN config = Tables
  /\ error = NoError \/ error \in Tables \X Errors
  /\ step \in Tables \cup {"none"}
  /\ now \in Nat /\ failed \in Nat /\ delay \in Nat
  /\ executions \in Nat /\ (executions > 0 => step # "none")
  /\ step # "none" => /\ PolicyOf(step).max_attempts # 0
                      /\ PolicyOf(step).max_attempts # Unset =>
                           executions <= PolicyOf(step).max_attempts
  /\ phase \in {"written", "refused", "serving", "waiting", "running", "exhausted"}

Load ==
  /\ phase = "written"
  /\ error' = Validate(config)
  /\ phase' = IF error' = NoError THEN "serving" ELSE "refused"
  /\ UNCHANGED <<config, run>>

\* An accepted configuration is written out and read back.
WriteBack ==
  /\ phase = "serving"
  /\ config' = [t \in DOMAIN config |->
                  IF t \in Tables /\ config[t] # Unset THEN Reread(config[t]) ELSE config[t]]
  /\ UNCHANGED <<error, phase, run>>

Begin(table) ==
  /\ phase = "serving"
  /\ step' = table /\ phase' = "running" /\ now' = 0 /\ executions' = 1 /\ failed' = 0
  /\ delay' = PolicyOf(table).initial_delay
  /\ UNCHANGED <<config, error>>

Grown(d, policy) ==
  IF d * policy.factor > 2 * policy.max_delay THEN policy.max_delay
  ELSE (d * policy.factor) \div 2

Capped(d, policy) == IF d > policy.max_delay THEN policy.max_delay ELSE d

\* The thresholds, looked at when a closure has failed.
Exhausts(policy, at) ==
  \/ policy.max_attempts # Unset /\ executions >= policy.max_attempts
  \/ at >= policy.max_duration

Fail(took) ==
  /\ phase = "running"
  /\ now' = now + took /\ failed' = now + took
  /\ phase' = IF Exhausts(PolicyOf(step), now + took) THEN "exhausted" ELSE "waiting"
  /\ UNCHANGED <<config, error, step, executions, delay>>

\* A crash between an execution and the record of its result executes the step
\* once more without the policy (the doc of RetryPolicyConfig); it is left out
\* here and is OrderWrite's and ReplayWrite's.
Retry ==
  /\ phase = "waiting"
  /\ now' = now + Capped(delay, PolicyOf(step))
  /\ delay' = Grown(delay, PolicyOf(step))
  /\ executions' = executions + 1 /\ phase' = "running"
  /\ UNCHANGED <<config, error, step, failed>>

Init ==
  /\ config \in Configs
  /\ error = NoError /\ phase = "written" /\ step = "none"
  /\ now = 0 /\ executions = 0 /\ failed = 0 /\ delay = 0

Next ==
  \/ Load \/ WriteBack \/ Retry
  \/ \E table \in Tables : Begin(table)
  \/ \E took \in Took : Fail(took)

Spec == Init /\ [][Next]_vars

-----------------------------------------------------------------------------
(* Properties.                                                             *)

(***************************************************************************)
(* A reversal by number is never repeated sooner after a failure than the  *)
(* client's timeout and the margin, at any retry of any accepted policy:   *)
(* the floor on the first delay bounds all of them.                        *)
(***************************************************************************)
RetriesKeepTheirDistance ==
  phase = "running" /\ step = "issue" /\ executions > 1 => now - failed >= MIN_INITIAL_DELAY

(***************************************************************************)
(* A failing step of an accepted policy ends: no execution begins later    *)
(* than the duration threshold and one delay after the first.              *)
(***************************************************************************)
StepsEndInTime ==
  phase = "running" => now <= Configured(step).max_duration + Configured(step).max_delay

(***************************************************************************)
(* The text an accepted configuration is shown and stored as says the same *)
(* policies.                                                               *)
(***************************************************************************)
TextKeepsPolicies ==
  phase = "serving" => \A t \in Tables : config[t] # Unset => Reread(config[t]) = config[t]

PoliciesHold == RetriesKeepTheirDistance /\ StepsEndInTime /\ TextKeepsPolicies

(***************************************************************************)
(* The comment on check: errors are reported in the order of a zero cap on *)
(* any table, then the issue floor (the safety rule), then the consistency *)
(* rules of the tables.                                                    *)
(***************************************************************************)
ReportedInOrder ==
  phase = "refused" =>
    \/ error[2] = "attempts"
    \/ /\ \A t \in Tables : config[t] # Unset => ~Zero(config[t])
       /\ error[2] = "floor" \/ config.issue.initial_delay >= MIN_INITIAL_DELAY
=============================================================================
