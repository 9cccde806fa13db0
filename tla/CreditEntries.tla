---------------------------- MODULE CreditEntries ----------------------------
(***************************************************************************)
(* Szamlazz.Agent.set_credit_entries: one send without a query before it,  *)
(* in a run that no policy retries but an interrupted execution repeats.   *)
(* Calls on one invoice are ordered by nothing in the worker; callers may  *)
(* serialise their own, which fences neither a repeated execution nor a    *)
(* request the service processes late.                                     *)
(***************************************************************************)
EXTENDS Integers, Sequences

CONSTANTS
  Calls,        \* calls of set_credit_entries on one invoice
  Sizes,        \* numbers of entries a request may carry
  MaxAttempts   \* attempts of an invocation before it is killed

CreditBounds == Sizes \subseteq Nat /\ Sizes # {} /\ MaxAttempts \in Nat \ {0}

VARIABLES
  serialised, \* the callers wait for the previous call to end; it does not change
  calls,      \* the calls
  began,      \* the calls begun, in order
  reversed,   \* the invoice has been reversed
  ledger,     \* the invoice's credit entries, each as the call that registered it
  late,       \* requests nobody waits for, by call
  taken       \* history: how often each call's request took effect

vars == <<calls, began, reversed, ledger, late, taken>>

MaxEntries == 5

Result == {"none", "done", "invalid_input", "credentials_rejected", "unavailable",
           "outcome_unknown", "killed"}

Call == [phase : {"idle", "ready", "sent", "done"}, size : Sizes, additive : BOOLEAN,
         result : Result, attempts : 1..MaxAttempts, sends : 0..MaxAttempts]

TypeOK ==
  /\ calls \in [Calls -> Call]
  /\ began \in Seq(Calls) /\ \A k, m \in DOMAIN began : began[k] = began[m] => k = m
  /\ reversed \in BOOLEAN
  /\ ledger \in Seq(Calls)
  /\ late \in [Calls -> 0..MaxAttempts] /\ taken \in [Calls -> 0..MaxAttempts]

Init ==
  /\ serialised \in BOOLEAN
  /\ calls = [i \in Calls |-> [phase |-> "idle", size |-> CHOOSE s \in Sizes : TRUE,
                               additive |-> FALSE, result |-> "none", attempts |-> 1, sends |-> 0]]
  /\ began = <<>> /\ reversed = FALSE /\ ledger = <<>>
  /\ late = [i \in Calls |-> 0] /\ taken = [i \in Calls |-> 0]

-----------------------------------------------------------------------------
(* The handler.                                                            *)

End(i, result) == calls' = [calls EXCEPT ![i].phase = "done", ![i].result = result]

\* validate_credit_entries: at most five, and a replacement with none would
\* clear the invoice.
Sendable(size, additive) == size <= MaxEntries /\ (additive \/ size > 0)

Begin(i, size, additive) ==
  /\ calls[i].phase = "idle"
  /\ serialised => \A j \in Calls : calls[j].phase \in {"idle", "done"}
  /\ began' = Append(began, i)
  /\ calls' = [calls EXCEPT ![i] = [@ EXCEPT
       !.size = size, !.additive = additive,
       !.phase = IF Sendable(size, additive) THEN "ready" ELSE "done",
       !.result = IF Sendable(size, additive) THEN "none" ELSE "invalid_input"]]
  /\ UNCHANGED <<reversed, ledger, late, taken>>

\* The gateway cannot be initialized: the run ends before it sends.
Uninitialized(i) ==
  /\ calls[i].phase = "ready" /\ End(i, "unavailable")
  /\ UNCHANGED <<began, reversed, ledger, late, taken>>

Send(i) ==
  /\ calls[i].phase = "ready"
  /\ calls' = [calls EXCEPT ![i].phase = "sent", ![i].sends = @ + 1]
  /\ UNCHANGED <<began, reversed, ledger, late, taken>>

\* Variant: the acknowledgement's invoice number is not compared.
ResponseUncompared(i, reply) ==
  CASE reply \in {"acknowledged", "other_number"} -> End(i, "done")
    [] reply = "credentials" -> End(i, "credentials_rejected")
    [] reply \in {"refused", "inconclusive", "lost"} -> End(i, "outcome_unknown")

\* set_credit_entries_response over the gateway's outcome.  A refusal speaks for
\* the latest request only.
Response(i, reply) ==
  CASE reply = "acknowledged" -> End(i, "done")
    [] reply = "credentials" -> End(i, "credentials_rejected")
    [] reply \in {"refused", "inconclusive", "other_number", "lost"} -> End(i, "outcome_unknown")

\* Variant: an execution that loses its reply runs again.
ResponseRetried(i, reply) ==
  CASE reply = "acknowledged" -> End(i, "done")
    [] reply = "credentials" -> End(i, "credentials_rejected")
    [] reply \in {"inconclusive", "lost"} /\ calls[i].sends < MaxAttempts ->
         calls' = [calls EXCEPT ![i].phase = "ready"]
    [] OTHER -> End(i, "outcome_unknown")

\* The run's result is journaled once; max_attempts(1) repeats nothing.
Settle(i, reply) == Response(i, reply)

-----------------------------------------------------------------------------
(* Interruptions.                                                          *)

Orphaned(i) == [late EXCEPT ![i] = @ + IF calls[i].phase = "sent" THEN 1 ELSE 0]

\* The execution dies before its result is journaled and the run starts over;
\* an invocation out of attempts is killed.
Interrupt(i) ==
  /\ calls[i].phase \in {"ready", "sent"}
  /\ IF calls[i].attempts < MaxAttempts
     THEN calls' = [calls EXCEPT ![i].phase = "ready", ![i].attempts = @ + 1]
     ELSE End(i, "killed")
  /\ late' = Orphaned(i)
  /\ UNCHANGED <<began, reversed, ledger, taken>>

Cancel(i) ==
  /\ calls[i].phase \in {"ready", "sent"}
  /\ End(i, "outcome_unknown") /\ late' = Orphaned(i)
  /\ UNCHANGED <<began, reversed, ledger, taken>>

-----------------------------------------------------------------------------
(* The service.                                                            *)

\* A request of i takes effect: its entries are appended, or become the ledger.
Register(i) ==
  LET entries == [k \in 1..calls[i].size |-> i] IN
  /\ ~reversed
  /\ ledger' = IF calls[i].additive THEN ledger \o entries ELSE entries
  /\ taken' = [taken EXCEPT ![i] = @ + 1]

Acknowledge(i) ==
  /\ calls[i].phase = "sent" /\ Register(i)
  /\ \E reply \in {"acknowledged", "other_number", "inconclusive"} : Settle(i, reply)
  /\ UNCHANGED <<began, reversed, late>>

Refuse(i) ==
  /\ calls[i].phase = "sent"
  /\ \/ reversed /\ Settle(i, "refused")
     \/ \E reply \in {"refused", "credentials", "inconclusive", "other_number"} : Settle(i, reply)
  /\ UNCHANGED <<began, reversed, ledger, late, taken>>

Lose(i) ==
  /\ calls[i].phase = "sent" /\ Settle(i, "lost")
  /\ late' \in {late, [late EXCEPT ![i] = @ + 1]}
  /\ UNCHANGED <<began, reversed, ledger, taken>>

ExecuteLate(i) ==
  /\ late[i] > 0 /\ Register(i)
  /\ late' = [late EXCEPT ![i] = @ - 1] /\ UNCHANGED <<calls, began, reversed>>

Discard(i) ==
  /\ late[i] > 0
  /\ late' = [late EXCEPT ![i] = @ - 1] /\ UNCHANGED <<calls, began, reversed, ledger, taken>>

\* Reversing the invoice removes its entries; nothing can be registered after.
ReverseInvoice ==
  /\ ~reversed /\ reversed' = TRUE /\ ledger' = <<>>
  /\ UNCHANGED <<calls, began, late, taken>>

Step(i) ==
  Uninitialized(i) \/ Send(i) \/ Acknowledge(i) \/ Refuse(i) \/ Lose(i)

Next ==
  \/ \E i \in Calls :
       \/ \E size \in Sizes, additive \in BOOLEAN : Begin(i, size, additive)
       \/ Step(i) \/ Interrupt(i) \/ Cancel(i) \/ ExecuteLate(i) \/ Discard(i)
  \/ ReverseInvoice

Spec == Init /\ [][Next /\ UNCHANGED serialised]_<<serialised, vars>>

-----------------------------------------------------------------------------
(* Properties.                                                             *)

(***************************************************************************)
(* A call answered with the invoice's totals took effect, one that is told *)
(* its input is invalid neither sent nor ever will have an effect, and no  *)
(* attempt of any call sends more entries than the vendor takes.           *)
(***************************************************************************)
AnswersAreTrue ==
  \A i \in Calls :
    /\ calls[i].result = "done" => taken[i] > 0
    /\ calls[i].result = "invalid_input" => calls[i].sends = 0 /\ taken[i] = 0 /\ late[i] = 0
    /\ calls[i].sends > 0 => calls[i].size <= MaxEntries

(***************************************************************************)
(* Registration is at least once, but only an interrupted execution makes  *)
(* it more than once: a lost, refused or inconclusive reply never does.    *)
(***************************************************************************)
DuplicatesNeedInterruption ==
  \A i \in Calls : taken[i] + late[i] > 1 => calls[i].attempts > 1

(***************************************************************************)
(* No call clears the invoice: once an entry is registered the ledger is   *)
(* never empty again unless the invoice itself is reversed.                *)
(***************************************************************************)
NothingIsCleared ==
  (\E i \in Calls : taken[i] > 0 /\ calls[i].size > 0) /\ ~reversed => ledger # <<>>

Position(i) == CHOOSE k \in DOMAIN began : began[k] = i

(***************************************************************************)
(* When callers serialise, an acknowledged older snapshot replaces a newer *)
(* acknowledged one only if its own execution was interrupted.             *)
(***************************************************************************)
StaleSnapshotNeedsInterruption ==
  serialised => \A i, j \in Calls :
    /\ calls[i].result = "done" /\ calls[j].result = "done"
    /\ ~calls[i].additive /\ ~calls[j].additive
    /\ \E k \in DOMAIN began : began[k] = i
    /\ \E k \in DOMAIN began : began[k] = j
    /\ Position(i) < Position(j)
    /\ ledger # <<>> /\ ledger[1] = i
    => calls[i].attempts > 1

(***************************************************************************)
(* What a caller of set_credit_entries is told of its registration and of  *)
(* the invoice's entries.                                                  *)
(***************************************************************************)
CreditAnswersAreTrue == AnswersAreTrue /\ NothingIsCleared

(***************************************************************************)
(* How far a registration that is at least once may go astray.             *)
(***************************************************************************)
OnlyInterruptionsRepeat == DuplicatesNeedInterruption /\ StaleSnapshotNeedsInterruption
=============================================================================
