----------------------------- MODULE AgentStorno -----------------------------
(***************************************************************************)
(* Szamlazz.Agent.storno: reversing a document no order manages.  No lock  *)
(* orders two invocations and no permit guards the send: the write step is *)
(* query-first and runs again under the issue policy, after a crash, and   *)
(* beside an abandoned execution of itself.                                *)
(*                                                                         *)
(* docs is Szamlazz's; order says that a document carries an order number. *)
(***************************************************************************)
EXTENDS Szamlazz, FiniteSets

CONSTANTS
  Invocation,   \* calls of storno
  Targets,      \* the numbers a caller may name
  Holdings,     \* the documents an account may have at the start
  MaxDocs,      \* bound on the documents ever issued
  MaxRuns,      \* executions of the write step the issue policy allows
  MaxAttempts   \* attempts of an invocation before it is killed

StornoBounds == /\ {MaxDocs, MaxRuns, MaxAttempts} \subseteq Nat \ {0}
                /\ Targets \subseteq 1..MaxDocs

\* Books of the service: every storno stands beside its reversed original.
Books(d) ==
  \A c \in DOMAIN d : d[c].kind = "storno" =>
    ~d[c].gone /\ d[c].of \in DOMAIN d /\ d[d[c].of].reversed

\* The account's documents are others' and in order.
StornoAccount ==
  /\ "outside" \notin Invocation
  /\ \A d \in Holdings :
       d \in Seq(Document({"outside"})) /\ Len(d) <= MaxDocs /\ Books(d)

VARIABLES
  docs,
  stray,     \* originals whose storno id is held by some newer, unrelated document
  calls,     \* the invocations
  open,      \* the invocations whose request is on the wire and awaited
  late       \* requests nobody waits for any more, by invocation

vars == <<docs, stray, calls, open, late>>

Reading == {"verify", "name", "lookup"}
Writing == {"leading", "cleared", "sent", "verify_reply", "settle", "settle_once"}

(***************************************************************************)
(* What an invocation ends with: the storno is done (number 0: unknown),   *)
(* refused, or left alone, or a fault.                                     *)
(***************************************************************************)
Untouched == {"managed_by_order", "unsupported_order_number", "not_found", "cancelled", "invalid_input"}
Refused == {"rejected", "not_stornoable"}
Open == {"outcome_unknown", "unavailable", "credentials_rejected", "killed"}
Result == {"none", "reversed"} \cup Untouched \cup Refused \cup Open

Call == [phase : {"idle", "done"} \cup Reading \cup Writing, target : {0} \cup Targets,
         result : Result, number : 0..MaxDocs, runs : 0..MaxRuns, attempts : 1..MaxAttempts,
         sends : Nat]

TypeOK ==
  /\ docs \in Seq(Document(Invocation \cup {"outside"})) /\ Len(docs) <= MaxDocs
  /\ stray \subseteq 1..MaxDocs
  /\ calls \in [Invocation -> Call]
  /\ open \subseteq Invocation /\ late \in [Invocation -> Nat]
  /\ \A i \in Invocation : i \in open <=> calls[i].phase = "sent"

Init ==
  /\ docs \in Holdings /\ stray = {}
  /\ calls = [i \in Invocation |-> [phase |-> "idle", target |-> 0, result |-> "none", number |-> 0,
                                    runs |-> 0, attempts |-> 1, sends |-> 0]]
  /\ open = {} /\ late = [i \in Invocation |-> 0]

-----------------------------------------------------------------------------
(* How one step leaves the invocation.                                     *)

Go(i, phase) == calls' = [calls EXCEPT ![i].phase = phase]

End(i, result, number) ==
  calls' = [calls EXCEPT ![i].phase = "done", ![i].result = result, ![i].number = number]

\* A query of the storno id names the storno of n that holds it.
StornoSeen(n, c) == n \notin stray /\ ByExternalId(docs, "storno", n, c)

StornoUnseen(n) == n \in stray \/ Holders(docs, "storno", n) = {}

\* An execution that confirmed nothing is run again until the policy is spent.
Again(i) ==
  IF calls[i].runs + 1 < MaxRuns
  THEN calls' = [calls EXCEPT ![i].phase = "leading", ![i].runs = @ + 1]
  ELSE End(i, "outcome_unknown", 0)

Start(i, n) ==
  /\ calls[i].phase = "idle"
  /\ calls' = [calls EXCEPT ![i].phase = "verify", ![i].target = n]
  /\ UNCHANGED <<docs, stray, open, late>>

-----------------------------------------------------------------------------
(* Reads before the write step.                                            *)

\* unmanaged_storno_verdict, then the intent, which needs the date of the original.
Verify(i) ==
  LET n == calls[i].target IN
  /\ calls[i].phase = "verify"
  /\ \/ n \notin Visible(docs) /\ End(i, "not_found", 0)
     \/ /\ n \in Visible(docs) /\ docs[n].order
        /\ \E r \in {"managed_by_order", "unsupported_order_number"} : End(i, r, 0)
     \/ n \in Visible(docs) /\ ~docs[n].order /\ docs[n].reversed /\ Go(i, "name")
     \/ /\ n \in Visible(docs) /\ ~docs[n].order /\ ~docs[n].reversed
        /\ Go(i, "lookup") \/ End(i, "unavailable", 0) \/ End(i, "invalid_input", 0)
  /\ UNCHANGED <<docs, stray, open, late>>

\* storno_of_unmanaged: only a detail is missing, so most failures are swallowed.
Name(i) ==
  LET n == calls[i].target IN
  /\ calls[i].phase = "name"
  /\ \/ \E c \in DOMAIN docs : StornoSeen(n, c) /\ End(i, "reversed", c)
     \/ End(i, "reversed", 0)
     \/ End(i, "credentials_rejected", 0)
  /\ UNCHANGED <<docs, stray, open, late>>

\* after_storno_lookup.
Lookup(i) ==
  LET n == calls[i].target IN
  /\ calls[i].phase = "lookup"
  /\ \/ \E c \in DOMAIN docs : StornoSeen(n, c) /\ End(i, "reversed", c)
     \/ StornoUnseen(n) /\ Go(i, "leading")
  /\ UNCHANGED <<docs, stray, open, late>>

\* A read answered with a code, or exhausted.
ReadFails(i) ==
  /\ calls[i].phase \in {"verify", "lookup"}
  /\ \E r \in {"unavailable", "credentials_rejected"} : End(i, r, 0)
  /\ UNCHANGED <<docs, stray, open, late>>

-----------------------------------------------------------------------------
(* The write step, from the top on every execution.                        *)

\* The leading query: an answer settles the step, silence does not.  The
\* gateway itself may also fail to initialize.
Leading(i) ==
  LET n == calls[i].target IN
  /\ calls[i].phase = "leading"
  /\ \/ \E c \in DOMAIN docs : StornoSeen(n, c) /\ End(i, "reversed", c)
     \/ StornoUnseen(n) /\ Go(i, "cleared")
     \/ \E r \in {"unavailable", "credentials_rejected"} : End(i, r, 0)
     \/ Again(i)
  /\ UNCHANGED <<docs, stray, open, late>>

Send(i) ==
  /\ calls[i].phase = "cleared"
  /\ calls' = [calls EXCEPT ![i].phase = "sent", ![i].sends = @ + 1]
  /\ open' = open \cup {i}
  /\ UNCHANGED <<docs, stray, late>>

\* The storno that reverses n, whoever issued it.
StornoOf(n, c) == c \in Visible(docs) /\ docs[c].kind = "storno" /\ docs[c].of = n

\* Variant: any changed number is read as the reversal.
ReplyTrusted(i, reply, c) ==
  CASE reply \in {"reversal", "ambiguous"} -> End(i, "reversed", c)
    [] reply = "echo" -> End(i, "not_stornoable", 0)
    [] reply = "refused" -> End(i, "rejected", 0)
    [] reply = "credentials" -> End(i, "credentials_rejected", 0)
    [] reply = "unnumbered" -> Go(i, "settle_once")
    [] reply \in {"open", "lost"} -> Go(i, "settle")

\* What storno_send makes of a reply: StornoReplyEvidence and classify_failure.
Reply(i, reply, c) ==
  CASE reply = "reversal" -> End(i, "reversed", c)
    [] reply = "ambiguous" -> calls' = [calls EXCEPT ![i].phase = "verify_reply", ![i].number = c]
    [] reply = "echo" -> End(i, "not_stornoable", 0)
    [] reply = "refused" -> End(i, "rejected", 0)
    [] reply = "credentials" -> End(i, "credentials_rejected", 0)
    [] reply = "unnumbered" -> Go(i, "settle_once")
    [] reply \in {"open", "lost"} -> Go(i, "settle")

\* verify_storno_reply: the number's own document, else the storno id.
VerifyReply(i) ==
  /\ calls[i].phase = "verify_reply"
  /\ \/ StornoOf(calls[i].target, calls[i].number) /\ End(i, "reversed", calls[i].number)
     \/ calls' = [calls EXCEPT ![i].phase = "settle", ![i].number = 0]
  /\ UNCHANGED <<docs, stray, open, late>>

\* storno_settle_or: after a send only a storno settles; a failed query is one
\* more reason to run again.
Settle(i) ==
  /\ calls[i].phase = "settle"
  /\ \/ \E c \in DOMAIN docs : StornoSeen(calls[i].target, c) /\ End(i, "reversed", c)
     \/ Again(i)
  /\ UNCHANGED <<docs, stray, open, late>>

\* Variant: it waits for the storno to show up.
SettleOnceWaits(i) ==
  /\ calls[i].phase = "settle_once"
  /\ \E c \in DOMAIN docs : StornoSeen(calls[i].target, c) /\ End(i, "reversed", c)
  /\ UNCHANGED <<docs, stray, open, late>>

\* An unnumbered acknowledgement must not lead to another send: unsettled, the
\* run completes with it as data.
SettleOnce(i) ==
  /\ calls[i].phase = "settle_once"
  /\ \/ \E c \in DOMAIN docs : StornoSeen(calls[i].target, c) /\ End(i, "reversed", c)
     \/ End(i, "outcome_unknown", 0)
  /\ UNCHANGED <<docs, stray, open, late>>

-----------------------------------------------------------------------------
(* Interruptions.                                                          *)

Abandon(i) == open' = open \ {i}

\* The execution dies, or is given up while it lives on: a request it was
\* waiting for, or was about to send, is then nobody's.
Crash(i) ==
  /\ calls[i].phase \in Reading \cup Writing /\ calls[i].attempts < MaxAttempts
  /\ \E orphan \in {0} \cup {k \in {1} : calls[i].phase \in {"cleared", "sent"}} :
       /\ calls' = [calls EXCEPT
            ![i].phase = IF @ \in Writing THEN "leading" ELSE @,
            ![i].number = 0,
            ![i].sends = @ + IF calls[i].phase = "cleared" THEN orphan ELSE 0,
            ![i].attempts = @ + 1]
       /\ late' = [late EXCEPT ![i] = @ + orphan]
  /\ Abandon(i) /\ UNCHANGED <<docs, stray>>

Kill(i) ==
  /\ calls[i].phase \in Reading \cup Writing /\ calls[i].attempts = MaxAttempts
  /\ End(i, "killed", 0)
  /\ late' = [late EXCEPT ![i] = @ + IF i \in open THEN 1 ELSE 0]
  /\ Abandon(i) /\ UNCHANGED <<docs, stray>>

\* Cancelling a read sends nothing; cancelling the write step settles nothing.
Cancel(i) ==
  /\ calls[i].phase \in Reading \cup Writing
  /\ End(i, IF calls[i].phase \in Reading THEN "cancelled" ELSE "outcome_unknown", 0)
  /\ late' = [late EXCEPT ![i] = @ + IF i \in open THEN 1 ELSE 0]
  /\ Abandon(i) /\ UNCHANGED <<docs, stray>>

-----------------------------------------------------------------------------
(* The service: a repeated storno answers with the existing one, what      *)
(* cannot be reversed is echoed, and a reply may be any of the shapes the  *)
(* gateway tells apart.                                                    *)

Reversible(n) == n \in Visible(docs) /\ docs[n].kind \in StornoableKind

\* A request of i takes effect.
Takes(i) ==
  LET n == calls[i].target IN
  IF Reversible(n) /\ ~docs[n].reversed
  THEN /\ Len(docs) < MaxDocs
       /\ docs' = Reverse(docs, n, TRUE, i) /\ stray' = stray \ {n}
  ELSE UNCHANGED <<docs, stray>>

Acknowledge(i) ==
  LET n == calls[i].target IN
  /\ i \in open /\ Takes(i)
  /\ IF Reversible(n)
     THEN \E c \in DOMAIN docs', shape \in {"reversal", "ambiguous", "unnumbered", "open"} :
            docs'[c].kind = "storno" /\ docs'[c].of = n /\ Reply(i, shape, c)
     ELSE \E shape \in {"echo", "unnumbered", "open"} : Reply(i, shape, 0)
  /\ Abandon(i) /\ UNCHANGED late

\* The request does nothing: refused, unanswerable, or answered with a number
\* that belongs to some other document.
Decline(i) ==
  /\ i \in open
  /\ \/ \E shape \in {"refused", "credentials", "open"} : Reply(i, shape, 0)
     \/ \E c \in Visible(docs) \ {calls[i].target} :
          docs[c].kind # "storno" /\ Reply(i, "ambiguous", c)
  /\ Abandon(i) /\ UNCHANGED <<docs, stray, late>>

\* The exchange ends without a reply; the request may still execute.
Lose(i) ==
  /\ i \in open /\ Reply(i, "lost", 0)
  /\ late' \in {late, [late EXCEPT ![i] = @ + 1]}
  /\ Abandon(i) /\ UNCHANGED <<docs, stray>>

ExecuteLate(i) ==
  /\ late[i] > 0 /\ Takes(i)
  /\ late' = [late EXCEPT ![i] = @ - 1] /\ UNCHANGED <<calls, open>>

Discard(i) ==
  /\ late[i] > 0
  /\ late' = [late EXCEPT ![i] = @ - 1] /\ UNCHANGED <<docs, stray, calls, open>>

\* A user reverses a document; another integration reuses a storno id.
OutsideStorno(n) ==
  /\ Reversible(n) /\ ~docs[n].reversed /\ Len(docs) < MaxDocs
  /\ docs' = Reverse(docs, n, FALSE, "outside") /\ UNCHANGED <<stray, calls, open, late>>

Collide(n) ==
  /\ n \in DOMAIN docs /\ n \notin stray
  /\ stray' = stray \cup {n} /\ UNCHANGED <<docs, calls, open, late>>

-----------------------------------------------------------------------------
Step(i) ==
  \/ Verify(i) \/ Name(i) \/ Lookup(i) \/ ReadFails(i)
  \/ Leading(i) \/ Send(i) \/ VerifyReply(i) \/ Settle(i) \/ SettleOnce(i)
  \/ Acknowledge(i) \/ Decline(i) \/ Lose(i)

Next ==
  \/ \E i \in Invocation :
       \/ \E n \in Targets : Start(i, n)
       \/ Step(i) \/ Crash(i) \/ Kill(i) \/ Cancel(i) \/ ExecuteLate(i) \/ Discard(i)
  \/ \E n \in Targets : OutsideStorno(n) \/ Collide(n)

Spec == Init /\ [][Next]_vars

\* The runtime keeps executing an invocation and every exchange has a timeout.
FairSpec == Spec /\ \A i \in Invocation : WF_vars(Step(i))

-----------------------------------------------------------------------------
(* Properties.                                                             *)

\* Stornos issued for i.
Issued(i) == {c \in DOMAIN docs : docs[c].kind = "storno" /\ docs[c].by = i}

(***************************************************************************)
(* reversed is never a guess: the document named by the caller is reversed *)
(* and the number answered, if any, is its storno, although a reply may    *)
(* name another document and another document may hold the storno's id.    *)
(***************************************************************************)
ReversedIsTrue ==
  \A i \in Invocation : calls[i].result = "reversed" =>
    /\ docs[calls[i].target].reversed
    /\ calls[i].number # 0 => StornoOf(calls[i].target, calls[i].number)

(***************************************************************************)
(* An answer or fault that says nothing was done comes from a call that    *)
(* sent nothing and of which nothing can still execute; cancellation is    *)
(* reported as such only before the write step.                            *)
(***************************************************************************)
UntouchedSentNothing ==
  \A i \in Invocation : calls[i].result \in Untouched =>
    calls[i].sends = 0 /\ late[i] = 0 /\ Issued(i) = {}

(***************************************************************************)
(* A refusal is the last word on the only request the call ever sent: that *)
(* request reversed nothing and never will.  (After a lost reply the step  *)
(* sends again, and then a refusal speaks for the last request only.)      *)
(***************************************************************************)
RefusalOfOneSendIsFinal ==
  \A i \in Invocation : calls[i].result \in Refused /\ calls[i].sends = 1 =>
    Issued(i) = {} /\ late[i] = 0

(***************************************************************************)
(* An acknowledgement without a number never leads to another send in the  *)
(* same execution: the step sends at most once per execution granted by    *)
(* the issue policy and the invocation's attempts.                         *)
(***************************************************************************)
SendsArePaidFor ==
  \A i \in Invocation : calls[i].sends <= calls[i].runs + calls[i].attempts

(***************************************************************************)
(* Documents of an order are its own: no execution, late request or retry  *)
(* of the by-number handler ever reverses one.                             *)
(***************************************************************************)
OrdersAreLeft ==
  \A i \in Invocation : \A c \in Issued(i) : ~docs[docs[c].of].order

(***************************************************************************)
(* What a caller of storno, and the orders of the account, can rely on.    *)
(***************************************************************************)
StornoIsAccountedFor ==
  /\ ReversedIsTrue /\ UntouchedSentNothing /\ RefusalOfOneSendIsFinal
  /\ SendsArePaidFor /\ OrdersAreLeft

(***************************************************************************)
(* Every call ends, through lost replies, refused queries and repeated     *)
(* interruption, because both retry policies are bounded.                  *)
(***************************************************************************)
StornoEnds ==
  \A i \in Invocation : calls[i].phase \notin {"idle", "done"} ~> calls[i].phase = "done"
=============================================================================
