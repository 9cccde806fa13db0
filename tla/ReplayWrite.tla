----------------------------- MODULE ReplayWrite -----------------------------
(***************************************************************************)
(* One key of Szamlazz.Order under replay-enabled execution.  The marker   *)
(* is stored and acknowledged as in OrderWrite, but there is no permission *)
(* to consume: a write run whose result was not journaled runs again, asks *)
(* the service afresh and may send again, while an abandoned execution of  *)
(* the same run, or its request, may still be about.                       *)
(*                                                                         *)
(* exec[i] is the sequence of executions of i's write run.  The last one   *)
(* is listened to while attached[i]; the others can send but not record.   *)
(***************************************************************************)
EXTENDS Szamlazz

CONSTANTS
  Inv,        \* ids of the mutating invocations of this key
  NoInv,      \* no invocation
  Orders,     \* the kinds created under an order, with a bound on its documents
  MaxExec     \* bound on the executions of one write run

ASSUME ReplayActors == NoInv \notin Inv
ASSUME ReplayKinds ==
  Orders \subseteq [kinds : SUBSET (IssuedKind \ {"corrective"}), docs : Nat]
ASSUME ReplayBound == MaxExec \in Nat \ {0}

VARIABLES
  order,        \* what the callers of this order create; it does not change
  lock, marker, \* the key's exclusive lock and its unresolved-write marker
  journal,      \* per invocation, the last journaled step
  intent,       \* per invocation, what its marker pins
  answer,       \* per invocation, the journaled result
  exec,         \* per invocation, the executions of its write run
  attached,     \* per invocation, the runtime listens to the last execution
  docs, net,    \* the service's documents, and requests it has not decided on
  overlapped    \* history: a write was checked while another was outstanding

durable == <<lock, marker, journal, intent, answer>>
vars == <<durable, exec, attached, docs, net, overlapped>>

CreateKind == order.kinds
MaxDocs == order.docs

Intent ==
  [op : {"create", "storno", "delete"}, kind : IssuedKind \cup {"storno"},
   target : Nat, proforma : Nat, prepayment : Nat]

NoIntent == [op |-> "create", kind |-> "invoice", target |-> 0, proforma |-> 0, prepayment |-> 0]

Reply == {"done", "echo", "refused", "lost"}

\* What an execution does next.
Stage == {"target", "kinds", "references", "hint", "send", "waiting", "over"} \cup Reply

Answer == {"none", "executed", "unresolved", "outcome_unknown"}

TypeOK ==
  /\ order \in Orders
  /\ lock \in Inv \cup {NoInv} /\ marker \in Inv \cup {NoInv}
  /\ journal \in [Inv -> {"new", "prepared", "marked", "committed", "wrote", "ended"}]
  /\ intent \in [Inv -> Intent]
  /\ answer \in [Inv -> Answer]
  /\ exec \in [Inv -> Seq(Stage)]
  /\ attached \in [Inv -> BOOLEAN]
  /\ docs \in Seq(Document(Inv \cup {NoInv}))
  /\ net \subseteq Inv \X (1..MaxExec)
  /\ overlapped \in BOOLEAN

Init ==
  /\ order \in Orders
  /\ lock = NoInv /\ marker = NoInv
  /\ journal = [i \in Inv |-> "new"]
  /\ intent = [i \in Inv |-> NoIntent]
  /\ answer = [i \in Inv |-> "none"]
  /\ exec = [i \in Inv |-> <<>>]
  /\ attached = [i \in Inv |-> FALSE]
  /\ docs = <<>> /\ net = {} /\ overlapped = FALSE

-----------------------------------------------------------------------------
(* Admission.                                                              *)

NotLive(kind) == SeenAbsent(docs, kind) \/ \E n \in DOMAIN docs : SeenReversed(docs, kind, n)

\* The proforma a create may link, 0 if none: the worker's own or, under
\* {number}, a live one of the order.  Replay-enabled execution refuses a live
\* proforma of the worker that is not the one selected.
Selectable(kind, proforma) ==
  IF proforma = 0 THEN NotLive("proforma")
  ELSE /\ kind \in {"invoice", "prepayment"}
       /\ proforma \in Visible(docs) /\ docs[proforma].kind = "proforma" /\ docs[proforma].order
       /\ NotLive("proforma") \/ SeenLive(docs, "proforma", proforma)

\* The prepayment a final settles, 0 for the other kinds.
Settles(kind, prepayment) ==
  IF kind = "final" THEN SeenLive(docs, "prepayment", prepayment)
  ELSE prepayment = 0

\* What the journaled reads before prepare must have shown.
Admissible(r) ==
  CASE r.op = "create" ->
         /\ TargetAsExpected(docs, r.kind, r.target)
         /\ Settles(r.kind, r.prepayment)
         /\ \A kind \in InvoiceFamily \ {r.kind} :
              (kind = "prepayment" /\ r.kind = "final") \/ NotLive(kind)
         /\ r.kind # "proforma" => Selectable(r.kind, r.proforma)
         /\ r.kind = "proforma" => r.proforma = 0
    [] r.op = "storno" ->
         StornoOriginal(docs, r.target) /\ ~docs[r.target].reversed
           /\ Holders(docs, "storno", r.target) = {}
    [] r.op = "delete" ->
         r.target \in Visible(docs) /\ docs[r.target].kind = "proforma" /\ docs[r.target].order

\* The guard refuses while any marker is stored.
Refused(i) ==
  /\ lock = NoInv /\ marker # NoInv /\ journal[i] = "new"
  /\ journal' = [journal EXCEPT ![i] = "ended"]
  /\ answer' = [answer EXCEPT ![i] = "outcome_unknown"]
  /\ UNCHANGED <<lock, marker, intent, exec, attached, docs, net, overlapped>>

\* The handler runs up to the journaled prepare step, which pins the intent.
Admit(i, r) ==
  /\ lock = NoInv /\ marker = NoInv /\ journal[i] = "new"
  /\ Admissible(r)
  /\ lock' = i
  /\ journal' = [journal EXCEPT ![i] = "prepared"]
  /\ intent' = [intent EXCEPT ![i] = r]
  /\ UNCHANGED <<marker, answer, exec, attached, docs, net, overlapped>>

\* ctx.set(STATE, intent)
Mark(i) ==
  /\ lock = i /\ journal[i] = "prepared"
  /\ marker' = i
  /\ journal' = [journal EXCEPT ![i] = "marked"]
  /\ UNCHANGED <<lock, intent, answer, exec, attached, docs, net, overlapped>>

\* Run marker-committed: the acknowledgement the write run waits for.
Commit(i) ==
  /\ lock = i /\ journal[i] = "marked"
  /\ journal' = [journal EXCEPT ![i] = "committed"]
  /\ UNCHANGED <<lock, marker, intent, answer, exec, attached, docs, net, overlapped>>

-----------------------------------------------------------------------------
(* The write run.                                                          *)

\* An execution reaches the run, the first time or after an interruption.
Open(i) ==
  /\ lock = i /\ journal[i] = "committed" /\ ~attached[i] /\ Len(exec[i]) < MaxExec
  /\ exec' = [exec EXCEPT ![i] = Append(@, "target")]
  /\ attached' = [attached EXCEPT ![i] = TRUE]
  /\ UNCHANGED <<durable, docs, net, overlapped>>

\* The last execution loses its stream; its process dies or goes on alone.
Detach(i) ==
  /\ attached' = [attached EXCEPT ![i] = FALSE]
  /\ \/ exec' = [exec EXCEPT ![i][Len(exec[i])] = "over"]
     \/ UNCHANGED exec

Interrupt(i) ==
  /\ attached[i] /\ Len(exec[i]) < MaxExec
  /\ Detach(i)
  /\ UNCHANGED <<durable, docs, net, overlapped>>

\* Cancellation or kill after the barrier: the lock goes, the marker stays.
Stop(i) ==
  /\ lock = i
  /\ journal[i] \in {"marked", "committed"} \/ (journal[i] = "wrote" /\ answer[i] = "unresolved")
  /\ lock' = NoInv
  /\ journal' = [journal EXCEPT ![i] = "ended"]
  /\ answer' = [answer EXCEPT ![i] = "outcome_unknown"]
  /\ IF attached[i] THEN Detach(i) ELSE UNCHANGED <<exec, attached>>
  /\ UNCHANGED <<marker, intent, docs, net, overlapped>>

Current(i, a) == attached[i] /\ a = Len(exec[i])

Advance(i, a, stage) == exec' = [exec EXCEPT ![i][a] = stage]

\* An execution ends with a result, which is journaled if anyone listens.
Finish(i, a, result) ==
  /\ Advance(i, a, "over")
  /\ IF Current(i, a)
     THEN /\ journal' = [journal EXCEPT ![i] = "wrote"]
          /\ answer' = [answer EXCEPT ![i] = result]
          /\ attached' = [attached EXCEPT ![i] = FALSE]
     ELSE UNCHANGED <<journal, answer, attached>>
  /\ UNCHANGED <<lock, marker, intent, docs, net, overlapped>>

\* Any read of the run may fail or be refused: no send, and no settlement.
CheckFails(i, a) ==
  /\ exec[i][a] \in {"target", "kinds", "references", "hint"}
  /\ Finish(i, a, "unresolved")

\* A newer holder than the one to be replaced proves the issuance; a storno
\* under its id, verified beside its reversed original, the reversal.  A
\* deletion has no such evidence.
TargetEvidence(r) ==
  \/ /\ r.op = "create"
     /\ \E n \in DOMAIN docs : /\ SeenLive(docs, r.kind, n) \/ SeenReversed(docs, r.kind, n)
                               /\ n # r.target
  \/ /\ r.op = "storno"
     /\ \E c \in DOMAIN docs : VerifiedStorno(docs, c, r.target)

CheckSettles(i, a) ==
  /\ exec[i][a] = "target" /\ TargetEvidence(intent[i])
  /\ Finish(i, a, "executed")

\* The target lets a request go out: the slot is as pinned, the original is
\* live and has no storno, the proforma is still there.
TargetPermits(r) ==
  CASE r.op = "create" -> TargetAsExpected(docs, r.kind, r.target)
    [] r.op = "storno" ->
         StornoOriginal(docs, r.target) /\ ~docs[r.target].reversed
           /\ Holders(docs, "storno", r.target) = {}
    [] r.op = "delete" ->
         r.target \in Visible(docs) /\ docs[r.target].kind = "proforma" /\ docs[r.target].order

\* Executions and requests that passed their target check and are undecided.
Outstanding(i, a) ==
  \/ <<i, a>> \in net
  \/ a \in DOMAIN exec[i] /\ exec[i][a] \in {"kinds", "references", "hint", "send"}

AnyOutstanding == \E i \in Inv : \E a \in DOMAIN exec[i] : Outstanding(i, a)

\* Variant: a run that runs again trusts the checks of the first one.
CheckTargetTrusting(i, a) ==
  /\ exec[i][a] = "target" /\ (a = 1 => TargetPermits(intent[i]))
  /\ Advance(i, a, IF a = 1 /\ intent[i].op = "create" THEN "kinds" ELSE "send")
  /\ overlapped' = (overlapped \/ AnyOutstanding)
  /\ UNCHANGED <<durable, attached, docs, net>>

CheckTarget(i, a) ==
  /\ exec[i][a] = "target" /\ TargetPermits(intent[i])
  /\ Advance(i, a, IF intent[i].op = "create" THEN "kinds" ELSE "send")
  /\ overlapped' = (overlapped \/ AnyOutstanding)
  /\ UNCHANGED <<durable, attached, docs, net>>

\* The other kinds of a create, read one after another.
KindsPermit(r) ==
  /\ \A kind \in {"invoice", "final"} \ {r.kind} : NotLive(kind)
  /\ r.kind # "prepayment" =>
       IF r.kind = "final" THEN SeenLive(docs, "prepayment", r.prepayment)
       ELSE NotLive("prepayment")
  /\ r.kind # "proforma" => NotLive("proforma") \/ SeenLive(docs, "proforma", r.proforma)

CheckKinds(i, a) ==
  /\ exec[i][a] = "kinds" /\ KindsPermit(intent[i])
  /\ Advance(i, a, "references")
  /\ UNCHANGED <<durable, attached, docs, net, overlapped>>

ReferencesPermit(r) ==
  /\ r.prepayment # 0 => /\ r.prepayment \in Visible(docs) /\ docs[r.prepayment].order
                         /\ docs[r.prepayment].kind = "prepayment" /\ ~docs[r.prepayment].reversed
  /\ r.proforma # 0 => /\ r.proforma \in Visible(docs) /\ docs[r.proforma].order
                       /\ docs[r.proforma].kind = "proforma"

CheckReferences(i, a) ==
  /\ exec[i][a] = "references" /\ ReferencesPermit(intent[i])
  /\ Advance(i, a, "hint")
  /\ UNCHANGED <<durable, attached, docs, net, overlapped>>

\* Unlike the hint of the ordinary lookup this one must be answered.
HintPermits(r) ==
  \A n \in DOMAIN docs : Hint(docs, n) =>
    \/ n \in {r.prepayment, r.proforma}
    \/ docs[n].reversed
    \/ docs[n].kind \notin InvoiceFamily \cup {"proforma"}

CheckHint(i, a) ==
  /\ exec[i][a] = "hint" /\ HintPermits(intent[i])
  /\ Advance(i, a, "send")
  /\ UNCHANGED <<durable, attached, docs, net, overlapped>>

Send(i, a) ==
  /\ exec[i][a] = "send"
  /\ Advance(i, a, "waiting")
  /\ net' = net \cup {<<i, a>>}
  /\ UNCHANGED <<durable, attached, docs, overlapped>>

\* Variant: the reply is recorded as it came.
ReplyResultsRaw(i, reply) == {reply}

\* Variant: the acknowledgement of an old number counts.
ReplyResultsEcho(i, reply) ==
  IF reply \in {"done", "echo"} THEN {"executed"} ELSE {"unresolved"}

(***************************************************************************)
(* Only an acknowledgement of the effect, or a duplicate refusal beside    *)
(* the matching document, settles: a later refusal says nothing about an   *)
(* earlier request of the same run.                                        *)
(***************************************************************************)
ReplyResults(i, reply) ==
  CASE reply = "done" -> {"executed"}
    [] reply = "refused" /\ intent[i].op = "create" /\ TargetEvidence(intent[i]) ->
         {"executed", "unresolved"}
    [] OTHER -> {"unresolved"}

Receive(i, a) ==
  /\ exec[i][a] \in Reply
  /\ \E result \in ReplyResults(i, exec[i][a]) : Finish(i, a, result)

\* reconcile-write: read-only, repeated until there is evidence.
Reconcile(i) ==
  /\ lock = i /\ journal[i] = "wrote" /\ answer[i] = "unresolved"
  /\ TargetEvidence(intent[i])
  /\ answer' = [answer EXCEPT ![i] = "executed"]
  /\ UNCHANGED <<lock, marker, journal, intent, exec, attached, docs, net, overlapped>>

\* Variant: recorded uncertainty is cleared as well.
ClearAny(i) ==
  /\ lock = i /\ journal[i] = "wrote"
  /\ marker' = NoInv /\ lock' = NoInv
  /\ journal' = [journal EXCEPT ![i] = "ended"]
  /\ UNCHANGED <<intent, answer, exec, attached, docs, net, overlapped>>

\* ctx.clear(STATE) and the response.
Clear(i) ==
  /\ lock = i /\ journal[i] = "wrote" /\ answer[i] = "executed"
  /\ marker' = NoInv /\ lock' = NoInv
  /\ journal' = [journal EXCEPT ![i] = "ended"]
  /\ UNCHANGED <<intent, answer, exec, attached, docs, net, overlapped>>

-----------------------------------------------------------------------------
(* The service and everyone else.                                          *)

\* The service decides on a request; the execution that waits hears of it or not.
Decide(i, a, reply) ==
  /\ net' = net \ {<<i, a>>}
  /\ IF exec[i][a] = "waiting"
     THEN exec' = [exec EXCEPT ![i][a] = reply]
     ELSE reply = "lost" /\ UNCHANGED exec
  /\ UNCHANGED <<durable, attached, overlapped>>

\* Issuing converts the proforma that is named.
Effect(i) ==
  LET r == intent[i] IN
  CASE r.op = "create" ->
         Issue(IF r.proforma \in Visible(docs) THEN Delete(docs, r.proforma) ELSE docs, r.kind, i)
    [] r.op = "storno" -> Reverse(docs, r.target, TRUE, i)
    [] r.op = "delete" -> Delete(docs, r.target)

Execute(i, a) ==
  /\ <<i, a>> \in net
  /\ intent[i].op = "storno" => ~docs[intent[i].target].reversed
  /\ intent[i].op # "delete" => Len(docs) < MaxDocs
  /\ \E reply \in {"done", "lost"} : Decide(i, a, reply)
  /\ docs' = Effect(i)

\* No effect: refused, dropped, or an old number acknowledged, as a repeated
\* storno (the existing reversal is named: done) or a reissue may be.
Discard(i, a) ==
  /\ <<i, a>> \in net
  /\ \/ \E reply \in {"refused", "lost"} : Decide(i, a, reply)
     \/ intent[i].op = "create" /\ intent[i].target # 0 /\ Decide(i, a, "echo")
     \/ /\ intent[i].op = "storno" /\ docs[intent[i].target].reversed
        /\ Decide(i, a, "done")
  /\ UNCHANGED docs

OutsideStorno(n) ==
  /\ n \in Visible(docs) /\ docs[n].kind \in StornoableKind /\ ~docs[n].reversed
  /\ Len(docs) < MaxDocs
  /\ docs' = Reverse(docs, n, FALSE, NoInv)
  /\ UNCHANGED <<durable, exec, attached, net, overlapped>>

OutsideDelete(n) ==
  /\ n \in Visible(docs) /\ docs[n].kind = "proforma"
  /\ docs' = Delete(docs, n)
  /\ UNCHANGED <<durable, exec, attached, net, overlapped>>

\* A document of this order without an external id, or of another order under
\* an external id of this one.
OutsideIssue(kind, collides) ==
  /\ Len(docs) < MaxDocs
  /\ docs' = Append(docs, [kind |-> kind, of |-> 0, ext |-> collides, order |-> ~collides,
                           reversed |-> FALSE, gone |-> FALSE, by |-> NoInv])
  /\ UNCHANGED <<durable, exec, attached, net, overlapped>>

-----------------------------------------------------------------------------
Intents ==
  [op : {"create"}, kind : CreateKind, target : 0..MaxDocs, proforma : 0..MaxDocs,
   prepayment : 0..MaxDocs]
  \cup [op : {"storno"}, kind : {"storno"}, target : 1..MaxDocs, proforma : {0}, prepayment : {0}]
  \cup [op : {"delete"}, kind : {"proforma"}, target : 1..MaxDocs, proforma : {0}, prepayment : {0}]

Handler(i) ==
  Refused(i) \/ (\E r \in Intents : Admit(i, r)) \/ Mark(i) \/ Commit(i) \/ Reconcile(i) \/ Clear(i)

Run(i, a) ==
  \/ CheckSettles(i, a) \/ CheckTarget(i, a) \/ CheckFails(i, a) \/ CheckKinds(i, a)
  \/ CheckReferences(i, a) \/ CheckHint(i, a) \/ Send(i, a) \/ Receive(i, a)

Service(i, a) == Execute(i, a) \/ Discard(i, a)

Outside ==
  \/ \E n \in DOMAIN docs : OutsideStorno(n) \/ OutsideDelete(n)
  \/ \E kind \in CreateKind, collides \in BOOLEAN : OutsideIssue(kind, collides)

Next ==
  \/ \E i \in Inv : \/ Handler(i) \/ Open(i) \/ Interrupt(i) \/ Stop(i)
                    \/ \E a \in DOMAIN exec[i] : Run(i, a) \/ Service(i, a)
  \/ Outside

Spec == Init /\ [][Next /\ UNCHANGED order]_<<order, vars>>

\* The runtime opens the run again and a running execution takes its next
\* step; the service decides on every request.  Interruptions end (MaxExec).
FairSpec ==
  /\ Spec
  /\ \A i \in Inv : WF_vars(Mark(i)) /\ WF_vars(Commit(i)) /\ WF_vars(Open(i))
  /\ \A i \in Inv : WF_vars(Reconcile(i)) /\ WF_vars(Clear(i))
  /\ \A i \in Inv, a \in 1..MaxExec : WF_vars(a \in DOMAIN exec[i] /\ Run(i, a))
  /\ \A i \in Inv, a \in 1..MaxExec : WF_vars(a \in DOMAIN exec[i] /\ Service(i, a))

-----------------------------------------------------------------------------
(* Properties.                                                             *)

(***************************************************************************)
(* As long as a request, or an execution that may still send one, is       *)
(* outstanding, the order is blocked by its marker or the write has been   *)
(* settled by positive evidence.  No refusal, failed check or cancellation *)
(* opens the order.                                                        *)
(***************************************************************************)
UncertaintyBlocks ==
  \A i \in Inv, a \in 1..MaxExec :
    Outstanding(i, a) => marker = i \/ answer[i] = "executed"

Live(n, kind) == n \in Holders(docs, kind, 0) /\ docs[n].order /\ ~docs[n].reversed

(***************************************************************************)
(* The accepted risk is exactly this: a slot gets a second live document,  *)
(* or the order both an invoice and a prepayment chain, only if one        *)
(* execution checked while another's write was outstanding.                *)
(***************************************************************************)
DuplicatesNeedOverlap ==
  ~overlapped =>
    /\ \A kind \in IssuedKind, m, n \in DOMAIN docs :
         Live(m, kind) /\ Live(n, kind) => m = n
    /\ \A m, n \in DOMAIN docs :
         Live(m, "invoice") => ~Live(n, "prepayment") /\ ~Live(n, "final")

(***************************************************************************)
(* A write reported as done is done: a document newer than the one to be   *)
(* replaced exists in the slot, the original is reversed, the proforma is  *)
(* gone, however many executions took part and whatever they were told.    *)
(***************************************************************************)
SettledWritesHappened ==
  \A i \in Inv : answer[i] = "executed" =>
    LET r == intent[i] IN
    CASE r.op = "create" ->
           \E n \in DOMAIN docs : n > r.target /\ docs[n].kind = r.kind /\ docs[n].order /\ docs[n].ext
      [] r.op = "storno" -> docs[r.target].reversed
      [] r.op = "delete" -> docs[r.target].gone

(***************************************************************************)
(* A replayed write needs no permission: after interruptions end every     *)
(* admitted write comes to a recorded result or is stopped.                *)
(***************************************************************************)
ReplayMakesProgress ==
  \A i \in Inv : journal[i] = "committed" ~> journal[i] \in {"wrote", "ended"}
=============================================================================
