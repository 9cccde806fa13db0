----------------------------- MODULE OrderWrite -----------------------------
(***************************************************************************)
(* One key of the virtual object Szamlazz.Order under retained execution:  *)
(* the exclusive lock, the journal of every mutating invocation, the       *)
(* unresolved-write marker (the only durable state), execution-local send  *)
(* permission, requests that may execute long after anyone waits for them, *)
(* and the operator's recover handler.                                     *)
(*                                                                         *)
(* An invocation's progress is split as the durable runtime splits it.     *)
(* journal[i] is what survives a crash.  local[i] is the current execution *)
(* of the handler, which restarts at journal[i] without a permit.          *)
(* stray[i] is an abandoned execution the runtime no longer listens to but *)
(* whose process may still be about to send.                               *)
(***************************************************************************)
EXTENDS Szamlazz

CONSTANTS
  Inv,        \* ids of the mutating invocations of this key
  NoInv,      \* no invocation
  Operator,   \* the invocation of recover
  Outsider,   \* whoever changes documents outside the worker
  CreateKind, \* the kinds the invocations may create
  MaxDocs     \* bound on the documents ever issued

ASSUME DistinctActors ==
  /\ NoInv \notin Inv /\ Operator \notin Inv /\ Outsider \notin Inv
  /\ NoInv # Operator /\ NoInv # Outsider
ASSUME KindsAssumption == CreateKind \subseteq IssuedKind
ASSUME BoundAssumption == MaxDocs \in Nat

VARIABLES
  (* durable, in the runtime *)
  lock,      \* who holds the key's exclusive lock
  marker,    \* state key "unresolved-write": the token of the unresolved write
  journal,   \* per invocation, the last journaled step
  request,   \* per invocation, its input
  answer,    \* per invocation, the journaled write result or the response
  (* volatile, in a worker process *)
  local,     \* per invocation, what its current execution is doing
  permit,    \* per invocation, the current execution's AtomicBool
  stray,     \* per invocation, an abandoned execution with permission to send
  (* the operator *)
  recovery,  \* the recover invocation
  (* the service *)
  docs,      \* its documents
  net,       \* requests it has not yet decided on
  (* history *)
  sends,     \* per invocation, how many requests it sent
  executed   \* the invocations whose request took effect

durable  == <<lock, marker, journal, request, answer>>
volatile == <<local, permit, stray>>
service  == <<docs, net>>
history  == <<sends, executed>>
vars     == <<durable, volatile, recovery, service, history>>

Request ==
  [op : {"create"}, kind : IssuedKind, target : Nat]
    \cup [op : {"storno"}, kind : {"storno"}, target : Nat]
    \cup [op : {"delete"}, kind : {"proforma"}, target : Nat]

NoRequest == [op |-> "create", kind |-> "invoice", target |-> 0]

\* What the model's callers may ask for.  A target need not exist: callers'
\* numbers may be stale or wrong.
Requests ==
  {r \in [op : {"create"}, kind : CreateKind, target : 0..MaxDocs]
       \cup [op : {"storno"}, kind : {"storno"}, target : 1..MaxDocs]
       \cup [op : {"delete"}, kind : {"proforma"}, target : 1..MaxDocs] :
     r.op = "delete" => "proforma" \in CreateKind}

Position ==
  {"new", "entered", "guarded", "looked", "prepared", "marked", "armed", "wrote",
   "cleared", "ended"}

\* The positions at which the owner holds the lock and its marker is stored.
Protected == {"marked", "armed", "wrote"}

Reply == {"done", "echo", "refused"}

Local ==
  {"none", "down", "paused", "idle", "arming", "checking", "sending", "waiting"} \cup Reply

\* "unresolved" and "candidate" are WriteResult::Unresolved, without and with
\* the number of a storno the reply named.
Answer == {"none", "declined", "executed", "unresolved", "candidate", "cancelled",
           "outcome_unknown", "killed"}

Unresolved == {"unresolved", "candidate"}

Evidence == {"not_executed", "completed", "document"}

Recovery ==
  [pc : {"idle", "queued", "entered", "recorded"}, token : Inv \cup {NoInv},
   evidence : Evidence, number : Nat]

TypeOK ==
  /\ lock \in Inv \cup {NoInv, Operator}
  /\ marker \in Inv \cup {NoInv}
  /\ journal \in [Inv -> Position]
  /\ request \in [Inv -> Request]
  /\ answer \in [Inv -> Answer]
  /\ local \in [Inv -> Local]
  /\ permit \in [Inv -> BOOLEAN]
  /\ stray \in [Inv -> {"none", "checking", "sending"}]
  /\ recovery \in Recovery
  /\ docs \in Seq(Document(Inv \cup {Outsider}))
  /\ net \subseteq [by : Inv, seq : Nat]
  /\ sends \in [Inv -> Nat]
  /\ executed \subseteq Inv

NoRecovery == [pc |-> "idle", token |-> NoInv, evidence |-> "document", number |-> 0]

Init ==
  /\ lock = NoInv /\ marker = NoInv
  /\ journal = [i \in Inv |-> "new"]
  /\ request = [i \in Inv |-> NoRequest]
  /\ answer = [i \in Inv |-> "none"]
  /\ local = [i \in Inv |-> "none"]
  /\ permit = [i \in Inv |-> FALSE]
  /\ stray = [i \in Inv |-> "none"]
  /\ recovery = NoRecovery
  /\ docs = <<>> /\ net = {}
  /\ sends = [i \in Inv |-> 0]
  /\ executed = {}

-----------------------------------------------------------------------------
(* The runtime: admission, attempts, interruption, cancellation, kill.     *)

At(i, position) == lock = i /\ journal[i] = position /\ local[i] = "idle"

Record(i, position) == journal' = [journal EXCEPT ![i] = position]

\* The handler ends with a response and the lock is released.
EndWith(i, response) ==
  /\ Record(i, "ended")
  /\ answer' = [answer EXCEPT ![i] = response]
  /\ local' = [local EXCEPT ![i] = "none"]
  /\ permit' = [permit EXCEPT ![i] = FALSE]
  /\ lock' = NoInv

\* An exclusive handler starts: the runtime grants the key's lock.
Enter(i, r) ==
  /\ lock = NoInv /\ journal[i] = "new"
  /\ lock' = i
  /\ Record(i, "entered")
  /\ request' = [request EXCEPT ![i] = r]
  /\ local' = [local EXCEPT ![i] = "idle"]
  /\ UNCHANGED <<marker, answer, permit, stray, recovery, service, history>>

\* What an execution that loses its stream leaves behind: nothing, or a
\* process that still holds acknowledged permission to send.
LeavesBehind(i) ==
  IF journal[i] = "armed" /\ local[i] = "idle" /\ permit[i] THEN {"checking"}
  ELSE IF local[i] \in {"checking", "sending"} THEN {local[i]}
  ELSE {}

(***************************************************************************)
(* The current execution fails: the process dies, its stream breaks, an    *)
(* acknowledgement is lost, or an attempt ends in a retryable error (a     *)
(* reconciliation without positive evidence does).  The invocation policy  *)
(* retries, or pauses the invocation when its attempts are used up; either *)
(* way the lock stays with the invocation and its permit is gone.          *)
(***************************************************************************)
Interrupt(i) ==
  /\ lock = i /\ local[i] \notin {"none", "down", "paused"}
  /\ \E then \in {"down", "paused"} : local' = [local EXCEPT ![i] = then]
  /\ permit' = [permit EXCEPT ![i] = FALSE]
  /\ \/ UNCHANGED stray
     \/ \E left \in LeavesBehind(i) : stray' = [stray EXCEPT ![i] = left]
  /\ UNCHANGED <<durable, recovery, service, history>>

Resume(i) ==
  /\ local[i] = "paused"
  /\ local' = [local EXCEPT ![i] = "down"]
  /\ UNCHANGED <<durable, permit, stray, recovery, service, history>>

\* Variant: a replayed arm-write grants its permission again.
AttemptRearms(i) ==
  /\ local[i] = "down"
  /\ local' = [local EXCEPT ![i] = "idle"]
  /\ permit' = [permit EXCEPT ![i] = journal[i] = "armed"]
  /\ UNCHANGED <<durable, stray, recovery, service, history>>

\* A new execution replays the journal.  Completed runs are not executed
\* again, so a journaled arm-write does not set this execution's permit.
Attempt(i) ==
  /\ local[i] = "down"
  /\ local' = [local EXCEPT ![i] = "idle"]
  /\ UNCHANGED <<durable, permit, stray, recovery, service, history>>

\* A cancellation surfaces at a durable await.  Up to prepare-write nothing is
\* retained; from arm-write on the response is outcome_unknown and the marker
\* stays.  After a settled result there is no await left to interrupt.
Cancel(i) ==
  /\ lock = i /\ local[i] \notin {"none", "down", "paused"}
  /\ \/ /\ journal[i] \in {"entered", "guarded", "looked"}
        /\ EndWith(i, "cancelled")
     \/ /\ journal[i] \in {"marked", "armed"} \/ (journal[i] = "wrote" /\ answer[i] \in Unresolved)
        /\ EndWith(i, "outcome_unknown")
  /\ UNCHANGED <<marker, request, stray, recovery, service, history>>

\* A kill ends the invocation wherever it is; state is left as it stands.
Kill(i) ==
  /\ lock = i
  /\ EndWith(i, "killed")
  /\ \/ UNCHANGED stray
     \/ \E left \in LeavesBehind(i) : stray' = [stray EXCEPT ![i] = left]
  /\ UNCHANGED <<marker, request, recovery, service, history>>

-----------------------------------------------------------------------------
(* The handler up to the write.                                            *)

\* Variant: no guard.
GuardUnchecked(i) ==
  /\ At(i, "entered")
  /\ Record(i, "guarded")
  /\ UNCHANGED <<lock, answer, local, permit, marker, request, stray, recovery, service, history>>

\* recovery::guard: any stored marker refuses a new mutation.
Guard(i) ==
  /\ At(i, "entered")
  /\ IF marker # NoInv
     THEN EndWith(i, "outcome_unknown")
     ELSE Record(i, "guarded") /\ UNCHANGED <<lock, answer, local, permit>>
  /\ UNCHANGED <<marker, request, stray, recovery, service, history>>

\* verify-original and lookup-storno let a storno proceed.
StornoAdmissible(n) ==
  StornoOriginal(docs, n) /\ ~docs[n].reversed /\ Holders(docs, "storno", n) = {}

\* The number a deletion was asked for names a proforma of this order.
DeleteTarget(n) ==
  n \in Visible(docs) /\ docs[n].kind = "proforma" /\ docs[n].order

\* What the journaled reads before the write must have shown.
Admissible(r) ==
  CASE r.op = "create" -> TargetAsExpected(docs, r.kind, r.target)
    [] r.op = "storno" -> StornoAdmissible(r.target)
    [] r.op = "delete" -> DeleteTarget(r.target)

\* The lookups and verifies decide to go on.
LookupProceeds(i) ==
  /\ At(i, "guarded")
  /\ Admissible(request[i])
  /\ Record(i, "looked")
  /\ UNCHANGED <<lock, marker, request, answer, volatile, recovery, service, history>>

\* They answer the caller: found, conflict, a fault of the read.
LookupAnswers(i) ==
  /\ At(i, "guarded")
  /\ EndWith(i, "declined")
  /\ UNCHANGED <<marker, request, stray, recovery, service, history>>

-----------------------------------------------------------------------------
(* protected_write.                                                        *)

\* Run prepare-write: the marker's token and creation time are journaled.
Prepare(i) ==
  /\ At(i, "looked")
  /\ Record(i, "prepared")
  /\ UNCHANGED <<lock, marker, request, answer, volatile, recovery, service, history>>

\* ctx.set(STATE, marker)
Mark(i) ==
  /\ At(i, "prepared")
  /\ Record(i, "marked")
  /\ marker' = i
  /\ UNCHANGED <<lock, request, answer, volatile, recovery, service, history>>

\* Run arm-write, closure: the permit is set in this execution only.
Arm(i) ==
  /\ At(i, "marked")
  /\ local' = [local EXCEPT ![i] = "arming"]
  /\ permit' = [permit EXCEPT ![i] = TRUE]
  /\ UNCHANGED <<durable, stray, recovery, service, history>>

\* Run arm-write, acknowledgement.  If it is lost, Interrupt follows.
ArmAcknowledged(i) ==
  /\ lock = i /\ journal[i] = "marked" /\ local[i] = "arming"
  /\ Record(i, "armed")
  /\ local' = [local EXCEPT ![i] = "idle"]
  /\ UNCHANGED <<lock, marker, request, answer, permit, stray, recovery, service, history>>

\* The write run's result is journaled.
RecordResult(i, result) ==
  /\ Record(i, "wrote")
  /\ answer' = [answer EXCEPT ![i] = result]
  /\ local' = [local EXCEPT ![i] = "idle"]

\* The write run opens: permit.swap(false).
OpenWrite(i) ==
  /\ At(i, "armed")
  /\ IF permit[i]
     THEN /\ local' = [local EXCEPT ![i] = "checking"]
          /\ permit' = [permit EXCEPT ![i] = FALSE]
          /\ UNCHANGED <<journal, answer>>
     ELSE RecordResult(i, "unresolved") /\ UNCHANGED permit
  /\ UNCHANGED <<lock, marker, request, stray, recovery, service, history>>

\* The gateway's fresh read lets the request go out.
LeadingQueryPasses(r) ==
  CASE r.op = "create" -> TargetAsExpected(docs, r.kind, r.target)
    [] r.op = "storno" -> Holders(docs, "storno", r.target) = {}
    [] r.op = "delete" -> DeleteTarget(r.target)

(***************************************************************************)
(* The results of a write run that sends nothing.  An answered refusal or  *)
(* fault settles as declined; a holder of the storno's own id, verified,   *)
(* or a live or reversed document that appeared in an empty slot, settles  *)
(* as executed; an exchange without an answer, or a gateway that cannot    *)
(* open, is unresolved although nothing was sent.                          *)
(***************************************************************************)
LeadingResults(r) ==
  {"declined", "unresolved"} \cup
  {a \in {"executed"} :
     \/ /\ r.op = "create" /\ r.target = 0
        /\ \E n \in DOMAIN docs : SeenLive(docs, r.kind, n) \/ SeenReversed(docs, r.kind, n)
     \/ /\ r.op = "storno"
        /\ \E c \in DOMAIN docs : /\ ByExternalId(docs, "storno", r.target, c)
                                  /\ VerifiedStorno(docs, c, r.target)}

LeadingQuery(i) ==
  /\ lock = i /\ local[i] = "checking"
  /\ \/ /\ LeadingQueryPasses(request[i])
        /\ local' = [local EXCEPT ![i] = "sending"]
        /\ UNCHANGED <<journal, answer>>
     \/ \E result \in LeadingResults(request[i]) : RecordResult(i, result)
  /\ UNCHANGED <<lock, marker, request, permit, stray, recovery, service, history>>

Transmit(i) ==
  /\ net' = net \cup {[by |-> i, seq |-> sends[i] + 1]}
  /\ sends' = [sends EXCEPT ![i] = @ + 1]

Send(i) ==
  /\ lock = i /\ local[i] = "sending"
  /\ local' = [local EXCEPT ![i] = "waiting"]
  /\ Transmit(i)
  /\ UNCHANGED <<durable, permit, stray, recovery, docs, executed>>

\* Variant: the reply is journaled as it came.
ReplyResultsRaw(r, message) == {message}

\* Variant: any numbered reply counts as success.
ReplyResultsTrusting(r, message) == IF message = "refused" THEN {"declined"} ELSE {"executed"}

\* What a received reply establishes.  An echo of the old number (a reissue)
\* or of the original (a storno) establishes nothing.  A numbered storno reply
\* may need verification that fails.
ReplyResults(r, message) ==
  CASE message = "done" -> {"executed"} \cup {a \in {"candidate"} : r.op = "storno"}
    [] message = "echo" -> {"unresolved"}
    [] message = "refused" -> {"declined"}

ReceiveReply(i) ==
  /\ lock = i /\ local[i] \in Reply
  /\ \E result \in ReplyResults(request[i], local[i]) : RecordResult(i, result)
  /\ UNCHANGED <<lock, marker, request, permit, stray, recovery, service, history>>

\* Variant: a timeout counts as a failure.
LoseReplyFails(i) ==
  /\ lock = i /\ local[i] \in {"waiting"} \cup Reply
  /\ RecordResult(i, "declined")
  /\ UNCHANGED <<lock, marker, request, permit, stray, recovery, service, history>>

\* No usable reply: timeout, transport failure, open code, missing number.
LoseReply(i) ==
  /\ lock = i /\ local[i] \in {"waiting"} \cup Reply
  /\ RecordResult(i, "unresolved")
  /\ UNCHANGED <<lock, marker, request, permit, stray, recovery, service, history>>

\* Variant: the old holder counts as the reissued document.
IssuedEvidenceAnyHolder(r, n) == ByExternalId(docs, r.kind, 0, n) /\ docs[n].order

\* Variant: only a live document counts.
IssuedEvidenceLive(r, n) ==
  ByExternalId(docs, r.kind, 0, n) /\ docs[n].order /\ n # r.target /\ ~docs[n].reversed

(***************************************************************************)
(* Positive evidence for a retained write, from queries only.  A create    *)
(* needs this order's document under its id, other than the expected old   *)
(* one.  A storno needs a verified reversal: the candidate, else the       *)
(* holder of its id, else (id absent) the order's newest document.         *)
(* Nothing a query returns establishes a deletion.                         *)
(***************************************************************************)
IssuedEvidence(r, n) ==
  ByExternalId(docs, r.kind, 0, n) /\ docs[n].order /\ n # r.target

PositiveEvidence(r, result) ==
  \/ r.op = "create" /\ \E n \in DOMAIN docs : IssuedEvidence(r, n)
  \/ /\ r.op = "storno"
     /\ \E c \in DOMAIN docs :
          /\ VerifiedStorno(docs, c, r.target)
          /\ \/ result = "candidate"
             \/ ByExternalId(docs, "storno", r.target, c)
             \/ Holders(docs, "storno", r.target) = {} /\ Hint(docs, c)

\* Run reconcile-write completes.  Without evidence it fails the attempt.
Reconcile(i) ==
  /\ At(i, "wrote") /\ answer[i] \in Unresolved
  /\ PositiveEvidence(request[i], answer[i])
  /\ answer' = [answer EXCEPT ![i] = "executed"]
  /\ UNCHANGED <<lock, marker, journal, request, volatile, recovery, service, history>>

\* ctx.clear(STATE), after the settlement is journaled.
Clear(i) ==
  /\ At(i, "wrote") /\ answer[i] \notin Unresolved
  /\ Record(i, "cleared")
  /\ marker' = NoInv
  /\ UNCHANGED <<lock, request, answer, volatile, recovery, service, history>>

Return(i) ==
  /\ At(i, "cleared")
  /\ EndWith(i, answer[i])
  /\ UNCHANGED <<marker, request, stray, recovery, service, history>>

-----------------------------------------------------------------------------
(* An abandoned execution that still holds permission.                     *)

StrayChecks(i) ==
  /\ stray[i] = "checking" /\ LeadingQueryPasses(request[i])
  /\ stray' = [stray EXCEPT ![i] = "sending"]
  /\ UNCHANGED <<durable, local, permit, recovery, service, history>>

StraySends(i) ==
  /\ stray[i] = "sending"
  /\ stray' = [stray EXCEPT ![i] = "none"]
  /\ Transmit(i)
  /\ UNCHANGED <<durable, local, permit, recovery, docs, executed>>

StrayEnds(i) ==
  /\ stray[i] # "none"
  /\ stray' = [stray EXCEPT ![i] = "none"]
  /\ UNCHANGED <<durable, local, permit, recovery, service, history>>

-----------------------------------------------------------------------------
(* The recover handler.                                                    *)

\* i can no longer send, and nothing it sent can still execute.
CannotExecuteLater(i) ==
  /\ journal[i] = "ended" /\ stray[i] = "none"
  /\ \A m \in net : m.by # i

\* The write i asked for is done.
Accomplished(i) ==
  CASE request[i].op = "create" -> i \in executed
    [] request[i].op = "storno" -> /\ request[i].target \in DOMAIN docs
                                   /\ docs[request[i].target].reversed
    [] request[i].op = "delete" -> i \in executed

\* An operator submits a recovery of the marker it observed.  Attestations are
\* the operator's word: the model's operator tells the truth.
SubmitRecovery(evidence, n) ==
  /\ recovery.pc = "idle" /\ marker # NoInv
  /\ evidence = "not_executed" => CannotExecuteLater(marker) /\ ~Accomplished(marker)
  /\ evidence = "completed" => CannotExecuteLater(marker) /\ Accomplished(marker)
  /\ recovery' = [pc |-> "queued", token |-> marker, evidence |-> evidence, number |-> n]
  /\ UNCHANGED <<durable, volatile, service, history>>

\* Variant: whatever marker is stored is taken for the observed one.
EnterRecoveryUncompared ==
  /\ recovery.pc = "queued" /\ lock = NoInv
  /\ recovery' = [recovery EXCEPT !.pc = "entered"] /\ lock' = Operator
  /\ UNCHANGED <<marker, journal, request, answer, volatile, service, history>>

\* Variant: recover runs the guard of every other handler.
EnterRecoveryGuarded ==
  /\ recovery.pc = "queued" /\ lock = NoInv
  /\ recovery' = NoRecovery
  /\ UNCHANGED <<lock, marker, journal, request, answer, volatile, service, history>>

\* The handler gets the lock and compares the exact marker.
EnterRecovery ==
  /\ recovery.pc = "queued" /\ lock = NoInv
  /\ IF marker = recovery.token
     THEN recovery' = [recovery EXCEPT !.pc = "entered"] /\ lock' = Operator
     ELSE recovery' = NoRecovery /\ UNCHANGED lock
  /\ UNCHANGED <<marker, journal, request, answer, volatile, service, history>>

\* Document evidence: the checked reconciliation, restricted to one number.
DocumentEvidence(r, n) ==
  \/ r.op = "create" /\ n \in DOMAIN docs /\ IssuedEvidence(r, n)
  \/ r.op = "storno" /\ n \in DOMAIN docs /\ VerifiedStorno(docs, n, r.target)

\* Runs verify-recovery (document evidence only) and record-recovery.
RecordRecovery ==
  /\ recovery.pc = "entered"
  /\ recovery.evidence = "document" => DocumentEvidence(request[recovery.token], recovery.number)
  /\ recovery' = [recovery EXCEPT !.pc = "recorded"]
  /\ UNCHANGED <<durable, volatile, service, history>>

\* ctx.clear(STATE); the handler returns its receipt.
FinishRecovery ==
  /\ recovery.pc = "recorded"
  /\ marker' = NoInv /\ lock' = NoInv /\ recovery' = NoRecovery
  /\ UNCHANGED <<journal, request, answer, volatile, service, history>>

\* The submitted document does not settle the write: a fault, marker retained.
RefuseRecovery ==
  /\ recovery.pc = "entered" /\ recovery.evidence = "document"
  /\ ~DocumentEvidence(request[recovery.token], recovery.number)
  /\ recovery' = NoRecovery /\ lock' = NoInv
  /\ UNCHANGED <<marker, journal, request, answer, volatile, service, history>>

\* A read that fails for good, a cancellation or a kill: marker retained.
AbandonRecovery ==
  /\ recovery.pc \in {"queued", "entered", "recorded"}
  /\ recovery' = NoRecovery
  /\ lock' = IF recovery.pc = "queued" THEN lock ELSE NoInv
  /\ UNCHANGED <<marker, journal, request, answer, volatile, service, history>>

-----------------------------------------------------------------------------
(* The service.                                                            *)

\* The reply reaches the execution that waits for it, if there still is one.
Answered(m, message) ==
  /\ net' = net \ {m}
  /\ local' = IF local[m.by] = "waiting" THEN [local EXCEPT ![m.by] = message] ELSE local

\* A request executes, possibly long after its sender gave up.  Reversing a
\* reversed original is idempotent: it names the existing storno.
Execute(m) ==
  LET r == request[m.by] IN
  /\ m \in net
  /\ \/ /\ r.op = "create" /\ Len(docs) < MaxDocs
        /\ docs' = Issue(docs, r.kind, m.by)
        /\ executed' = executed \cup {m.by}
        /\ Answered(m, "done")
     \/ /\ r.op = "storno" /\ r.target \in Visible(docs) /\ ~docs[r.target].reversed
        /\ Len(docs) < MaxDocs
        /\ docs' = Reverse(docs, r.target, TRUE, m.by)
        /\ executed' = executed \cup {m.by}
        /\ Answered(m, "done")
     \/ /\ r.op = "storno" /\ r.target \in Visible(docs) /\ docs[r.target].reversed
        /\ Answered(m, "done")
        /\ UNCHANGED <<docs, executed>>
     \/ /\ r.op = "delete" /\ r.target \in Visible(docs)
        /\ docs' = Delete(docs, r.target)
        /\ executed' = executed \cup {m.by}
        /\ Answered(m, "done")
  /\ UNCHANGED <<durable, permit, stray, recovery, sends>>

\* It is refused (a duplicate order number and an absent proforma too), or
\* acknowledged with the number of a document that already existed.
Refuse(m) ==
  /\ m \in net
  /\ \/ Answered(m, "refused")
     \/ /\ request[m.by].op # "delete" /\ request[m.by].target # 0
        /\ Answered(m, "echo")
  /\ UNCHANGED <<durable, permit, stray, recovery, docs, history>>

\* It is lost on the way.
Drop(m) ==
  /\ m \in net
  /\ net' = net \ {m}
  /\ UNCHANGED <<durable, volatile, recovery, docs, history>>

\* Someone reverses an invoice in the service's own interface.
OutsideStorno(n) ==
  /\ n \in Visible(docs) /\ docs[n].kind \in StornoableKind /\ ~docs[n].reversed
  /\ Len(docs) < MaxDocs
  /\ docs' = Reverse(docs, n, FALSE, Outsider)
  /\ UNCHANGED <<durable, volatile, recovery, net, history>>

\* Someone deletes a proforma there.
OutsideDelete(n) ==
  /\ n \in Visible(docs) /\ docs[n].kind = "proforma"
  /\ docs' = Delete(docs, n)
  /\ UNCHANGED <<durable, volatile, recovery, net, history>>

\* Another integration issues a document: one of this order without an external
\* id, or one of another order that collides with one of the worker's ids.
OutsideIssue(kind, collides) ==
  /\ Len(docs) < MaxDocs
  /\ docs' = Append(docs, [kind |-> kind, of |-> 0, ext |-> collides, order |-> ~collides,
                           reversed |-> FALSE, gone |-> FALSE, by |-> Outsider])
  /\ UNCHANGED <<durable, volatile, recovery, net, history>>

-----------------------------------------------------------------------------
Admission(i) == (\E r \in Requests : Enter(i, r)) \/ Guard(i) \/ LookupProceeds(i) \/ LookupAnswers(i)

ProtectedWrite(i) ==
  \/ Prepare(i) \/ Mark(i) \/ Arm(i) \/ ArmAcknowledged(i) \/ OpenWrite(i) \/ LeadingQuery(i)
  \/ Send(i) \/ ReceiveReply(i) \/ LoseReply(i) \/ Reconcile(i) \/ Clear(i) \/ Return(i)

Runtime(i) == Interrupt(i) \/ Resume(i) \/ Attempt(i) \/ Cancel(i) \/ Kill(i)

Stray(i) == StrayChecks(i) \/ StraySends(i) \/ StrayEnds(i)

Recover ==
  \/ \E evidence \in Evidence, n \in 0..MaxDocs : SubmitRecovery(evidence, n)
  \/ EnterRecovery \/ RecordRecovery \/ RefuseRecovery \/ FinishRecovery \/ AbandonRecovery

Service == \E m \in net : Execute(m) \/ Refuse(m) \/ Drop(m)

Outside ==
  \/ \E n \in DOMAIN docs : OutsideStorno(n) \/ OutsideDelete(n)
  \/ \E kind \in CreateKind, collides \in BOOLEAN : OutsideIssue(kind, collides)

Next ==
  \/ \E i \in Inv : Admission(i) \/ ProtectedWrite(i) \/ Runtime(i) \/ Stray(i)
  \/ Recover \/ Service \/ Outside

Spec == Init /\ [][Next]_vars

(***************************************************************************)
(* Outages end: from some point on no execution is interrupted.            *)
(***************************************************************************)
OutagesEnd == <>[][\A i \in Inv : ~Interrupt(i)]_vars

(***************************************************************************)
(* The runtime keeps attempting an invocation it has not ended, and an     *)
(* operator resumes a paused one.  Requests are decided or lost and        *)
(* abandoned processes end.  An operator who has stopped the owner attests *)
(* what it established, again if need be, and a recovery that is attempted *)
(* again and again is not given up at the same step every time.            *)
(***************************************************************************)
Attested == recovery.evidence # "document"

Fairness ==
  /\ \A i \in Inv : /\ WF_vars(Resume(i)) /\ WF_vars(Attempt(i)) /\ WF_vars(StrayEnds(i))
                    /\ WF_vars(Guard(i) \/ LookupAnswers(i) \/ ProtectedWrite(i))
  /\ WF_vars(Service)
  /\ WF_vars(EnterRecovery \/ RecordRecovery \/ RefuseRecovery \/ FinishRecovery)
  /\ SF_vars(\E evidence \in {"not_executed", "completed"} : SubmitRecovery(evidence, 0))
  /\ SF_vars(Attested /\ EnterRecovery) /\ SF_vars(Attested /\ RecordRecovery)
  /\ SF_vars(FinishRecovery)

FairSpec == Spec /\ OutagesEnd /\ Fairness

-----------------------------------------------------------------------------
(* Properties.                                                             *)

\* i's permission to send, in the current or in an abandoned execution.
MaySend(i) ==
  \/ permit[i] \/ local[i] \in {"checking", "sending"} \/ stray[i] # "none"

\* A request of i is out, or may still go out.
Outstanding(i) == MaySend(i) \/ \E m \in net : m.by = i

\* The original of a storno is already reversed, so sending it changes nothing.
NothingLeftToReverse(i) ==
  /\ request[i].op = "storno" /\ request[i].target \in DOMAIN docs
  /\ docs[request[i].target].reversed

(***************************************************************************)
(* Marker before uncertainty: whatever crashed, was cancelled, killed or   *)
(* recovered, a request that is in flight or may still be sent is one the  *)
(* stored marker names.  The one exception changes nothing: a reversal     *)
(* someone else already made settles the write while the worker's own      *)
(* request for it is still on its way.                                     *)
(***************************************************************************)
UncertaintyIsMarked ==
  \A i \in Inv : Outstanding(i) => marker = i \/ NothingLeftToReverse(i)

(***************************************************************************)
(* One permit, one send: no sequence of crashes, lost acknowledgements,    *)
(* replays and abandoned executions lets one invocation send twice.        *)
(***************************************************************************)
AtMostOneSend == \A i \in Inv : sends[i] + (IF MaySend(i) THEN 1 ELSE 0) <= 1

(***************************************************************************)
(* The worker never puts a second live document in a slot: at most one     *)
(* live document of the order carries a given kind's external id.          *)
(***************************************************************************)
LiveOwn(n, kind) ==
  n \in Holders(docs, kind, 0) /\ docs[n].order /\ ~docs[n].reversed

OneLiveDocumentPerSlot ==
  \A kind \in IssuedKind : \A m, n \in DOMAIN docs :
    LiveOwn(m, kind) /\ LiveOwn(n, kind) => m = n

(***************************************************************************)
(* A settled result is the truth, when it is journaled and ever after.  A  *)
(* write reported as declined or cancelled did not execute and cannot      *)
(* execute later; an issuance reported as executed produced a document of  *)
(* its own, never the old holder it was told to replace; a reported        *)
(* reversal or deletion has happened.                                      *)
(***************************************************************************)
SettledResultsAreTrue ==
  \A i \in Inv :
    /\ answer[i] \in {"declined", "cancelled"} => i \notin executed /\ ~Outstanding(i)
    /\ answer[i] = "executed" =>
         IF request[i].op = "create"
         THEN \E n \in DOMAIN docs : docs[n].by = i /\ n # request[i].target
         ELSE Accomplished(i)

\* A document of another order took over the kind's external id.
Collided(kind) == \E n \in DOMAIN docs : ByExternalId(docs, kind, 0, n) /\ ~docs[n].order

(***************************************************************************)
(* An issuance that landed although nobody received its reply is found and *)
(* settled by its own invocation, through any number of crashes and also   *)
(* if the document has been reversed meanwhile, unless someone stops that  *)
(* invocation or a colliding document takes over the external id.          *)
(***************************************************************************)
LandedIssuanceSettles ==
  \A i \in Inv :
    (i \in executed /\ request[i].op = "create" /\ marker = i)
      ~> (marker # i \/ journal[i] = "ended" \/ Collided(request[i].kind))

(***************************************************************************)
(* Stopping the owner does not block the order forever: a marker whose     *)
(* owner was cancelled or killed is eventually cleared by recovery, since  *)
(* neither the lock nor a queued mutation can keep recover out.            *)
(***************************************************************************)
StoppedOwnerIsRecoverable ==
  \A i \in Inv : (marker = i /\ journal[i] = "ended") ~> (marker # i)

\* The order's writes as the abstract specification sees them.
Unresolvable == INSTANCE UnresolvedOrder WITH unresolved <- marker, effects <- executed

\* The write protocol implements the abstract promise.
ImplementsUnresolvedOrder == Unresolvable!ASpec
-----------------------------------------------------------------------------
(* The inductive invariant behind the safety properties.                   *)

Waiting == {"waiting"} \cup Reply

\* Permission exists once: in the permit, in a running write, in an abandoned
\* execution or, used, in the count of sends.
OnePermission ==
  \A i \in Inv :
    /\ permit[i] => /\ sends[i] = 0 /\ stray[i] = "none"
                    /\ \/ journal[i] = "marked" /\ local[i] = "arming"
                       \/ journal[i] = "armed" /\ local[i] = "idle"
    /\ local[i] \in {"checking", "sending"} =>
         sends[i] = 0 /\ stray[i] = "none" /\ journal[i] = "armed"
    /\ local[i] = "arming" => journal[i] = "marked"
    /\ local[i] \in Waiting => journal[i] = "armed" /\ sends[i] = 1
    /\ stray[i] # "none" => sends[i] = 0 /\ journal[i] \in {"armed", "wrote", "cleared", "ended"}
    /\ journal[i] \in {"new", "entered", "guarded", "looked", "prepared", "marked"} => sends[i] = 0
    /\ sends[i] <= 1

Stopped == {"new", "ended"}

\* The lock belongs to the one running invocation, or to a running recover.
LockDiscipline ==
  /\ \A i \in Inv : /\ lock = i <=> journal[i] \notin Stopped
                    /\ local[i] = "none" <=> journal[i] \in Stopped
  /\ lock = Operator <=> recovery.pc \in {"entered", "recorded"}

\* The marker is the running protected write's, or a stopped one's.
MarkerDiscipline ==
  /\ \A i \in Inv :
       /\ journal[i] \in Protected => marker = i
       /\ journal[i] \in {"guarded", "looked", "prepared", "cleared"} => marker = NoInv
       /\ marker = i => journal[i] \in Protected \cup {"ended"}
  /\ recovery.pc \in {"entered", "recorded"} => marker = recovery.token
  /\ recovery.pc # "idle" => recovery.token # NoInv

\* A request is out at most once, and not after it was decided.
RequestsDecideOnce ==
  /\ \A m \in net : m.seq = 1 /\ sends[m.by] = 1 /\ m.by \notin executed
  /\ \A i \in Inv : /\ local[i] \in Reply => \A m \in net : m.by # i
                    /\ i \in executed => sends[i] = 1

\* The write i asked for is done, or someone else has done it.
Done(i) == IF request[i].op = "storno" THEN NothingLeftToReverse(i) ELSE i \in executed

\* A reply and a journaled result say what happened.
ResultIsTrue(i) ==
  /\ local[i] = "done" => Done(i)
  /\ local[i] \in {"echo", "refused"} => i \notin executed
  /\ answer[i] \in {"declined", "cancelled"} => i \notin executed /\ ~Outstanding(i)
  /\ answer[i] = "executed" => Done(i)
  /\ journal[i] \notin {"wrote", "cleared", "ended"} => answer[i] = "none"
  /\ journal[i] = "wrote" => answer[i] \in {"declined", "executed"} \cup Unresolved
  /\ journal[i] = "cleared" => answer[i] \in {"declined", "executed"}

ResultsAreTrue == \A i \in Inv : ResultIsTrue(i)

\* Document n is the order's own under the kind's external id.
Own(n, kind) == n \in Holders(docs, kind, 0) /\ docs[n].order

\* Invocation i has passed its lookup and is not settled.
Busy(i) == journal[i] \in {"looked", "prepared"} \cup Protected \/ marker = i

(***************************************************************************)
(* The slot of a create that has not executed stays as its lookup saw it,  *)
(* as far as the order's own documents go.                                 *)
(***************************************************************************)
SlotAsExpected ==
  \A i \in Inv :
    Busy(i) /\ request[i].op = "create" /\ i \notin executed =>
      /\ \A n \in DOMAIN docs : Own(n, request[i].kind) => n <= request[i].target /\ docs[n].reversed
      /\ request[i].target # 0 => /\ request[i].target \in DOMAIN docs
                                  /\ Own(request[i].target, request[i].kind)

\* The target of a storno or a deletion is of the kind the lookup saw.
TargetsOfTheirKind ==
  \A i \in Inv :
    Busy(i) \/ sends[i] > 0 \/ MaySend(i) =>
      /\ request[i].op = "storno" => /\ request[i].target \in DOMAIN docs
                                     /\ docs[request[i].target].kind \in StornoableKind
      /\ request[i].op = "delete" => /\ request[i].target \in DOMAIN docs
                                     /\ docs[request[i].target].kind = "proforma"

\* Only invoices are reversed, and of the order's own documents in a slot all
\* but the newest are.  An executed deletion or issuance shows.
DocumentsInOrder ==
  /\ \A n \in DOMAIN docs : docs[n].reversed => docs[n].kind \in StornoableKind
  /\ \A kind \in IssuedKind : \A m, n \in DOMAIN docs :
       Own(m, kind) /\ Own(n, kind) /\ m < n => docs[m].reversed
  /\ \A i \in executed : request[i].op = "create" =>
       \E n \in DOMAIN docs : docs[n].by = i /\ n # request[i].target

\* What lets a recover clear the marker stays true until it does.
RecoveryIsJustified ==
  /\ recovery.pc # "idle" /\ recovery.evidence # "document" => CannotExecuteLater(recovery.token)
  /\ recovery.pc = "recorded" /\ recovery.evidence = "document" =>
       \/ request[recovery.token].op = "create" /\ recovery.token \in executed
       \/ NothingLeftToReverse(recovery.token)

IInv ==
  /\ TypeOK /\ OnePermission /\ LockDiscipline /\ MarkerDiscipline
  /\ RequestsDecideOnce /\ ResultsAreTrue /\ UncertaintyIsMarked
  /\ SlotAsExpected /\ TargetsOfTheirKind /\ DocumentsInOrder /\ RecoveryIsJustified
=============================================================================
