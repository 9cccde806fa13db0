-------------------------- MODULE OrderWrite_proofs --------------------------
(***************************************************************************)
(* Proofs about OrderWrite, for any set of invocations, any kinds and any  *)
(* bound on documents.                                                     *)
(*                                                                         *)
(* First type correctness and the permission to send, then the disciplines *)
(* of lock, marker and requests and what counts as evidence, then each     *)
(* part of the inductive invariant IInv against the steps that can disturb *)
(* it, and from IInv the safety properties and the refinement of           *)
(* UnresolvedOrder.                                                        *)
(***************************************************************************)
EXTENDS OrderWrite, TLAPS

-----------------------------------------------------------------------------
(* The service's documents keep their type.                                *)

Docs == Seq(Document(Inv \cup {Outsider}))

(***************************************************************************)
(* Issuing a document (Gateway::create_send, once it executes) appends a   *)
(* document.                                                               *)
(***************************************************************************)
LEMMA IssueType ==
  ASSUME NEW d \in Docs, NEW kind \in IssuedKind, NEW by \in Inv
  PROVE  Issue(d, kind, by) \in Docs
BY DEF Issue, Docs, Document

(***************************************************************************)
(* Reversing a document marks it and appends its storno.                   *)
(***************************************************************************)
LEMMA ReverseType ==
  ASSUME NEW d \in Docs, NEW n \in DOMAIN d, NEW ext \in BOOLEAN, NEW by \in Inv \cup {Outsider}
  PROVE  Reverse(d, n, ext, by) \in Docs
<1> DEFINE marked == [d EXCEPT ![n].reversed = TRUE]
           storno == [kind |-> "storno", of |-> n, ext |-> ext, order |-> d[n].order,
                      reversed |-> FALSE, gone |-> FALSE, by |-> by]
<1>1. d[n] \in Document(Inv \cup {Outsider}) /\ n \in Nat
  BY DEF Docs
<1>2. [d[n] EXCEPT !.reversed = TRUE] \in Document(Inv \cup {Outsider})
  BY <1>1 DEF Document
<1>3. marked \in Docs
  BY <1>2 DEF Docs
<1>4. storno \in Document(Inv \cup {Outsider})
  BY <1>1 DEF Document
<1> QED
  BY <1>3, <1>4 DEF Reverse, Docs

(***************************************************************************)
(* Deleting a document hides it.                                           *)
(***************************************************************************)
LEMMA DeleteType ==
  ASSUME NEW d \in Docs, NEW n \in DOMAIN d
  PROVE  Delete(d, n) \in Docs
<1>1. d[n] \in Document(Inv \cup {Outsider})
  BY DEF Docs
<1>2. [d[n] EXCEPT !.gone = TRUE] \in Document(Inv \cup {Outsider})
  BY <1>1 DEF Document
<1> QED
  BY <1>2 DEF Delete, Docs

-----------------------------------------------------------------------------
(* Type correctness.                                                       *)

\* The requests the callers of the model send are requests.
LEMMA RequestsType == Requests \subseteq Request
BY KindsAssumption, BoundAssumption DEF Requests, Request, IssuedKind

\* The initial state is well typed.
LEMMA TypeInit == Init => TypeOK
BY DEF Init, TypeOK, NoRequest, NoRecovery, Request, Recovery, Position, Answer, Local, Evidence,
       IssuedKind, StornoableKind, InvoiceFamily

\* A process the runtime gave up can only check or send.
LEMMA LeavesBehindType ==
  ASSUME NEW i \in Inv
  PROVE  LeavesBehind(i) \subseteq {"checking", "sending"}
BY DEF LeavesBehind

\* A write run that sent nothing is journaled as one of three results.
LEMMA LeadingResultsType ==
  ASSUME NEW r
  PROVE  LeadingResults(r) \subseteq {"declined", "unresolved", "executed"}
BY DEF LeadingResults

\* Every step of an invocation keeps the types.
LEMMA TypeInvocation ==
  ASSUME TypeOK, NEW i \in Inv, Admission(i) \/ ProtectedWrite(i) \/ Runtime(i) \/ Stray(i)
  PROVE  TypeOK'
<1> USE DEF TypeOK, durable, volatile, service, history, Position, Answer, Local
<1>1. ASSUME NEW r \in Requests, Enter(i, r) PROVE TypeOK'
  BY <1>1, RequestsType DEF Enter, Record
<1>2. CASE Guard(i)
  BY <1>2 DEF Guard, Record, EndWith
<1>3. CASE LookupProceeds(i)
  BY <1>3 DEF LookupProceeds, Record
<1>4. CASE LookupAnswers(i)
  BY <1>4 DEF LookupAnswers, EndWith, Record
<1>5. CASE Prepare(i)
  BY <1>5 DEF Prepare, Record
<1>6. CASE Mark(i)
  BY <1>6 DEF Mark, Record
<1>7. CASE Arm(i)
  BY <1>7 DEF Arm
<1>8. CASE ArmAcknowledged(i)
  BY <1>8 DEF ArmAcknowledged, Record
<1>9. CASE OpenWrite(i)
  BY <1>9 DEF OpenWrite, RecordResult, Record
<1>10. CASE LeadingQuery(i)
  <2>1. CASE \E result \in LeadingResults(request[i]) : RecordResult(i, result)
    <3>1. PICK result \in {"declined", "unresolved", "executed"} : RecordResult(i, result)
      BY <2>1, LeadingResultsType
    <3> QED BY <1>10, <3>1 DEF LeadingQuery, RecordResult, Record
  <2>2. CASE local' = [local EXCEPT ![i] = "sending"] /\ UNCHANGED <<journal, answer>>
    BY <1>10, <2>2 DEF LeadingQuery
  <2> QED BY <1>10, <2>1, <2>2 DEF LeadingQuery
<1>11. CASE Send(i)
  BY <1>11 DEF Send, Transmit
<1>12. CASE ReceiveReply(i)
  BY <1>12 DEF ReceiveReply, RecordResult, Record, ReplyResults, Reply
<1>13. CASE LoseReply(i)
  BY <1>13 DEF LoseReply, RecordResult, Record
<1>14. CASE Reconcile(i)
  BY <1>14 DEF Reconcile
<1>15. CASE Clear(i)
  BY <1>15 DEF Clear, Record
<1>16. CASE Return(i)
  BY <1>16 DEF Return, EndWith, Record, At
<1>17. CASE Interrupt(i)
  BY <1>17, LeavesBehindType DEF Interrupt
<1>18. CASE Resume(i)
  BY <1>18 DEF Resume
<1>19. CASE Attempt(i)
  BY <1>19 DEF Attempt
<1>20. CASE Cancel(i)
  BY <1>20 DEF Cancel, EndWith, Record
<1>21. CASE Kill(i)
  BY <1>21, LeavesBehindType DEF Kill, EndWith, Record
<1>22. CASE StrayChecks(i)
  BY <1>22 DEF StrayChecks
<1>23. CASE StraySends(i)
  BY <1>23 DEF StraySends, Transmit
<1>24. CASE StrayEnds(i)
  BY <1>24 DEF StrayEnds
<1> QED
  BY <1>1, <1>2, <1>3, <1>4, <1>5, <1>6, <1>7, <1>8, <1>9, <1>10, <1>11, <1>12, <1>13, <1>14,
     <1>15, <1>16, <1>17, <1>18, <1>19, <1>20, <1>21, <1>22, <1>23, <1>24 DEF Admission,
     ProtectedWrite, Runtime, Stray

\* Every step of recover keeps the types.
LEMMA TypeRecover ==
  ASSUME TypeOK, Recover
  PROVE  TypeOK'
<1> USE DEF TypeOK, durable, volatile, service, history, Recovery, NoRecovery, Evidence
<1>1. ASSUME NEW evidence \in Evidence, NEW n \in 0..MaxDocs, SubmitRecovery(evidence, n)
      PROVE  TypeOK'
  BY <1>1, BoundAssumption DEF SubmitRecovery
<1>2. CASE EnterRecovery
  <2>1. recovery' \in Recovery
    <3>1. CASE recovery' = NoRecovery
      BY <3>1
    <3>2. CASE recovery' = [recovery EXCEPT !.pc = "entered"]
      BY <3>2
    <3> QED BY <1>2, <3>1, <3>2 DEF EnterRecovery
  <2> QED BY <1>2, <2>1 DEF EnterRecovery
<1>3. CASE RecordRecovery
  BY <1>3 DEF RecordRecovery
<1>4. CASE RefuseRecovery
  BY <1>4 DEF RefuseRecovery
<1>5. CASE FinishRecovery
  BY <1>5 DEF FinishRecovery
<1>6. CASE AbandonRecovery
  BY <1>6 DEF AbandonRecovery
<1> QED
  BY <1>1, <1>2, <1>3, <1>4, <1>5, <1>6 DEF Recover

\* Every decision of the service and every outside change keeps the types.
LEMMA TypeService ==
  ASSUME TypeOK, Service \/ Outside
  PROVE  TypeOK'
<1> USE DEF TypeOK, durable, volatile, history, Docs
<1>1. ASSUME NEW m \in net, Execute(m) PROVE TypeOK'
  <2>1. m.by \in Inv /\ request[m.by] \in Request
    OBVIOUS
  <2>2. local' \in [Inv -> Local] /\ net' \subseteq net /\ executed' \subseteq Inv
    BY <1>1, <2>1 DEF Execute, Answered, Local, Reply
  <2>3. docs' \in Docs
    <3>1. CASE request[m.by].op = "create" /\ docs' = Issue(docs, request[m.by].kind, m.by)
      <4>1. request[m.by].kind \in IssuedKind
        BY <3>1, <2>1 DEF Request
      <4> QED BY <3>1, <4>1, <2>1, IssueType
    <3>2. CASE /\ request[m.by].target \in Visible(docs)
               /\ docs' = Reverse(docs, request[m.by].target, TRUE, m.by)
      BY <3>2, <2>1, ReverseType DEF Visible
    <3>3. CASE /\ request[m.by].target \in Visible(docs)
               /\ docs' = Delete(docs, request[m.by].target)
      BY <3>3, DeleteType DEF Visible
    <3>4. CASE docs' = docs
      BY <3>4
    <3> QED BY <1>1, <3>1, <3>2, <3>3, <3>4 DEF Execute
  <2> QED BY <1>1, <2>2, <2>3 DEF Execute
<1>2. ASSUME NEW m \in net, Refuse(m) PROVE TypeOK'
  BY <1>2 DEF Refuse, Answered, Local, Reply
<1>3. ASSUME NEW m \in net, Drop(m) PROVE TypeOK'
  BY <1>3 DEF Drop
<1>4. ASSUME NEW n \in DOMAIN docs, OutsideStorno(n) PROVE TypeOK'
  BY <1>4, ReverseType DEF OutsideStorno
<1>5. ASSUME NEW n \in DOMAIN docs, OutsideDelete(n) PROVE TypeOK'
  BY <1>5, DeleteType DEF OutsideDelete
<1>6. ASSUME NEW kind \in CreateKind, NEW collides \in BOOLEAN, OutsideIssue(kind, collides)
      PROVE  TypeOK'
  BY <1>6, KindsAssumption DEF OutsideIssue, Document
<1> QED
  BY <1>1, <1>2, <1>3, <1>4, <1>5, <1>6 DEF Service, Outside

\* A stuttering step keeps the types.
LEMMA TypeStutter == TypeOK /\ UNCHANGED vars => TypeOK'
BY DEF TypeOK, vars, durable, volatile, service, history

(***************************************************************************)
(* Every reachable state of the write protocol is well typed.              *)
(***************************************************************************)
THEOREM TypeCorrect == Spec => []TypeOK
<1>1. TypeOK /\ [Next]_vars => TypeOK'
  BY TypeInvocation, TypeRecover, TypeService, TypeStutter DEF Next
<1> QED
  BY TypeInit, <1>1, PTL DEF Spec

-----------------------------------------------------------------------------
(* One permission.                                                         *)

\* No step of an invocation makes a second permission.
LEMMA PermissionInvocation ==
  ASSUME TypeOK, OnePermission, NEW i \in Inv,
         Admission(i) \/ ProtectedWrite(i) \/ Runtime(i) \/ Stray(i)
  PROVE  OnePermission'
<1> USE DEF TypeOK, OnePermission, durable, volatile, service, history, Position, Local, Waiting, Reply
<1>1. ASSUME NEW r \in Requests, Enter(i, r) PROVE OnePermission'
  BY <1>1 DEF Enter, Record
<1>2. CASE Guard(i)
  BY <1>2 DEF Guard, At, Record, EndWith
<1>3. CASE LookupProceeds(i)
  BY <1>3 DEF LookupProceeds, At, Record
<1>4. CASE LookupAnswers(i)
  BY <1>4 DEF LookupAnswers, At, EndWith, Record
<1>5. CASE Prepare(i)
  BY <1>5 DEF Prepare, At, Record
<1>6. CASE Mark(i)
  BY <1>6 DEF Mark, At, Record
<1>7. CASE Arm(i)
  BY <1>7 DEF Arm, At
<1>8. CASE ArmAcknowledged(i)
  BY <1>8 DEF ArmAcknowledged, Record
<1>9. CASE OpenWrite(i)
  BY <1>9 DEF OpenWrite, At, RecordResult, Record
<1>10. CASE LeadingQuery(i)
  BY <1>10 DEF LeadingQuery, RecordResult, Record
<1>11. CASE Send(i)
  BY <1>11 DEF Send, Transmit
<1>12. CASE ReceiveReply(i)
  BY <1>12 DEF ReceiveReply, RecordResult, Record
<1>13. CASE LoseReply(i)
  BY <1>13 DEF LoseReply, RecordResult, Record
<1>14. CASE Reconcile(i)
  BY <1>14 DEF Reconcile, At
<1>15. CASE Clear(i)
  BY <1>15 DEF Clear, At, Record
<1>16. CASE Return(i)
  BY <1>16 DEF Return, At, EndWith, Record
<1>17. CASE Interrupt(i)
  BY <1>17 DEF Interrupt, LeavesBehind
<1>18. CASE Resume(i)
  BY <1>18 DEF Resume
<1>19. CASE Attempt(i)
  BY <1>19 DEF Attempt
<1>20. CASE Cancel(i)
  BY <1>20 DEF Cancel, EndWith, Record
<1>21. CASE Kill(i)
  BY <1>21 DEF Kill, EndWith, Record, LeavesBehind
<1>22. CASE StrayChecks(i)
  BY <1>22 DEF StrayChecks
<1>23. CASE StraySends(i)
  BY <1>23 DEF StraySends, Transmit
<1>24. CASE StrayEnds(i)
  BY <1>24 DEF StrayEnds
<1> QED
  BY <1>1, <1>2, <1>3, <1>4, <1>5, <1>6, <1>7, <1>8, <1>9, <1>10, <1>11, <1>12, <1>13, <1>14,
     <1>15, <1>16, <1>17, <1>18, <1>19, <1>20, <1>21, <1>22, <1>23, <1>24 DEF Admission,
     ProtectedWrite, Runtime, Stray

\* Neither recover, nor the service, nor anyone outside gives permission.
LEMMA PermissionOthers ==
  ASSUME TypeOK, OnePermission, Recover \/ Service \/ Outside \/ UNCHANGED vars
  PROVE  OnePermission'
<1> USE DEF TypeOK, OnePermission, durable, volatile, service, history, Local, Waiting, Reply
<1>1. CASE Recover
  BY <1>1 DEF Recover, SubmitRecovery, EnterRecovery, RecordRecovery, RefuseRecovery,
              FinishRecovery, AbandonRecovery
<1>2. ASSUME NEW m \in net, Execute(m) \/ Refuse(m) \/ Drop(m) PROVE OnePermission'
  <2>1. /\ UNCHANGED <<permit, stray, journal, sends>>
        /\ local' = local \/ \E message \in Reply : Answered(m, message)
    BY <1>2 DEF Execute, Refuse, Drop
  <2> QED BY <2>1 DEF Answered
<1>3. CASE Outside
  BY <1>3 DEF Outside, OutsideStorno, OutsideDelete, OutsideIssue
<1>4. CASE UNCHANGED vars
  BY <1>4 DEF vars
<1> QED
  BY <1>1, <1>2, <1>3, <1>4 DEF Service

\* Initially no permission exists.
LEMMA PermissionInit == Init => OnePermission
BY DEF Init, OnePermission, Waiting, Reply

(***************************************************************************)
(* protected_write sends at most once per invocation: for any number of    *)
(* invocations, crashes, replays and abandoned executions, the permit that *)
(* arm-write grants is used at most once.                                  *)
(***************************************************************************)
THEOREM OneSendPerInvocation == Spec => []AtMostOneSend
<1>1. TypeOK /\ OnePermission /\ [Next]_vars => OnePermission'
  BY PermissionInvocation, PermissionOthers DEF Next
<1>2. TypeOK /\ OnePermission => AtMostOneSend
  BY DEF TypeOK, OnePermission, AtMostOneSend, MaySend
<1> QED
  BY TypeCorrect, PermissionInit, <1>1, <1>2, PTL DEF Spec

-----------------------------------------------------------------------------
(* Lock and marker.                                                        *)

\* A handler that ends releases the lock it held.
LEMMA LockEnds ==
  ASSUME TypeOK, LockDiscipline, NEW i \in Inv, NEW response \in Answer, lock = i,
         EndWith(i, response), UNCHANGED recovery
  PROVE  LockDiscipline'
BY DistinctActors DEF TypeOK, LockDiscipline, Stopped, EndWith, Record, Position, Local

\* No step of an invocation breaks the lock discipline.
LEMMA LockInvocation ==
  ASSUME TypeOK, OnePermission, LockDiscipline, NEW i \in Inv,
         Admission(i) \/ ProtectedWrite(i) \/ Runtime(i) \/ Stray(i)
  PROVE  LockDiscipline'
<1> USE DistinctActors
        DEF TypeOK, OnePermission, LockDiscipline, Stopped, durable, volatile, service, history,
            Position, Local, Waiting, Reply
<1>1. ASSUME NEW r \in Requests, Enter(i, r) PROVE LockDiscipline'
  BY <1>1 DEF Enter, Record
<1>2. CASE Guard(i)
  <2>1. CASE EndWith(i, "outcome_unknown")
    BY <1>2, <2>1, LockEnds DEF Guard, At, Answer
  <2>2. CASE Record(i, "guarded") /\ UNCHANGED <<lock, answer, local, permit>>
    BY <1>2, <2>2 DEF Guard, At, Record
  <2> QED BY <1>2, <2>1, <2>2 DEF Guard
<1>3. CASE LookupProceeds(i)
  BY <1>3 DEF LookupProceeds, At, Record
<1>4. CASE LookupAnswers(i)
  BY <1>4 DEF LookupAnswers, At, EndWith, Record
<1>5. CASE Prepare(i)
  BY <1>5 DEF Prepare, At, Record
<1>6. CASE Mark(i)
  BY <1>6 DEF Mark, At, Record
<1>7. CASE Arm(i)
  BY <1>7 DEF Arm, At
<1>8. CASE ArmAcknowledged(i)
  BY <1>8 DEF ArmAcknowledged, Record
<1>9. CASE OpenWrite(i)
  BY <1>9 DEF OpenWrite, At, RecordResult, Record
<1>10. CASE LeadingQuery(i)
  BY <1>10 DEF LeadingQuery, RecordResult, Record
<1>11. CASE Send(i)
  BY <1>11 DEF Send, Transmit
<1>12. CASE ReceiveReply(i)
  BY <1>12 DEF ReceiveReply, RecordResult, Record
<1>13. CASE LoseReply(i)
  BY <1>13 DEF LoseReply, RecordResult, Record
<1>14. CASE Reconcile(i)
  BY <1>14 DEF Reconcile, At
<1>15. CASE Clear(i)
  BY <1>15 DEF Clear, At, Record
<1>16. CASE Return(i)
  BY <1>16 DEF Return, At, EndWith, Record
<1>17. CASE Interrupt(i)
  BY <1>17 DEF Interrupt, LeavesBehind
<1>18. CASE Resume(i)
  BY <1>18 DEF Resume
<1>19. CASE Attempt(i)
  BY <1>19 DEF Attempt
<1>20. CASE Cancel(i)
  BY <1>20, LockEnds DEF Cancel, Answer
<1>21. CASE Kill(i)
  BY <1>21 DEF Kill, EndWith, Record, LeavesBehind
<1>22. CASE StrayChecks(i)
  BY <1>22 DEF StrayChecks
<1>23. CASE StraySends(i)
  BY <1>23 DEF StraySends, Transmit
<1>24. CASE StrayEnds(i)
  BY <1>24 DEF StrayEnds
<1> QED
  BY <1>1, <1>2, <1>3, <1>4, <1>5, <1>6, <1>7, <1>8, <1>9, <1>10, <1>11, <1>12, <1>13, <1>14,
     <1>15, <1>16, <1>17, <1>18, <1>19, <1>20, <1>21, <1>22, <1>23, <1>24 DEF Admission,
     ProtectedWrite, Runtime, Stray

\* Nor does a step of recover.
LEMMA LockRecover ==
  ASSUME TypeOK, LockDiscipline, Recover
  PROVE  LockDiscipline'
<1> USE DistinctActors
        DEF TypeOK, LockDiscipline, durable, volatile, service, history, Recovery, NoRecovery, Evidence
<1>1. ASSUME NEW evidence \in Evidence, NEW n \in 0..MaxDocs, SubmitRecovery(evidence, n)
      PROVE  LockDiscipline'
  BY <1>1 DEF SubmitRecovery
<1>2. CASE EnterRecovery
  BY <1>2 DEF EnterRecovery
<1>3. CASE RecordRecovery
  BY <1>3 DEF RecordRecovery
<1>4. CASE RefuseRecovery
  BY <1>4 DEF RefuseRecovery
<1>5. CASE FinishRecovery
  BY <1>5 DEF FinishRecovery
<1>6. CASE AbandonRecovery
  BY <1>6 DEF AbandonRecovery
<1> QED
  BY <1>1, <1>2, <1>3, <1>4, <1>5, <1>6 DEF Recover

\* Nor the service, an outsider or a stuttering step.
LEMMA LockOthers ==
  ASSUME TypeOK, LockDiscipline, Service \/ Outside \/ UNCHANGED vars
  PROVE  LockDiscipline'
<1> USE DEF TypeOK, LockDiscipline, durable, volatile, service, history, Local, Reply
<1>1. ASSUME NEW m \in net, Execute(m) \/ Refuse(m) \/ Drop(m) PROVE LockDiscipline'
  <2>1. /\ UNCHANGED <<lock, journal, recovery>>
        /\ local' = local \/ \E message \in Reply : Answered(m, message)
    BY <1>1 DEF Execute, Refuse, Drop
  <2> QED BY <2>1 DEF Answered
<1>2. CASE Outside
  BY <1>2 DEF Outside, OutsideStorno, OutsideDelete, OutsideIssue
<1>3. CASE UNCHANGED vars
  BY <1>3 DEF vars
<1> QED
  BY <1>1, <1>2, <1>3 DEF Service

\* A step of an invocation keeps the marker with the protected write.
LEMMA MarkerInvocation ==
  ASSUME TypeOK, LockDiscipline, MarkerDiscipline, OnePermission, NEW i \in Inv,
         Admission(i) \/ ProtectedWrite(i) \/ Runtime(i) \/ Stray(i)
  PROVE  MarkerDiscipline'
<1> USE DistinctActors
        DEF TypeOK, OnePermission, LockDiscipline, MarkerDiscipline, Stopped, Protected,
            durable, volatile, service, history, Position, Local, Waiting, Reply
<1>1. ASSUME NEW r \in Requests, Enter(i, r) PROVE MarkerDiscipline'
  BY <1>1 DEF Enter, Record
<1>2. CASE Guard(i)
  BY <1>2 DEF Guard, At, Record, EndWith
<1>3. CASE LookupProceeds(i)
  BY <1>3 DEF LookupProceeds, At, Record
<1>4. CASE LookupAnswers(i)
  BY <1>4 DEF LookupAnswers, At, EndWith, Record
<1>5. CASE Prepare(i)
  BY <1>5 DEF Prepare, At, Record
<1>6. CASE Mark(i)
  BY <1>6 DEF Mark, At, Record
<1>7. CASE Arm(i)
  BY <1>7 DEF Arm, At
<1>8. CASE ArmAcknowledged(i)
  BY <1>8 DEF ArmAcknowledged, Record
<1>9. CASE OpenWrite(i)
  BY <1>9 DEF OpenWrite, At, RecordResult, Record
<1>10. CASE LeadingQuery(i)
  BY <1>10 DEF LeadingQuery, RecordResult, Record
<1>11. CASE Send(i)
  BY <1>11 DEF Send, Transmit
<1>12. CASE ReceiveReply(i)
  BY <1>12 DEF ReceiveReply, RecordResult, Record
<1>13. CASE LoseReply(i)
  BY <1>13 DEF LoseReply, RecordResult, Record
<1>14. CASE Reconcile(i)
  BY <1>14 DEF Reconcile, At
<1>15. CASE Clear(i)
  BY <1>15 DEF Clear, At, Record
<1>16. CASE Return(i)
  BY <1>16 DEF Return, At, EndWith, Record
<1>17. CASE Interrupt(i)
  BY <1>17 DEF Interrupt, LeavesBehind
<1>18. CASE Resume(i)
  BY <1>18 DEF Resume
<1>19. CASE Attempt(i)
  BY <1>19 DEF Attempt
<1>20. CASE Cancel(i)
  BY <1>20 DEF Cancel, EndWith, Record
<1>21. CASE Kill(i)
  BY <1>21 DEF Kill, EndWith, Record, LeavesBehind
<1>22. CASE StrayChecks(i)
  BY <1>22 DEF StrayChecks
<1>23. CASE StraySends(i)
  BY <1>23 DEF StraySends, Transmit
<1>24. CASE StrayEnds(i)
  BY <1>24 DEF StrayEnds
<1> QED
  BY <1>1, <1>2, <1>3, <1>4, <1>5, <1>6, <1>7, <1>8, <1>9, <1>10, <1>11, <1>12, <1>13, <1>14,
     <1>15, <1>16, <1>17, <1>18, <1>19, <1>20, <1>21, <1>22, <1>23, <1>24 DEF Admission,
     ProtectedWrite, Runtime, Stray

\* recover clears only the marker it was submitted for.
LEMMA MarkerRecover ==
  ASSUME TypeOK, LockDiscipline, MarkerDiscipline, Recover
  PROVE  MarkerDiscipline'
<1> USE DistinctActors
        DEF TypeOK, LockDiscipline, MarkerDiscipline, Stopped, Protected, durable, volatile, service,
            history, Recovery, NoRecovery, Evidence, Position
<1>1. ASSUME NEW evidence \in Evidence, NEW n \in 0..MaxDocs, SubmitRecovery(evidence, n)
      PROVE  MarkerDiscipline'
  BY <1>1 DEF SubmitRecovery
<1>2. CASE EnterRecovery
  BY <1>2 DEF EnterRecovery
<1>3. CASE RecordRecovery
  BY <1>3 DEF RecordRecovery
<1>4. CASE RefuseRecovery
  BY <1>4 DEF RefuseRecovery
<1>5. CASE FinishRecovery
  BY <1>5 DEF FinishRecovery
<1>6. CASE AbandonRecovery
  BY <1>6 DEF AbandonRecovery
<1> QED
  BY <1>1, <1>2, <1>3, <1>4, <1>5, <1>6 DEF Recover

\* The service and outsiders do not touch the marker.
LEMMA MarkerOthers ==
  ASSUME MarkerDiscipline, Service \/ Outside \/ UNCHANGED vars
  PROVE  MarkerDiscipline'
<1>1. UNCHANGED <<marker, journal, recovery>>
  BY DEF Service, Execute, Refuse, Drop, Outside, OutsideStorno, OutsideDelete, OutsideIssue, vars,
         durable
<1> QED
  BY <1>1 DEF MarkerDiscipline

-----------------------------------------------------------------------------
(* How documents change.                                                   *)

\* From d to e no document changes what it is, a reversal and a deletion are
\* for good, only invoices are reversed and only proformas are deleted.
Kept(d, e) ==
  /\ DOMAIN d \subseteq DOMAIN e
  /\ \A n \in DOMAIN d :
       /\ e[n].kind = d[n].kind /\ e[n].of = d[n].of /\ e[n].ext = d[n].ext
       /\ e[n].order = d[n].order /\ e[n].by = d[n].by
       /\ d[n].reversed => e[n].reversed
       /\ e[n].reversed => d[n].reversed \/ d[n].kind \in StornoableKind
       /\ d[n].gone => e[n].gone
       /\ e[n].gone => d[n].gone \/ d[n].kind = "proforma"

\* No document appears that is the order's own in some slot.
NoNewOwn(d, e) ==
  \A n \in DOMAIN e \ DOMAIN d :
    ~e[n].reversed /\ ~(e[n].ext /\ e[n].order /\ e[n].kind \in IssuedKind)

\* Issuing a document keeps every earlier one.
LEMMA IssueKeeps ==
  ASSUME NEW d \in Docs, NEW kind \in IssuedKind, NEW by \in Inv
  PROVE  /\ Kept(d, Issue(d, kind, by))
         /\ DOMAIN Issue(d, kind, by) = DOMAIN d \cup {Len(d) + 1}
         /\ Issue(d, kind, by)[Len(d) + 1] =
              [kind |-> kind, of |-> 0, ext |-> TRUE, order |-> TRUE, reversed |-> FALSE,
               gone |-> FALSE, by |-> by]
<1> DEFINE x == [kind |-> kind, of |-> 0, ext |-> TRUE, order |-> TRUE, reversed |-> FALSE,
                 gone |-> FALSE, by |-> by]
<1>1. x \in Document(Inv \cup {Outsider})
  BY DEF Document
<1>2. Issue(d, kind, by) = Append(d, x)
  BY DEF Issue
<1> HIDE DEF x
<1>3. /\ DOMAIN Append(d, x) = DOMAIN d \cup {Len(d) + 1} /\ Append(d, x)[Len(d) + 1] = x
      /\ \A n \in DOMAIN d : Append(d, x)[n] = d[n]
  BY <1>1 DEF Docs
<1>4. Kept(d, Append(d, x))
  BY <1>3 DEF Kept
<1> QED
  BY <1>2, <1>3, <1>4 DEF x

\* Reversing changes only the original's reversed flag.
LEMMA ReverseKeeps ==
  ASSUME NEW d \in Docs, NEW n \in DOMAIN d, NEW ext \in BOOLEAN, NEW by \in Inv \cup {Outsider},
         d[n].kind \in StornoableKind
  PROVE  /\ Kept(d, Reverse(d, n, ext, by)) /\ NoNewOwn(d, Reverse(d, n, ext, by))
         /\ Reverse(d, n, ext, by)[n].reversed
<1> DEFINE marked == [d EXCEPT ![n].reversed = TRUE]
           storno == [kind |-> "storno", of |-> n, ext |-> ext, order |-> d[n].order,
                      reversed |-> FALSE, gone |-> FALSE, by |-> by]
           e == Append(marked, storno)
<1>1. d[n] \in Document(Inv \cup {Outsider}) /\ n \in 1..Len(d) /\ Len(d) \in Nat
  BY DEF Docs
<1>2. marked \in Docs /\ Len(marked) = Len(d) /\ DOMAIN marked = DOMAIN d
  <2>1. [d[n] EXCEPT !.reversed = TRUE] \in Document(Inv \cup {Outsider})
    BY <1>1 DEF Document
  <2> QED BY <2>1 DEF Docs
<1>3. \A k \in DOMAIN d : marked[k] = IF k = n THEN [d[n] EXCEPT !.reversed = TRUE] ELSE d[k]
  OBVIOUS
<1>4. storno \in Document(Inv \cup {Outsider})
  BY <1>1 DEF Document
<1> HIDE DEF marked
<1>5. /\ DOMAIN e = DOMAIN d \cup {Len(d) + 1} /\ e[Len(d) + 1] = storno
      /\ \A k \in DOMAIN d : e[k] = marked[k]
  BY <1>1, <1>2, <1>4 DEF Docs
<1>6. e = Reverse(d, n, ext, by)
  BY DEF Reverse, marked
<1> HIDE DEF e
<1>7. Kept(d, e)
  BY <1>1, <1>3, <1>5 DEF Kept, Docs, Document
<1>8. NoNewOwn(d, e)
  BY <1>5 DEF NoNewOwn, IssuedKind, StornoableKind, InvoiceFamily
<1>9. e[n].reversed
  BY <1>1, <1>3, <1>5 DEF Document
<1> QED
  BY <1>6, <1>7, <1>8, <1>9

\* Deleting changes only the document's visibility.
LEMMA DeleteKeeps ==
  ASSUME NEW d \in Docs, NEW n \in DOMAIN d, d[n].kind = "proforma"
  PROVE  Kept(d, Delete(d, n)) /\ NoNewOwn(d, Delete(d, n))
<1>1. d[n] \in Document(Inv \cup {Outsider})
  BY DEF Docs
<1>2. DOMAIN Delete(d, n) = DOMAIN d
  BY DEF Delete, Docs
<1>3. \A k \in DOMAIN d : Delete(d, n)[k] = IF k = n THEN [d[n] EXCEPT !.gone = TRUE] ELSE d[k]
  BY DEF Delete
<1> QED
  BY <1>1, <1>2, <1>3 DEF Kept, NoNewOwn, Docs, Document

\* Any appended document keeps every earlier one.
LEMMA AppendKeeps ==
  ASSUME NEW d \in Docs, NEW x \in Document(Inv \cup {Outsider}), ~x.reversed, ~(x.ext /\ x.order)
  PROVE  Kept(d, Append(d, x)) /\ NoNewOwn(d, Append(d, x))
BY DEF Kept, NoNewOwn, Docs, Document

\* Unchanged documents are kept.
LEMMA SameKeeps ==
  ASSUME NEW d
  PROVE  Kept(d, d) /\ NoNewOwn(d, d)
BY DEF Kept, NoNewOwn

\* The steps that change no document.
LEMMA DocsUnchanged ==
  ASSUME \/ \E i \in Inv : Admission(i) \/ ProtectedWrite(i) \/ Runtime(i) \/ Stray(i)
         \/ Recover \/ UNCHANGED vars
  PROVE  UNCHANGED <<docs, executed>>
BY DEF Admission, ProtectedWrite, Runtime, Stray, Recover, vars, service, history,
       Enter, Guard, LookupProceeds, LookupAnswers, Prepare, Mark, Arm, ArmAcknowledged, OpenWrite,
       LeadingQuery, Send, ReceiveReply, LoseReply, Reconcile, Clear, Return, Interrupt, Resume,
       Attempt, Cancel, Kill, StrayChecks, StraySends, StrayEnds, SubmitRecovery, EnterRecovery,
       RecordRecovery, RefuseRecovery, FinishRecovery, AbandonRecovery, Transmit

\* A request that executes issues one document of its own, or changes documents
\* without adding to the order's own.
LEMMA ExecuteDocs ==
  ASSUME TypeOK, RequestsDecideOnce, TargetsOfTheirKind, NEW m \in net, Execute(m)
  PROVE  /\ Kept(docs, docs') /\ docs' \in Docs
         /\ \/ NoNewOwn(docs, docs') /\ request[m.by].op # "create"
            \/ /\ request[m.by].op = "create"
               /\ docs' = Issue(docs, request[m.by].kind, m.by)
               /\ executed' = executed \cup {m.by}
<1>1. m.by \in Inv /\ sends[m.by] = 1 /\ request[m.by] \in Request /\ docs \in Docs
  BY DEF TypeOK, RequestsDecideOnce, Docs
<1>2. CASE /\ request[m.by].op = "create" /\ docs' = Issue(docs, request[m.by].kind, m.by)
           /\ executed' = executed \cup {m.by}
  <2>1. request[m.by].kind \in IssuedKind
    BY <1>1, <1>2 DEF Request
  <2> QED BY <1>1, <1>2, <2>1, IssueKeeps, IssueType
<1>3. CASE /\ request[m.by].op = "storno" /\ request[m.by].target \in Visible(docs)
           /\ docs' = Reverse(docs, request[m.by].target, TRUE, m.by)
  <2>1. request[m.by].target \in DOMAIN docs /\ docs[request[m.by].target].kind \in StornoableKind
    BY <1>1, <1>3 DEF TargetsOfTheirKind
  <2> QED BY <1>1, <1>3, <2>1, ReverseKeeps, ReverseType
<1>4. CASE request[m.by].op = "storno" /\ docs' = docs
  BY <1>1, <1>4, SameKeeps
<1>5. CASE /\ request[m.by].op = "delete" /\ request[m.by].target \in Visible(docs)
           /\ docs' = Delete(docs, request[m.by].target)
  <2>1. request[m.by].target \in DOMAIN docs /\ docs[request[m.by].target].kind = "proforma"
    BY <1>1, <1>5 DEF TargetsOfTheirKind
  <2> QED BY <1>1, <1>5, <2>1, DeleteKeeps, DeleteType
<1> QED
  BY <1>2, <1>3, <1>4, <1>5 DEF Execute

\* Changes outside the worker add nothing to the order's own documents.
LEMMA OutsideDocs ==
  ASSUME TypeOK, Outside
  PROVE  /\ Kept(docs, docs') /\ NoNewOwn(docs, docs') /\ docs' \in Docs
         /\ UNCHANGED <<durable, volatile, recovery, net, history>>
<1>1. docs \in Docs
  BY DEF TypeOK, Docs
<1>2. ASSUME NEW n \in DOMAIN docs, OutsideStorno(n)
      PROVE  Kept(docs, docs') /\ NoNewOwn(docs, docs') /\ docs' \in Docs
  BY <1>1, <1>2, ReverseKeeps, ReverseType DEF OutsideStorno
<1>3. ASSUME NEW n \in DOMAIN docs, OutsideDelete(n)
      PROVE  Kept(docs, docs') /\ NoNewOwn(docs, docs') /\ docs' \in Docs
  BY <1>1, <1>3, DeleteKeeps, DeleteType DEF OutsideDelete
<1>4. ASSUME NEW kind \in CreateKind, NEW collides \in BOOLEAN, OutsideIssue(kind, collides)
      PROVE  Kept(docs, docs') /\ NoNewOwn(docs, docs') /\ docs' \in Docs
  <2> DEFINE x == [kind |-> kind, of |-> 0, ext |-> collides, order |-> ~collides,
                   reversed |-> FALSE, gone |-> FALSE, by |-> Outsider]
  <2>1. x \in Document(Inv \cup {Outsider})
    BY KindsAssumption DEF Document
  <2>2. docs' = Append(docs, x)
    BY <1>4 DEF OutsideIssue
  <2>3. ~x.reversed /\ ~(x.ext /\ x.order)
    OBVIOUS
  <2> HIDE DEF x
  <2>4. Append(docs, x) \in Docs
    BY <1>1, <2>1 DEF Docs
  <2> QED BY <1>1, <2>1, <2>2, <2>3, <2>4, AppendKeeps
<1> QED
  BY <1>2, <1>3, <1>4 DEF Outside, OutsideStorno, OutsideDelete, OutsideIssue

-----------------------------------------------------------------------------
(* Requests, replies and results.                                          *)

\* No step of an invocation puts a second request on the way.
LEMMA DecideOnceInvocation ==
  ASSUME TypeOK, OnePermission, RequestsDecideOnce, NEW i \in Inv,
         Admission(i) \/ ProtectedWrite(i) \/ Runtime(i) \/ Stray(i)
  PROVE  RequestsDecideOnce'
<1>1. CASE Send(i) \/ StraySends(i)
  <2>1. sends[i] = 0 /\ i \notin executed /\ \A m \in net : m.by # i
    BY <1>1 DEF TypeOK, OnePermission, RequestsDecideOnce, Send, StraySends
  <2>2. /\ net' = net \cup {[by |-> i, seq |-> 1]} /\ sends' = [sends EXCEPT ![i] = 1]
        /\ UNCHANGED executed /\ \A j \in Inv : local'[j] \in Reply => local[j] \in Reply /\ j # i
    BY <1>1, <2>1 DEF TypeOK, OnePermission, Send, StraySends, Transmit, Reply, Local, Waiting
  <2> QED BY <2>1, <2>2 DEF TypeOK, RequestsDecideOnce
<1>2. CASE ~(Send(i) \/ StraySends(i))
  <2>1. /\ UNCHANGED <<net, sends, executed>>
        /\ \A j \in Inv : local'[j] \in Reply => local[j] \in Reply
    <3> USE DEF TypeOK, durable, volatile, service, history, Reply
    <3>1. ASSUME NEW r \in Requests, Enter(i, r)
          PROVE  UNCHANGED <<net, sends, executed>> /\ \A j \in Inv : local'[j] \in Reply => local[j] \in Reply
      BY <3>1 DEF Enter, Record
    <3>2. CASE Guard(i)
      BY <3>2 DEF Guard, At, Record, EndWith
    <3>3. CASE LookupProceeds(i)
      BY <3>3 DEF LookupProceeds, At, Record
    <3>4. CASE LookupAnswers(i)
      BY <3>4 DEF LookupAnswers, At, EndWith, Record
    <3>5. CASE Prepare(i)
      BY <3>5 DEF Prepare, At, Record
    <3>6. CASE Mark(i)
      BY <3>6 DEF Mark, At, Record
    <3>7. CASE Arm(i)
      BY <3>7 DEF Arm, At
    <3>8. CASE ArmAcknowledged(i)
      BY <3>8 DEF ArmAcknowledged, Record
    <3>9. CASE OpenWrite(i)
      BY <3>9 DEF OpenWrite, At, RecordResult, Record
    <3>10. CASE LeadingQuery(i)
      BY <3>10 DEF LeadingQuery, RecordResult, Record
    <3>11. CASE Send(i)
      BY <1>2, <3>11
    <3>12. CASE ReceiveReply(i)
      BY <3>12 DEF ReceiveReply, RecordResult, Record
    <3>13. CASE LoseReply(i)
      BY <3>13 DEF LoseReply, RecordResult, Record
    <3>14. CASE Reconcile(i)
      BY <3>14 DEF Reconcile, At
    <3>15. CASE Clear(i)
      BY <3>15 DEF Clear, At, Record
    <3>16. CASE Return(i)
      BY <3>16 DEF Return, At, EndWith, Record
    <3>17. CASE Interrupt(i)
      BY <3>17 DEF Interrupt, LeavesBehind
    <3>18. CASE Resume(i)
      BY <3>18 DEF Resume
    <3>19. CASE Attempt(i)
      BY <3>19 DEF Attempt
    <3>20. CASE Cancel(i)
      BY <3>20 DEF Cancel, EndWith, Record
    <3>21. CASE Kill(i)
      BY <3>21 DEF Kill, EndWith, Record, LeavesBehind
    <3>22. CASE StrayChecks(i)
      BY <3>22 DEF StrayChecks
    <3>23. CASE StraySends(i)
      BY <1>2, <3>23
    <3>24. CASE StrayEnds(i)
      BY <3>24 DEF StrayEnds
    <3> QED
      BY <3>1, <3>2, <3>3, <3>4, <3>5, <3>6, <3>7, <3>8, <3>9, <3>10, <3>11, <3>12, <3>13,
         <3>14, <3>15, <3>16, <3>17, <3>18, <3>19, <3>20, <3>21, <3>22, <3>23, <3>24 DEF
         Admission, ProtectedWrite, Runtime, Stray
  <2> QED BY <2>1 DEF RequestsDecideOnce
<1> QED
  BY <1>1, <1>2

\* The service decides on a request once.
LEMMA DecideOnceOthers ==
  ASSUME TypeOK, RequestsDecideOnce, Recover \/ Service \/ Outside \/ UNCHANGED vars
  PROVE  RequestsDecideOnce'
<1>1. CASE Recover \/ Outside \/ UNCHANGED vars
  <2>1. UNCHANGED <<net, sends, executed, local>>
    BY <1>1 DEF Recover, SubmitRecovery, EnterRecovery, RecordRecovery, RefuseRecovery,
                FinishRecovery, AbandonRecovery, Outside, OutsideStorno, OutsideDelete, OutsideIssue,
                vars, volatile, service, history
  <2> QED BY <2>1 DEF RequestsDecideOnce
<1>2. ASSUME NEW m \in net, Execute(m) \/ Refuse(m) \/ Drop(m) PROVE RequestsDecideOnce'
  <2>1. /\ m.by \in Inv /\ net' = net \ {m} /\ sends' = sends
        /\ executed' \in {executed, executed \cup {m.by}}
        /\ \A j \in Inv : local'[j] \in Reply => local[j] \in Reply \/ j = m.by
    BY <1>2 DEF TypeOK, Execute, Refuse, Drop, Answered, history, volatile
  <2>2. ASSUME NEW k \in net, k.by = m.by PROVE k = m
    <3>1. k \in [by : Inv, seq : Nat] /\ m \in [by : Inv, seq : Nat]
      BY DEF TypeOK
    <3>2. k.seq = 1 /\ m.seq = 1
      BY DEF RequestsDecideOnce
    <3>3. k = [by |-> k.by, seq |-> k.seq] /\ m = [by |-> m.by, seq |-> m.seq]
      BY <3>1
    <3> QED BY <3>2, <3>3, <2>2
  <2> QED BY <2>1, <2>2 DEF RequestsDecideOnce
<1> QED
  BY <1>1, <1>2 DEF Service

\* A step of i touches no other invocation, and no document.
LEMMA Frame ==
  ASSUME TypeOK, NEW i \in Inv, Admission(i) \/ ProtectedWrite(i) \/ Runtime(i) \/ Stray(i)
  PROVE  /\ UNCHANGED <<docs, executed, recovery>>
         /\ \A j \in Inv \ {i} :
              /\ journal'[j] = journal[j] /\ request'[j] = request[j] /\ answer'[j] = answer[j]
              /\ local'[j] = local[j] /\ permit'[j] = permit[j] /\ stray'[j] = stray[j]
              /\ sends'[j] = sends[j]
         /\ \A m \in net' : m \in net \/ m.by = i
         /\ request'[i] = request[i] \/ journal[i] = "new"
<1> USE DEF TypeOK, durable, volatile, service, history
<1> DEFINE goal ==
         /\ UNCHANGED <<docs, executed, recovery>>
         /\ \A j \in Inv \ {i} :
              /\ journal'[j] = journal[j] /\ request'[j] = request[j] /\ answer'[j] = answer[j]
              /\ local'[j] = local[j] /\ permit'[j] = permit[j] /\ stray'[j] = stray[j]
              /\ sends'[j] = sends[j]
         /\ \A m \in net' : m \in net \/ m.by = i
         /\ request'[i] = request[i] \/ journal[i] = "new"
<1> SUFFICES goal
  OBVIOUS
<1>1. ASSUME NEW r \in Requests, Enter(i, r) PROVE goal
  BY <1>1 DEF Enter, Record
<1>2. CASE Guard(i)
  BY <1>2 DEF Guard, At, Record, EndWith
<1>3. CASE LookupProceeds(i)
  BY <1>3 DEF LookupProceeds, At, Record
<1>4. CASE LookupAnswers(i)
  BY <1>4 DEF LookupAnswers, At, EndWith, Record
<1>5. CASE Prepare(i)
  BY <1>5 DEF Prepare, At, Record
<1>6. CASE Mark(i)
  BY <1>6 DEF Mark, At, Record
<1>7. CASE Arm(i)
  BY <1>7 DEF Arm, At
<1>8. CASE ArmAcknowledged(i)
  BY <1>8 DEF ArmAcknowledged, Record
<1>9. CASE OpenWrite(i)
  BY <1>9 DEF OpenWrite, At, RecordResult, Record
<1>10. CASE LeadingQuery(i)
  BY <1>10 DEF LeadingQuery, RecordResult, Record
<1>11. CASE Send(i)
  BY <1>11 DEF Send, Transmit
<1>12. CASE ReceiveReply(i)
  BY <1>12 DEF ReceiveReply, RecordResult, Record
<1>13. CASE LoseReply(i)
  BY <1>13 DEF LoseReply, RecordResult, Record
<1>14. CASE Reconcile(i)
  BY <1>14 DEF Reconcile, At
<1>15. CASE Clear(i)
  BY <1>15 DEF Clear, At, Record
<1>16. CASE Return(i)
  BY <1>16 DEF Return, At, EndWith, Record
<1>17. CASE Interrupt(i)
  BY <1>17 DEF Interrupt, LeavesBehind
<1>18. CASE Resume(i)
  BY <1>18 DEF Resume
<1>19. CASE Attempt(i)
  BY <1>19 DEF Attempt
<1>20. CASE Cancel(i)
  BY <1>20 DEF Cancel, EndWith, Record
<1>21. CASE Kill(i)
  BY <1>21 DEF Kill, EndWith, Record, LeavesBehind
<1>22. CASE StrayChecks(i)
  BY <1>22 DEF StrayChecks
<1>23. CASE StraySends(i)
  BY <1>23 DEF StraySends, Transmit
<1>24. CASE StrayEnds(i)
  BY <1>24 DEF StrayEnds
<1> QED
  BY <1>1, <1>2, <1>3, <1>4, <1>5, <1>6, <1>7, <1>8, <1>9, <1>10, <1>11, <1>12, <1>13, <1>14,
     <1>15, <1>16, <1>17, <1>18, <1>19, <1>20, <1>21, <1>22, <1>23, <1>24 DEF Admission,
     ProtectedWrite, Runtime, Stray

\* Only i's own step can make a request of i outstanding.
LEMMA FrameOutstanding ==
  ASSUME TypeOK, NEW i \in Inv, Admission(i) \/ ProtectedWrite(i) \/ Runtime(i) \/ Stray(i),
         NEW j \in Inv \ {i}
  PROVE  /\ Outstanding(j)' => Outstanding(j)
         /\ NothingLeftToReverse(j)' <=> NothingLeftToReverse(j)
BY Frame DEF Outstanding, MaySend, NothingLeftToReverse

-----------------------------------------------------------------------------
(* What the queries prove.                                                 *)

\* A document under the slot's id other than the expected one is i's own.
LEMMA IssuedEvidenceIsTrue ==
  ASSUME TypeOK, SlotAsExpected, NEW i \in Inv, Busy(i), request[i].op = "create",
         NEW n \in DOMAIN docs, IssuedEvidence(request[i], n)
  PROVE  i \in executed
<1> SUFFICES ASSUME i \notin executed PROVE FALSE
  OBVIOUS
<1>1. /\ Own(n, request[i].kind) /\ n # request[i].target
      /\ \A k \in Holders(docs, request[i].kind, 0) : k <= n
  BY DEF IssuedEvidence, Own, ByExternalId, Newest
<1>2. n <= request[i].target /\ n \in Nat \ {0} /\ request[i].target \in Nat
  BY <1>1 DEF SlotAsExpected, TypeOK, Request
<1>3. Own(request[i].target, request[i].kind)
  BY <1>2 DEF SlotAsExpected
<1>4. request[i].target <= n
  BY <1>1, <1>3 DEF Own
<1> QED
  BY <1>1, <1>2, <1>4

\* A verified storno of the target means that it is reversed.
LEMMA VerifiedStornoIsTrue ==
  ASSUME TypeOK, NEW i \in Inv, request[i].op = "storno", NEW c,
         VerifiedStorno(docs, c, request[i].target)
  PROVE  NothingLeftToReverse(i)
BY DEF VerifiedStorno, StornoOriginal, Visible, NothingLeftToReverse

\* Reconciliation's evidence is of a write that is done.
LEMMA PositiveEvidenceIsTrue ==
  ASSUME TypeOK, SlotAsExpected, NEW i \in Inv, Busy(i), NEW result,
         PositiveEvidence(request[i], result)
  PROVE  Done(i)
BY IssuedEvidenceIsTrue, VerifiedStornoIsTrue DEF PositiveEvidence, Done

\* So is an operator's document.
LEMMA DocumentEvidenceIsTrue ==
  ASSUME TypeOK, SlotAsExpected, NEW i \in Inv, Busy(i), NEW n, DocumentEvidence(request[i], n)
  PROVE  Done(i) /\ request[i].op \in {"create", "storno"}
BY IssuedEvidenceIsTrue, VerifiedStornoIsTrue DEF DocumentEvidence, Done

\* Before anything was sent, a leading query can find a storno done, but no
\* document of a create.
LEMMA LeadingResultIsTrue ==
  ASSUME TypeOK, SlotAsExpected, NEW i \in Inv, Busy(i), i \notin executed,
         "executed" \in LeadingResults(request[i])
  PROVE  Done(i)
<1>1. ASSUME request[i].op = "create", request[i].target = 0, NEW n \in DOMAIN docs,
             SeenLive(docs, request[i].kind, n) \/ SeenReversed(docs, request[i].kind, n)
      PROVE  FALSE
  <2>1. Own(n, request[i].kind)
    BY <1>1 DEF SeenLive, SeenReversed, Own, ByExternalId, Newest
  <2> QED BY <1>1, <2>1 DEF SlotAsExpected, TypeOK
<1>2. ASSUME request[i].op = "storno", NEW c, VerifiedStorno(docs, c, request[i].target)
      PROVE  Done(i)
  BY <1>2, VerifiedStornoIsTrue DEF Done
<1> QED
  BY <1>1, <1>2 DEF LeadingResults

-----------------------------------------------------------------------------
(* Results stay true.                                                      *)

\* Only arming makes a request possible.
LEMMA OnlyArmingPermits ==
  ASSUME TypeOK, OnePermission, NEW i \in Inv,
         Admission(i) \/ ProtectedWrite(i) \/ Runtime(i) \/ Stray(i), ~Arm(i), Outstanding(i)'
  PROVE  Outstanding(i)
<1> USE DEF TypeOK, OnePermission, Outstanding, MaySend, durable, volatile, service, history,
            Local, Waiting, Reply
<1>1. ASSUME NEW r \in Requests, Enter(i, r) PROVE Outstanding(i)
  BY <1>1 DEF Enter, Record
<1>2. CASE Guard(i)
  BY <1>2 DEF Guard, At, Record, EndWith
<1>3. CASE LookupProceeds(i)
  BY <1>3 DEF LookupProceeds, At, Record
<1>4. CASE LookupAnswers(i)
  BY <1>4 DEF LookupAnswers, At, EndWith, Record
<1>5. CASE Prepare(i)
  BY <1>5 DEF Prepare, At, Record
<1>6. CASE Mark(i)
  BY <1>6 DEF Mark, At, Record
<1>7. CASE Arm(i)
  BY <1>7
<1>8. CASE ArmAcknowledged(i)
  BY <1>8 DEF ArmAcknowledged, Record
<1>9. CASE OpenWrite(i)
  BY <1>9 DEF OpenWrite, At, RecordResult, Record
<1>10. CASE LeadingQuery(i)
  BY <1>10 DEF LeadingQuery, RecordResult, Record
<1>11. CASE Send(i)
  BY <1>11 DEF Send, Transmit
<1>12. CASE ReceiveReply(i)
  BY <1>12 DEF ReceiveReply, RecordResult, Record
<1>13. CASE LoseReply(i)
  BY <1>13 DEF LoseReply, RecordResult, Record
<1>14. CASE Reconcile(i)
  BY <1>14 DEF Reconcile, At
<1>15. CASE Clear(i)
  BY <1>15 DEF Clear, At, Record
<1>16. CASE Return(i)
  BY <1>16 DEF Return, At, EndWith, Record
<1>17. CASE Interrupt(i)
  BY <1>17 DEF Interrupt, LeavesBehind
<1>18. CASE Resume(i)
  BY <1>18 DEF Resume
<1>19. CASE Attempt(i)
  BY <1>19 DEF Attempt
<1>20. CASE Cancel(i)
  BY <1>20 DEF Cancel, EndWith, Record
<1>21. CASE Kill(i)
  BY <1>21 DEF Kill, EndWith, Record, LeavesBehind
<1>22. CASE StrayChecks(i)
  BY <1>22 DEF StrayChecks
<1>23. CASE StraySends(i)
  BY <1>23 DEF StraySends, Transmit
<1>24. CASE StrayEnds(i)
  BY <1>24 DEF StrayEnds
<1> QED
  BY <1>1, <1>2, <1>3, <1>4, <1>5, <1>6, <1>7, <1>8, <1>9, <1>10, <1>11, <1>12, <1>13, <1>14,
     <1>15, <1>16, <1>17, <1>18, <1>19, <1>20, <1>21, <1>22, <1>23, <1>24 DEF Admission,
     ProtectedWrite, Runtime, Stray

-----------------------------------------------------------------------------
(* Answers and their journaled steps.                                      *)

\* Nothing i asked for has happened or can still happen.
Clean(i) == i \notin executed /\ ~Outstanding(i)

\* The journaled step bounds the answer.
AnswerOfStep(i) ==
  /\ journal[i] \notin {"wrote", "cleared", "ended"} => answer[i] = "none"
  /\ journal[i] = "wrote" => answer[i] \in {"declined", "executed"} \cup Unresolved
  /\ journal[i] = "cleared" => answer[i] \in {"declined", "executed"}

\* A step of i keeps its answer within those bounds.
LEMMA AnswerOfOwnStep ==
  ASSUME TypeOK, NEW i \in Inv, AnswerOfStep(i),
         Admission(i) \/ ProtectedWrite(i) \/ Runtime(i) \/ Stray(i)
  PROVE  AnswerOfStep(i)'
<1> USE DEF TypeOK, AnswerOfStep, Position, Answer, Unresolved, durable, volatile
<1>1. ASSUME NEW r \in Requests, Enter(i, r) PROVE AnswerOfStep(i)'
  BY <1>1 DEF Enter, Record
<1>2. CASE Guard(i)
  BY <1>2 DEF Guard, At, Record, EndWith
<1>3. CASE LookupProceeds(i)
  BY <1>3 DEF LookupProceeds, At, Record
<1>4. CASE LookupAnswers(i)
  BY <1>4 DEF LookupAnswers, At, EndWith, Record
<1>5. CASE Prepare(i)
  BY <1>5 DEF Prepare, At, Record
<1>6. CASE Mark(i)
  BY <1>6 DEF Mark, At, Record
<1>7. CASE Arm(i)
  BY <1>7 DEF Arm, At
<1>8. CASE ArmAcknowledged(i)
  BY <1>8 DEF ArmAcknowledged, Record
<1>9. CASE OpenWrite(i)
  BY <1>9 DEF OpenWrite, At, RecordResult, Record
<1>10. CASE LeadingQuery(i)
  <2>1. LeadingResults(request[i]) \subseteq {"declined", "executed"} \cup Unresolved
    BY DEF LeadingResults
  <2> QED BY <1>10, <2>1 DEF LeadingQuery, RecordResult, Record
<1>11. CASE Send(i)
  BY <1>11 DEF Send, Transmit
<1>12. CASE ReceiveReply(i)
  <2>1. ReplyResults(request[i], local[i]) \subseteq {"declined", "executed"} \cup Unresolved
    BY <1>12 DEF ReceiveReply, ReplyResults, Reply
  <2> QED BY <1>12, <2>1 DEF ReceiveReply, RecordResult, Record
<1>13. CASE LoseReply(i)
  BY <1>13 DEF LoseReply, RecordResult, Record
<1>14. CASE Reconcile(i)
  BY <1>14 DEF Reconcile, At
<1>15. CASE Clear(i)
  BY <1>15 DEF Clear, At, Record
<1>16. CASE Return(i)
  BY <1>16 DEF Return, At, EndWith, Record
<1>17. CASE Interrupt(i)
  BY <1>17 DEF Interrupt, LeavesBehind
<1>18. CASE Resume(i)
  BY <1>18 DEF Resume
<1>19. CASE Attempt(i)
  BY <1>19 DEF Attempt
<1>20. CASE Cancel(i)
  BY <1>20 DEF Cancel, EndWith, Record
<1>21. CASE Kill(i)
  BY <1>21 DEF Kill, EndWith, Record, LeavesBehind
<1>22. CASE StrayChecks(i)
  BY <1>22 DEF StrayChecks
<1>23. CASE StraySends(i)
  BY <1>23 DEF StraySends, Transmit
<1>24. CASE StrayEnds(i)
  BY <1>24 DEF StrayEnds
<1> QED
  BY <1>1, <1>2, <1>3, <1>4, <1>5, <1>6, <1>7, <1>8, <1>9, <1>10, <1>11, <1>12, <1>13, <1>14,
     <1>15, <1>16, <1>17, <1>18, <1>19, <1>20, <1>21, <1>22, <1>23, <1>24 DEF Admission,
     ProtectedWrite, Runtime, Stray

\* What a step of i newly reports is so.
NewReportIsTrue(i) ==
  /\ local'[i] = local[i] \/ local'[i] \notin Reply
  /\ answer'[i] \in {"declined", "cancelled"} => answer'[i] = answer[i] \/ Clean(i)'
  /\ answer'[i] = "executed" => answer'[i] = answer[i] \/ Done(i)

\* Whatever evidence a step of i settles with is true.
LEMMA NewReportOfOwnStep ==
  ASSUME TypeOK, OnePermission, MarkerDiscipline, RequestsDecideOnce, SlotAsExpected, NEW i \in Inv,
         ResultIsTrue(i), Admission(i) \/ ProtectedWrite(i) \/ Runtime(i) \/ Stray(i)
  PROVE  NewReportIsTrue(i)
<1>a. ASSUME journal[i] \in {"new", "entered", "guarded", "looked", "prepared"} 
      PROVE  i \notin executed /\ stray[i] = "none" /\ ~permit[i] /\ \A m \in net : m.by # i
  <2>1. sends[i] = 0 /\ stray[i] = "none" /\ ~permit[i]
    BY <1>a DEF OnePermission
  <2>2. i \notin executed /\ \A m \in net : m.by # i
    BY <2>1 DEF RequestsDecideOnce
  <2> QED BY <2>1, <2>2
<1> USE DEF TypeOK, NewReportIsTrue, Reply, Position, Answer, Unresolved, durable, volatile
<1>1. ASSUME NEW r \in Requests, Enter(i, r) PROVE NewReportIsTrue(i)
  BY <1>1 DEF Enter, Record
<1>2. CASE Guard(i)
  BY <1>2 DEF Guard, At, Record, EndWith
<1>3. CASE LookupProceeds(i)
  BY <1>3 DEF LookupProceeds, At, Record
<1>4. CASE LookupAnswers(i)
  <2>1. answer'[i] = "declined" /\ local'[i] = "none" /\ ~permit'[i] /\ stray'[i] = "none"
        /\ executed' = executed /\ net' = net /\ journal[i] = "guarded"
    BY <1>4, <1>a DEF LookupAnswers, At, EndWith, Record, service, history
  <2>2. Clean(i)'
    BY <2>1, <1>a DEF Clean, Outstanding, MaySend
  <2> QED BY <2>1, <2>2
<1>5. CASE Prepare(i)
  BY <1>5 DEF Prepare, At, Record
<1>6. CASE Mark(i)
  BY <1>6 DEF Mark, At, Record
<1>7. CASE Arm(i)
  BY <1>7 DEF Arm, At
<1>8. CASE ArmAcknowledged(i)
  BY <1>8 DEF ArmAcknowledged, Record
<1>9. CASE OpenWrite(i)
  BY <1>9 DEF OpenWrite, At, RecordResult, Record
<1>10. CASE LeadingQuery(i)
  <2>1. CASE local'[i] = "sending"
    BY <1>10, <2>1 DEF LeadingQuery, RecordResult, Record
  <2>2. CASE local'[i] # "sending"
    <3>1. /\ local[i] = "checking" /\ local'[i] = "idle" /\ answer'[i] \in LeadingResults(request[i])
          /\ UNCHANGED <<permit, stray, net, executed>>
      BY <1>10, <2>2 DEF LeadingQuery, RecordResult, Record, service, history
    <3>2. sends[i] = 0 /\ stray[i] = "none" /\ ~permit[i] /\ journal[i] = "armed"
      BY <3>1 DEF OnePermission
    <3>3. i \notin executed /\ \A m \in net : m.by # i
      BY <3>2 DEF RequestsDecideOnce
    <3>4. Clean(i)'
      BY <3>1, <3>2, <3>3 DEF Clean, Outstanding, MaySend
    <3>5. Busy(i)
      BY <3>2 DEF Busy, Protected
    <3> QED BY <3>1, <3>3, <3>4, <3>5, LeadingResultIsTrue
  <2> QED BY <2>1, <2>2
<1>11. CASE Send(i)
  BY <1>11 DEF Send, Transmit
<1>12. CASE ReceiveReply(i)
  <2>1. /\ local[i] \in Reply /\ local'[i] = "idle" /\ answer'[i] \in ReplyResults(request[i], local[i])
        /\ UNCHANGED <<permit, stray, net, executed>>
    BY <1>12 DEF ReceiveReply, RecordResult, Record, service, history
  <2>2. sends[i] = 1 /\ stray[i] = "none" /\ ~permit[i] /\ \A m \in net : m.by # i
    BY <2>1 DEF OnePermission, RequestsDecideOnce, Waiting
  <2>3. i \notin executed => Clean(i)'
    BY <2>1, <2>2 DEF Clean, Outstanding, MaySend
  <2>4. CASE local[i] = "done"
    BY <2>1, <2>4 DEF ReplyResults, ResultIsTrue
  <2>5. CASE local[i] \in {"echo", "refused"}
    BY <2>1, <2>3, <2>5 DEF ReplyResults, ResultIsTrue
  <2> QED BY <2>1, <2>4, <2>5
<1>13. CASE LoseReply(i)
  BY <1>13 DEF LoseReply, RecordResult, Record
<1>14. CASE Reconcile(i)
  <2>1. Busy(i) /\ PositiveEvidence(request[i], answer[i]) /\ answer'[i] = "executed" /\ local' = local
    BY <1>14 DEF Reconcile, At, Busy, Protected
  <2>2. Done(i)
    BY <2>1, PositiveEvidenceIsTrue
  <2> QED BY <2>1, <2>2
<1>15. CASE Clear(i)
  BY <1>15 DEF Clear, At, Record
<1>16. CASE Return(i)
  BY <1>16 DEF Return, At, EndWith, Record
<1>17. CASE Interrupt(i)
  BY <1>17 DEF Interrupt, LeavesBehind
<1>18. CASE Resume(i)
  BY <1>18 DEF Resume
<1>19. CASE Attempt(i)
  BY <1>19 DEF Attempt
<1>20. CASE Cancel(i)
  <2>1. /\ local'[i] = "none" /\ ~permit'[i] /\ stray' = stray /\ executed' = executed /\ net' = net
        /\ \/ answer'[i] = "outcome_unknown"
           \/ answer'[i] = "cancelled" /\ journal[i] \in {"entered", "guarded", "looked"}
    BY <1>20 DEF Cancel, EndWith, Record, service, history
  <2>2. ASSUME answer'[i] = "cancelled" PROVE Clean(i)'
    BY <2>1, <2>2, <1>a DEF Clean, Outstanding, MaySend
  <2> QED BY <2>1, <2>2
<1>21. CASE Kill(i)
  BY <1>21 DEF Kill, EndWith, Record, LeavesBehind
<1>22. CASE StrayChecks(i)
  BY <1>22 DEF StrayChecks
<1>23. CASE StraySends(i)
  BY <1>23 DEF StraySends, Transmit
<1>24. CASE StrayEnds(i)
  BY <1>24 DEF StrayEnds
<1> QED
  BY <1>1, <1>2, <1>3, <1>4, <1>5, <1>6, <1>7, <1>8, <1>9, <1>10, <1>11, <1>12, <1>13, <1>14,
     <1>15, <1>16, <1>17, <1>18, <1>19, <1>20, <1>21, <1>22, <1>23, <1>24 DEF Admission,
     ProtectedWrite, Runtime, Stray

\* Only entering sets a request.
LEMMA OnlyEntryAsks ==
  ASSUME NEW i \in Inv, Admission(i) \/ ProtectedWrite(i) \/ Runtime(i) \/ Stray(i),
         request' # request
  PROVE  \E r \in Requests : Enter(i, r)
BY DEF Admission, ProtectedWrite, Runtime, Stray, Guard, LookupProceeds, LookupAnswers, Prepare,
   Mark,
       Arm, ArmAcknowledged, OpenWrite, LeadingQuery, Send, ReceiveReply, LoseReply, Reconcile, Clear,
       Return, Interrupt, Resume, Attempt, Cancel, Kill, StrayChecks, StraySends, StrayEnds, durable

\* A step of i leaves what i reported true.
LEMMA ResultOfOwnStep ==
  ASSUME TypeOK, OnePermission, MarkerDiscipline, RequestsDecideOnce, SlotAsExpected, NEW i \in Inv,
         ResultIsTrue(i), Admission(i) \/ ProtectedWrite(i) \/ Runtime(i) \/ Stray(i)
  PROVE  ResultIsTrue(i)'
<1>1. NewReportIsTrue(i)
  BY NewReportOfOwnStep
<1>2. AnswerOfStep(i)'
  BY AnswerOfOwnStep DEF ResultIsTrue, AnswerOfStep
<1>3. UNCHANGED <<docs, executed>> /\ (request'[i] = request[i] \/ journal[i] = "new")
  BY Frame
<1>4. CASE request'[i] # request[i]
  <2>1. journal[i] = "new" /\ answer[i] = "none"
    BY <1>3, <1>4 DEF ResultIsTrue
  <2>2. PICK r \in Requests : Enter(i, r)
    BY <1>4, OnlyEntryAsks
  <2>3. answer' = answer /\ local'[i] = "idle"
    BY <2>2 DEF Enter, TypeOK
  <2> QED BY <1>2, <2>1, <2>3 DEF ResultIsTrue, AnswerOfStep, Reply
<1>5. CASE request'[i] = request[i]
  <2>1. Done(i)' <=> Done(i)
    BY <1>3, <1>5 DEF Done, NothingLeftToReverse
  <2>2. CASE Arm(i)
    <3>1. answer'[i] = "none" /\ local'[i] = "arming"
      BY <2>2 DEF Arm, At, ResultIsTrue, TypeOK, durable
    <3> QED BY <1>2, <3>1 DEF ResultIsTrue, AnswerOfStep
  <2>3. CASE ~Arm(i)
    <3>1. Clean(i) => Clean(i)'
      BY <1>3, <2>3, OnlyArmingPermits DEF Clean
    <3>2. answer'[i] \in {"declined", "cancelled"} => Clean(i)'
      BY <1>1, <3>1 DEF NewReportIsTrue, ResultIsTrue, Clean
    <3> QED
      BY <1>1, <1>2, <1>3, <2>1, <3>2 DEF ResultIsTrue, NewReportIsTrue, AnswerOfStep, Clean, Reply
  <2> QED BY <2>2, <2>3
<1> QED BY <1>3, <1>4, <1>5

-----------------------------------------------------------------------------
(* What each kind of step leaves alone.                                    *)

\* A step of i stores its own marker where none was, clears it, or leaves the
\* marker alone.
LEMMA MarkerOfOwnStep ==
  ASSUME MarkerDiscipline, NEW i \in Inv,
         Admission(i) \/ ProtectedWrite(i) \/ Runtime(i) \/ Stray(i)
  PROVE  \/ marker' = marker
         \/ Mark(i) /\ marker = NoInv /\ marker' = i
         \/ Clear(i) /\ marker = i /\ marker' = NoInv
<1>1. CASE Mark(i)
  BY <1>1 DEF Mark, At, MarkerDiscipline
<1>2. CASE Clear(i)
  BY <1>2 DEF Clear, At, MarkerDiscipline, Protected
<1> QED
  BY <1>1, <1>2 DEF Admission, ProtectedWrite, Runtime, Stray, Enter, Guard, LookupProceeds,
     LookupAnswers, Prepare, Arm, ArmAcknowledged, OpenWrite, LeadingQuery, Send, ReceiveReply,
     LoseReply, Reconcile, Return, Interrupt, Resume, Attempt, Cancel, Kill, StrayChecks, StraySends,
     StrayEnds, durable

\* Invocation i has been let through to its write, and it may matter still.
Engaged(i) == Busy(i) \/ sends[i] > 0 \/ MaySend(i)

\* The lookup alone lets an invocation through.
LEMMA OnlyLookupEngages ==
  ASSUME TypeOK, OnePermission, MarkerDiscipline, NEW i \in Inv,
         Admission(i) \/ ProtectedWrite(i) \/ Runtime(i) \/ Stray(i), ~LookupProceeds(i)
  PROVE  (Busy(i)' => Busy(i)) /\ (Engaged(i)' => Engaged(i))
<1> DEFINE goal == (Busy(i)' => Busy(i)) /\ (Engaged(i)' => Engaged(i))
<1> SUFFICES goal
  OBVIOUS
<1> USE DistinctActors
    DEF TypeOK, OnePermission, MarkerDiscipline, Engaged, Busy, MaySend, Protected, Position, Local,
        Waiting, Reply, durable, volatile, service, history
<1>1. ASSUME NEW r \in Requests, Enter(i, r) PROVE goal
  BY <1>1 DEF Enter, Record
<1>2. CASE Guard(i)
  BY <1>2 DEF Guard, At, Record, EndWith
<1>3. CASE LookupProceeds(i)
  BY <1>3
<1>4. CASE LookupAnswers(i)
  BY <1>4 DEF LookupAnswers, At, EndWith, Record
<1>5. CASE Prepare(i)
  BY <1>5 DEF Prepare, At, Record
<1>6. CASE Mark(i)
  BY <1>6 DEF Mark, At, Record
<1>7. CASE Arm(i)
  BY <1>7 DEF Arm, At
<1>8. CASE ArmAcknowledged(i)
  BY <1>8 DEF ArmAcknowledged, Record
<1>9. CASE OpenWrite(i)
  BY <1>9 DEF OpenWrite, At, RecordResult, Record
<1>10. CASE LeadingQuery(i)
  BY <1>10 DEF LeadingQuery, RecordResult, Record
<1>11. CASE Send(i)
  BY <1>11 DEF Send, Transmit
<1>12. CASE ReceiveReply(i)
  BY <1>12 DEF ReceiveReply, RecordResult, Record
<1>13. CASE LoseReply(i)
  BY <1>13 DEF LoseReply, RecordResult, Record
<1>14. CASE Reconcile(i)
  BY <1>14 DEF Reconcile, At
<1>15. CASE Clear(i)
  BY <1>15 DEF Clear, At, Record
<1>16. CASE Return(i)
  BY <1>16 DEF Return, At, EndWith, Record
<1>17. CASE Interrupt(i)
  BY <1>17 DEF Interrupt, LeavesBehind
<1>18. CASE Resume(i)
  BY <1>18 DEF Resume
<1>19. CASE Attempt(i)
  BY <1>19 DEF Attempt
<1>20. CASE Cancel(i)
  BY <1>20 DEF Cancel, EndWith, Record
<1>21. CASE Kill(i)
  BY <1>21 DEF Kill, EndWith, Record, LeavesBehind
<1>22. CASE StrayChecks(i)
  BY <1>22 DEF StrayChecks
<1>23. CASE StraySends(i)
  BY <1>23 DEF StraySends, Transmit
<1>24. CASE StrayEnds(i)
  BY <1>24 DEF StrayEnds
<1> QED
  BY <1>1, <1>2, <1>3, <1>4, <1>5, <1>6, <1>7, <1>8, <1>9, <1>10, <1>11, <1>12, <1>13, <1>14,
     <1>15, <1>16, <1>17, <1>18, <1>19, <1>20, <1>21, <1>22, <1>23, <1>24 DEF Admission,
     ProtectedWrite, Runtime, Stray

\* Documents that are kept stay reversed.
LEMMA ReversalsKept ==
  ASSUME Kept(docs, docs'), NEW i \in Inv, request'[i] = request[i], NothingLeftToReverse(i)
  PROVE  NothingLeftToReverse(i)'
BY DEF Kept, NothingLeftToReverse

\* Reversing reverses.
LEMMA ReverseReverses ==
  ASSUME NEW d \in Docs, NEW n \in DOMAIN d, NEW by
  PROVE  n \in DOMAIN Reverse(d, n, TRUE, by) /\ Reverse(d, n, TRUE, by)[n].reversed
BY DEF Docs, Document, Reverse

\* A step of the service decides on one request and adds to what is done.
LEMMA ServiceFrame ==
  ASSUME TypeOK, RequestsDecideOnce, TargetsOfTheirKind, NEW m \in net,
         Execute(m) \/ Refuse(m) \/ Drop(m)
  PROVE  /\ m.by \in Inv /\ m.by \notin executed
         /\ UNCHANGED <<lock, marker, journal, request, answer, permit, stray, recovery, sends>>
         /\ net' = net \ {m}
         /\ executed' = executed \/ executed' = executed \cup {m.by}
         /\ Kept(docs, docs')
         /\ \A j \in Inv :
              \/ local'[j] = local[j]
              \/ /\ j = m.by /\ local[j] = "waiting" /\ local'[j] \in Reply
                 /\ local'[j] = "done" => Done(j)'
                 /\ local'[j] # "done" => executed' = executed
<1>1. m.by \in Inv /\ m.by \notin executed /\ docs \in Docs /\ request[m.by] \in Request
  BY DEF TypeOK, RequestsDecideOnce, Docs
<1>2. UNCHANGED <<lock, marker, journal, request, answer, permit, stray, recovery, sends>>
  BY DEF Execute, Refuse, Drop, durable, volatile, history
<1>3. \A message : Answered(m, message) =>
        /\ net' = net \ {m}
        /\ \A j \in Inv : \/ local'[j] = local[j]
                          \/ j = m.by /\ local[j] = "waiting" /\ local'[j] = message
  BY <1>1 DEF Answered, TypeOK
<1>4. CASE Execute(m)
  <2>1. Kept(docs, docs')
    BY <1>4, ExecuteDocs
  <2>2. Answered(m, "done") /\ (executed' = executed \/ executed' = executed \cup {m.by})
    BY <1>4 DEF Execute
  <2>3. Done(m.by)'
    <3>1. CASE request[m.by].op # "storno"
      <4>1. executed' = executed \cup {m.by}
        BY <1>4, <3>1 DEF Execute
      <4> QED BY <1>1, <1>2, <3>1, <4>1 DEF Done
    <3>2. CASE request[m.by].op = "storno"
      <4> DEFINE t == request[m.by].target
      <4>1. \/ t \in Visible(docs) /\ docs' = Reverse(docs, t, TRUE, m.by)
            \/ t \in Visible(docs) /\ docs[t].reversed /\ docs' = docs
        BY <1>4, <3>2 DEF Execute
      <4>2. t \in DOMAIN docs /\ docs[t].kind \in StornoableKind
        BY <4>1, <1>1, <3>2 DEF TargetsOfTheirKind, RequestsDecideOnce, Visible
      <4>3. t \in DOMAIN docs' /\ docs'[t].reversed
        BY <4>1, <4>2, <1>1, ReverseReverses
      <4> QED BY <1>2, <3>2, <4>3 DEF Done, NothingLeftToReverse
    <3> QED BY <3>1, <3>2
  <2> QED BY <1>1, <1>2, <1>3, <2>1, <2>2, <2>3 DEF Reply
<1>5. CASE Refuse(m)
  <2>1. (Answered(m, "refused") \/ Answered(m, "echo")) /\ UNCHANGED <<docs, executed>>
    BY <1>5 DEF Refuse, history
  <2>2. Kept(docs, docs')
    BY <1>1, <2>1, SameKeeps
  <2> QED BY <1>1, <1>2, <1>3, <2>1, <2>2 DEF Reply
<1>6. CASE Drop(m)
  <2>1. net' = net \ {m} /\ UNCHANGED <<docs, executed, local>>
    BY <1>6 DEF Drop, volatile, history
  <2>2. Kept(docs, docs')
    BY <1>1, <2>1, SameKeeps
  <2> QED BY <1>1, <1>2, <2>1, <2>2
<1> QED BY <1>4, <1>5, <1>6

\* recover and outsiders touch no invocation, and every document is kept.
LEMMA OthersFrame ==
  ASSUME TypeOK, Recover \/ Outside \/ UNCHANGED vars
  PROVE  /\ UNCHANGED <<journal, request, answer, local, permit, stray, net, sends, executed>>
         /\ Kept(docs, docs') /\ NoNewOwn(docs, docs')
         /\ Outside \/ UNCHANGED vars => UNCHANGED <<lock, marker, recovery>>
<1>1. CASE Recover \/ UNCHANGED vars
  <2>1. docs' = docs /\ docs \in Docs
    BY <1>1, DocsUnchanged DEF TypeOK, Docs
  <2>2. UNCHANGED <<journal, request, answer, local, permit, stray, net, sends, executed>>
    BY <1>1 DEF Recover, SubmitRecovery, EnterRecovery, RecordRecovery, RefuseRecovery,
       FinishRecovery, AbandonRecovery, vars, durable, volatile, service, history
  <2>3. UNCHANGED vars => UNCHANGED <<lock, marker, recovery>>
    BY DEF vars, durable
  <2>4. Outside => UNCHANGED <<lock, marker, recovery>>
    BY OutsideDocs DEF durable
  <2> QED BY <2>1, <2>2, <2>3, <2>4, SameKeeps
<1>2. CASE Outside
  BY <1>2, OutsideDocs DEF durable, volatile, history
<1> QED BY <1>1, <1>2

-----------------------------------------------------------------------------
(* Results stay true.                                                      *)

\* A step of an invocation leaves every report true.
LEMMA ResultsInvocation ==
  ASSUME TypeOK, OnePermission, MarkerDiscipline, RequestsDecideOnce, SlotAsExpected, ResultsAreTrue,
         NEW i \in Inv, Admission(i) \/ ProtectedWrite(i) \/ Runtime(i) \/ Stray(i)
  PROVE  ResultsAreTrue'
<1>1. ResultIsTrue(i)'
  BY ResultOfOwnStep DEF ResultsAreTrue
<1>2. ASSUME NEW j \in Inv \ {i} PROVE ResultIsTrue(j)'
  <2>1. /\ journal'[j] = journal[j] /\ request'[j] = request[j] /\ answer'[j] = answer[j]
        /\ local'[j] = local[j] /\ executed' = executed
    BY <1>2, Frame
  <2>2. (Outstanding(j)' => Outstanding(j)) /\ (NothingLeftToReverse(j)' <=> NothingLeftToReverse(j))
    BY <1>2, FrameOutstanding
  <2>3. Done(j)' <=> Done(j)
    BY <2>1, <2>2 DEF Done
  <2> QED BY <2>1, <2>2, <2>3 DEF ResultsAreTrue, ResultIsTrue
<1> QED BY <1>1, <1>2 DEF ResultsAreTrue

\* So does a decision of the service: a request that is still to be decided
\* was never reported as declined, and what is done stays done.
LEMMA ResultsService ==
  ASSUME TypeOK, RequestsDecideOnce, TargetsOfTheirKind, ResultsAreTrue, NEW m \in net,
         Execute(m) \/ Refuse(m) \/ Drop(m)
  PROVE  ResultsAreTrue'
<1> SUFFICES ASSUME NEW j \in Inv PROVE ResultIsTrue(j)'
  BY DEF ResultsAreTrue
<1>1. /\ m.by \in Inv /\ m.by \notin executed
      /\ UNCHANGED <<journal, request, answer, permit, stray>>
      /\ net' = net \ {m}
      /\ executed' = executed \/ executed' = executed \cup {m.by}
      /\ Kept(docs, docs')
      /\ \/ local'[j] = local[j]
         \/ /\ j = m.by /\ local[j] = "waiting" /\ local'[j] \in Reply
            /\ local'[j] = "done" => Done(j)'
            /\ local'[j] # "done" => executed' = executed
  BY ServiceFrame
<1>2. Done(j) => Done(j)'
  BY <1>1, ReversalsKept DEF Done
<1>3. Outstanding(j)' => Outstanding(j)
  BY <1>1 DEF Outstanding, MaySend, Reply
<1>4. ResultIsTrue(j)
  BY DEF ResultsAreTrue
<1>5. ASSUME answer[j] \in {"declined", "cancelled"} PROVE j \notin executed' /\ ~Outstanding(j)'
  <2>1. j \notin executed /\ ~Outstanding(j)
    BY <1>4, <1>5 DEF ResultIsTrue
  <2>2. j # m.by
    BY <2>1 DEF Outstanding
  <2> QED BY <1>1, <1>3, <2>1, <2>2
<1>6. ASSUME local'[j] \in {"echo", "refused"} PROVE j \notin executed'
  <2>1. CASE local'[j] = local[j]
    <3>1. j # m.by
      BY <1>6, <2>1 DEF RequestsDecideOnce, Reply
    <3> QED BY <1>1, <1>4, <1>6, <2>1, <3>1 DEF ResultIsTrue
  <2>2. CASE local'[j] # local[j]
    BY <1>1, <1>6, <2>2
  <2> QED BY <2>1, <2>2
<1>7. local'[j] = "done" => Done(j)'
  BY <1>1, <1>2, <1>4 DEF ResultIsTrue
<1> QED BY <1>1, <1>2, <1>4, <1>5, <1>6, <1>7 DEF ResultIsTrue

\* Outside changes and recover touch no report.
LEMMA ResultsOthers ==
  ASSUME TypeOK, ResultsAreTrue, Recover \/ Outside \/ UNCHANGED vars
  PROVE  ResultsAreTrue'
<1> SUFFICES ASSUME NEW j \in Inv PROVE ResultIsTrue(j)'
  BY DEF ResultsAreTrue
<1>1. UNCHANGED <<journal, request, answer, local, permit, stray, net, executed>> /\ Kept(docs, docs')
  BY OthersFrame
<1>2. Done(j) => Done(j)'
  BY <1>1, ReversalsKept DEF Done
<1>3. Outstanding(j)' <=> Outstanding(j)
  BY <1>1 DEF Outstanding, MaySend
<1> QED BY <1>1, <1>2, <1>3 DEF ResultsAreTrue, ResultIsTrue

-----------------------------------------------------------------------------
(* Uncertainty stays marked.                                               *)

\* An invocation whose request took effect has no other.
LEMMA ExecutedIsOver ==
  ASSUME TypeOK, OnePermission, RequestsDecideOnce, NEW i \in Inv, i \in executed
  PROVE  ~Outstanding(i)
<1>1. sends[i] = 1
  BY DEF RequestsDecideOnce
<1>2. ~MaySend(i)
  BY <1>1 DEF MaySend, OnePermission, TypeOK
<1> QED BY <1>2 DEF Outstanding, RequestsDecideOnce

\* A step of an invocation: it arms under its own marker and clears the marker
\* once nothing can happen any more.
LEMMA MarkedInvocation ==
  ASSUME TypeOK, OnePermission, MarkerDiscipline, RequestsDecideOnce, ResultsAreTrue,
         UncertaintyIsMarked, NEW i \in Inv,
         Admission(i) \/ ProtectedWrite(i) \/ Runtime(i) \/ Stray(i)
  PROVE  UncertaintyIsMarked'
<1>1. \/ marker' = marker
      \/ Mark(i) /\ marker = NoInv /\ marker' = i
      \/ Clear(i) /\ marker = i /\ marker' = NoInv
  BY MarkerOfOwnStep
<1>2. ASSUME NEW j \in Inv \ {i}, Outstanding(j)' PROVE marker' = j \/ NothingLeftToReverse(j)'
  <2>1. Outstanding(j) /\ (NothingLeftToReverse(j)' <=> NothingLeftToReverse(j))
    BY <1>2, FrameOutstanding
  <2>2. marker = j \/ NothingLeftToReverse(j)
    BY <2>1 DEF UncertaintyIsMarked
  <2> QED BY <1>1, <1>2, <2>1, <2>2, DistinctActors
<1>3. ASSUME Outstanding(i)' PROVE marker' = i \/ NothingLeftToReverse(i)'
  <2>1. CASE Arm(i)
    BY <2>1 DEF Arm, At, MarkerDiscipline, Protected, durable
  <2>2. CASE ~Arm(i)
    <3>1. Outstanding(i)
      BY <1>3, <2>2, OnlyArmingPermits
    <3>2. marker = i \/ NothingLeftToReverse(i)
      BY <3>1 DEF UncertaintyIsMarked
    <3>3. NothingLeftToReverse(i) => NothingLeftToReverse(i)'
      <4>1. journal[i] # "new"
        BY <3>1 DEF Outstanding, MaySend, OnePermission, RequestsDecideOnce, TypeOK
      <4>2. UNCHANGED docs /\ request'[i] = request[i]
        BY <4>1, Frame
      <4> QED BY <4>2 DEF NothingLeftToReverse
    <3>4. CASE Clear(i)
      <4>1. answer[i] \in {"declined", "executed"}
        BY <3>4 DEF Clear, At, ResultsAreTrue, ResultIsTrue
      <4>2. i \notin executed
        BY <3>1, ExecutedIsOver
      <4>3. NothingLeftToReverse(i)
        BY <3>1, <4>1, <4>2 DEF ResultsAreTrue, ResultIsTrue, Done
      <4> QED BY <3>3, <4>3
    <3> QED BY <1>1, <3>2, <3>3, <3>4
  <2> QED BY <2>1, <2>2
<1> QED BY <1>2, <1>3 DEF UncertaintyIsMarked

\* The service and outsiders leave nothing more outstanding.
LEMMA MarkedService ==
  ASSUME TypeOK, RequestsDecideOnce, TargetsOfTheirKind, UncertaintyIsMarked,
         Service \/ Outside \/ UNCHANGED vars
  PROVE  UncertaintyIsMarked'
<1> SUFFICES ASSUME NEW j \in Inv, Outstanding(j)'
             PROVE  marker' = j \/ NothingLeftToReverse(j)'
  BY DEF UncertaintyIsMarked
<1>1. Outstanding(j) /\ UNCHANGED <<marker, request>> /\ Kept(docs, docs')
  <2>1. CASE Service
    <3>1. PICK m \in net : Execute(m) \/ Refuse(m) \/ Drop(m)
      BY <2>1 DEF Service
    <3>2. /\ UNCHANGED <<marker, request, permit, stray>> /\ net' = net \ {m} /\ Kept(docs, docs')
          /\ local'[j] = local[j] \/ local'[j] \in Reply
      BY <3>1, ServiceFrame
    <3> QED BY <3>2 DEF Outstanding, MaySend, Reply
  <2>2. CASE Outside \/ UNCHANGED vars
    <3>1. UNCHANGED <<marker, request, local, permit, stray, net>> /\ Kept(docs, docs')
      BY <2>2, OthersFrame
    <3> QED BY <3>1 DEF Outstanding, MaySend
  <2> QED BY <2>1, <2>2
<1> QED BY <1>1, ReversalsKept DEF UncertaintyIsMarked

\* recover clears the marker only of a write that cannot happen any more.
LEMMA MarkedRecover ==
  ASSUME TypeOK, OnePermission, MarkerDiscipline, RequestsDecideOnce, RecoveryIsJustified,
         UncertaintyIsMarked, Recover
  PROVE  UncertaintyIsMarked'
<1>1. UNCHANGED <<journal, request, local, permit, stray, net, docs>>
  BY DEF Recover, SubmitRecovery, EnterRecovery, RecordRecovery, RefuseRecovery, FinishRecovery,
         AbandonRecovery, durable, volatile, service
<1>2. \A j \in Inv : /\ Outstanding(j)' <=> Outstanding(j)
                     /\ NothingLeftToReverse(j)' <=> NothingLeftToReverse(j)
  BY <1>1 DEF Outstanding, MaySend, NothingLeftToReverse
<1>3. CASE marker' = marker
  BY <1>2, <1>3 DEF UncertaintyIsMarked
<1>4. CASE marker' # marker
  <2>1. recovery.pc = "recorded" /\ marker' = NoInv
    BY <1>4 DEF Recover, SubmitRecovery, EnterRecovery, RecordRecovery, RefuseRecovery,
                FinishRecovery, AbandonRecovery, durable
  <2> DEFINE t == recovery.token
  <2>2. marker = t /\ t \in Inv
    BY <2>1 DEF MarkerDiscipline, TypeOK, Recovery
  <2>3. Outstanding(t) => NothingLeftToReverse(t)
    <3>1. CASE CannotExecuteLater(t)
      <4>1. ~MaySend(t)
        BY <2>2, <3>1 DEF CannotExecuteLater, MaySend, OnePermission
      <4> QED BY <3>1, <4>1 DEF CannotExecuteLater, Outstanding
    <3>2. CASE t \in executed
      BY <2>2, <3>2, ExecutedIsOver
    <3> QED BY <2>1, <3>1, <3>2 DEF RecoveryIsJustified
  <2> QED BY <1>2, <2>2, <2>3 DEF UncertaintyIsMarked
<1> QED BY <1>3, <1>4

-----------------------------------------------------------------------------
(* Slots and documents.                                                    *)

\* The slot of i as its lookup saw it.
Slot(i) ==
  /\ \A n \in DOMAIN docs : Own(n, request[i].kind) => n <= request[i].target /\ docs[n].reversed
  /\ request[i].target # 0 => /\ request[i].target \in DOMAIN docs
                              /\ Own(request[i].target, request[i].kind)

\* A lookup that proceeds has seen the slot as expected.
LEMMA LookupSeesSlot ==
  ASSUME TypeOK, DocumentsInOrder, NEW i \in Inv, request[i].op = "create", Admissible(request[i])
  PROVE  Slot(i)
<1> DEFINE k == request[i].kind
           t == request[i].target
<1>1. k \in IssuedKind /\ t \in Nat /\ TargetAsExpected(docs, k, t)
  BY DEF TypeOK, Request, Admissible
<1>2. CASE t = 0
  <2>1. Holders(docs, k, 0) = {}
    BY <1>1, <1>2 DEF TargetAsExpected, SeenAbsent
  <2> QED BY <1>2, <2>1 DEF Slot, Own
<1>3. CASE t # 0
  <2>1. /\ t \in Holders(docs, k, 0) /\ docs[t].order /\ docs[t].reversed
        /\ \A n \in Holders(docs, k, 0) : n <= t
    BY <1>1, <1>3 DEF TargetAsExpected, SeenReversed, ByExternalId, Newest
  <2>2. t \in DOMAIN docs /\ Own(t, k)
    BY <2>1 DEF Own, Holders, Visible
  <2>3. ASSUME NEW n \in DOMAIN docs, Own(n, k) PROVE n <= t /\ docs[n].reversed
    <3>1. n <= t /\ n \in Nat
      BY <2>1, <2>3 DEF Own, TypeOK
    <3>2. CASE n = t
      BY <2>1, <3>1, <3>2
    <3>3. CASE n < t
      BY <1>1, <2>2, <2>3, <3>1, <3>3 DEF DocumentsInOrder
    <3> QED BY <1>1, <3>1, <3>2, <3>3
  <2> QED BY <2>2, <2>3 DEF Slot
<1> QED BY <1>2, <1>3

\* A document that is kept is the order's own only if it was.
LEMMA OwnKept ==
  ASSUME Kept(docs, docs'), NEW n \in DOMAIN docs, NEW kind
  PROVE  /\ Own(n, kind)' => Own(n, kind)
         /\ Own(n, kind) /\ docs[n].kind # "proforma" => Own(n, kind)'
BY DEF Kept, Own, Holders, Visible

\* Without new own documents a slot stays as it is.
LEMMA SlotKept ==
  ASSUME TypeOK, DocumentsInOrder, Kept(docs, docs'), NoNewOwn(docs, docs'), NEW i \in Inv,
         request'[i] = request[i], request[i].op = "create", Slot(i)
  PROVE  Slot(i)'
<1> DEFINE k == request[i].kind
           t == request[i].target
<1>1. k \in IssuedKind /\ DOMAIN docs \subseteq DOMAIN docs'
  BY DEF TypeOK, Request, Kept
<1>2. ASSUME NEW n \in DOMAIN docs', Own(n, k)' PROVE n <= t /\ docs'[n].reversed
  <2>1. n \in DOMAIN docs
    BY <1>1, <1>2 DEF NoNewOwn, Own, Holders, Visible
  <2>2. Own(n, k)
    BY <1>2, <2>1, OwnKept
  <2>3. n <= t /\ docs[n].reversed
    BY <2>1, <2>2 DEF Slot
  <2> QED BY <2>1, <2>3 DEF Kept
<1>3. ASSUME t # 0 PROVE t \in DOMAIN docs' /\ Own(t, k)'
  <2>1. t \in DOMAIN docs /\ Own(t, k) /\ docs[t].reversed
    BY <1>3 DEF Slot
  <2>2. docs[t].kind # "proforma"
    BY <2>1 DEF DocumentsInOrder, StornoableKind, InvoiceFamily
  <2> QED BY <1>1, <2>1, <2>2, OwnKept
<1> QED BY <1>2, <1>3 DEF Slot

\* SlotAsExpected, said with Slot.
LEMMA SlotAsExpectedIs ==
  SlotAsExpected <=>
    \A i \in Inv : Busy(i) /\ request[i].op = "create" /\ i \notin executed => Slot(i)
BY DEF SlotAsExpected, Slot

\* A step of an invocation.
LEMMA SlotInvocation ==
  ASSUME TypeOK, OnePermission, MarkerDiscipline, DocumentsInOrder, SlotAsExpected, NEW i \in Inv,
         Admission(i) \/ ProtectedWrite(i) \/ Runtime(i) \/ Stray(i)
  PROVE  SlotAsExpected'
<1> SUFFICES ASSUME NEW j \in Inv, Busy(j)', request'[j].op = "create", j \notin executed'
             PROVE  Slot(j)'
  BY DEF SlotAsExpected, Slot
<1>1. UNCHANGED <<docs, executed>>
  BY Frame
<1>2. CASE j # i
  <2>1. request'[j] = request[j] /\ journal'[j] = journal[j]
    BY <1>2, Frame
  <2>2. Busy(j)
    BY <1>2, <2>1, MarkerOfOwnStep, DistinctActors DEF Busy
  <2>3. Slot(j)
    BY <1>1, <2>1, <2>2, SlotAsExpectedIs
  <2> QED BY <1>1, <2>1, <2>3 DEF Slot, Own, Holders, Visible
<1>3. CASE j = i
  <2>1. CASE LookupProceeds(i)
    <3>1. request' = request /\ Admissible(request[i])
      BY <2>1 DEF LookupProceeds
    <3>2. Slot(i)
      BY <1>3, <3>1, LookupSeesSlot
    <3> QED BY <1>1, <1>3, <3>1, <3>2 DEF Slot, Own, Holders, Visible
  <2>2. CASE ~LookupProceeds(i)
    <3>1. Busy(i)
      BY <1>3, <2>2, OnlyLookupEngages
    <3>2. request'[i] = request[i]
      BY <3>1, Frame DEF Busy, MarkerDiscipline, Protected
    <3>3. Slot(i)
      BY <1>1, <1>3, <3>1, <3>2, SlotAsExpectedIs
    <3> QED BY <1>1, <1>3, <3>2, <3>3 DEF Slot, Own, Holders, Visible
  <2> QED BY <2>1, <2>2
<1> QED BY <1>2, <1>3

\* A step that adds no own document and makes nobody busy.
LEMMA SlotOthers ==
  ASSUME TypeOK, MarkerDiscipline, DocumentsInOrder, SlotAsExpected,
         Kept(docs, docs'), NoNewOwn(docs, docs'), UNCHANGED <<journal, request>>,
         marker' \in {marker, NoInv}, executed \subseteq executed'
  PROVE  SlotAsExpected'
<1> SUFFICES ASSUME NEW j \in Inv, Busy(j)', request'[j].op = "create", j \notin executed'
             PROVE  Slot(j)'
  BY DEF SlotAsExpected, Slot
<1>1. Busy(j)
  BY DistinctActors DEF Busy
<1>2. Slot(j)
  BY <1>1, SlotAsExpectedIs
<1> QED BY <1>2, SlotKept

\* A request that issues does so under its own marker: no other invocation is
\* past its lookup, and the slot is as this one expects it.
LEMMA IssuerIsAlone ==
  ASSUME TypeOK, MarkerDiscipline, RequestsDecideOnce, UncertaintyIsMarked, SlotAsExpected,
         NEW m \in net, request[m.by].op = "create"
  PROVE  /\ m.by \in Inv /\ marker = m.by /\ Slot(m.by)
         /\ \A j \in Inv : Busy(j) => j = m.by
<1>1. m.by \in Inv /\ m.by \notin executed
  BY DEF TypeOK, RequestsDecideOnce
<1>2. Outstanding(m.by)
  BY DEF Outstanding
<1>3. marker = m.by
  BY <1>1, <1>2 DEF UncertaintyIsMarked, NothingLeftToReverse
<1>4. ASSUME NEW j \in Inv, Busy(j) PROVE j = m.by
  BY <1>1, <1>3, <1>4, DistinctActors DEF Busy, MarkerDiscipline, Protected
<1>5. Slot(m.by)
  BY <1>1, <1>3, SlotAsExpectedIs DEF Busy
<1> QED BY <1>1, <1>3, <1>4, <1>5

\* A decision of the service.
LEMMA SlotService ==
  ASSUME TypeOK, MarkerDiscipline, RequestsDecideOnce, UncertaintyIsMarked, TargetsOfTheirKind,
         DocumentsInOrder, SlotAsExpected, NEW m \in net, Execute(m) \/ Refuse(m) \/ Drop(m)
  PROVE  SlotAsExpected'
<1>1. /\ UNCHANGED <<journal, request, marker>> /\ executed \subseteq executed' /\ m.by \in Inv
  BY ServiceFrame
<1>2. CASE Execute(m) /\ request[m.by].op = "create"
  <2>1. executed' = executed \cup {m.by}
    BY <1>2, ExecuteDocs
  <2>2. \A j \in Inv : Busy(j) => j = m.by
    BY <1>2, IssuerIsAlone
  <2>3. \A j \in Inv : Busy(j)' => j \in executed'
    BY <1>1, <2>1, <2>2 DEF Busy
  <2> QED BY <2>3 DEF SlotAsExpected
<1>3. CASE Execute(m) /\ request[m.by].op # "create"
  BY <1>1, <1>3, ExecuteDocs, SlotOthers
<1>4. CASE Refuse(m) \/ Drop(m)
  <2>1. docs' = docs /\ docs \in Docs
    BY <1>4 DEF Refuse, Drop, TypeOK, Docs
  <2> QED BY <1>1, <2>1, SameKeeps, SlotOthers
<1> QED BY <1>2, <1>3, <1>4

-----------------------------------------------------------------------------
\* What TargetsOfTheirKind says of i.
Target(i) ==
  /\ request[i].op = "storno" => /\ request[i].target \in DOMAIN docs
                                 /\ docs[request[i].target].kind \in StornoableKind
  /\ request[i].op = "delete" => /\ request[i].target \in DOMAIN docs
                                 /\ docs[request[i].target].kind = "proforma"

\* TargetsOfTheirKind, said with Target.
LEMMA TargetsIs == TargetsOfTheirKind <=> \A i \in Inv : Engaged(i) => Target(i)
BY DEF TargetsOfTheirKind, Target, Engaged

\* A step of an invocation.
LEMMA TargetsInvocation ==
  ASSUME TypeOK, OnePermission, MarkerDiscipline, TargetsOfTheirKind, NEW i \in Inv,
         Admission(i) \/ ProtectedWrite(i) \/ Runtime(i) \/ Stray(i)
  PROVE  TargetsOfTheirKind'
<1> SUFFICES ASSUME NEW j \in Inv, Engaged(j)' PROVE Target(j)'
  BY DEF TargetsOfTheirKind, Target, Engaged
<1>1. docs' = docs
  BY Frame
<1>2. CASE j # i
  <2>1. /\ request'[j] = request[j] /\ journal'[j] = journal[j] /\ local'[j] = local[j]
        /\ permit'[j] = permit[j] /\ stray'[j] = stray[j] /\ sends'[j] = sends[j]
    BY <1>2, Frame
  <2>2. Busy(j)' => Busy(j)
    BY <1>2, <2>1, MarkerOfOwnStep, DistinctActors DEF Busy
  <2>3. Engaged(j)
    BY <2>1, <2>2 DEF Engaged, MaySend
  <2> QED BY <1>1, <2>1, <2>3, TargetsIs DEF Target
<1>3. CASE j = i
  <2>1. CASE LookupProceeds(i)
    <3>1. request' = request /\ Admissible(request[i])
      BY <2>1 DEF LookupProceeds
    <3> QED BY <1>1, <1>3, <3>1 DEF Admissible, StornoAdmissible, StornoOriginal, DeleteTarget,
                                    Visible, Target
  <2>2. CASE ~LookupProceeds(i)
    <3>1. Engaged(i)
      BY <1>3, <2>2, OnlyLookupEngages
    <3>2. journal[i] # "new"
      BY <3>1 DEF Engaged, Busy, MaySend, OnePermission, MarkerDiscipline, Protected, TypeOK
    <3>3. request'[i] = request[i]
      BY <3>2, Frame
    <3> QED BY <1>1, <1>3, <3>1, <3>3, TargetsIs DEF Target
  <2> QED BY <2>1, <2>2
<1> QED BY <1>2, <1>3

\* Any other step keeps documents and makes nobody busy.
LEMMA TargetsOthers ==
  ASSUME TypeOK, TargetsOfTheirKind, Kept(docs, docs'),
         UNCHANGED <<journal, request, permit, stray, sends>>, marker' \in {marker, NoInv},
         \A j \in Inv : local'[j] = local[j] \/ local'[j] \in Reply
  PROVE  TargetsOfTheirKind'
<1> SUFFICES ASSUME NEW j \in Inv, Engaged(j)' PROVE Target(j)'
  BY DEF TargetsOfTheirKind, Target, Engaged
<1>1. Engaged(j)
  BY DistinctActors DEF Engaged, Busy, MaySend, Reply
<1>2. Target(j)
  BY <1>1, TargetsIs
<1> QED BY <1>2 DEF Target, Kept

-----------------------------------------------------------------------------
\* Steps that add no own document and execute nothing that was to issue.
LEMMA DocumentsOthers ==
  ASSUME TypeOK, DocumentsInOrder, Kept(docs, docs'), NoNewOwn(docs, docs'),
         \A i \in executed' : i \in executed \/ request'[i].op # "create",
         \A i \in executed : request'[i] = request[i]
  PROVE  DocumentsInOrder'
<1>1. \A n \in DOMAIN docs' : docs'[n].reversed => docs'[n].kind \in StornoableKind
  BY DEF DocumentsInOrder, Kept, NoNewOwn
<1>2. ASSUME NEW kind \in IssuedKind, NEW m \in DOMAIN docs', NEW n \in DOMAIN docs',
             Own(m, kind)', Own(n, kind)', m < n
      PROVE  docs'[m].reversed
  <2>1. m \in DOMAIN docs /\ n \in DOMAIN docs
    BY <1>2 DEF NoNewOwn, Own, Holders, Visible
  <2>2. Own(m, kind) /\ Own(n, kind)
    BY <1>2, <2>1, OwnKept
  <2>3. docs[m].reversed
    BY <1>2, <2>1, <2>2 DEF DocumentsInOrder
  <2> QED BY <2>1, <2>3 DEF Kept
<1>3. ASSUME NEW i \in executed', request'[i].op = "create"
      PROVE  \E n \in DOMAIN docs' : docs'[n].by = i /\ n # request'[i].target
  <2>1. i \in executed /\ request'[i] = request[i]
    BY <1>3
  <2>2. PICK n \in DOMAIN docs : docs[n].by = i /\ n # request[i].target
    BY <1>3, <2>1 DEF DocumentsInOrder
  <2>3. n \in DOMAIN docs' /\ docs'[n].by = i
    BY <2>2 DEF Kept
  <2> QED BY <2>1, <2>2, <2>3
<1> QED BY <1>1, <1>2, <1>3 DEF DocumentsInOrder

\* An issuance appends the newest document of its slot; the older ones are
\* reversed because the slot is as expected.
LEMMA DocumentsIssue ==
  ASSUME TypeOK, MarkerDiscipline, RequestsDecideOnce, UncertaintyIsMarked, TargetsOfTheirKind,
         SlotAsExpected, DocumentsInOrder, NEW m \in net, Execute(m), request[m.by].op = "create"
  PROVE  DocumentsInOrder'
<1> DEFINE i == m.by
           k == request[i].kind
           new == Len(docs) + 1
<1>1. i \in Inv /\ Slot(i) /\ docs \in Docs /\ request[i] \in Request /\ request' = request
  BY IssuerIsAlone, ServiceFrame DEF TypeOK, Docs
<1>2. docs' = Issue(docs, k, i) /\ executed' = executed \cup {i}
  BY ExecuteDocs
<1>k. k \in IssuedKind
  BY <1>1 DEF Request
<1>3. /\ Kept(docs, docs') /\ DOMAIN docs' = DOMAIN docs \cup {new}
      /\ docs'[new].kind = k /\ docs'[new].by = i /\ ~docs'[new].reversed
      /\ DOMAIN docs = 1..Len(docs) /\ Len(docs) \in Nat
  <2>1. docs \in Docs /\ k \in IssuedKind /\ i \in Inv
    BY <1>1, <1>k
  <2> HIDE DEF i, k
  <2>2. Kept(docs, Issue(docs, k, i)) /\ DOMAIN Issue(docs, k, i) = DOMAIN docs \cup {Len(docs) + 1}
    BY <2>1, IssueKeeps
  <2>3. Issue(docs, k, i)[Len(docs) + 1].kind = k
    BY <2>1 DEF Issue, Docs
  <2>4. Issue(docs, k, i)[Len(docs) + 1].by = i
    BY <2>1 DEF Issue, Docs
  <2>5. ~Issue(docs, k, i)[Len(docs) + 1].reversed
    BY <2>1 DEF Issue, Docs
  <2>6. DOMAIN docs = 1..Len(docs) /\ Len(docs) \in Nat
    BY <2>1 DEF Docs
  <2> QED BY <1>2, <2>2, <2>3, <2>4, <2>5, <2>6
<1> HIDE DEF i, k, new
<1>4. \A n \in DOMAIN docs' : docs'[n].reversed => docs'[n].kind \in StornoableKind
  BY <1>3 DEF DocumentsInOrder, Kept
<1>5. ASSUME NEW kind \in IssuedKind, NEW p \in DOMAIN docs', NEW n \in DOMAIN docs',
             Own(p, kind)', Own(n, kind)', p < n
      PROVE  docs'[p].reversed
  <2>1. p \in DOMAIN docs
    BY <1>3, <1>5 DEF new
  <2>2. Own(p, kind)
    BY <1>3, <1>5, <2>1, OwnKept
  <2>3. CASE n \in DOMAIN docs
    <3>1. Own(n, kind)
      BY <1>3, <1>5, <2>3, OwnKept
    <3> QED BY <1>3, <1>5, <2>1, <2>2, <2>3, <3>1 DEF DocumentsInOrder, Kept
  <2>4. CASE n = new
    <3>1. kind = k
      BY <1>3, <1>5, <2>4 DEF Own, Holders
    <3>2. docs[p].reversed
      BY <1>1, <2>1, <2>2, <3>1 DEF Slot, k
    <3> QED BY <1>3, <2>1, <3>2 DEF Kept
  <2> QED BY <1>3, <2>3, <2>4
<1>6. ASSUME NEW j \in executed', request'[j].op = "create"
      PROVE  \E n \in DOMAIN docs' : docs'[n].by = j /\ n # request'[j].target
  <2>1. CASE j \in executed
    <3>1. PICK n \in DOMAIN docs : docs[n].by = j /\ n # request[j].target
      BY <1>1, <1>6, <2>1 DEF DocumentsInOrder
    <3> QED BY <1>1, <1>3, <3>1 DEF Kept
  <2>2. CASE j = i
    <3>1. new # request[i].target
      BY <1>1, <1>3 DEF Slot, new
    <3> QED BY <1>1, <1>3, <2>2, <3>1
  <2> QED BY <1>2, <1>6, <2>1, <2>2
<1> QED BY <1>4, <1>5, <1>6 DEF DocumentsInOrder

-----------------------------------------------------------------------------
(* Recovery.                                                               *)

\* An ended invocation without an abandoned execution takes no step.
LEMMA EndedIsStill ==
  ASSUME LockDiscipline, NEW i \in Inv, journal[i] = "ended", stray[i] = "none",
         Admission(i) \/ ProtectedWrite(i) \/ Runtime(i) \/ Stray(i)
  PROVE  FALSE
<1>1. lock # i /\ local[i] = "none"
  BY DEF LockDiscipline, Stopped
<1> QED
  BY <1>1 DEF Admission, ProtectedWrite, Runtime, Stray, Enter, Guard, LookupProceeds,
     LookupAnswers,
     Prepare, Mark, Arm, ArmAcknowledged, OpenWrite, LeadingQuery, Send, ReceiveReply, LoseReply,
     Reconcile, Clear, Return, Interrupt, Resume, Attempt, Cancel, Kill, StrayChecks, StraySends,
     StrayEnds, At

\* The token of a recovery that runs is an invocation's.
LEMMA TokenIsAnInvocation ==
  ASSUME TypeOK, MarkerDiscipline, recovery.pc # "idle"
  PROVE  recovery.token \in Inv
BY DEF TypeOK, MarkerDiscipline, Recovery

\* No step of an invocation undoes what a recovery rests on.
LEMMA RecoveryInvocation ==
  ASSUME TypeOK, LockDiscipline, MarkerDiscipline, RecoveryIsJustified, NEW i \in Inv,
         Admission(i) \/ ProtectedWrite(i) \/ Runtime(i) \/ Stray(i)
  PROVE  RecoveryIsJustified'
<1> DEFINE t == recovery.token
<1>1. UNCHANGED <<docs, executed, recovery>>
  BY Frame
<1>2. ASSUME recovery.pc # "idle", recovery.evidence # "document" PROVE CannotExecuteLater(t)'
  <2>1. CannotExecuteLater(t) /\ t \in Inv
    BY <1>2, TokenIsAnInvocation DEF RecoveryIsJustified
  <2>2. i # t
    BY <2>1, EndedIsStill DEF CannotExecuteLater
  <2>3. journal'[t] = journal[t] /\ stray'[t] = stray[t] /\ \A m \in net' : m \in net \/ m.by = i
    BY <2>1, <2>2, Frame
  <2> QED BY <1>1, <2>1, <2>2, <2>3 DEF CannotExecuteLater
<1>3. ASSUME recovery.pc = "recorded", recovery.evidence = "document"
      PROVE  \/ request'[t].op = "create" /\ t \in executed
             \/ NothingLeftToReverse(t)'
  <2>1. t \in Inv /\ marker = t
    BY <1>3, TokenIsAnInvocation DEF MarkerDiscipline
  <2>2. request'[t] = request[t]
    BY <2>1, Frame DEF MarkerDiscipline, Protected
  <2> QED BY <1>1, <1>3, <2>2 DEF RecoveryIsJustified, NothingLeftToReverse
<1> QED BY <1>1, <1>2, <1>3 DEF RecoveryIsJustified

\* Nor does the service or an outsider.
LEMMA RecoveryService ==
  ASSUME TypeOK, MarkerDiscipline, RequestsDecideOnce, TargetsOfTheirKind, RecoveryIsJustified,
         Service \/ Outside \/ UNCHANGED vars
  PROVE  RecoveryIsJustified'
<1> DEFINE t == recovery.token
<1>1. /\ UNCHANGED <<journal, request, stray, recovery>> /\ net' \subseteq net
      /\ executed \subseteq executed' /\ Kept(docs, docs')
  <2>1. CASE Service
    BY <2>1, ServiceFrame DEF Service
  <2>2. CASE Outside \/ UNCHANGED vars
    BY <2>2, OthersFrame
  <2> QED BY <2>1, <2>2
<1>2. CannotExecuteLater(t) => CannotExecuteLater(t)'
  BY <1>1 DEF CannotExecuteLater
<1>3. recovery.pc # "idle" /\ NothingLeftToReverse(t) => NothingLeftToReverse(t)'
  BY <1>1, ReversalsKept, TokenIsAnInvocation
<1> QED BY <1>1, <1>2, <1>3 DEF RecoveryIsJustified

\* recover itself records only what its evidence shows.
LEMMA RecoveryRecover ==
  ASSUME TypeOK, MarkerDiscipline, SlotAsExpected, RecoveryIsJustified, Recover
  PROVE  RecoveryIsJustified'
<1>1. UNCHANGED <<journal, request, stray, net, docs, executed>>
  BY OthersFrame, DocsUnchanged
<1>2. \A t : /\ CannotExecuteLater(t)' <=> CannotExecuteLater(t)
             /\ NothingLeftToReverse(t)' <=> NothingLeftToReverse(t)
  BY <1>1 DEF CannotExecuteLater, NothingLeftToReverse
<1> USE DEF RecoveryIsJustified
<1>3. ASSUME NEW evidence \in Evidence, NEW n \in 0..MaxDocs, SubmitRecovery(evidence, n)
      PROVE  RecoveryIsJustified'
  <2>1. /\ recovery' = [pc |-> "queued", token |-> marker, evidence |-> evidence, number |-> n]
        /\ evidence # "document" => CannotExecuteLater(marker)
    BY <1>3 DEF SubmitRecovery, Evidence
  <2>2. recovery'.pc = "queued" /\ recovery'.token = marker /\ recovery'.evidence = evidence
    BY <2>1
  <2> QED BY <1>2, <2>1, <2>2
<1>4. CASE recovery' = NoRecovery
  BY <1>4 DEF NoRecovery
<1>5. CASE EnterRecovery /\ recovery' # NoRecovery
  <2>1. recovery'.pc = "entered" /\ recovery'.token = recovery.token
        /\ recovery'.evidence = recovery.evidence /\ recovery.pc = "queued"
    BY <1>5 DEF EnterRecovery, TypeOK, Recovery
  <2> QED BY <1>2, <2>1
<1>6. CASE RecordRecovery
  <2> DEFINE t == recovery.token
  <2>1. /\ recovery'.pc = "recorded" /\ recovery'.token = t /\ recovery'.evidence = recovery.evidence
        /\ recovery.pc = "entered"
        /\ recovery.evidence = "document" => DocumentEvidence(request[t], recovery.number)
    BY <1>6 DEF RecordRecovery, TypeOK, Recovery
  <2>2. t \in Inv /\ Busy(t)
    BY <2>1, TokenIsAnInvocation DEF MarkerDiscipline, Busy
  <2>3. recovery.evidence = "document" =>
          \/ request[t].op = "create" /\ t \in executed
          \/ NothingLeftToReverse(t)
    BY <2>1, <2>2, DocumentEvidenceIsTrue DEF Done
  <2> QED BY <1>1, <1>2, <2>1, <2>3
<1> QED
  BY <1>3, <1>4, <1>5, <1>6 DEF Recover, FinishRecovery, RefuseRecovery, AbandonRecovery

-----------------------------------------------------------------------------
(* The inductive invariant.                                                *)

\* It holds initially.
LEMMA InvariantInit == Init => IInv
<1> SUFFICES ASSUME Init PROVE IInv
  OBVIOUS
<1>1. TypeOK /\ OnePermission
  BY TypeInit, PermissionInit
<1>2. LockDiscipline /\ MarkerDiscipline
  BY DistinctActors DEF Init, LockDiscipline, MarkerDiscipline, Stopped, Protected, NoRecovery
<1>3. RequestsDecideOnce
  BY DEF Init, RequestsDecideOnce, Reply
<1>4. ResultsAreTrue /\ UncertaintyIsMarked
  BY DEF Init, ResultsAreTrue, ResultIsTrue, UncertaintyIsMarked, Outstanding, MaySend
<1>5. SlotAsExpected /\ TargetsOfTheirKind
  BY DistinctActors DEF Init, SlotAsExpected, TargetsOfTheirKind, Busy, MaySend, Protected
<1>6. DocumentsInOrder
  <2>1. DOMAIN docs = {} /\ executed = {}
    BY DEF Init
  <2> QED BY <2>1 DEF DocumentsInOrder
<1>7. RecoveryIsJustified
  BY DEF Init, RecoveryIsJustified, NoRecovery
<1> QED BY <1>1, <1>2, <1>3, <1>4, <1>5, <1>6, <1>7 DEF IInv

\* A step of an invocation preserves it.
LEMMA InvariantInvocation ==
  ASSUME IInv, NEW i \in Inv, Admission(i) \/ ProtectedWrite(i) \/ Runtime(i) \/ Stray(i)
  PROVE  IInv'
<1> USE DEF IInv
<1>1. TypeOK' /\ OnePermission'
  BY TypeInvocation, PermissionInvocation
<1>2. LockDiscipline' /\ MarkerDiscipline'
  BY LockInvocation, MarkerInvocation
<1>3. RequestsDecideOnce' /\ ResultsAreTrue'
  BY DecideOnceInvocation, ResultsInvocation
<1>4. UncertaintyIsMarked' /\ SlotAsExpected' /\ TargetsOfTheirKind'
  BY MarkedInvocation, SlotInvocation, TargetsInvocation
<1>5. DocumentsInOrder'
  <2>1. UNCHANGED <<docs, executed>> /\ docs \in Docs
    BY Frame DEF TypeOK, Docs
  <2>2. \A j \in executed : request'[j] = request[j]
    <3> SUFFICES ASSUME NEW j \in executed PROVE request'[j] = request[j]
      OBVIOUS
    <3>1. j \in Inv /\ sends[j] = 1
      BY DEF TypeOK, RequestsDecideOnce
    <3>2. journal[j] # "new"
      BY <3>1 DEF OnePermission
    <3> QED BY <3>1, <3>2, Frame
  <2> QED BY <2>1, <2>2, SameKeeps, DocumentsOthers
<1>6. RecoveryIsJustified'
  BY RecoveryInvocation
<1> QED BY <1>1, <1>2, <1>3, <1>4, <1>5, <1>6

\* A step of recover preserves it.
LEMMA InvariantRecover ==
  ASSUME IInv, Recover
  PROVE  IInv'
<1> USE DEF IInv
<1>1. TypeOK' /\ OnePermission' /\ LockDiscipline' /\ MarkerDiscipline'
  BY TypeRecover, PermissionOthers, LockRecover, MarkerRecover
<1>2. RequestsDecideOnce' /\ ResultsAreTrue' /\ UncertaintyIsMarked' /\ RecoveryIsJustified'
  BY DecideOnceOthers, ResultsOthers, MarkedRecover, RecoveryRecover
<1>3. /\ UNCHANGED <<journal, request, local, permit, stray, sends, executed>>
      /\ Kept(docs, docs') /\ NoNewOwn(docs, docs')
  BY OthersFrame
<1>4. marker' \in {marker, NoInv}
  BY DEF Recover, SubmitRecovery, EnterRecovery, RecordRecovery, RefuseRecovery, FinishRecovery,
         AbandonRecovery, durable
<1>5. SlotAsExpected' /\ TargetsOfTheirKind' /\ DocumentsInOrder'
  BY <1>3, <1>4, SlotOthers, TargetsOthers, DocumentsOthers
<1> QED BY <1>1, <1>2, <1>5

\* So does a decision of the service.
LEMMA InvariantService ==
  ASSUME IInv, Service
  PROVE  IInv'
<1> USE DEF IInv
<1>1. TypeOK' /\ OnePermission' /\ LockDiscipline' /\ MarkerDiscipline' /\ RequestsDecideOnce'
  BY TypeService, PermissionOthers, LockOthers, MarkerOthers, DecideOnceOthers
<1>2. PICK m \in net : Execute(m) \/ Refuse(m) \/ Drop(m)
  BY DEF Service
<1>3. ResultsAreTrue' /\ SlotAsExpected'
  BY <1>2, ResultsService, SlotService
<1>4. UncertaintyIsMarked' /\ RecoveryIsJustified'
  BY MarkedService, RecoveryService
<1>5. /\ UNCHANGED <<marker, journal, request, permit, stray, sends>> /\ Kept(docs, docs')
      /\ executed' = executed \/ executed' = executed \cup {m.by}
      /\ \A j \in Inv : local'[j] = local[j] \/ local'[j] \in Reply
  BY <1>2, ServiceFrame
<1>6. TargetsOfTheirKind'
  BY <1>5, TargetsOthers
<1>7. DocumentsInOrder'
  <2>1. CASE Execute(m) /\ request[m.by].op = "create"
    BY <2>1, DocumentsIssue
  <2>2. CASE Execute(m) /\ request[m.by].op # "create"
    <3>1. NoNewOwn(docs, docs')
      BY <2>2, ExecuteDocs
    <3> QED BY <1>5, <2>2, <3>1, DocumentsOthers
  <2>3. CASE Refuse(m) \/ Drop(m)
    <3>1. UNCHANGED <<docs, executed>> /\ docs \in Docs
      BY <2>3 DEF Refuse, Drop, history, TypeOK, Docs
    <3> QED BY <1>5, <3>1, SameKeeps, DocumentsOthers
  <2> QED BY <1>2, <2>1, <2>2, <2>3
<1> QED BY <1>1, <1>3, <1>4, <1>6, <1>7

\* So does a change outside the worker.
LEMMA InvariantOutside ==
  ASSUME IInv, Outside \/ UNCHANGED vars
  PROVE  IInv'
<1> USE DEF IInv
<1>1. TypeOK'
  BY TypeService, TypeStutter
<1>2. OnePermission' /\ LockDiscipline' /\ MarkerDiscipline' /\ RequestsDecideOnce'
  BY PermissionOthers, LockOthers, MarkerOthers, DecideOnceOthers
<1>3. ResultsAreTrue' /\ UncertaintyIsMarked' /\ RecoveryIsJustified'
  BY ResultsOthers, MarkedService, RecoveryService
<1>4. /\ UNCHANGED <<marker, journal, request, local, permit, stray, sends, executed>>
      /\ Kept(docs, docs') /\ NoNewOwn(docs, docs')
  BY OthersFrame
<1>5. SlotAsExpected' /\ TargetsOfTheirKind' /\ DocumentsInOrder'
  BY <1>4, SlotOthers, TargetsOthers, DocumentsOthers
<1> QED BY <1>1, <1>2, <1>3, <1>5

(***************************************************************************)
(* The inductive invariant holds in every reachable state.                 *)
(***************************************************************************)
THEOREM Invariance == Spec => []IInv
<1>1. IInv /\ [Next]_vars => IInv'
  BY InvariantInvocation, InvariantRecover, InvariantService, InvariantOutside DEF Next
<1> QED
  BY <1>1, InvariantInit, PTL DEF Spec

-----------------------------------------------------------------------------
(***************************************************************************)
(* Marker before uncertainty: a request in flight or still to be sent is   *)
(* named by the stored marker, whatever was interrupted, cancelled, killed *)
(* or recovered.                                                           *)
(***************************************************************************)
THEOREM UncertaintyAlwaysMarked == Spec => []UncertaintyIsMarked
<1>1. IInv => UncertaintyIsMarked
  BY DEF IInv
<1> QED BY <1>1, Invariance, PTL

(***************************************************************************)
(* The worker never puts a second live document in a slot.                 *)
(***************************************************************************)
THEOREM NoSecondLiveDocument == Spec => []OneLiveDocumentPerSlot
<1>1. ASSUME IInv PROVE OneLiveDocumentPerSlot
  <2> SUFFICES ASSUME NEW kind \in IssuedKind, NEW m \in DOMAIN docs, NEW n \in DOMAIN docs,
                      LiveOwn(m, kind), LiveOwn(n, kind)
               PROVE  m = n
    BY DEF OneLiveDocumentPerSlot
  <2>1. Own(m, kind) /\ Own(n, kind) /\ ~docs[m].reversed /\ ~docs[n].reversed
    BY DEF LiveOwn, Own
  <2>2. ~(m < n) /\ ~(n < m)
    BY <1>1, <2>1 DEF IInv, DocumentsInOrder
  <2>3. m \in Nat /\ n \in Nat
    BY <1>1 DEF IInv, TypeOK
  <2> QED BY <2>2, <2>3
<1> QED BY <1>1, Invariance, PTL

(***************************************************************************)
(* A settled result is true when it is journaled and ever after.           *)
(***************************************************************************)
THEOREM SettledResultsAlwaysTrue == Spec => []SettledResultsAreTrue
<1>1. ASSUME IInv PROVE SettledResultsAreTrue
  <2> SUFFICES ASSUME NEW i \in Inv
               PROVE  /\ answer[i] \in {"declined", "cancelled"} => i \notin executed /\ ~Outstanding(i)
                      /\ answer[i] = "executed" =>
                           IF request[i].op = "create"
                           THEN \E n \in DOMAIN docs : docs[n].by = i /\ n # request[i].target
                           ELSE Accomplished(i)
    BY DEF SettledResultsAreTrue
  <2>1. ResultIsTrue(i) /\ request[i] \in Request
    BY <1>1 DEF IInv, ResultsAreTrue, TypeOK
  <2>2. answer[i] \in {"declined", "cancelled"} => i \notin executed /\ ~Outstanding(i)
    BY <2>1 DEF ResultIsTrue
  <2>3. answer[i] = "executed" => Done(i)
    BY <2>1 DEF ResultIsTrue
  <2>4. CASE request[i].op = "create"
    BY <1>1, <2>2, <2>3, <2>4 DEF IInv, DocumentsInOrder, Done
  <2>5. CASE request[i].op = "storno"
    BY <2>2, <2>3, <2>5 DEF Done, NothingLeftToReverse, Accomplished
  <2>6. CASE request[i].op = "delete"
    BY <2>2, <2>3, <2>6 DEF Done, Accomplished
  <2>7. request[i].op \in {"create", "storno", "delete"}
    BY <2>1 DEF Request
  <2> QED BY <2>4, <2>5, <2>6, <2>7
<1> QED BY <1>1, Invariance, PTL

(***************************************************************************)
(* The write protocol implements the abstract promise: one unresolved      *)
(* write at a time, which takes effect at most once and only while it is   *)
(* the unresolved one.                                                     *)
(***************************************************************************)
THEOREM Refinement == Spec => ImplementsUnresolvedOrder
<1>1. Init => Unresolvable!AInit
  BY DEF Init, Unresolvable!AInit
<1>2. ASSUME IInv, [Next]_vars PROVE [Unresolvable!ANext]_(Unresolvable!avars)
  <2> USE DEF Unresolvable!ANext, Unresolvable!avars, Unresolvable!Admit, Unresolvable!TakeEffect,
              Unresolvable!Resolve
  <2>1. ASSUME NEW i \in Inv, Admission(i) \/ ProtectedWrite(i) \/ Runtime(i) \/ Stray(i)
        PROVE  [Unresolvable!ANext]_(Unresolvable!avars)
    <3>1. executed' = executed
      BY <1>2, <2>1, Frame DEF IInv
    <3>2. \/ marker' = marker
          \/ Mark(i) /\ marker = NoInv /\ marker' = i
          \/ Clear(i) /\ marker = i /\ marker' = NoInv
      BY <1>2, <2>1, MarkerOfOwnStep DEF IInv
    <3>3. Mark(i) => i \notin executed
      <4> SUFFICES ASSUME Mark(i) PROVE i \notin executed
        OBVIOUS
      <4>1. sends[i] = 0
        BY <1>2 DEF Mark, At, IInv, OnePermission
      <4> QED BY <1>2, <4>1 DEF IInv, RequestsDecideOnce
    <3> QED BY <3>1, <3>2, <3>3, DistinctActors
  <2>2. CASE Recover
    <3>1. executed' = executed
      BY <1>2, <2>2, OthersFrame DEF IInv
    <3>2. marker' = marker \/ (recovery.pc = "recorded" /\ marker' = NoInv)
      BY <2>2 DEF Recover, SubmitRecovery, EnterRecovery, RecordRecovery, RefuseRecovery,
                  FinishRecovery, AbandonRecovery, durable
    <3>3. recovery.pc = "recorded" => marker # NoInv
      BY <1>2 DEF IInv, MarkerDiscipline
    <3> QED BY <3>1, <3>2, <3>3
  <2>3. CASE Service
    <3>1. PICK m \in net : Execute(m) \/ Refuse(m) \/ Drop(m)
      BY <2>3 DEF Service
    <3>2. m.by \in Inv /\ m.by \notin executed /\ marker' = marker
      BY <1>2, <3>1, ServiceFrame DEF IInv
    <3>3. CASE executed' = executed
      BY <3>2, <3>3
    <3>4. CASE executed' # executed
      <4>1. Execute(m) /\ executed' = executed \cup {m.by} /\ ~NothingLeftToReverse(m.by)
        BY <3>1, <3>4 DEF Execute, Refuse, Drop, history, NothingLeftToReverse
      <4>2. Outstanding(m.by)
        BY DEF Outstanding
      <4>3. marker = m.by
        BY <1>2, <3>2, <4>1, <4>2 DEF IInv, UncertaintyIsMarked
      <4> QED BY <3>2, <4>1, <4>3
    <3> QED BY <3>3, <3>4
  <2>4. CASE Outside \/ UNCHANGED vars
    BY <1>2, <2>4, OthersFrame DEF IInv
  <2> QED BY <1>2, <2>1, <2>2, <2>3, <2>4 DEF Next
<1> QED
  BY <1>1, <1>2, Invariance, PTL DEF Spec, ImplementsUnresolvedOrder, Unresolvable!ASpec
==============================================================================
