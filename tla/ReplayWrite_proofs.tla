------------------------- MODULE ReplayWrite_proofs -------------------------
(***************************************************************************)
(* Proofs about ReplayWrite, for any invocations, any orders and any bound *)
(* on the executions of a run.                                             *)
(*                                                                         *)
(* The argument: the marker outlives every execution that may still send,  *)
(* because only positive evidence clears it.  While no check overlaps an   *)
(* outstanding write, at most one write is outstanding, so what it checked *)
(* stays true until it takes effect.  What counts as evidence is a         *)
(* document, a reversal or a deletion, and none of them goes away.         *)
(***************************************************************************)
EXTENDS ReplayWrite, Szamlazz_proofs

-----------------------------------------------------------------------------
(* The inductive invariant.                                                *)

Held == {"prepared", "marked", "committed", "wrote"}

\* The lock is held from the prepare step to the end.
LockDiscipline == \A i \in Inv : lock = i <=> journal[i] \in Held

\* The marker is stored before a run opens and is cleared by evidence only.
MarkerDiscipline ==
  \A i \in Inv :
    /\ journal[i] = "prepared" => marker = NoInv
    /\ journal[i] \in {"marked", "committed", "wrote"} => marker = i
    /\ exec[i] # <<>> => /\ journal[i] \in {"committed", "wrote", "ended"}
                         /\ marker = i \/ answer[i] = "executed"
    /\ answer[i] = "executed" => journal[i] \in {"wrote", "ended"}

\* The runtime listens to an open run; requests come from executions that
\* wait or were given up.
RunDiscipline ==
  /\ \A i \in Inv : /\ attached[i] => journal[i] = "committed" /\ exec[i] # <<>>
                    /\ Len(exec[i]) <= MaxExec
  /\ \A i \in Inv, a \in 1..MaxExec :
       <<i, a>> \in net => a \in DOMAIN exec[i] /\ exec[i][a] \in {"waiting", "over"}

ProformasStand == \A n \in DOMAIN docs : docs[n].kind = "proforma" => ~docs[n].reversed

\* A pinned intent names documents of the right type, which stay.
NamesDocuments(r) ==
  /\ r.op = "create" =>
       /\ r.kind \in IssuedKind
       /\ r.target # 0 => r.kind # "proforma" /\ Own(docs, r.kind, r.target)
       /\ r.proforma # 0 => r.proforma \in DOMAIN docs /\ docs[r.proforma].kind = "proforma"
  /\ r.op = "storno" => r.target \in DOMAIN docs /\ docs[r.target].kind \in StornoableKind
  /\ r.op = "delete" => r.target \in DOMAIN docs /\ docs[r.target].kind = "proforma"

IntentDiscipline == \A i \in Inv : NamesDocuments(intent[i])

\* The write that r pins is in the documents.
Happened(r) ==
  CASE r.op = "create" ->
         \E n \in DOMAIN docs : n > r.target /\ docs[n].kind = r.kind /\ docs[n].order /\ docs[n].ext
    [] r.op = "storno" -> docs[r.target].reversed
    [] r.op = "delete" -> docs[r.target].gone

\* Whoever heard or recorded that the write is done is right.
EvidenceIsTrue ==
  \A i \in Inv :
    /\ answer[i] = "executed" => Happened(intent[i])
    /\ \A a \in DOMAIN exec[i] : exec[i][a] = "done" => Happened(intent[i])

Quiet(kind) == \A n \in DOMAIN docs : ~Live(n, kind)

\* Of the order's own documents of a kind only the newest can be live.
NewestLives ==
  \A kind \in IssuedKind : \A m, n \in DOMAIN docs :
    Own(docs, kind, m) /\ Own(docs, kind, n) /\ m < n => docs[m].reversed

OneChain == Quiet("invoice") \/ (Quiet("prepayment") /\ Quiet("final"))

OneOutstanding ==
  \A i, j \in Inv, a, b \in 1..MaxExec : Outstanding(i, a) /\ Outstanding(j, b) => i = j /\ a = b

\* What the checks behind an outstanding create have shown.
OthersQuiet(r) ==
  /\ \A kind \in {"invoice", "final"} \ {r.kind} : Quiet(kind)
  /\ r.kind \notin {"prepayment", "final"} => Quiet("prepayment")

CreatesChecked ==
  \A i \in Inv, a \in 1..MaxExec : Outstanding(i, a) /\ intent[i].op = "create" =>
    /\ Quiet(intent[i].kind)
    /\ exec[i][a] # "kinds" => OthersQuiet(intent[i])

Undisturbed ==
  ~overlapped => NewestLives /\ OneChain /\ OneOutstanding /\ CreatesChecked

IInv ==
  /\ TypeOK /\ LockDiscipline /\ MarkerDiscipline /\ RunDiscipline
  /\ ProformasStand /\ IntentDiscipline /\ EvidenceIsTrue /\ Undisturbed

-----------------------------------------------------------------------------
(* Executions.                                                             *)

\* Execution a of i is now at a stage; every other execution is where it was.
Moved(i, a, stage) ==
  /\ exec' \in [Inv -> Seq(Stage)]
  /\ \A j \in Inv : DOMAIN exec'[j] = DOMAIN exec[j] /\ Len(exec'[j]) = Len(exec[j])
  /\ exec'[i][a] = stage
  /\ \A j \in Inv : \A b \in DOMAIN exec[j] : j # i \/ b # a => exec'[j][b] = exec[j][b]
  /\ \A j \in Inv : exec'[j] = <<>> <=> exec[j] = <<>>

\* Executions are numbered from one.
LEMMA Executions ==
  ASSUME exec \in [Inv -> Seq(Stage)], NEW i \in Inv
  PROVE  /\ exec[i] \in Seq(Stage) /\ Len(exec[i]) \in Nat /\ DOMAIN exec[i] = 1..Len(exec[i])
         /\ exec[i] = <<>> <=> Len(exec[i]) = 0
         /\ \A a \in DOMAIN exec[i] : exec[i][a] \in Stage
OBVIOUS

\* Advancing one execution leaves the others alone.
LEMMA AdvanceMoves ==
  ASSUME exec \in [Inv -> Seq(Stage)], NEW i \in Inv, NEW a \in DOMAIN exec[i], NEW stage \in Stage,
         Advance(i, a, stage)
  PROVE  Moved(i, a, stage)
<1> DEFINE e == [exec[i] EXCEPT ![a] = stage]
<1>1. exec[i] \in Seq(Stage)
  OBVIOUS
<1>2. /\ e \in Seq(Stage) /\ Len(e) = Len(exec[i]) /\ DOMAIN e = DOMAIN exec[i]
      /\ e[a] = stage /\ \A b \in DOMAIN exec[i] : b # a => e[b] = exec[i][b]
  BY <1>1
<1>3. exec' = [exec EXCEPT ![i] = e]
  BY DEF Advance
<1> HIDE DEF e
<1>4. exec' \in [Inv -> Seq(Stage)] /\ exec'[i] = e /\ \A j \in Inv : j # i => exec'[j] = exec[j]
  BY <1>2, <1>3
<1>5. e = <<>> <=> exec[i] = <<>>
  BY <1>1, <1>2
<1> QED BY <1>2, <1>4, <1>5 DEF Moved

\* Opening a run adds an execution that has not checked anything.
LEMMA OpenAdds ==
  ASSUME exec \in [Inv -> Seq(Stage)], NEW i \in Inv, exec' = [exec EXCEPT ![i] = Append(@, "target")]
  PROVE  /\ exec' \in [Inv -> Seq(Stage)]
         /\ \A j \in Inv : j # i => exec'[j] = exec[j]
         /\ Len(exec'[i]) = Len(exec[i]) + 1 /\ exec'[i] # <<>>
         /\ DOMAIN exec'[i] = DOMAIN exec[i] \cup {Len(exec[i]) + 1}
         /\ exec'[i][Len(exec[i]) + 1] = "target"
         /\ \A b \in DOMAIN exec[i] : exec'[i][b] = exec[i][b]
<1> DEFINE e == Append(exec[i], "target")
<1>1. exec[i] \in Seq(Stage) /\ "target" \in Stage
  BY DEF Stage
<1>2. /\ e \in Seq(Stage) /\ Len(e) = Len(exec[i]) + 1 /\ e # <<>> /\ Len(exec[i]) \in Nat
      /\ e[Len(exec[i]) + 1] = "target" /\ \A b \in DOMAIN exec[i] : e[b] = exec[i][b]
  BY <1>1
<1>3. exec' = [exec EXCEPT ![i] = e]
  OBVIOUS
<1> HIDE DEF e
<1>4. DOMAIN e = DOMAIN exec[i] \cup {Len(exec[i]) + 1}
  <2>1. DOMAIN e = 1..Len(e) /\ DOMAIN exec[i] = 1..Len(exec[i])
    BY <1>1, <1>2
  <2> QED BY <1>2, <2>1
<1> QED BY <1>2, <1>3, <1>4

-----------------------------------------------------------------------------
(* Documents.                                                              *)

LEMMA LiveIsOwn ==
  ASSUME NEW kind, NEW n
  PROVE  /\ Live(n, kind) <=> Own(docs, kind, n) /\ ~docs[n].reversed
         /\ Live(n, kind)' <=> Own(docs', kind, n) /\ ~docs'[n].reversed
         /\ Own(docs, kind, n) => n \in DOMAIN docs
         /\ Own(docs', kind, n) => n \in DOMAIN docs'
BY DEF Live, Own, Holders, Visible

\* A slot that is not live when it is read has no live document.
LEMMA NotLiveIsQuiet ==
  ASSUME TypeOK, NewestLives, NEW kind \in IssuedKind, NotLive(kind)
  PROVE  Quiet(kind)
<1> SUFFICES ASSUME NEW m \in DOMAIN docs, Live(m, kind) PROVE FALSE
  BY DEF Quiet
<1>1. Own(docs, kind, m) /\ ~docs[m].reversed /\ m \in Holders(docs, kind, 0)
  BY LiveIsOwn DEF Own
<1>2. PICK n \in DOMAIN docs : SeenReversed(docs, kind, n)
  BY <1>1 DEF NotLive, SeenAbsent
<1>3. Own(docs, kind, n) /\ docs[n].reversed /\ m <= n
  BY <1>1, <1>2 DEF SeenReversed, ByExternalId, Newest, Own
<1>4. m < n
  <2>1. m \in Nat /\ n \in Nat
    BY Numbers DEF TypeOK
  <2>2. m # n
    BY <1>1, <1>3
  <2> QED BY <2>1, <2>2, <1>3
<1> QED BY <1>1, <1>3, <1>4 DEF NewestLives

LEMMA TargetIsQuiet ==
  ASSUME TypeOK, NewestLives, NEW kind \in IssuedKind, NEW target,
         TargetAsExpected(docs, kind, target)
  PROVE  Quiet(kind)
<1>1. NotLive(kind)
  BY DEF TargetAsExpected, NotLive, SeenReversed, ByExternalId, Newest, Holders, Visible
<1> QED BY <1>1, NotLiveIsQuiet

\* What counts as evidence is the write: a newer holder than the one to be
\* replaced, or the reversal.
LEMMA EvidenceHappened ==
  ASSUME TypeOK, NEW r \in Intent, NamesDocuments(r), TargetEvidence(r)
  PROVE  Happened(r)
<1>1. CASE r.op = "create"
  <2>1. PICK n \in DOMAIN docs : /\ SeenLive(docs, r.kind, n) \/ SeenReversed(docs, r.kind, n)
                                 /\ n # r.target
    BY <1>1 DEF TargetEvidence
  <2>2. ByExternalId(docs, r.kind, 0, n) /\ docs[n].order
    BY <2>1 DEF SeenLive, SeenReversed
  <2>3. docs[n].ext /\ docs[n].kind = r.kind /\ \A m \in Holders(docs, r.kind, 0) : m <= n
    BY <2>2 DEF ByExternalId, Newest, Holders
  <2>4. n \in Nat \ {0} /\ r.target \in Nat
    BY Numbers DEF TypeOK, Intent
  <2>5. r.target # 0 => r.target <= n
    BY <1>1, <2>3 DEF NamesDocuments, Own
  <2>6. n > r.target
    BY <2>1, <2>4, <2>5
  <2> QED BY <1>1, <2>2, <2>3, <2>6 DEF Happened
<1>2. CASE r.op = "storno"
  BY <1>2 DEF TargetEvidence, VerifiedStorno, Happened
<1> QED BY <1>1, <1>2 DEF TargetEvidence

\* What happened stays: documents, reversals and deletions are not undone.
LEMMA HappenedStays ==
  ASSUME TypeOK, docs' \in Seq(Document(Inv \cup {NoInv})), Kept(docs, docs'), NEW r \in Intent,
         NamesDocuments(r)
  PROVE  /\ NamesDocuments(r)'
         /\ Happened(r) => Happened(r)'
<1>1. DOMAIN docs \subseteq DOMAIN docs' /\ docs \in Seq(Document(Inv \cup {NoInv}))
  BY Numbers DEF Kept, TypeOK
<1>2. NamesDocuments(r)'
  <2>1. r.op = "create" /\ r.target # 0 => Own(docs', r.kind, r.target)
    BY <1>1, OwnKept DEF NamesDocuments
  <2> QED BY <1>1, <2>1 DEF NamesDocuments, Kept
<1>3. Happened(r) => Happened(r)'
  <2>1. CASE r.op = "create"
    BY <1>1, <2>1 DEF Happened, Kept
  <2>2. CASE r.op # "create"
    BY <2>2 DEF Happened, NamesDocuments, Kept, Intent
  <2> QED BY <2>1, <2>2
<1> QED BY <1>2, <1>3

-----------------------------------------------------------------------------
(* The handler.                                                            *)

\* The intents of the model are intents.
LEMMA IntentsType ==
  ASSUME order \in Orders
  PROVE  /\ Intents \subseteq Intent /\ order.docs \in Nat /\ order.kinds \subseteq IssuedKind
         /\ \A r \in Intents : r.op = "create" => r.kind \in IssuedKind
<1>1. order.docs \in Nat /\ order.kinds \subseteq IssuedKind
  BY ReplayKinds
<1> QED BY <1>1 DEF Intents, Intent, CreateKind, MaxDocs, IssuedKind

\* What was admitted names documents that are there.
LEMMA AdmittedNames ==
  ASSUME TypeOK, ProformasStand, NEW r \in Intents, Admissible(r)
  PROVE  NamesDocuments(r)
<1>1. CASE r.op = "create"
  <2>1. r.kind \in IssuedKind
    BY <1>1, IntentsType DEF TypeOK
  <2>2. /\ TargetAsExpected(docs, r.kind, r.target)
        /\ r.kind # "proforma" => Selectable(r.kind, r.proforma)
        /\ r.kind = "proforma" => r.proforma = 0
    BY <1>1 DEF Admissible
  <2>3. r.target # 0 => r.kind # "proforma" /\ Own(docs, r.kind, r.target)
    BY <2>2 DEF TargetAsExpected, SeenReversed, ByExternalId, Newest, Own, Holders, Visible,
       ProformasStand
  <2>4. r.proforma # 0 => r.proforma \in DOMAIN docs /\ docs[r.proforma].kind = "proforma"
    BY <2>2 DEF Selectable, Visible
  <2> QED BY <1>1, <2>1, <2>3, <2>4 DEF NamesDocuments
<1>2. CASE r.op = "storno"
  BY <1>2 DEF Admissible, NamesDocuments, StornoOriginal, Visible
<1>3. CASE r.op = "delete"
  BY <1>3 DEF Admissible, NamesDocuments, Visible
<1> QED BY <1>1, <1>2, <1>3 DEF NamesDocuments

\* Where no document changes and no write becomes outstanding, what was
\* checked stays checked.
LEMMA UndisturbedStays ==
  ASSUME Undisturbed, UNCHANGED <<docs, overlapped>>,
         \A j \in Inv, b \in 1..MaxExec : Outstanding(j, b)' =>
           /\ Outstanding(j, b) /\ intent'[j] = intent[j]
           /\ ~overlapped /\ exec[j][b] = "kinds" => exec'[j][b] = "kinds" \/ OthersQuiet(intent[j])
  PROVE  Undisturbed'
<1> SUFFICES ASSUME ~overlapped PROVE (NewestLives /\ OneChain /\ OneOutstanding /\ CreatesChecked)'
  BY DEF Undisturbed
<1>1. NewestLives /\ OneChain /\ OneOutstanding /\ CreatesChecked
  BY DEF Undisturbed
<1>2. \A kind : Quiet(kind)' = Quiet(kind)
  BY DEF Quiet, Live
<1>3. \A r : OthersQuiet(r)' = OthersQuiet(r)
  BY <1>2 DEF OthersQuiet
<1>4. NewestLives' /\ OneChain'
  BY <1>1, <1>2 DEF NewestLives, OneChain
<1>5. OneOutstanding'
  BY <1>1 DEF OneOutstanding
<1>6. CreatesChecked'
  <2> SUFFICES ASSUME NEW i \in Inv, NEW a \in 1..MaxExec, Outstanding(i, a)', intent'[i].op = "create"
               PROVE  Quiet(intent[i].kind)' /\ (exec'[i][a] # "kinds" => OthersQuiet(intent[i])')
    BY DEF CreatesChecked
  <2>1. Outstanding(i, a) /\ intent'[i] = intent[i]
        /\ (exec[i][a] = "kinds" => exec'[i][a] = "kinds" \/ OthersQuiet(intent[i]))
    OBVIOUS
  <2>2. Quiet(intent[i].kind) /\ (exec[i][a] # "kinds" => OthersQuiet(intent[i]))
    BY <1>1, <2>1 DEF CreatesChecked
  <2>3. Quiet(intent[i].kind)' = Quiet(intent[i].kind) /\ OthersQuiet(intent[i])' = OthersQuiet(intent[i])
    BY <1>2, <1>3, <2>1 DEF Quiet, OthersQuiet, Live
  <2> QED BY <2>1, <2>2, <2>3
<1> QED BY <1>4, <1>5, <1>6

\* The handler's steps take the lock, the journal and the marker along together.
LEMMA HandlerDiscipline ==
  ASSUME TypeOK, LockDiscipline, MarkerDiscipline, NEW i \in Inv, Handler(i)
  PROVE  /\ lock' \in Inv \cup {NoInv} /\ marker' \in Inv \cup {NoInv} /\ answer' \in [Inv -> Answer]
         /\ journal' \in [Inv -> {"new", "prepared", "marked", "committed", "wrote", "ended"}]
         /\ LockDiscipline' /\ MarkerDiscipline'
<1>t. /\ i # NoInv /\ lock \in Inv \cup {NoInv} /\ marker \in Inv \cup {NoInv}
      /\ answer \in [Inv -> Answer] /\ "outcome_unknown" \in Answer /\ "executed" \in Answer
      /\ journal \in [Inv -> {"new", "prepared", "marked", "committed", "wrote", "ended"}]
  BY ReplayActors DEF TypeOK, Answer
<1>n. NoInv \notin Inv
  BY ReplayActors
<1> USE <1>t, <1>n DEF LockDiscipline, MarkerDiscipline, Held
<1>1. CASE Refused(i)
  BY <1>1 DEF Refused
<1>2. CASE \E r \in Intents : Admit(i, r)
  BY <1>2 DEF Admit
<1>3. CASE Mark(i)
  <2>1. /\ lock = i /\ journal[i] = "prepared" /\ marker = NoInv /\ marker' = i /\ lock' = i
        /\ journal' = [journal EXCEPT ![i] = "marked"] /\ UNCHANGED <<answer, exec>>
    BY <1>3 DEF Mark
  <2>2. \A j \in Inv : j # i => ~(journal[j] \in Held)
    BY <2>1
  <2>3. LockDiscipline'
    BY <2>1, <2>2
  <2>4. MarkerDiscipline'
    <3> SUFFICES ASSUME NEW j \in Inv
                 PROVE  /\ journal'[j] = "prepared" => marker' = NoInv
                        /\ journal'[j] \in {"marked", "committed", "wrote"} => marker' = j
                        /\ exec'[j] # <<>> => /\ journal'[j] \in {"committed", "wrote", "ended"}
                                              /\ marker' = j \/ answer'[j] = "executed"
                        /\ answer'[j] = "executed" => journal'[j] \in {"wrote", "ended"}
      OBVIOUS
    <3>1. CASE j = i
      BY <2>1, <3>1
    <3>2. CASE j # i
      BY <2>1, <2>2, <3>2
    <3> QED BY <3>1, <3>2
  <2> QED BY <2>1, <2>3, <2>4
<1>4. CASE Commit(i)
  BY <1>4 DEF Commit
<1>5. CASE Reconcile(i)
  BY <1>5 DEF Reconcile
<1>6. CASE Clear(i)
  BY <1>6 DEF Clear
<1> QED BY <1>1, <1>2, <1>3, <1>4, <1>5, <1>6 DEF Handler

\* Every journaled step of the handler keeps the invariant.
LEMMA HandlerKeeps ==
  ASSUME IInv, NEW i \in Inv, Handler(i), UNCHANGED order
  PROVE  IInv'
<1> USE DEF IInv
<1>f. UNCHANGED <<exec, attached, docs, net, overlapped>>
  BY DEF Handler, Refused, Admit, Mark, Commit, Reconcile, Clear
<1>n. /\ answer \in [Inv -> Answer] /\ intent \in [Inv -> Intent] /\ exec \in [Inv -> Seq(Stage)]
      /\ journal \in [Inv -> {"new", "prepared", "marked", "committed", "wrote", "ended"}]
  BY DEF TypeOK
<1>1. /\ lock' \in Inv \cup {NoInv} /\ marker' \in Inv \cup {NoInv} /\ answer' \in [Inv -> Answer]
      /\ journal' \in [Inv -> {"new", "prepared", "marked", "committed", "wrote", "ended"}]
      /\ LockDiscipline' /\ MarkerDiscipline'
  BY HandlerDiscipline
<1>3. RunDiscipline'
  <2>1. \A j \in Inv : attached[j] => journal[j] = "committed"
    BY DEF RunDiscipline
  <2>2. \A j \in Inv : journal[j] = "committed" => journal'[j] = "committed"
    BY <1>n DEF Handler, Refused, Admit, Mark, Commit, Reconcile, Clear
  <2> QED BY <1>f, <2>1, <2>2 DEF RunDiscipline
<1>i. /\ intent' \in [Inv -> Intent]
      /\ \A j \in Inv : j # i => intent'[j] = intent[j] /\ answer'[j] = answer[j]
      /\ NamesDocuments(intent'[i])
      /\ intent'[i] = intent[i] \/ (exec[i] = <<>> /\ answer'[i] # "executed")
      /\ answer'[i] = "executed" => answer[i] = "executed" \/ TargetEvidence(intent[i])
  <2>1. CASE \E r \in Intents : Admit(i, r)
    <3>1. PICK r \in Intents : Admit(i, r)
      BY <2>1
    <3>2. r \in Intent /\ NamesDocuments(r)
      BY <3>1, IntentsType, AdmittedNames DEF Admit, TypeOK
    <3> QED BY <1>n, <3>1, <3>2 DEF Admit, MarkerDiscipline
  <2>2. CASE Refused(i) \/ Mark(i) \/ Commit(i) \/ Reconcile(i) \/ Clear(i)
    BY <1>n, <2>2 DEF Refused, Mark, Commit, Reconcile, Clear, IntentDiscipline
  <2> QED BY <2>1, <2>2 DEF Handler
<1>4. IntentDiscipline'
  <2>1. \A j \in Inv : NamesDocuments(intent'[j])
    BY <1>i DEF IntentDiscipline
  <2> QED BY <1>f, <2>1 DEF NamesDocuments, IntentDiscipline
<1>5. EvidenceIsTrue'
  <2> SUFFICES ASSUME NEW j \in Inv
               PROVE  /\ answer'[j] = "executed" => Happened(intent[j])'
                      /\ \A a \in DOMAIN exec'[j] : exec'[j][a] = "done" => Happened(intent[j])'
    BY DEF EvidenceIsTrue
  <2>1. intent'[j] = intent[j] => Happened(intent[j])' = Happened(intent[j])
    BY <1>f DEF Happened
  <2>2. CASE intent'[j] = intent[j]
    <3>1. answer'[j] = "executed" => Happened(intent[j])
      <4>1. CASE answer[j] = "executed"
        BY <4>1 DEF EvidenceIsTrue
      <4>2. CASE j = i /\ TargetEvidence(intent[i])
        <5>1. intent[i] \in Intent /\ NamesDocuments(intent[i])
          BY <1>n DEF IntentDiscipline
        <5> QED BY <4>2, <5>1, EvidenceHappened
      <4> QED BY <1>i, <4>1, <4>2
    <3> QED BY <1>f, <2>1, <2>2, <3>1 DEF EvidenceIsTrue
  <2>3. CASE intent'[j] # intent[j]
    <3>1. exec'[j] = <<>> /\ answer'[j] # "executed"
      BY <1>f, <1>i, <2>3
    <3> QED BY <3>1
  <2> QED BY <2>2, <2>3
<1>6. Undisturbed'
  <2>1. \A j \in Inv, b \in 1..MaxExec : Outstanding(j, b)' = Outstanding(j, b)
    BY <1>f DEF Outstanding
  <2>2. \A j \in Inv, b \in 1..MaxExec : Outstanding(j, b) => intent'[j] = intent[j]
    BY <1>i DEF Outstanding, RunDiscipline
  <2> QED BY <1>f, <2>1, <2>2, UndisturbedStays
<1>7. TypeOK' /\ ProformasStand'
  BY <1>f, <1>1, <1>i DEF TypeOK, ProformasStand
<1> QED BY <1>1, <1>3, <1>4, <1>5, <1>6, <1>7

-----------------------------------------------------------------------------
(* The write run.                                                          *)

(***************************************************************************)
(* One execution moves and no document changes.  The step is harmless if   *)
(* it makes nothing outstanding that was not, leaves the other kinds' check*)
(* only when they are quiet, and reports a write as done only when it is.  *)
(***************************************************************************)
Harmless(i, a, stage) ==
  /\ net' \subseteq net \cup {<<i, a>>}
  /\ <<i, a>> \in net' => stage \in {"waiting", "over"}
  /\ <<i, a>> \in net' \/ stage \in {"kinds", "references", "hint", "send"} =>
       /\ Outstanding(i, a)
       /\ ~overlapped /\ exec[i][a] = "kinds" => OthersQuiet(intent[i])
  /\ stage = "done" => exec[i][a] = "done" \/ Happened(intent[i])

LEMMA MoveKeeps ==
  ASSUME IInv, NEW i \in Inv, NEW a \in DOMAIN exec[i], NEW stage \in Stage,
         Moved(i, a, stage), Harmless(i, a, stage), UNCHANGED <<order, intent, docs, overlapped>>
  PROVE  /\ exec' \in [Inv -> Seq(Stage)] /\ net' \subseteq Inv \X (1..MaxExec)
         /\ \A j \in Inv : Len(exec'[j]) <= MaxExec /\ (exec'[j] = <<>> <=> exec[j] = <<>>)
         /\ \A j \in Inv, b \in 1..MaxExec :
              <<j, b>> \in net' => b \in DOMAIN exec'[j] /\ exec'[j][b] \in {"waiting", "over"}
         /\ \A j \in Inv : \A b \in DOMAIN exec'[j] : exec'[j][b] = "done" => Happened(intent[j])'
         /\ \A j \in Inv : Happened(intent[j])' = Happened(intent[j])
         /\ IntentDiscipline' /\ ProformasStand' /\ Undisturbed'
<1> USE DEF IInv
<1>t. /\ exec \in [Inv -> Seq(Stage)] /\ net \subseteq Inv \X (1..MaxExec)
      /\ a \in 1..MaxExec /\ \A j \in Inv : Len(exec[j]) \in Nat /\ DOMAIN exec[j] = 1..Len(exec[j])
  <2>1. exec \in [Inv -> Seq(Stage)] /\ net \subseteq Inv \X (1..MaxExec)
    BY DEF TypeOK
  <2>2. \A j \in Inv : Len(exec[j]) \in Nat /\ DOMAIN exec[j] = 1..Len(exec[j])
    BY <2>1, Executions
  <2>3. a \in 1..MaxExec
    BY <2>2, ReplayBound DEF RunDiscipline
  <2> QED BY <2>1, <2>2, <2>3
<1>1. exec' \in [Inv -> Seq(Stage)] /\ net' \subseteq Inv \X (1..MaxExec)
  BY <1>t DEF Moved, Harmless
<1>2. \A j \in Inv : Len(exec'[j]) <= MaxExec /\ (exec'[j] = <<>> <=> exec[j] = <<>>)
  BY DEF Moved, RunDiscipline
<1>3. ASSUME NEW j \in Inv, NEW b \in 1..MaxExec, <<j, b>> \in net'
      PROVE  b \in DOMAIN exec'[j] /\ exec'[j][b] \in {"waiting", "over"}
  <2>1. CASE j = i /\ b = a
    BY <1>3, <2>1 DEF Moved, Harmless
  <2>2. CASE j # i \/ b # a
    <3>1. <<j, b>> \in net
      BY <1>3, <2>2 DEF Harmless
    <3> QED BY <2>2, <3>1 DEF Moved, RunDiscipline
  <2> QED BY <2>1, <2>2
<1>4. \A j \in Inv : Happened(intent[j])' = Happened(intent[j]) /\ NamesDocuments(intent[j])' = NamesDocuments(intent[j])
  BY DEF Happened, NamesDocuments
<1>5. ASSUME NEW j \in Inv, NEW b \in DOMAIN exec'[j], exec'[j][b] = "done"
      PROVE  Happened(intent[j])
  <2>1. CASE exec[j][b] = "done" /\ b \in DOMAIN exec[j]
    BY <2>1 DEF EvidenceIsTrue
  <2>2. CASE j = i /\ b = a
    BY <1>5, <2>1, <2>2 DEF Moved, Harmless
  <2>3. CASE j # i \/ b # a
    BY <1>5, <2>1, <2>3 DEF Moved
  <2> QED BY <2>2, <2>3
<1>6. Undisturbed'
  <2>1. ASSUME NEW j \in Inv, NEW b \in 1..MaxExec, Outstanding(j, b)'
        PROVE  /\ Outstanding(j, b)
               /\ ~overlapped /\ exec[j][b] = "kinds" => exec'[j][b] = "kinds" \/ OthersQuiet(intent[j])
    <3>1. CASE j = i /\ b = a
      <4>1. <<i, a>> \in net' \/ stage \in {"kinds", "references", "hint", "send"}
        BY <2>1, <3>1 DEF Outstanding, Moved
      <4> QED BY <3>1, <4>1 DEF Harmless
    <3>2. CASE j # i \/ b # a
      <4>1. <<j, b>> \in net' => <<j, b>> \in net
        BY <3>2 DEF Harmless
      <4>2. b \in DOMAIN exec'[j] => b \in DOMAIN exec[j] /\ exec'[j][b] = exec[j][b]
        BY <3>2 DEF Moved
      <4>3. Outstanding(j, b)
        BY <2>1, <4>1, <4>2 DEF Outstanding
      <4>4. b \in DOMAIN exec[j] => exec'[j][b] = exec[j][b]
        BY <3>2 DEF Moved
      <4>5. b \in DOMAIN exec[j]
        BY <4>3 DEF Outstanding, RunDiscipline
      <4> QED BY <4>3, <4>4, <4>5
    <3> QED BY <3>1, <3>2
  <2> QED BY <2>1, UndisturbedStays
<1>7. IntentDiscipline' /\ ProformasStand'
  BY <1>4 DEF IntentDiscipline, ProformasStand
<1> QED BY <1>1, <1>2, <1>3, <1>4, <1>5, <1>6, <1>7

\* A move that journals nothing keeps the invariant.
LEMMA SilentMoveKeeps ==
  ASSUME IInv, NEW i \in Inv, NEW a \in DOMAIN exec[i], NEW stage \in Stage,
         Moved(i, a, stage), Harmless(i, a, stage),
         UNCHANGED <<order, durable, attached, docs, overlapped>>
  PROVE  IInv'
<1>1. UNCHANGED <<lock, marker, journal, intent, answer>>
  BY DEF durable
<1>2. /\ exec' \in [Inv -> Seq(Stage)] /\ net' \subseteq Inv \X (1..MaxExec)
      /\ \A j \in Inv : Len(exec'[j]) <= MaxExec /\ (exec'[j] = <<>> <=> exec[j] = <<>>)
      /\ \A j \in Inv, b \in 1..MaxExec :
           <<j, b>> \in net' => b \in DOMAIN exec'[j] /\ exec'[j][b] \in {"waiting", "over"}
      /\ \A j \in Inv : \A b \in DOMAIN exec'[j] : exec'[j][b] = "done" => Happened(intent[j])'
      /\ \A j \in Inv : Happened(intent[j])' = Happened(intent[j])
      /\ IntentDiscipline' /\ ProformasStand' /\ Undisturbed'
  BY <1>1, MoveKeeps
<1> USE DEF IInv
<1>3. TypeOK' /\ LockDiscipline'
  BY <1>1, <1>2 DEF TypeOK, LockDiscipline
<1>4. MarkerDiscipline'
  BY <1>1, <1>2 DEF MarkerDiscipline
<1>5. RunDiscipline'
  BY <1>1, <1>2 DEF RunDiscipline
<1>6. EvidenceIsTrue'
  BY <1>1, <1>2 DEF EvidenceIsTrue
<1> QED BY <1>2, <1>3, <1>4, <1>5, <1>6

\* The checks after the target's, and the send, keep the invariant.
LEMMA AdvanceKeeps ==
  ASSUME IInv, NEW i \in Inv, NEW a \in DOMAIN exec[i], UNCHANGED order,
         CheckKinds(i, a) \/ CheckReferences(i, a) \/ CheckHint(i, a) \/ Send(i, a)
  PROVE  IInv'
<1>t. exec \in [Inv -> Seq(Stage)] /\ {"references", "hint", "send", "waiting"} \subseteq Stage
  BY DEF IInv, TypeOK, Stage
<1>1. CASE CheckKinds(i, a)
  <2>1. Moved(i, a, "references")
    BY <1>t, <1>1, AdvanceMoves DEF CheckKinds
  <2>2. ~overlapped => OthersQuiet(intent[i])
    <3> SUFFICES ASSUME ~overlapped PROVE OthersQuiet(intent[i])
      OBVIOUS
    <3> DEFINE r == intent[i]
    <3>1. TypeOK /\ NewestLives
      BY DEF IInv, Undisturbed
    <3>2. KindsPermit(r)
      BY <1>1 DEF CheckKinds
    <3> HIDE DEF r
    <3>3. \A kind \in {"invoice", "final"} \ {r.kind} : Quiet(kind)
      BY <3>1, <3>2, NotLiveIsQuiet DEF KindsPermit, IssuedKind, StornoableKind, InvoiceFamily
    <3>4. r.kind \notin {"prepayment", "final"} => Quiet("prepayment")
      BY <3>1, <3>2, NotLiveIsQuiet DEF KindsPermit, IssuedKind, StornoableKind, InvoiceFamily
    <3> QED BY <3>3, <3>4 DEF OthersQuiet, r
  <2>3. Harmless(i, a, "references")
    <3>1. exec[i][a] = "kinds" /\ net' = net
      BY <1>1 DEF CheckKinds
    <3>2. <<i, a>> \notin net
      BY <3>1 DEF IInv, RunDiscipline, TypeOK
    <3> QED BY <2>2, <3>1, <3>2 DEF Harmless, Outstanding
  <2> QED BY <1>t, <1>1, <2>1, <2>3, SilentMoveKeeps DEF CheckKinds
<1>2. CASE CheckReferences(i, a)
  <2>1. Moved(i, a, "hint")
    BY <1>t, <1>2, AdvanceMoves DEF CheckReferences
  <2>3. Harmless(i, a, "hint")
    <3>1. exec[i][a] = "references" /\ net' = net
      BY <1>2 DEF CheckReferences
    <3>2. <<i, a>> \notin net
      BY <3>1 DEF IInv, RunDiscipline, TypeOK
    <3> QED BY <3>1, <3>2 DEF Harmless, Outstanding
  <2> QED BY <1>t, <1>2, <2>1, <2>3, SilentMoveKeeps DEF CheckReferences
<1>3. CASE CheckHint(i, a)
  <2>1. Moved(i, a, "send")
    BY <1>t, <1>3, AdvanceMoves DEF CheckHint
  <2>3. Harmless(i, a, "send")
    <3>1. exec[i][a] = "hint" /\ net' = net
      BY <1>3 DEF CheckHint
    <3>2. <<i, a>> \notin net
      BY <3>1 DEF IInv, RunDiscipline, TypeOK
    <3> QED BY <3>1, <3>2 DEF Harmless, Outstanding
  <2> QED BY <1>t, <1>3, <2>1, <2>3, SilentMoveKeeps DEF CheckHint
<1>4. CASE Send(i, a)
  <2>1. Moved(i, a, "waiting")
    BY <1>t, <1>4, AdvanceMoves DEF Send
  <2>3. Harmless(i, a, "waiting")
    BY <1>4 DEF Harmless, Outstanding, Send
  <2> QED BY <1>t, <1>4, <2>1, <2>3, SilentMoveKeeps DEF Send
<1> QED BY <1>1, <1>2, <1>3, <1>4

(***************************************************************************)
(* The target's check makes a write outstanding: the only one, unless it   *)
(* overlaps another, which overlapped records.                             *)
(***************************************************************************)
LEMMA CheckTargetKeeps ==
  ASSUME IInv, NEW i \in Inv, NEW a \in DOMAIN exec[i], UNCHANGED order, CheckTarget(i, a)
  PROVE  IInv'
<1> USE DEF IInv
<1> DEFINE stage == IF intent[i].op = "create" THEN "kinds" ELSE "send"
<1>f. /\ exec[i][a] = "target" /\ TargetPermits(intent[i]) /\ Advance(i, a, stage)
      /\ overlapped' = (overlapped \/ AnyOutstanding)
      /\ UNCHANGED <<lock, marker, journal, intent, answer, attached, docs, net>>
  BY DEF CheckTarget, durable
<1>t. /\ exec \in [Inv -> Seq(Stage)] /\ net \subseteq Inv \X (1..MaxExec)
      /\ stage \in Stage /\ stage \in {"kinds", "send"}
  BY DEF TypeOK, Stage
<1>m. Moved(i, a, stage) /\ (intent[i].op = "create" => stage = "kinds")
  BY <1>f, <1>t, AdvanceMoves
<1> HIDE DEF stage
<1>1. TypeOK' /\ LockDiscipline' /\ MarkerDiscipline'
  <2>1. exec' \in [Inv -> Seq(Stage)] /\ \A j \in Inv : exec'[j] = <<>> <=> exec[j] = <<>>
    BY <1>m DEF Moved
  <2>2. overlapped' \in BOOLEAN
    BY <1>f DEF TypeOK, AnyOutstanding
  <2> QED BY <1>f, <2>1, <2>2 DEF TypeOK, LockDiscipline, MarkerDiscipline
<1>2. RunDiscipline'
  <2>1. <<i, a>> \notin net
    BY <1>f, <1>t DEF RunDiscipline
  <2>2. \A j \in Inv : (attached'[j] => journal'[j] = "committed" /\ exec'[j] # <<>>) /\ Len(exec'[j]) <= MaxExec
    BY <1>f, <1>m DEF Moved, RunDiscipline
  <2>3. ASSUME NEW j \in Inv, NEW b \in 1..MaxExec, <<j, b>> \in net'
        PROVE  b \in DOMAIN exec'[j] /\ exec'[j][b] \in {"waiting", "over"}
    <3>1. <<j, b>> \in net /\ (j # i \/ b # a)
      BY <1>f, <2>1, <2>3
    <3> QED BY <1>m, <3>1 DEF Moved, RunDiscipline
  <2> QED BY <2>2, <2>3 DEF RunDiscipline
<1>3. IntentDiscipline' /\ ProformasStand'
  BY <1>f DEF IntentDiscipline, ProformasStand, NamesDocuments
<1>4. EvidenceIsTrue'
  <2>1. \A j \in Inv : Happened(intent[j])' = Happened(intent[j])
    BY <1>f DEF Happened
  <2>2. \A j \in Inv : \A b \in DOMAIN exec'[j] : exec'[j][b] = "done" => b \in DOMAIN exec[j] /\ exec[j][b] = "done"
    BY <1>t, <1>m DEF Moved
  <2> QED BY <1>f, <2>1, <2>2 DEF EvidenceIsTrue
<1>5. Undisturbed'
  <2> SUFFICES ASSUME ~overlapped' PROVE (NewestLives /\ OneChain /\ OneOutstanding /\ CreatesChecked)'
    BY DEF Undisturbed
  <2>1. NewestLives /\ OneChain /\ ~AnyOutstanding
    BY <1>f DEF Undisturbed
  <2>2. \A kind : Quiet(kind)' = Quiet(kind)
    BY <1>f DEF Quiet, Live
  <2>3. NewestLives' /\ OneChain'
    BY <1>f, <2>1, <2>2 DEF NewestLives, OneChain
  <2>4. ASSUME NEW j \in Inv, NEW b \in 1..MaxExec, Outstanding(j, b)'
        PROVE  j = i /\ b = a
    <3> SUFFICES ASSUME j # i \/ b # a PROVE FALSE
      OBVIOUS
    <3>1. b \in DOMAIN exec[j] => b \in DOMAIN exec'[j] /\ exec'[j][b] = exec[j][b]
      BY <1>m DEF Moved
    <3>2. b \in DOMAIN exec'[j] => b \in DOMAIN exec[j]
      BY <1>m DEF Moved
    <3>3. Outstanding(j, b)
      BY <1>f, <2>4, <3>1, <3>2 DEF Outstanding
    <3>4. b \in DOMAIN exec[j]
      BY <3>3 DEF Outstanding, RunDiscipline
    <3> QED BY <2>1, <3>3, <3>4 DEF AnyOutstanding
  <2>5. OneOutstanding'
    BY <2>4 DEF OneOutstanding
  <2>6. CreatesChecked'
    <3> SUFFICES ASSUME NEW j \in Inv, NEW b \in 1..MaxExec, Outstanding(j, b)', intent'[j].op = "create"
                 PROVE  Quiet(intent[j].kind)' /\ exec'[j][b] = "kinds"
      BY DEF CreatesChecked
    <3>1. j = i /\ b = a /\ intent[i].op = "create" /\ exec'[j][b] = "kinds"
      BY <1>f, <1>m, <2>4 DEF Moved
    <3>2. intent[i].kind \in IssuedKind
      BY <3>1 DEF IntentDiscipline, NamesDocuments
    <3>3. Quiet(intent[i].kind)
      BY <1>f, <2>1, <3>1, <3>2, TargetIsQuiet DEF TargetPermits
    <3> QED BY <1>f, <2>2, <3>1, <3>3 DEF Quiet, Live
  <2> QED BY <2>3, <2>5, <2>6
<1> QED BY <1>1, <1>2, <1>3, <1>4, <1>5

\* An execution that reaches the run has checked nothing yet.
LEMMA OpenKeeps ==
  ASSUME IInv, NEW i \in Inv, UNCHANGED order, Open(i)
  PROVE  IInv'
<1> USE DEF IInv
<1>f. /\ lock = i /\ journal[i] = "committed" /\ Len(exec[i]) < MaxExec
      /\ exec' = [exec EXCEPT ![i] = Append(@, "target")] /\ attached' = [attached EXCEPT ![i] = TRUE]
      /\ UNCHANGED <<lock, marker, journal, intent, answer, docs, net, overlapped>>
  BY DEF Open, durable
<1>t. exec \in [Inv -> Seq(Stage)] /\ attached \in [Inv -> BOOLEAN] /\ net \subseteq Inv \X (1..MaxExec)
  BY DEF TypeOK
<1> DEFINE a == Len(exec[i]) + 1
<1>m. /\ exec' \in [Inv -> Seq(Stage)]
      /\ \A j \in Inv : j # i => exec'[j] = exec[j]
      /\ Len(exec'[i]) = a /\ exec'[i] # <<>> /\ DOMAIN exec'[i] = DOMAIN exec[i] \cup {a}
      /\ exec'[i][a] = "target" /\ \A b \in DOMAIN exec[i] : exec'[i][b] = exec[i][b]
  BY <1>f, <1>t, OpenAdds
<1>a. a <= MaxExec /\ a \notin DOMAIN exec[i]
  BY <1>f, <1>t, Executions, ReplayBound
<1> HIDE DEF a
<1>d. \A j \in Inv : \A b \in DOMAIN exec[j] : b \in DOMAIN exec'[j] /\ exec'[j][b] = exec[j][b]
  BY <1>m
<1>e. \A j \in Inv : \A b \in DOMAIN exec'[j] : b \in DOMAIN exec[j] \/ exec'[j][b] = "target"
  BY <1>m
<1>1. TypeOK' /\ LockDiscipline'
  BY <1>f, <1>t, <1>m DEF TypeOK, LockDiscipline
<1>2. MarkerDiscipline'
  BY <1>f, <1>m DEF MarkerDiscipline
<1>3. RunDiscipline'
  <2>1. \A j \in Inv : (attached'[j] => journal'[j] = "committed" /\ exec'[j] # <<>>) /\ Len(exec'[j]) <= MaxExec
    BY <1>f, <1>t, <1>m, <1>a DEF RunDiscipline
  <2> QED BY <1>f, <1>d, <2>1 DEF RunDiscipline
<1>4. IntentDiscipline' /\ ProformasStand'
  BY <1>f DEF IntentDiscipline, ProformasStand, NamesDocuments
<1>5. EvidenceIsTrue'
  <2>1. \A j \in Inv : Happened(intent[j])' = Happened(intent[j])
    BY <1>f DEF Happened
  <2> QED BY <1>f, <1>d, <1>e, <2>1 DEF EvidenceIsTrue
<1>6. Undisturbed'
  <2>1. \A j \in Inv, b \in 1..MaxExec : Outstanding(j, b)' =>
          Outstanding(j, b) /\ b \in DOMAIN exec[j] /\ exec'[j][b] = exec[j][b]
    BY <1>f, <1>d, <1>e DEF Outstanding, RunDiscipline
  <2> QED BY <1>f, <2>1, UndisturbedStays
<1> QED BY <1>1, <1>2, <1>3, <1>4, <1>5, <1>6

(***************************************************************************)
(* An execution comes to its end, or goes on alone: no write becomes       *)
(* outstanding by that and nothing becomes evidence.                       *)
(***************************************************************************)
LEMMA EndingKeeps ==
  ASSUME IInv, NEW i \in Inv, UNCHANGED <<order, intent, docs, net, overlapped>>,
         UNCHANGED exec \/ (\E a \in DOMAIN exec[i] : Advance(i, a, "over"))
  PROVE  /\ exec' \in [Inv -> Seq(Stage)]
         /\ \A j \in Inv : Len(exec'[j]) <= MaxExec /\ (exec'[j] = <<>> <=> exec[j] = <<>>)
         /\ \A j \in Inv, b \in 1..MaxExec :
              <<j, b>> \in net' => b \in DOMAIN exec'[j] /\ exec'[j][b] \in {"waiting", "over"}
         /\ \A j \in Inv : \A b \in DOMAIN exec'[j] : exec'[j][b] = "done" => Happened(intent[j])'
         /\ \A j \in Inv : Happened(intent[j])' = Happened(intent[j])
         /\ IntentDiscipline' /\ ProformasStand' /\ Undisturbed'
<1>1. CASE UNCHANGED exec
  <2> USE <1>1 DEF IInv
  <2>1. \A j \in Inv : Happened(intent[j])' = Happened(intent[j])
    BY DEF Happened
  <2>2. Undisturbed'
    <3>1. \A j \in Inv, b \in 1..MaxExec : Outstanding(j, b)' = Outstanding(j, b)
      BY DEF Outstanding
    <3> QED BY <3>1, UndisturbedStays
  <2>3. IntentDiscipline' /\ ProformasStand'
    BY DEF IntentDiscipline, ProformasStand, NamesDocuments
  <2>4. \A j \in Inv : \A b \in DOMAIN exec'[j] : exec'[j][b] = "done" => Happened(intent[j])'
    BY <2>1 DEF EvidenceIsTrue
  <2> QED BY <2>1, <2>2, <2>3, <2>4 DEF TypeOK, RunDiscipline
<1>2. CASE \E a \in DOMAIN exec[i] : Advance(i, a, "over")
  <2>1. PICK a \in DOMAIN exec[i] : Advance(i, a, "over")
    BY <1>2
  <2>2. exec \in [Inv -> Seq(Stage)] /\ "over" \in Stage
    BY DEF IInv, TypeOK, Stage
  <2>3. Moved(i, a, "over")
    BY <2>1, <2>2, AdvanceMoves
  <2>4. Harmless(i, a, "over")
    <3>1. <<i, a>> \in net => exec[i][a] # "kinds"
      BY DEF IInv, RunDiscipline, TypeOK
    <3> QED BY <3>1 DEF Harmless, Outstanding
  <2> QED BY <2>2, <2>3, <2>4, MoveKeeps
<1> QED BY <1>1, <1>2

\* A result is journaled by the execution that is listened to, while the run
\* is open.
LEMMA FinishKeeps ==
  ASSUME IInv, NEW i \in Inv, NEW a \in DOMAIN exec[i], NEW result \in {"executed", "unresolved"},
         UNCHANGED order, Finish(i, a, result), result = "executed" => Happened(intent[i])
  PROVE  IInv'
<1>f. /\ UNCHANGED <<lock, marker, intent, docs, net, overlapped>> /\ Advance(i, a, "over")
      /\ \/ /\ attached[i] /\ journal' = [journal EXCEPT ![i] = "wrote"]
            /\ answer' = [answer EXCEPT ![i] = result] /\ attached' = [attached EXCEPT ![i] = FALSE]
         \/ UNCHANGED <<journal, answer, attached>>
  BY DEF Finish, Current
<1>1. /\ exec' \in [Inv -> Seq(Stage)]
      /\ \A j \in Inv : Len(exec'[j]) <= MaxExec /\ (exec'[j] = <<>> <=> exec[j] = <<>>)
      /\ \A j \in Inv, b \in 1..MaxExec :
           <<j, b>> \in net' => b \in DOMAIN exec'[j] /\ exec'[j][b] \in {"waiting", "over"}
      /\ \A j \in Inv : \A b \in DOMAIN exec'[j] : exec'[j][b] = "done" => Happened(intent[j])'
      /\ \A j \in Inv : Happened(intent[j])' = Happened(intent[j])
      /\ IntentDiscipline' /\ ProformasStand' /\ Undisturbed'
  BY <1>f, EndingKeeps
<1> USE DEF IInv
<1>t. /\ attached \in [Inv -> BOOLEAN] /\ answer \in [Inv -> Answer]
      /\ journal \in [Inv -> {"new", "prepared", "marked", "committed", "wrote", "ended"}]
  BY DEF TypeOK
<1>2. TypeOK'
  <2>1. answer' \in [Inv -> Answer]
    BY <1>f, <1>t DEF Answer
  <2> QED BY <1>f, <1>1, <1>t, <2>1 DEF TypeOK
<1>3. attached[i] => journal[i] = "committed"
  BY DEF RunDiscipline
<1>4. LockDiscipline'
  BY <1>f, <1>t, <1>3 DEF LockDiscipline, Held
<1>5. MarkerDiscipline'
  BY <1>f, <1>1, <1>t, <1>3 DEF MarkerDiscipline
<1>6. RunDiscipline'
  <2>1. \A j \in Inv : attached'[j] =>
          attached[j] /\ (j = i => UNCHANGED journal) /\ journal'[j] = journal[j]
    BY <1>f, <1>t
  <2>2. \A j \in Inv : attached'[j] => journal'[j] = "committed" /\ exec'[j] # <<>>
    BY <1>1, <2>1 DEF RunDiscipline
  <2> QED BY <1>1, <2>2 DEF RunDiscipline
<1>7. EvidenceIsTrue'
  <2>1. \A j \in Inv : answer'[j] = "executed" => Happened(intent[j])
    BY <1>f, <1>t DEF EvidenceIsTrue
  <2> QED BY <1>1, <2>1 DEF EvidenceIsTrue
<1> QED BY <1>1, <1>2, <1>4, <1>5, <1>6, <1>7

\* The results of an execution: evidence read, a failed check, or a reply.
LEMMA ResultKeeps ==
  ASSUME IInv, NEW i \in Inv, NEW a \in DOMAIN exec[i], UNCHANGED order,
         CheckSettles(i, a) \/ CheckFails(i, a) \/ Receive(i, a)
  PROVE  IInv'
<1>e. TargetEvidence(intent[i]) => Happened(intent[i])
  <2>1. TypeOK /\ intent[i] \in Intent /\ NamesDocuments(intent[i])
    BY DEF IInv, TypeOK, IntentDiscipline
  <2> QED BY <2>1, EvidenceHappened
<1>1. CASE CheckSettles(i, a)
  BY <1>e, <1>1, FinishKeeps DEF CheckSettles
<1>2. CASE CheckFails(i, a)
  BY <1>2, FinishKeeps DEF CheckFails
<1>3. CASE Receive(i, a)
  <2>1. PICK result \in ReplyResults(i, exec[i][a]) : Finish(i, a, result)
    BY <1>3 DEF Receive
  <2>2. exec[i][a] = "done" => Happened(intent[i])
    BY DEF IInv, EvidenceIsTrue
  <2>3. result \in {"executed", "unresolved"} /\ (result = "executed" => Happened(intent[i]))
    BY <1>e, <2>1, <2>2 DEF ReplyResults
  <2> QED BY <2>1, <2>3, FinishKeeps
<1> QED BY <1>1, <1>2, <1>3

\* Interruptions and cancellation leave the marker where it is.
LEMMA DetachKeeps ==
  ASSUME IInv, NEW i \in Inv, UNCHANGED order, Interrupt(i) \/ Stop(i)
  PROVE  IInv'
<1> USE DEF IInv
<1>t. /\ attached \in [Inv -> BOOLEAN] /\ answer \in [Inv -> Answer] /\ exec \in [Inv -> Seq(Stage)]
      /\ journal \in [Inv -> {"new", "prepared", "marked", "committed", "wrote", "ended"}]
      /\ lock \in Inv \cup {NoInv} /\ NoInv \notin Inv /\ "outcome_unknown" \in Answer
  BY ReplayActors DEF TypeOK, Answer
<1>f. /\ UNCHANGED <<marker, intent, docs, net, overlapped>>
      /\ attached' = [attached EXCEPT ![i] = FALSE]
      /\ \/ Interrupt(i) /\ UNCHANGED <<lock, journal, answer>>
         \/ /\ lock = i /\ journal[i] \in {"marked", "committed", "wrote"} /\ answer[i] # "executed"
            /\ lock' = NoInv /\ journal' = [journal EXCEPT ![i] = "ended"]
            /\ answer' = [answer EXCEPT ![i] = "outcome_unknown"]
  <2>1. CASE Interrupt(i)
    BY <2>1 DEF Interrupt, Detach, durable
  <2>2. CASE Stop(i)
    <3>1. attached' = [attached EXCEPT ![i] = FALSE]
      BY <1>t, <2>2 DEF Stop, Detach
    <3>2. answer[i] # "executed"
      BY <2>2 DEF Stop, MarkerDiscipline
    <3> QED BY <2>2, <3>1, <3>2 DEF Stop
  <2> QED BY <2>1, <2>2
<1>e. UNCHANGED exec \/ (\E a \in DOMAIN exec[i] : Advance(i, a, "over"))
  <2>1. attached[i] => Len(exec[i]) \in DOMAIN exec[i]
    BY <1>t, Executions DEF RunDiscipline
  <2>2. UNCHANGED exec \/ (attached[i] /\ exec' = [exec EXCEPT ![i][Len(exec[i])] = "over"])
    BY DEF Interrupt, Stop, Detach
  <2> QED BY <2>1, <2>2 DEF Advance
<1>1. /\ exec' \in [Inv -> Seq(Stage)]
      /\ \A j \in Inv : Len(exec'[j]) <= MaxExec /\ (exec'[j] = <<>> <=> exec[j] = <<>>)
      /\ \A j \in Inv, b \in 1..MaxExec :
           <<j, b>> \in net' => b \in DOMAIN exec'[j] /\ exec'[j][b] \in {"waiting", "over"}
      /\ \A j \in Inv : \A b \in DOMAIN exec'[j] : exec'[j][b] = "done" => Happened(intent[j])'
      /\ \A j \in Inv : Happened(intent[j])' = Happened(intent[j])
      /\ IntentDiscipline' /\ ProformasStand' /\ Undisturbed'
  BY <1>f, <1>e, EndingKeeps
<1>2. TypeOK'
  BY <1>f, <1>1, <1>t DEF TypeOK
<1>3. LockDiscipline'
  BY <1>f, <1>t DEF LockDiscipline, Held
<1>4. MarkerDiscipline'
  BY <1>f, <1>1, <1>t DEF MarkerDiscipline
<1>5. RunDiscipline'
  <2>1. \A j \in Inv : attached'[j] => journal'[j] = "committed" /\ exec'[j] # <<>>
    BY <1>f, <1>1, <1>t DEF RunDiscipline
  <2> QED BY <1>1, <2>1 DEF RunDiscipline
<1>6. EvidenceIsTrue'
  <2>1. \A j \in Inv : answer'[j] = "executed" => answer[j] = "executed"
    BY <1>f, <1>t
  <2> QED BY <1>1, <2>1 DEF EvidenceIsTrue
<1> QED BY <1>1, <1>2, <1>3, <1>4, <1>5, <1>6

-----------------------------------------------------------------------------
(* The service and everyone else.                                          *)

\* What a decision does to the execution that waits, and to the request.
LEMMA DecisionMoves ==
  ASSUME IInv, NEW i \in Inv, NEW a \in DOMAIN exec[i], <<i, a>> \in net,
         NEW reply \in Reply, Decide(i, a, reply)
  PROVE  \E stage \in Stage : /\ Moved(i, a, stage) /\ stage \in Reply \cup {"over"}
                              /\ stage = "done" => reply = "done"
<1>t. exec \in [Inv -> Seq(Stage)] /\ Reply \subseteq Stage /\ "over" \in Stage
  BY DEF IInv, TypeOK, Stage
<1>1. exec[i][a] \in {"waiting", "over"}
  BY DEF IInv, RunDiscipline, TypeOK
<1>2. CASE exec[i][a] = "waiting"
  <2>1. Advance(i, a, reply)
    BY <1>2 DEF Decide, Advance
  <2> QED BY <1>t, <2>1, AdvanceMoves
<1>3. CASE exec[i][a] = "over"
  <2>1. exec' = exec
    BY <1>3 DEF Decide
  <2>2. Moved(i, a, "over")
    BY <1>t, <1>3, <2>1 DEF Moved
  <2> QED BY <1>t, <2>2 DEF Reply
<1> QED BY <1>1, <1>2, <1>3

\* A request that comes to nothing: done is said only of a storno that is there.
LEMMA DiscardKeeps ==
  ASSUME IInv, NEW i \in Inv, NEW a \in DOMAIN exec[i], UNCHANGED order, Discard(i, a)
  PROVE  IInv'
<1>1. PICK reply \in Reply : /\ Decide(i, a, reply)
                             /\ reply = "done" => intent[i].op = "storno" /\ docs[intent[i].target].reversed
  BY DEF Discard, Reply
<1>2. PICK stage \in Stage : /\ Moved(i, a, stage) /\ stage \in Reply \cup {"over"}
                             /\ stage = "done" => reply = "done"
  BY <1>1, DecisionMoves DEF Discard
<1>3. Harmless(i, a, stage)
  <2>1. net' = net \ {<<i, a>>}
    BY <1>1 DEF Decide
  <2>2. stage \notin {"kinds", "references", "hint", "send"}
    BY <1>2 DEF Reply
  <2>3. stage = "done" => Happened(intent[i])
    BY <1>1, <1>2 DEF Happened
  <2> QED BY <2>1, <2>2, <2>3 DEF Harmless
<1>4. UNCHANGED <<durable, attached, docs, overlapped>>
  BY <1>1 DEF Discard, Decide
<1> QED BY <1>2, <1>3, <1>4, SilentMoveKeeps

\* Where nothing of the order's own is added, quiet slots stay quiet and what
\* was replaced stays reversed.
LEMMA QuietStays ==
  ASSUME TypeOK, docs' \in Seq(Document(Inv \cup {NoInv})), Kept(docs, docs'), NoneOwned(docs, docs')
  PROVE  /\ \A kind \in IssuedKind : Quiet(kind) => Quiet(kind)'
         /\ NewestLives => NewestLives'
         /\ OneChain => OneChain'
<1>t. docs \in Seq(Document(Inv \cup {NoInv}))
  BY DEF TypeOK
<1>1. \A kind \in IssuedKind : \A n : Own(docs', kind, n) => Own(docs, kind, n) /\ n \in DOMAIN docs
  <2> SUFFICES ASSUME NEW kind \in IssuedKind, NEW n, Own(docs', kind, n)
               PROVE  Own(docs, kind, n) /\ n \in DOMAIN docs
    OBVIOUS
  <2>1. Own(docs, kind, n)
    BY <1>t, OwnKept
  <2> QED BY <2>1 DEF Own, Holders, Visible
<1>2. \A n \in DOMAIN docs : docs[n].reversed => docs'[n].reversed
  BY DEF Kept
<1>3. ASSUME NEW kind \in IssuedKind, Quiet(kind)
      PROVE  Quiet(kind)'
  <2> SUFFICES ASSUME NEW n \in DOMAIN docs', Live(n, kind)' PROVE FALSE
    BY DEF Quiet
  <2>1. Own(docs', kind, n) /\ ~docs'[n].reversed
    BY LiveIsOwn
  <2>2. Own(docs, kind, n) /\ n \in DOMAIN docs /\ ~docs[n].reversed
    BY <1>1, <1>2, <2>1
  <2> QED BY <1>3, <2>2, LiveIsOwn DEF Quiet
<1>4. NewestLives => NewestLives'
  BY <1>1, <1>2 DEF NewestLives
<1>5. OneChain => OneChain'
  BY <1>3 DEF OneChain, IssuedKind, StornoableKind, InvoiceFamily
<1> QED BY <1>3, <1>4, <1>5

\* What anyone else does to the documents keeps the invariant.
LEMMA OutsideKeeps ==
  ASSUME IInv, UNCHANGED order, Outside
  PROVE  IInv'
<1> USE DEF IInv
<1>f. UNCHANGED <<lock, marker, journal, intent, answer, exec, attached, net, overlapped>>
  BY DEF Outside, OutsideStorno, OutsideDelete, OutsideIssue, durable
<1> DEFINE Issuers == Inv \cup {NoInv}
<1>t. docs \in Seq(Document(Issuers)) /\ NoInv \in Issuers
  BY DEF TypeOK
<1> DEFINE BornReversed == \E n \in DOMAIN docs' \ DOMAIN docs : docs'[n].reversed
<1> HIDE DEF Issuers
<1>1. docs' \in Seq(Document(Issuers)) /\ Kept(docs, docs') /\ NoneOwned(docs, docs') /\ ~BornReversed
  <2>1. ASSUME NEW n \in DOMAIN docs, OutsideStorno(n)
        PROVE  docs' \in Seq(Document(Issuers)) /\ Kept(docs, docs') /\ NoneOwned(docs, docs') /\ ~BornReversed
    <3>1. docs' = Reverse(docs, n, FALSE, NoInv) /\ Stornoable(docs, n)
      BY <2>1 DEF OutsideStorno, Stornoable
    <3>2. /\ docs' \in Seq(Document(Issuers)) /\ Kept(docs, docs') /\ NoneOwned(docs, docs')
          /\ Reversal(docs, docs', n, FALSE, NoInv)
      BY <1>t, <3>1, ReverseKeeps
    <3> QED BY <3>2 DEF Reversal
  <2>2. ASSUME NEW n \in DOMAIN docs, OutsideDelete(n)
        PROVE  docs' \in Seq(Document(Issuers)) /\ Kept(docs, docs') /\ NoneOwned(docs, docs') /\ ~BornReversed
    <3>1. docs' = Delete(docs, n) /\ docs[n].kind = "proforma"
      BY <2>2 DEF OutsideDelete
    <3>2. Delete(docs, n) \in Seq(Document(Issuers)) /\ DOMAIN Delete(docs, n) = DOMAIN docs
          /\ Kept(docs, Delete(docs, n))
      BY <1>t, <3>1, DeleteKeeps
    <3> QED BY <3>1, <3>2 DEF NoneOwned
  <2>3. ASSUME NEW kind \in CreateKind, NEW collides \in BOOLEAN, OutsideIssue(kind, collides)
        PROVE  docs' \in Seq(Document(Issuers)) /\ Kept(docs, docs') /\ NoneOwned(docs, docs') /\ ~BornReversed
    <3> DEFINE doc == [kind |-> kind, of |-> 0, ext |-> collides, order |-> ~collides,
                       reversed |-> FALSE, gone |-> FALSE, by |-> NoInv]
    <3>1. docs' = Append(docs, doc)
      BY <2>3 DEF OutsideIssue
    <3>2. kind \in IssuedKind
      BY <2>3, IntentsType DEF CreateKind, TypeOK
    <3>3. doc \in Document(Issuers) /\ ~Owned(doc) /\ ~doc.reversed
      BY <1>t, <3>2 DEF Document, Owned
    <3> HIDE DEF doc
    <3>4. /\ docs' \in Seq(Document(Issuers)) /\ Kept(docs, docs') /\ docs'[Len(docs) + 1] = doc
          /\ DOMAIN docs' = DOMAIN docs \cup {Len(docs) + 1}
      BY <1>t, <3>1, <3>3, AppendKeeps
    <3> QED BY <3>3, <3>4 DEF NoneOwned
  <2> QED BY <2>1, <2>2, <2>3 DEF Outside
<1>2. TypeOK'
  BY <1>f, <1>1 DEF TypeOK, Issuers
<1>3. LockDiscipline' /\ MarkerDiscipline' /\ RunDiscipline'
  BY <1>f DEF LockDiscipline, MarkerDiscipline, RunDiscipline
<1>4. \A j \in Inv : NamesDocuments(intent[j])' /\ (Happened(intent[j]) => Happened(intent[j])')
  <2> SUFFICES ASSUME NEW j \in Inv
               PROVE  NamesDocuments(intent[j])' /\ (Happened(intent[j]) => Happened(intent[j])')
    OBVIOUS
  <2> DEFINE r == intent[j]
  <2>1. r \in Intent /\ NamesDocuments(r) /\ r' = r
    BY <1>f DEF TypeOK, IntentDiscipline
  <2>2. NamesDocuments(r)' /\ (Happened(r) => Happened(r)')
    BY <1>f, <1>1, <2>1, HappenedStays DEF Issuers
  <2> QED BY <2>2
<1>5. IntentDiscipline' /\ EvidenceIsTrue'
  BY <1>f, <1>4 DEF IntentDiscipline, EvidenceIsTrue
<1>6. ProformasStand'
  <2> SUFFICES ASSUME NEW n \in DOMAIN docs', docs'[n].kind = "proforma", docs'[n].reversed PROVE FALSE
    BY DEF ProformasStand
  <2>1. n \in DOMAIN docs
    BY <1>1
  <2>2. docs[n].kind = "proforma" /\ (docs[n].reversed \/ docs[n].kind \in StornoableKind)
    BY <1>1, <2>1 DEF Kept
  <2> QED BY <2>1, <2>2 DEF ProformasStand, StornoableKind, InvoiceFamily
<1>7. Undisturbed'
  <2> SUFFICES ASSUME ~overlapped PROVE (NewestLives /\ OneChain /\ OneOutstanding /\ CreatesChecked)'
    BY <1>f DEF Undisturbed
  <2>1. NewestLives /\ OneChain /\ OneOutstanding /\ CreatesChecked
    BY DEF Undisturbed
  <2>2. (\A kind \in IssuedKind : Quiet(kind) => Quiet(kind)') /\ NewestLives' /\ OneChain'
    BY <1>1, <2>1, QuietStays DEF Issuers
  <2>3. \A j \in Inv, b \in 1..MaxExec : Outstanding(j, b)' = Outstanding(j, b)
    BY <1>f DEF Outstanding
  <2>4. OneOutstanding'
    BY <2>1, <2>3 DEF OneOutstanding
  <2>5. CreatesChecked'
    <3> SUFFICES ASSUME NEW j \in Inv, NEW b \in 1..MaxExec, Outstanding(j, b)', intent'[j].op = "create"
                 PROVE  Quiet(intent[j].kind)' /\ (exec'[j][b] # "kinds" => OthersQuiet(intent[j])')
      BY DEF CreatesChecked
    <3>1. /\ Quiet(intent[j].kind) /\ (exec[j][b] # "kinds" => OthersQuiet(intent[j]))
          /\ intent[j].kind \in IssuedKind /\ intent'[j] = intent[j] /\ exec'[j][b] = exec[j][b]
      BY <1>f, <2>1, <2>3 DEF CreatesChecked, IntentDiscipline, NamesDocuments
    <3>2. Quiet(intent[j].kind)'
      BY <2>2, <3>1
    <3>3. OthersQuiet(intent[j]) => OthersQuiet(intent[j])'
      BY <2>2, <3>1 DEF OthersQuiet, IssuedKind, StornoableKind, InvoiceFamily
    <3> QED BY <3>1, <3>2, <3>3
  <2> QED BY <2>2, <2>4, <2>5
<1> QED BY <1>2, <1>3, <1>5, <1>6, <1>7

(***************************************************************************)
(* What a request does when it takes effect: nothing is lost, the write is *)
(* there, and of the order's own at most one document of the pinned kind   *)
(* is new.                                                                 *)
(***************************************************************************)
LEMMA EffectKeeps ==
  ASSUME IInv, NEW i \in Inv, docs' = Effect(i), UNCHANGED intent
  PROVE  /\ docs' \in Seq(Document(Inv \cup {NoInv})) /\ Kept(docs, docs')
         /\ Happened(intent[i])'
         /\ \/ NoneOwned(docs, docs')
            \/ intent[i].op = "create" /\ Issuance(docs, docs', intent[i].kind, i)
         /\ \A n \in DOMAIN docs' \ DOMAIN docs : ~docs'[n].reversed
<1> DEFINE Issuers == Inv \cup {NoInv}
           r == intent[i]
<1>t. docs \in Seq(Document(Issuers)) /\ i \in Issuers /\ r \in Intent /\ NamesDocuments(r)
  BY DEF IInv, TypeOK, IntentDiscipline
<1> HIDE DEF Issuers
<1>1. CASE r.op = "create"
  <2> DEFINE gone == IF r.proforma \in Visible(docs) THEN r.proforma ELSE 0
  <2>1. r.kind \in IssuedKind /\ (gone = 0 \/ (gone \in DOMAIN docs /\ docs[gone].kind = "proforma"))
    BY <1>t, <1>1 DEF NamesDocuments
  <2>2. 0 \notin Visible(docs)
    BY <1>t, Numbers DEF Visible
  <2>3. docs' = Issue(IF gone = 0 THEN docs ELSE Delete(docs, gone), r.kind, i)
    BY <1>1, <2>2 DEF Effect
  <2> HIDE DEF gone
  <2>4. docs' \in Seq(Document(Issuers)) /\ Kept(docs, docs') /\ Issuance(docs, docs', r.kind, i)
    BY <1>t, <2>1, <2>3, IssueKeeps
  <2> DEFINE N == Len(docs) + 1
  <2>5. /\ N \in DOMAIN docs' /\ DOMAIN docs' = DOMAIN docs \cup {N} /\ ~docs'[N].reversed
        /\ docs'[N].kind = r.kind /\ docs'[N].order /\ docs'[N].ext
    BY <2>4 DEF Issuance, Own, Holders
  <2>6. N > r.target
    <3>1. r.target = 0 \/ r.target \in DOMAIN docs
      BY <1>t, <1>1 DEF NamesDocuments, Own, Holders, Visible
    <3> QED BY <1>t, <3>1, Numbers
  <2>7. Happened(r)'
    BY <1>1, <2>5, <2>6 DEF Happened
  <2> QED BY <1>1, <2>4, <2>5, <2>7 DEF Issuers
<1>2. CASE r.op = "storno"
  <2>1. r.target \in DOMAIN docs /\ Stornoable(docs, r.target) /\ docs' = Reverse(docs, r.target, TRUE, i)
    BY <1>t, <1>2 DEF NamesDocuments, Stornoable, Effect
  <2>2. /\ docs' \in Seq(Document(Issuers)) /\ Kept(docs, docs') /\ NoneOwned(docs, docs')
        /\ Reversal(docs, docs', r.target, TRUE, i)
    BY <1>t, <2>1, ReverseKeeps
  <2>3. Happened(r)'
    BY <1>2, <2>2 DEF Happened, Reversal
  <2> QED BY <2>2, <2>3 DEF Issuers, Reversal
<1>3. CASE r.op = "delete"
  <2>1. r.target \in DOMAIN docs /\ docs[r.target].kind = "proforma" /\ docs' = Delete(docs, r.target)
    BY <1>t, <1>3 DEF NamesDocuments, Effect
  <2>2. /\ docs' \in Seq(Document(Issuers)) /\ Kept(docs, docs') /\ DOMAIN docs' = DOMAIN docs
        /\ docs'[r.target].gone
    BY <1>t, <2>1, DeleteKeeps
  <2>3. Happened(r)'
    BY <1>3, <2>2 DEF Happened
  <2> QED BY <2>2, <2>3 DEF Issuers, NoneOwned
<1> QED BY <1>t, <1>1, <1>2, <1>3 DEF Intent

\* While nothing overlapped, the write that takes effect found its slot and
\* the kinds that exclude it quiet, and they still are.
LEMMA IssuanceUndisturbed ==
  ASSUME IInv, NEW kind \in IssuedKind, NEW by, NewestLives, OneChain, Quiet(kind),
         \A k \in {"invoice", "final"} \ {kind} : Quiet(k),
         kind \notin {"prepayment", "final"} => Quiet("prepayment"),
         docs' \in Seq(Document(Inv \cup {NoInv})), Kept(docs, docs'), Issuance(docs, docs', kind, by)
  PROVE  NewestLives' /\ OneChain'
<1> DEFINE N == Len(docs) + 1
<1>t. docs \in Seq(Document(Inv \cup {NoInv}))
  BY DEF IInv, TypeOK
<1>1. /\ DOMAIN docs' = DOMAIN docs \cup {N} /\ N \notin DOMAIN docs
      /\ docs'[N].kind = kind /\ \A n \in DOMAIN docs : docs'[n].reversed = docs[n].reversed
  BY DEF Issuance
<1>2. \A k \in IssuedKind : \A n \in DOMAIN docs : Own(docs', k, n) => Own(docs, k, n)
  BY <1>t, OwnKept
<1>3. \A k : Own(docs', k, N) => k = kind
  BY <1>1 DEF Own, Holders
<1>4. ASSUME NEW k \in IssuedKind, k # kind, Quiet(k)
      PROVE  Quiet(k)'
  <2> SUFFICES ASSUME NEW n \in DOMAIN docs', Live(n, k)' PROVE FALSE
    BY DEF Quiet
  <2>1. Own(docs', k, n) /\ ~docs'[n].reversed
    BY LiveIsOwn
  <2>2. n \in DOMAIN docs /\ ~docs[n].reversed /\ Own(docs, k, n)
    BY <1>1, <1>2, <1>3, <1>4, <2>1
  <2> QED BY <1>4, <2>2, LiveIsOwn DEF Quiet
<1>5. NewestLives'
  <2> SUFFICES ASSUME NEW k \in IssuedKind, NEW m \in DOMAIN docs', NEW n \in DOMAIN docs',
                      Own(docs', k, m), Own(docs', k, n), m < n
               PROVE  docs'[m].reversed
    BY DEF NewestLives
  <2>1. m \in DOMAIN docs
    BY <1>t, <1>1, Numbers
  <2>2. Own(docs, k, m)
    BY <1>2, <2>1
  <2>3. CASE n = N
    BY <1>1, <1>3, <2>1, <2>2, <2>3, LiveIsOwn DEF Quiet
  <2>4. CASE n # N
    BY <1>1, <1>2, <2>1, <2>2, <2>4 DEF NewestLives
  <2> QED BY <2>3, <2>4
<1>6. OneChain'
  <2>0. "invoice" \in IssuedKind /\ "prepayment" \in IssuedKind /\ "final" \in IssuedKind
    BY DEF IssuedKind, StornoableKind, InvoiceFamily
  <2>1. CASE kind = "invoice"
    <3>1. Quiet("final") /\ Quiet("prepayment")
      BY <2>1
    <3>2. Quiet("final")' /\ Quiet("prepayment")'
      BY <1>4, <2>0, <2>1, <3>1
    <3> QED BY <3>2 DEF OneChain
  <2>2. CASE kind # "invoice"
    <3>1. Quiet("invoice")
      BY <2>2
    <3>2. Quiet("invoice")'
      BY <1>4, <2>0, <2>2, <3>1
    <3> QED BY <3>2 DEF OneChain
  <2> QED BY <2>1, <2>2
<1> QED BY <1>5, <1>6

\* A request that takes effect keeps the invariant.
LEMMA ExecuteKeeps ==
  ASSUME IInv, NEW i \in Inv, NEW a \in DOMAIN exec[i], UNCHANGED order, Execute(i, a)
  PROVE  IInv'
<1>f. /\ UNCHANGED <<lock, marker, journal, intent, answer, attached, overlapped>>
      /\ net' = net \ {<<i, a>>} /\ docs' = Effect(i) /\ <<i, a>> \in net
  BY DEF Execute, Decide, durable
<1>m. PICK stage \in Stage : Moved(i, a, stage) /\ stage \in Reply \cup {"over"}
  <2>1. PICK reply \in Reply : Decide(i, a, reply)
    BY DEF Execute, Reply
  <2> QED BY <1>f, <2>1, DecisionMoves
<1>1. /\ docs' \in Seq(Document(Inv \cup {NoInv})) /\ Kept(docs, docs') /\ Happened(intent[i])'
      /\ \/ NoneOwned(docs, docs')
         \/ intent[i].op = "create" /\ Issuance(docs, docs', intent[i].kind, i)
      /\ \A n \in DOMAIN docs' \ DOMAIN docs : ~docs'[n].reversed
  BY <1>f, EffectKeeps
<1> USE DEF IInv
<1>a. a \in 1..MaxExec /\ exec[i][a] \in {"waiting", "over"} /\ Outstanding(i, a)
  BY <1>f DEF TypeOK, RunDiscipline, Outstanding
<1>2. TypeOK' /\ LockDiscipline' /\ MarkerDiscipline'
  <2>1. exec' \in [Inv -> Seq(Stage)] /\ \A j \in Inv : exec'[j] = <<>> <=> exec[j] = <<>>
    BY <1>m DEF Moved
  <2> QED BY <1>f, <1>1, <2>1 DEF TypeOK, LockDiscipline, MarkerDiscipline
<1>3. RunDiscipline'
  <2>1. \A j \in Inv : (attached'[j] => journal'[j] = "committed" /\ exec'[j] # <<>>) /\ Len(exec'[j]) <= MaxExec
    BY <1>f, <1>m DEF Moved, RunDiscipline
  <2>2. ASSUME NEW j \in Inv, NEW b \in 1..MaxExec, <<j, b>> \in net'
        PROVE  b \in DOMAIN exec'[j] /\ exec'[j][b] \in {"waiting", "over"}
    <3>1. <<j, b>> \in net /\ (j # i \/ b # a)
      BY <1>f, <2>2
    <3> QED BY <1>m, <3>1 DEF Moved, RunDiscipline
  <2> QED BY <2>1, <2>2 DEF RunDiscipline
<1>4. \A j \in Inv : NamesDocuments(intent[j])' /\ (Happened(intent[j]) => Happened(intent[j])')
  <2> SUFFICES ASSUME NEW j \in Inv
               PROVE  NamesDocuments(intent[j])' /\ (Happened(intent[j]) => Happened(intent[j])')
    OBVIOUS
  <2> DEFINE r == intent[j]
  <2>1. r \in Intent /\ NamesDocuments(r) /\ r' = r
    BY <1>f DEF TypeOK, IntentDiscipline
  <2>2. NamesDocuments(r)' /\ (Happened(r) => Happened(r)')
    BY <1>f, <1>1, <2>1, HappenedStays
  <2> QED BY <2>2
<1>5. IntentDiscipline'
  BY <1>4 DEF IntentDiscipline
<1>6. EvidenceIsTrue'
  <2> SUFFICES ASSUME NEW j \in Inv
               PROVE  /\ answer'[j] = "executed" => Happened(intent[j])'
                      /\ \A b \in DOMAIN exec'[j] : exec'[j][b] = "done" => Happened(intent[j])'
    BY DEF EvidenceIsTrue
  <2>1. CASE j = i
    BY <1>1, <2>1
  <2>2. CASE j # i
    <3>1. \A b \in DOMAIN exec'[j] : b \in DOMAIN exec[j] /\ exec'[j][b] = exec[j][b]
      BY <1>m, <2>2 DEF Moved
    <3> QED BY <1>f, <1>4, <3>1 DEF EvidenceIsTrue
  <2> QED BY <2>1, <2>2
<1>7. ProformasStand'
  <2> SUFFICES ASSUME NEW n \in DOMAIN docs', docs'[n].kind = "proforma", docs'[n].reversed PROVE FALSE
    BY DEF ProformasStand
  <2>1. n \in DOMAIN docs
    BY <1>1
  <2>2. docs[n].kind = "proforma" /\ (docs[n].reversed \/ docs[n].kind \in StornoableKind)
    BY <1>1, <2>1 DEF Kept
  <2> QED BY <2>1, <2>2 DEF ProformasStand, StornoableKind, InvoiceFamily
<1>8. Undisturbed'
  <2> SUFFICES ASSUME ~overlapped PROVE (NewestLives /\ OneChain /\ OneOutstanding /\ CreatesChecked)'
    BY <1>f DEF Undisturbed
  <2>1. NewestLives /\ OneChain /\ OneOutstanding /\ CreatesChecked
    BY DEF Undisturbed
  <2>2. ASSUME NEW j \in Inv, NEW b \in 1..MaxExec, Outstanding(j, b)'
        PROVE  FALSE
    <3>1. CASE j = i /\ b = a
      <4>1. <<i, a>> \notin net' /\ exec'[i][a] \in Reply \cup {"over"}
        BY <1>f, <1>m DEF Moved
      <4> QED BY <2>2, <3>1, <4>1 DEF Outstanding, Reply
    <3>2. CASE j # i \/ b # a
      <4>1. b \in DOMAIN exec'[j] => b \in DOMAIN exec[j] /\ exec'[j][b] = exec[j][b]
        BY <1>m, <3>2 DEF Moved
      <4>2. Outstanding(j, b)
        BY <1>f, <2>2, <4>1 DEF Outstanding
      <4> QED BY <1>a, <2>1, <3>2, <4>2 DEF OneOutstanding
    <3> QED BY <3>1, <3>2
  <2>3. OneOutstanding' /\ CreatesChecked'
    BY <2>2 DEF OneOutstanding, CreatesChecked
  <2>4. NewestLives' /\ OneChain'
    <3>1. CASE NoneOwned(docs, docs')
      BY <1>1, <2>1, <3>1, QuietStays
    <3>2. CASE intent[i].op = "create" /\ Issuance(docs, docs', intent[i].kind, i)
      <4> DEFINE kind == intent[i].kind
      <4>1. Quiet(kind) /\ OthersQuiet(intent[i]) /\ kind \in IssuedKind
        BY <1>a, <2>1, <3>2 DEF CreatesChecked, IntentDiscipline, NamesDocuments
      <4>2. (\A k \in {"invoice", "final"} \ {kind} : Quiet(k))
            /\ (kind \notin {"prepayment", "final"} => Quiet("prepayment"))
        BY <4>1 DEF OthersQuiet
      <4>3. Issuance(docs, docs', kind, i)
        BY <3>2
      <4> HIDE DEF kind
      <4> QED BY <1>1, <2>1, <4>1, <4>2, <4>3, IssuanceUndisturbed
    <3> QED BY <1>1, <3>1, <3>2
  <2> QED BY <2>3, <2>4
<1> QED BY <1>2, <1>3, <1>5, <1>6, <1>7, <1>8

-----------------------------------------------------------------------------
(* The theorems.                                                           *)

\* Nothing is marked, running or sent in an initial state.
LEMMA InitHolds == Init => IInv
<1> SUFFICES ASSUME Init PROVE IInv
  OBVIOUS
<1> USE DEF Init
<1>1. TypeOK
  <2>1. NoIntent \in Intent
    BY DEF NoIntent, Intent, IssuedKind, StornoableKind, InvoiceFamily
  <2>2. [i \in Inv |-> <<>>] \in [Inv -> Seq(Stage)]
    OBVIOUS
  <2>3. docs \in Seq(Document(Inv \cup {NoInv}))
    OBVIOUS
  <2> QED BY <2>1, <2>2, <2>3 DEF TypeOK, Answer
<1>2. LockDiscipline /\ MarkerDiscipline
  BY ReplayActors DEF LockDiscipline, MarkerDiscipline, Held
<1>3. RunDiscipline
  BY ReplayBound DEF RunDiscipline
<1>4. ProformasStand /\ IntentDiscipline
  BY DEF ProformasStand, IntentDiscipline, NamesDocuments, NoIntent, IssuedKind, StornoableKind, InvoiceFamily
<1>5. EvidenceIsTrue
  BY DEF EvidenceIsTrue
<1>6. Undisturbed
  <2>1. \A i \in Inv, a \in 1..MaxExec : ~Outstanding(i, a)
    BY DEF Outstanding
  <2> QED BY <2>1 DEF Undisturbed, NewestLives, OneChain, OneOutstanding, CreatesChecked, Quiet
<1> QED BY <1>1, <1>2, <1>3, <1>4, <1>5, <1>6 DEF IInv

\* Every step keeps the invariant.
LEMMA NextKeeps == IInv /\ [Next /\ UNCHANGED order]_<<order, vars>> => IInv'
<1> SUFFICES ASSUME IInv, [Next /\ UNCHANGED order]_<<order, vars>> PROVE IInv'
  OBVIOUS
<1>1. CASE Next /\ UNCHANGED order
  <2>1. CASE Outside
    BY <1>1, <2>1, OutsideKeeps
  <2>2. ASSUME NEW i \in Inv, Handler(i) PROVE IInv'
    BY <1>1, <2>2, HandlerKeeps
  <2>3. ASSUME NEW i \in Inv, Open(i) PROVE IInv'
    BY <1>1, <2>3, OpenKeeps
  <2>4. ASSUME NEW i \in Inv, Interrupt(i) \/ Stop(i) PROVE IInv'
    BY <1>1, <2>4, DetachKeeps
  <2>5. ASSUME NEW i \in Inv, NEW a \in DOMAIN exec[i], Run(i, a) PROVE IInv'
    BY <1>1, <2>5, ResultKeeps, CheckTargetKeeps, AdvanceKeeps DEF Run
  <2>6. ASSUME NEW i \in Inv, NEW a \in DOMAIN exec[i], Service(i, a) PROVE IInv'
    BY <1>1, <2>6, ExecuteKeeps, DiscardKeeps DEF Service
  <2> QED BY <1>1, <2>1, <2>2, <2>3, <2>4, <2>5, <2>6 DEF Next
<1>2. CASE UNCHANGED <<order, vars>>
  <2>1. UNCHANGED <<order, lock, marker, journal, intent, answer, exec, attached, docs, net, overlapped>>
    BY <1>2 DEF vars, durable
  <2>2. TypeOK' /\ LockDiscipline' /\ MarkerDiscipline' /\ RunDiscipline'
    BY <2>1 DEF IInv, TypeOK, LockDiscipline, MarkerDiscipline, RunDiscipline
  <2>3. ProformasStand' /\ IntentDiscipline'
    BY <2>1 DEF IInv, ProformasStand, IntentDiscipline, NamesDocuments
  <2>4. EvidenceIsTrue'
    BY <2>1 DEF IInv, EvidenceIsTrue, Happened
  <2>5. Undisturbed'
    <3>1. \A j \in Inv, b \in 1..MaxExec : Outstanding(j, b)' = Outstanding(j, b)
      BY <2>1 DEF Outstanding
    <3> QED BY <2>1, <3>1, UndisturbedStays DEF IInv
  <2> QED BY <2>2, <2>3, <2>4, <2>5 DEF IInv
<1> QED BY <1>1, <1>2

\* The invariant holds in every reachable state of a replayed write.
THEOREM ReplayInvariance == Spec => []IInv
BY InitHolds, NextKeeps, PTL DEF Spec

\* Every state of the key and of the service is well formed.
THEOREM ReplayTypeCorrect == Spec => []TypeOK
<1>1. IInv => TypeOK
  BY DEF IInv
<1> QED BY <1>1, ReplayInvariance, PTL

(***************************************************************************)
(* However often a write run is replayed and whatever becomes of its       *)
(* executions: while one of them may still send, or a request of theirs is *)
(* undecided, the order is blocked or the write was settled by evidence.   *)
(***************************************************************************)
THEOREM UncertaintyAlwaysBlocks == Spec => []UncertaintyBlocks
<1>1. IInv => UncertaintyBlocks
  <2> SUFFICES ASSUME IInv, NEW i \in Inv, NEW a \in 1..MaxExec, Outstanding(i, a)
               PROVE  marker = i \/ answer[i] = "executed"
    BY DEF UncertaintyBlocks
  <2>1. a \in DOMAIN exec[i]
    BY DEF IInv, RunDiscipline, Outstanding
  <2>2. exec[i] # <<>>
    BY <2>1
  <2> QED BY <2>2 DEF IInv, MarkerDiscipline
<1> QED BY <1>1, ReplayInvariance, PTL

(***************************************************************************)
(* The accepted risk of replay is bounded: without an execution that       *)
(* checked while another write of the order was outstanding, no slot has   *)
(* two live documents and the order is billed along one chain only.        *)
(***************************************************************************)
THEOREM DuplicatesOnlyByOverlap == Spec => []DuplicatesNeedOverlap
<1>1. IInv => DuplicatesNeedOverlap
  <2> SUFFICES ASSUME IInv, ~overlapped
               PROVE  /\ \A kind \in IssuedKind, m, n \in DOMAIN docs :
                           Live(m, kind) /\ Live(n, kind) => m = n
                      /\ \A m, n \in DOMAIN docs :
                           Live(m, "invoice") => ~Live(n, "prepayment") /\ ~Live(n, "final")
    BY DEF DuplicatesNeedOverlap
  <2>1. NewestLives /\ OneChain /\ docs \in Seq(Document(Inv \cup {NoInv}))
    BY DEF IInv, Undisturbed, TypeOK
  <2>2. ASSUME NEW kind \in IssuedKind, NEW m \in DOMAIN docs, NEW n \in DOMAIN docs,
               Live(m, kind), Live(n, kind)
        PROVE  m = n
    <3>1. Own(docs, kind, m) /\ Own(docs, kind, n) /\ ~docs[m].reversed /\ ~docs[n].reversed
      BY <2>2, LiveIsOwn
    <3>2. ~(m < n) /\ ~(n < m)
      BY <2>1, <3>1 DEF NewestLives
    <3>3. m \in Nat /\ n \in Nat
      BY <2>1, Numbers
    <3> QED BY <3>2, <3>3
  <2> QED BY <2>1, <2>2 DEF OneChain, Quiet
<1> QED BY <1>1, ReplayInvariance, PTL

(***************************************************************************)
(* A write reported as done is in the documents, whichever execution did   *)
(* it and whatever any of them was told.                                   *)
(***************************************************************************)
THEOREM SettledAlwaysHappened == Spec => []SettledWritesHappened
<1>1. IInv => SettledWritesHappened
  BY DEF IInv, EvidenceIsTrue, Happened, SettledWritesHappened
<1> QED BY <1>1, ReplayInvariance, PTL
=============================================================================
