--------------------------- MODULE Service_proofs ---------------------------
(***************************************************************************)
(* The properties of Service, proved for every value of its constants.     *)
(*                                                                         *)
(* Each component has an inductive invariant over its own variables.       *)
(* get, credit entries, the prologue, the account table and the            *)
(* configuration have theirs here, one section each; storno has its own in *)
(* AgentStorno_proofs, which is instantiated with the composition's        *)
(* variables.  ServiceInv says that the invariant of the running component *)
(* holds; a step of the composition is a step of that component            *)
(* (OneComponentMoves), so each component's lemmas carry over.             *)
(*                                                                         *)
(* The argument for get: an observation is grounded in the documents, and  *)
(* what it says of the proforma its document names stays true, because     *)
(* links are given once and a deletion is never undone.  The history has   *)
(* what every slot holds at each moment of the call, so each journaled     *)
(* read is in it and stays there, whatever happens before the next read.   *)
(***************************************************************************)
EXTENDS Service, WellFoundedInduction, TLAPS

\* The service's effects and storno, with the lemmas of the modules that prove them.
Effects == INSTANCE Szamlazz_proofs
OfStorno == INSTANCE AgentStorno_proofs WITH Invocation <- Calls

-----------------------------------------------------------------------------
(* Szamlazz.Order.get.  What an effect does to the documents is in         *)
(* Szamlazz_proofs; its operators are those get is modelled with.          *)

LEMMA StatusEffects ==
  /\ Status!StornoableKind = Effects!StornoableKind /\ Status!IssuedKind = Effects!IssuedKind
  /\ \A Issuers : Status!Document(Issuers) = Effects!Document(Issuers)
  /\ \A d : Status!Visible(d) = Effects!Visible(d)
  /\ \A d, kind, of : Status!Holders(d, kind, of) = Effects!Holders(d, kind, of)
  /\ \A d, n : Status!Delete(d, n) = Effects!Delete(d, n)
  /\ \A d, n, ext, by : Status!Reverse(d, n, ext, by) = Effects!Reverse(d, n, ext, by)
  /\ \A d, kind, by : Status!Issue(d, kind, by) = Effects!Issue(d, kind, by)
BY DEF
   Status!StornoableKind, Effects!StornoableKind, Status!IssuedKind, Effects!IssuedKind,
   Status!Document, Effects!Document, Status!Visible, Effects!Visible, Status!Holders,
   Effects!Holders, Status!Delete, Effects!Delete, Status!Reverse, Effects!Reverse,
   Status!Issue, Effects!Issue, Status!InvoiceFamily, Effects!InvoiceFamily

\* The lemmas of Szamlazz_proofs, for these operators.
LEMMA StatusNumbers ==
  ASSUME NEW Issuers, NEW d \in Seq(Status!Document(Issuers))
  PROVE  /\ DOMAIN d = 1..Len(d) /\ Len(d) \in Nat
         /\ \A n \in DOMAIN d : n \in Nat \ {0} /\ d[n] \in Status!Document(Issuers)
BY Effects!Numbers, StatusEffects

LEMMA StatusAppendKeeps ==
  ASSUME NEW Issuers, NEW d \in Seq(Status!Document(Issuers)), NEW doc \in Status!Document(Issuers)
  PROVE  /\ Append(d, doc) \in Seq(Status!Document(Issuers))
         /\ Len(Append(d, doc)) = Len(d) + 1
         /\ Append(d, doc)[Len(d) + 1] = doc
         /\ \A n \in DOMAIN d : Append(d, doc)[n] = d[n]
         /\ DOMAIN Append(d, doc) = DOMAIN d \cup {Len(d) + 1}
         /\ Len(d) + 1 \notin DOMAIN d
         /\ Effects!Kept(d, Append(d, doc))
BY Effects!AppendKeeps, StatusEffects

LEMMA StatusDeleteKeeps ==
  ASSUME NEW Issuers, NEW d \in Seq(Status!Document(Issuers)), NEW n \in DOMAIN d
  PROVE  /\ Status!Delete(d, n) \in Seq(Status!Document(Issuers))
         /\ DOMAIN Status!Delete(d, n) = DOMAIN d /\ Len(Status!Delete(d, n)) = Len(d)
         /\ Status!Delete(d, n)[n].gone
         /\ \A m \in DOMAIN d : m # n => Status!Delete(d, n)[m] = d[m]
         /\ d[n].kind = "proforma" => Effects!Kept(d, Status!Delete(d, n))
BY Effects!DeleteKeeps, StatusEffects

LEMMA StatusReverseKeeps ==
  ASSUME NEW Issuers, NEW d \in Seq(Status!Document(Issuers)), NEW n \in DOMAIN d,
         NEW ext \in BOOLEAN, NEW by \in Issuers, NEW e, e = Status!Reverse(d, n, ext, by)
  PROVE  /\ e \in Seq(Status!Document(Issuers))
         /\ Effects!Reversal(d, e, n, ext, by)
         /\ Effects!NoneOwned(d, e)
         /\ Effects!Stornoable(d, n) => Effects!Kept(d, e)
BY Effects!ReverseKeeps, StatusEffects

LEMMA StatusIssueKeeps ==
  ASSUME NEW Issuers, NEW d \in Seq(Status!Document(Issuers)), NEW kind \in Status!IssuedKind,
         NEW by \in Issuers, NEW gone, gone = 0 \/ (gone \in DOMAIN d /\ d[gone].kind = "proforma"),
         NEW e, e = Status!Issue(IF gone = 0 THEN d ELSE Status!Delete(d, gone), kind, by)
  PROVE  /\ e \in Seq(Status!Document(Issuers)) /\ Effects!Kept(d, e)
         /\ Effects!Issuance(d, e, kind, by)
         /\ gone # 0 => e[gone].gone
BY Effects!IssueKeeps, StatusEffects

-----------------------------------------------------------------------------
(* The inductive invariant.                                                *)

StatusBooks(d, l) ==
  /\ d \in Seq(Status!Document({"worker"})) /\ Len(d) <= MaxDocs
  /\ l \in Seq(0..MaxDocs) /\ Len(l) = Len(d)

\* A proforma that a document names has been converted by it.
Converted(d, l) == \A n \in DOMAIN l : l[n] # 0 => l[n] \in DOMAIN d /\ d[l[n]].gone

\* What an observation says of its document holds.
Grounded(o, d, l) ==
  /\ o.state = "absent" => o = Status!Nothing
  /\ o.link # 0 => o.number \in DOMAIN d /\ l[o.number] = o.link

HistoryIsGrounded == \A kind \in Status!Kinds : \A o \in history[kind] : Grounded(o, docs, link)

HistoryIsCurrent == result = "none" => \A kind \in Status!Kinds : Status!Observed(kind) \in history[kind]

SeenInHistory ==
  /\ \A k \in DOMAIN seen : seen[k] \in history[Status!ALL[k]]
  /\ result = "idle" => seen = <<>>

StatusInv ==
  /\ Status!TypeOK /\ StatusBooks(docs, link) /\ Converted(docs, link)
  /\ HistoryIsGrounded /\ HistoryIsCurrent /\ SeenInHistory
  /\ Status!EverySlotWasTrue /\ Status!ConsumedIsConverted

-----------------------------------------------------------------------------
(* Observations.                                                           *)

\* A set of natural numbers has a least one.
LEMMA LeastNumber ==
  ASSUME NEW T \in SUBSET Nat, T # {}
  PROVE  \E x \in T : \A y \in T : x <= y
<1> DEFINE R == OpToRel(<, Nat)
<1>1. IsWellFoundedOn(R, Nat)
  BY NatLessThanWellFounded
<1>2. \A x, y \in Nat : y < x => <<y, x>> \in R
  BY DEF OpToRel
<1> HIDE DEF R
<1>3. PICK x \in T : \A y \in T : ~(<<y, x>> \in R)
  BY <1>1, WFMin, Zenon
<1>4. ASSUME NEW y \in T PROVE x <= y
  <2>1. x \in Nat /\ y \in Nat
    OBVIOUS
  <2>2. ~(y < x)
    BY <1>2, <1>3, <2>1
  <2> QED BY <2>1, <2>2
<1> QED BY <1>4

\* A bounded one has a greatest, too.
LEMMA GreatestNumber ==
  ASSUME NEW T \in SUBSET Nat, T # {}, NEW b \in Nat, \A x \in T : x <= b
  PROVE  \E x \in T : \A y \in T : y <= x
<1> DEFINE U == {b - x : x \in T}
<1>1. U \in SUBSET Nat
  <2>1. \A x \in T : b - x \in Nat
    OBVIOUS
  <2> QED BY <2>1
<1>2. U # {}
  OBVIOUS
<1>3. PICK u \in U : \A v \in U : u <= v
  BY <1>1, <1>2, LeastNumber
<1>4. PICK x \in T : u = b - x
  BY <1>3
<1>5. \A y \in T : y <= x
  BY <1>3, <1>4
<1> QED BY <1>5

\* A query by external id has an answer unless nothing holds the id.
LEMMA HolderFound ==
  ASSUME NEW Issuers, NEW d \in Seq(Status!Document(Issuers)), NEW kind, ~Status!SeenAbsent(d, kind)
  PROVE  \E n \in DOMAIN d : Status!ByExternalId(d, kind, 0, n)
<1> DEFINE H == Status!Holders(d, kind, 0)
<1>1. DOMAIN d = 1..Len(d) /\ Len(d) \in Nat
  BY StatusNumbers
<1>2. H \subseteq DOMAIN d /\ H # {}
  BY DEF Status!Holders, Status!Visible, Status!SeenAbsent
<1>3. H \in SUBSET Nat /\ \A x \in H : x <= Len(d)
  BY <1>1, <1>2
<1> HIDE DEF H
<1>4. \E n \in H : \A m \in H : m <= n
  BY <1>1, <1>2, <1>3, GreatestNumber
<1> QED BY <1>2, <1>4 DEF Status!ByExternalId, Status!Newest, H

\* Observed, of any documents.
ObservedIn(d, l, kind) ==
  IF Status!SeenAbsent(d, kind) THEN Status!Nothing
  ELSE LET n == CHOOSE m \in DOMAIN d : Status!ByExternalId(d, kind, 0, m) IN
       IF ~d[n].order THEN [Status!Nothing EXCEPT !.state = "collision"]
       ELSE [state |-> IF d[n].reversed THEN "reversed" ELSE "live", number |-> n, link |-> l[n]]

LEMMA ObservedIsGrounded ==
  ASSUME Status!StatusBounds, NEW d, NEW l, StatusBooks(d, l), NEW kind, NEW o, o = ObservedIn(d, l, kind)
  PROVE  o \in Status!Observation /\ Grounded(o, d, l)
<1>1. /\ MaxDocs \in Nat /\ d \in Seq(Status!Document({"worker"})) /\ Len(d) <= MaxDocs
      /\ l \in Seq(0..MaxDocs) /\ Len(l) = Len(d) /\ DOMAIN d = 1..Len(d) /\ Len(d) \in Nat
      /\ DOMAIN l = 1..Len(l)
  BY StatusNumbers DEF StatusBooks, Status!StatusBounds
<1>2. CASE Status!SeenAbsent(d, kind)
  <2>1. o = Status!Nothing
    BY <1>2 DEF ObservedIn
  <2> QED BY <1>1, <2>1 DEF Status!Nothing, Status!Observation, Grounded
<1>3. CASE ~Status!SeenAbsent(d, kind)
  <2> DEFINE n == CHOOSE m \in DOMAIN d : Status!ByExternalId(d, kind, 0, m)
  <2>1. n \in DOMAIN d
    BY <1>1, <1>3, HolderFound
  <2>2. o = IF ~d[n].order THEN [Status!Nothing EXCEPT !.state = "collision"]
            ELSE [state |-> IF d[n].reversed THEN "reversed" ELSE "live", number |-> n,
                  link |-> l[n]]
    BY <1>3 DEF ObservedIn
  <2> HIDE DEF n
  <2>3. n \in 0..MaxDocs /\ l[n] \in 0..MaxDocs
    BY <1>1, <2>1
  <2>4. CASE ~d[n].order
    <3>1. o = [state |-> "collision", number |-> 0, link |-> 0]
      BY <2>2, <2>4 DEF Status!Nothing
    <3> QED BY <1>1, <3>1 DEF Status!Observation, Grounded
  <2>5. CASE d[n].order
    <3>1. o = [state |-> IF d[n].reversed THEN "reversed" ELSE "live", number |-> n, link |-> l[n]]
      BY <2>2, <2>5
    <3> QED BY <2>1, <2>3, <3>1 DEF Status!Observation, Grounded
  <2> QED BY <2>4, <2>5
<1> QED BY <1>2, <1>3

\* What holds of an observation stays true.
LEMMA GroundedStays ==
  ASSUME NEW d, NEW l, NEW e, NEW m, NEW o, Grounded(o, d, l), DOMAIN d \subseteq DOMAIN e,
         \A n \in DOMAIN d : m[n] = l[n]
  PROVE  Grounded(o, e, m)
BY DEF Grounded

LEMMA SequenceIsFunction ==
  ASSUME NEW S, NEW l \in Seq(S)
  PROVE  l \in [1..Len(l) -> S]
OBVIOUS

\* The kinds in the order in which they are read.
LEMMA KindsInOrder ==
  /\ Len(Status!ALL) = 4 /\ DOMAIN Status!ALL = 1..4 /\ \A k \in 1..4 : Status!ALL[k] \in Status!Kinds
  /\ \A kind \in Status!Kinds : \E k \in DOMAIN Status!ALL : Status!ALL[k] = kind
<1>1. /\ Len(Status!ALL) = 4 /\ DOMAIN Status!ALL = 1..4 /\ Status!ALL[1] = "proforma" /\ Status!ALL[2] = "invoice"
      /\ Status!ALL[3] = "prepayment" /\ Status!ALL[4] = "final"
  BY DEF Status!ALL
<1>2. \A k \in 1..4 : k = 1 \/ k = 2 \/ k = 3 \/ k = 4
  OBVIOUS
<1>3. 1 \in 1..4 /\ 2 \in 1..4 /\ 3 \in 1..4 /\ 4 \in 1..4
  OBVIOUS
<1> QED BY <1>1, <1>2, <1>3 DEF Status!Kinds

LEMMA ObservedNow ==
  ASSUME NEW kind
  PROVE  Status!Observed(kind) = ObservedIn(docs, link, kind)
BY DEF Status!Observed, ObservedIn

LEMMA ObservedNext ==
  ASSUME NEW kind
  PROVE  Status!Observed(kind)' = ObservedIn(docs', link', kind)
BY DEF Status!Observed, ObservedIn

-----------------------------------------------------------------------------
(* The handler.                                                            *)

\* Before its end get has said nothing.
Unsaid == result' # "status"

LEMMA UnsaidKeeps ==
  ASSUME Unsaid
  PROVE  Status!EverySlotWasTrue' /\ Status!ConsumedIsConverted'
BY DEF Unsaid, Status!EverySlotWasTrue, Status!ConsumedIsConverted

LEMMA StatusBeginKeeps ==
  ASSUME Status!StatusBounds, StatusInv, Status!Begin
  PROVE  StatusInv'
<1>1. /\ docs' = docs /\ link' = link /\ seen' = seen /\ tries' = tries /\ status' = status
      /\ result = "idle" /\ result' = "none"
      /\ history' = [kind \in Status!Kinds |-> {Status!Observed(kind)}]
  BY DEF Status!Begin
<1>2. seen = <<>>
  BY <1>1 DEF StatusInv, SeenInHistory
<1>3. \A kind \in Status!Kinds : /\ history'[kind] = {Status!Observed(kind)} /\ Status!Observed(kind) \in Status!Observation
                          /\ Grounded(Status!Observed(kind), docs, link)
  BY <1>1, ObservedNow, ObservedIsGrounded DEF StatusInv
<1>4. history' \in [Status!Kinds -> SUBSET Status!Observation]
  BY <1>1, <1>3
<1>5. Status!TypeOK'
  BY <1>1, <1>4 DEF StatusInv, Status!TypeOK
<1>6. StatusBooks(docs, link)' /\ Converted(docs, link)'
  BY <1>1 DEF StatusInv
<1>7. HistoryIsGrounded'
  BY <1>1, <1>3 DEF HistoryIsGrounded
<1>8. HistoryIsCurrent'
  <2>1. \A kind \in Status!Kinds : Status!Observed(kind)' = Status!Observed(kind)
    BY <1>1, ObservedNow, ObservedNext
  <2> QED BY <1>3, <2>1 DEF HistoryIsCurrent
<1>9. SeenInHistory'
  BY <1>1, <1>2 DEF SeenInHistory
<1> QED BY <1>1, <1>5, <1>6, <1>7, <1>8, <1>9, UnsaidKeeps DEF StatusInv, Unsaid

\* Steps that change neither the documents nor the history.
LEMMA DocumentsLeft ==
  ASSUME StatusInv, docs' = docs, link' = link, history' = history, result # "idle",
         result' = "none" => result = "none"
  PROVE  /\ StatusBooks(docs, link)' /\ Converted(docs, link)'
         /\ HistoryIsGrounded' /\ HistoryIsCurrent'
<1>1. StatusBooks(docs, link)' /\ Converted(docs, link)' /\ HistoryIsGrounded'
  BY DEF StatusInv, HistoryIsGrounded
<1>2. \A kind \in Status!Kinds : Status!Observed(kind)' = Status!Observed(kind)
  BY ObservedNow, ObservedNext
<1>3. HistoryIsCurrent'
  BY <1>2 DEF StatusInv, HistoryIsCurrent
<1> QED BY <1>1, <1>3

LEMMA StatusReadKeeps ==
  ASSUME Status!StatusBounds, StatusInv, Status!Read
  PROVE  StatusInv'
<1> DEFINE o == Status!Observed(Status!ALL[Len(seen) + 1])
<1>1. /\ docs' = docs /\ link' = link /\ result' = result /\ status' = status
      /\ history' = history /\ result = "none" /\ Len(seen) < Len(Status!ALL)
      /\ seen' = Append(seen, o) /\ tries' = 0
  BY DEF Status!Read
<1>2. seen \in Seq(Status!Observation) /\ Len(seen) \in Nat /\ DOMAIN seen = 1..Len(seen)
  BY DEF StatusInv, Status!TypeOK
<1>3. Status!ALL[Len(seen) + 1] \in Status!Kinds /\ Len(seen) + 1 <= Len(Status!ALL)
  BY <1>1, <1>2, KindsInOrder
<1>4. o \in history[Status!ALL[Len(seen) + 1]] /\ o \in Status!Observation
  <2>1. o \in history[Status!ALL[Len(seen) + 1]]
    BY <1>1, <1>3 DEF StatusInv, HistoryIsCurrent
  <2>2. history \in [Status!Kinds -> SUBSET Status!Observation]
    BY DEF StatusInv, Status!TypeOK
  <2> HIDE DEF o
  <2> QED BY <1>3, <2>1, <2>2
<1> HIDE DEF o
<1>5. /\ seen' \in Seq(Status!Observation) /\ Len(seen') = Len(seen) + 1
      /\ DOMAIN seen' = 1..(Len(seen) + 1)
      /\ \A k \in DOMAIN seen' : seen'[k] = IF k = Len(seen) + 1 THEN o ELSE seen[k]
  BY <1>1, <1>2, <1>4
<1>6. Status!TypeOK'
  <2>1. 0 \in 0..MaxAttempts /\ Len(seen') <= Len(Status!ALL)
    BY <1>3, <1>5 DEF Status!StatusBounds
  <2> QED BY <1>1, <1>5, <2>1 DEF StatusInv, Status!TypeOK
<1>7. SeenInHistory'
  <2>1. ASSUME NEW k \in DOMAIN seen' PROVE seen'[k] \in history[Status!ALL[k]]
    <3>1. CASE k = Len(seen) + 1
      BY <1>4, <1>5, <3>1
    <3>2. CASE k # Len(seen) + 1
      <4>1. k \in DOMAIN seen
        BY <1>2, <1>5, <3>2
      <4> QED BY <1>5, <3>2, <4>1 DEF StatusInv, SeenInHistory
    <3> QED BY <3>1, <3>2
  <2> QED BY <1>1, <2>1 DEF SeenInHistory
<1> QED BY <1>1, <1>6, <1>7, DocumentsLeft, UnsaidKeeps DEF StatusInv, Unsaid

\* A read that is not answered, or answered with a fault.
LEMMA StatusUnreadKeeps ==
  ASSUME Status!StatusBounds, StatusInv, Status!ReadUnanswered \/ Status!ReadFaults
  PROVE  StatusInv'
<1>1. /\ docs' = docs /\ link' = link /\ seen' = seen /\ status' = status /\ history' = history
      /\ result = "none"
      /\ result' \in {"none", "unavailable", "credentials_rejected", "cancelled"}
  BY DEF Status!ReadUnanswered, Status!ReadFaults
<1>2. tries' \in 0..MaxAttempts
  BY DEF Status!ReadUnanswered, Status!ReadFaults, StatusInv, Status!TypeOK, Status!StatusBounds
<1>3. Status!TypeOK'
  BY <1>1, <1>2 DEF StatusInv, Status!TypeOK
<1>4. SeenInHistory'
  BY <1>1 DEF StatusInv, SeenInHistory
<1> QED BY <1>1, <1>3, <1>4, DocumentsLeft, UnsaidKeeps DEF StatusInv, Unsaid

\* Every slot of the fold was read at some moment.
LEMMA SlotWasRead ==
  ASSUME StatusInv, Len(seen) = Len(Status!ALL), NEW kind \in Status!Kinds
  PROVE  /\ Status!Slot(kind) \in history[kind] /\ Status!Slot(kind) \in Status!Observation
         /\ Grounded(Status!Slot(kind), docs, link)
<1> DEFINE k == CHOOSE k \in DOMAIN Status!ALL : Status!ALL[k] = kind
<1>1. k \in DOMAIN Status!ALL /\ Status!ALL[k] = kind
  BY KindsInOrder
<1>2. Status!Slot(kind) = seen[k]
  BY DEF Status!Slot
<1> HIDE DEF k
<1>3. k \in DOMAIN seen
  <2>1. DOMAIN seen = 1..Len(seen)
    BY DEF StatusInv, Status!TypeOK
  <2> QED BY <1>1, <2>1, KindsInOrder
<1>4. seen[k] \in history[kind]
  BY <1>1, <1>3 DEF StatusInv, SeenInHistory
<1>5. history \in [Status!Kinds -> SUBSET Status!Observation]
  BY DEF StatusInv, Status!TypeOK
<1> QED BY <1>2, <1>4, <1>5 DEF StatusInv, HistoryIsGrounded

Folds == [state : {"absent", "collision", "live", "reversed", "consumed"},
          number : 0..MaxDocs, by : 0..MaxDocs]

LEMMA StatusRespondKeeps ==
  ASSUME Status!StatusBounds, StatusInv, Status!Respond
  PROVE  StatusInv'
<1>1. /\ docs' = docs /\ link' = link /\ seen' = seen /\ tries' = tries /\ history' = history
      /\ result = "none" /\ Len(seen) = Len(Status!ALL) /\ result' = "status"
      /\ status' = [kind \in Status!Kinds |-> Status!Folded(kind)]
  BY DEF Status!Respond
<1>2. \A kind \in Status!Kinds : /\ Status!Slot(kind) \in history[kind] /\ Status!Slot(kind) \in Status!Observation
                          /\ Grounded(Status!Slot(kind), docs, link)
  BY <1>1, SlotWasRead
<1>3. Status!Consumer.link # 0 => Status!Consumer = Status!Slot("invoice") \/ Status!Consumer = Status!Slot("prepayment")
  BY DEF Status!Consumer, Status!Nothing
<1>4. ASSUME Status!Consumer.link # 0
      PROVE  /\ Status!Consumer \in Status!Observation /\ Status!Consumer.number \in DOMAIN docs
             /\ link[Status!Consumer.number] = Status!Consumer.link /\ docs[Status!Consumer.link].gone
  <2>1. Status!Consumer \in Status!Observation /\ Grounded(Status!Consumer, docs, link)
    BY <1>2, <1>3, <1>4 DEF Status!Kinds
  <2>2. Status!Consumer.number \in DOMAIN docs /\ link[Status!Consumer.number] = Status!Consumer.link
    BY <1>4, <2>1 DEF Grounded
  <2>3. DOMAIN link = DOMAIN docs
    BY DEF StatusInv, Status!TypeOK
  <2>4. docs[Status!Consumer.link].gone
    BY <1>4, <2>2, <2>3 DEF StatusInv, Converted
  <2> QED BY <2>1, <2>2, <2>4
<1>5. ASSUME NEW kind \in Status!Kinds
      PROVE  /\ status'[kind] = Status!Folded(kind) /\ Status!Folded(kind) \in Folds
             /\ kind = "proforma" /\ Status!Consumed =>
                  Status!Folded(kind) = [state |-> "consumed", number |-> Status!Consumer.link,
                                  by |-> Status!Consumer.number]
             /\ ~(kind = "proforma" /\ Status!Consumed) =>
                  /\ Status!Folded(kind).state = Status!Slot(kind).state
                  /\ Status!Folded(kind).number = Status!Slot(kind).number
                  /\ Status!Folded(kind).state # "consumed"
  <2>1. status'[kind] = Status!Folded(kind)
    BY <1>1
  <2>2. Status!Slot(kind) \in Status!Observation
    BY <1>2
  <2>3. CASE kind = "proforma" /\ Status!Consumed
    <3>1. Status!Folded(kind) = [state |-> "consumed", number |-> Status!Consumer.link, by |-> Status!Consumer.number]
      BY <2>3 DEF Status!Folded
    <3>2. Status!Consumer.link \in 0..MaxDocs /\ Status!Consumer.number \in 0..MaxDocs
      BY <1>4, <2>3 DEF Status!Consumed, Status!Observation
    <3>3. Status!Folded(kind) \in Folds
      BY <3>1, <3>2 DEF Folds
    <3> QED BY <2>1, <2>3, <3>1, <3>3
  <2>4. CASE ~(kind = "proforma" /\ Status!Consumed)
    <3>1. Status!Folded(kind) = [state |-> Status!Slot(kind).state, number |-> Status!Slot(kind).number, by |-> 0]
      BY <2>4 DEF Status!Folded
    <3>2. /\ Status!Slot(kind).state \in {"absent", "collision", "live", "reversed"}
          /\ Status!Slot(kind).number \in 0..MaxDocs /\ 0 \in 0..MaxDocs
      BY <2>2 DEF Status!Observation, Status!StatusBounds
    <3>3. /\ Status!Folded(kind) \in Folds /\ Status!Folded(kind).state = Status!Slot(kind).state
          /\ Status!Folded(kind).number = Status!Slot(kind).number /\ Status!Folded(kind).state # "consumed"
      BY <3>1, <3>2 DEF Folds
    <3> QED BY <2>1, <2>4, <3>3
  <2> QED BY <2>3, <2>4
<1>6. Status!TypeOK'
  <2>1. status' \in [Status!Kinds -> Folds]
    BY <1>1, <1>5
  <2> QED BY <1>1, <2>1 DEF StatusInv, Status!TypeOK, Folds
<1>7. SeenInHistory'
  BY <1>1 DEF StatusInv, SeenInHistory
<1>8. Status!EverySlotWasTrue'
  <2>1. ASSUME NEW kind \in Status!Kinds
        PROVE  \/ kind = "proforma" /\ status'[kind].state = "consumed"
               \/ \E o \in history'[kind] : /\ o.state = status'[kind].state
                                            /\ o.number = status'[kind].number
    <3>1. CASE kind = "proforma" /\ Status!Consumed
      BY <1>5, <3>1
    <3>2. CASE ~(kind = "proforma" /\ Status!Consumed)
      BY <1>1, <1>2, <1>5, <3>2
    <3> QED BY <3>1, <3>2
  <2> QED BY <2>1 DEF Status!EverySlotWasTrue
<1>9. Status!ConsumedIsConverted'
  <2> SUFFICES ASSUME status'["proforma"].state = "consumed"
               PROVE  /\ docs'[status'["proforma"].number].gone
                      /\ link'[status'["proforma"].by] = status'["proforma"].number
                      /\ Status!Nothing \in history'["proforma"]
    BY DEF Status!ConsumedIsConverted
  <2>1. "proforma" \in Status!Kinds
    BY DEF Status!Kinds
  <2>2. Status!Consumed
    BY <1>5, <2>1
  <2>3. status'["proforma"].number = Status!Consumer.link /\ status'["proforma"].by = Status!Consumer.number
    BY <1>5, <2>1, <2>2
  <2>4. Status!Slot("proforma") = Status!Nothing
    BY <1>2, <2>1, <2>2 DEF Status!Consumed, Grounded
  <2>5. docs[Status!Consumer.link].gone /\ link[Status!Consumer.number] = Status!Consumer.link
    BY <1>4, <2>2 DEF Status!Consumed
  <2> QED BY <1>1, <1>2, <2>1, <2>3, <2>4, <2>5
<1> QED BY <1>1, <1>6, <1>7, <1>8, <1>9, DocumentsLeft DEF StatusInv

-----------------------------------------------------------------------------
(* Everyone else.                                                          *)

\* Whatever changes the documents: nothing is lost, and links are only added.
LEMMA StatusChangeKeeps ==
  ASSUME Status!StatusBounds, StatusInv, result \in {"idle", "none"}, Status!Change,
         StatusBooks(docs', link'), Converted(docs', link'), Effects!Kept(docs, docs'),
         \A n \in DOMAIN link : link'[n] = link[n]
  PROVE  StatusInv'
<1>1. /\ seen' = seen /\ tries' = tries /\ result' = result /\ status' = status
      /\ history' = [kind \in Status!Kinds |->
                      IF result = "idle" THEN {} ELSE history[kind] \cup {Status!Observed(kind)'}]
  BY DEF Status!Change, Status!handler
<1>2. /\ DOMAIN docs = 1..Len(docs) /\ DOMAIN docs' = 1..Len(docs') /\ Len(docs) \in Nat
      /\ Len(docs') \in Nat /\ DOMAIN link = DOMAIN docs /\ Len(docs) <= Len(docs')
  BY DEF StatusInv, StatusBooks, Status!TypeOK, Effects!Kept
<1>3. DOMAIN docs \subseteq DOMAIN docs'
  BY <1>2
<1>4. \A kind \in Status!Kinds : /\ Status!Observed(kind)' \in Status!Observation
                          /\ Grounded(Status!Observed(kind)', docs', link')
  BY ObservedNext, ObservedIsGrounded
<1>5. ASSUME NEW kind \in Status!Kinds, NEW o \in history'[kind]
      PROVE  o \in Status!Observation /\ Grounded(o, docs', link')
  <2>1. CASE o \in history[kind]
    <3>1. Grounded(o, docs, link) /\ o \in Status!Observation
      BY <2>1 DEF StatusInv, HistoryIsGrounded, Status!TypeOK
    <3>2. \A n \in DOMAIN docs : link'[n] = link[n]
      BY <1>2
    <3> QED BY <1>3, <3>1, <3>2, GroundedStays
  <2>2. CASE o = Status!Observed(kind)'
    BY <1>4, <2>2
  <2> QED BY <1>1, <1>5, <2>1, <2>2
<1>6. Status!TypeOK'
  <2>1. history' \in [Status!Kinds -> SUBSET Status!Observation]
    BY <1>1, <1>5
  <2>2. docs' \in Seq(Status!Document({"worker"})) /\ link' \in [DOMAIN docs' -> 0..MaxDocs]
    <3>1. /\ docs' \in Seq(Status!Document({"worker"})) /\ link' \in Seq(0..MaxDocs)
          /\ Len(link') = Len(docs')
      BY DEF StatusBooks
    <3>2. link' \in [1..Len(link') -> 0..MaxDocs]
      BY <3>1, SequenceIsFunction
    <3> QED BY <1>2, <3>1, <3>2
  <2> QED BY <1>1, <2>1, <2>2 DEF StatusInv, Status!TypeOK
<1>7. HistoryIsGrounded'
  BY <1>5 DEF HistoryIsGrounded
<1>8. HistoryIsCurrent'
  BY <1>1 DEF HistoryIsCurrent
<1>9. SeenInHistory'
  <2>1. CASE result = "idle"
    BY <1>1, <2>1 DEF StatusInv, SeenInHistory
  <2>2. CASE result # "idle"
    <3>1. ASSUME NEW k \in DOMAIN seen PROVE seen[k] \in history'[Status!ALL[k]]
      <4>1. Status!ALL[k] \in Status!Kinds
        <5>1. DOMAIN seen = 1..Len(seen) /\ Len(seen) <= Len(Status!ALL) /\ Len(seen) \in Nat
          BY DEF StatusInv, Status!TypeOK
        <5> QED BY <5>1, KindsInOrder
      <4>2. seen[k] \in history[Status!ALL[k]]
        BY DEF StatusInv, SeenInHistory
      <4> QED BY <1>1, <2>2, <4>1, <4>2
    <3> QED BY <1>1, <2>2, <3>1 DEF SeenInHistory
  <2> QED BY <2>1, <2>2
<1> QED BY <1>1, <1>6, <1>7, <1>8, <1>9, UnsaidKeeps DEF StatusInv, Unsaid

\* A link that is added: none, or of a proforma that is gone.
LEMMA LinkAdded ==
  ASSUME Status!StatusBounds, StatusInv, Len(docs) < MaxDocs, NEW p \in 0..MaxDocs, link' = Append(link, p),
         docs' \in Seq(Status!Document({"worker"})), Len(docs') = Len(docs) + 1, Effects!Kept(docs, docs'),
         p # 0 => p \in DOMAIN docs /\ docs'[p].gone
  PROVE  /\ StatusBooks(docs', link') /\ Converted(docs', link')
         /\ \A n \in DOMAIN link : link'[n] = link[n]
<1>1. /\ link \in Seq(0..MaxDocs) /\ Len(link) = Len(docs) /\ Len(docs) \in Nat
      /\ MaxDocs \in Nat /\ DOMAIN docs = 1..Len(docs) /\ DOMAIN link = 1..Len(docs)
      /\ DOMAIN docs' = 1..Len(docs')
  BY DEF StatusInv, StatusBooks, Status!StatusBounds
<1>2. /\ link' \in Seq(0..MaxDocs) /\ Len(link') = Len(docs) + 1
      /\ DOMAIN link' = 1..(Len(docs) + 1) /\ link'[Len(docs) + 1] = p
      /\ \A n \in DOMAIN link : link'[n] = link[n]
  BY <1>1
<1>3. StatusBooks(docs', link')
  BY <1>1, <1>2 DEF StatusBooks
<1>4. ASSUME NEW n \in DOMAIN link', link'[n] # 0
      PROVE  link'[n] \in DOMAIN docs' /\ docs'[link'[n]].gone
  <2>1. DOMAIN docs \subseteq DOMAIN docs'
    BY <1>1
  <2>2. CASE n = Len(docs) + 1
    BY <1>2, <1>4, <2>1, <2>2
  <2>3. CASE n # Len(docs) + 1
    <3>1. n \in DOMAIN link
      BY <1>1, <1>2, <2>3
    <3>2. link[n] \in DOMAIN docs /\ docs[link[n]].gone /\ link'[n] = link[n]
      BY <1>2, <1>4, <3>1 DEF StatusInv, Converted
    <3> QED BY <2>1, <3>2 DEF Effects!Kept
  <2> QED BY <2>2, <2>3
<1> QED BY <1>2, <1>3, <1>4 DEF Converted

LEMMA StatusWriteKeeps ==
  ASSUME Status!StatusBounds, StatusInv, NEW kind \in Status!Kinds, NEW p \in 0..MaxDocs, Status!Write(kind, p)
  PROVE  StatusInv'
<1>1. /\ result \in {"idle", "none"} /\ Len(docs) < MaxDocs /\ link' = Append(link, p) /\ Status!Change
  BY DEF Status!Write
<1>2. docs \in Seq(Status!Document({"worker"}))
  BY DEF StatusInv, StatusBooks
<1>3. /\ p = 0 \/ (p \in DOMAIN docs /\ docs[p].kind = "proforma")
      /\ docs' = Status!Issue(IF p = 0 THEN docs ELSE Status!Delete(docs, p), kind, "worker")
  <2>1. DOMAIN docs = 1..Len(docs) /\ Len(docs) \in Nat
    BY <1>2, StatusNumbers
  <2>2. CASE p = 0 /\ docs' = Status!Issue(docs, kind, "worker")
    BY <2>2
  <2>3. CASE /\ p \in Status!Visible(docs) /\ docs[p].kind = "proforma"
             /\ docs' = Status!Issue(Status!Delete(docs, p), kind, "worker")
    <3>1. p \in DOMAIN docs /\ p # 0
      BY <2>1, <2>3 DEF Status!Visible
    <3> QED BY <2>3, <3>1
  <2> QED BY <2>2, <2>3 DEF Status!Write
<1>4. kind \in Status!IssuedKind
  BY DEF Status!Kinds, Status!IssuedKind, Status!StornoableKind, Status!InvoiceFamily
<1>5. /\ docs' \in Seq(Status!Document({"worker"})) /\ Effects!Kept(docs, docs')
      /\ Effects!Issuance(docs, docs', kind, "worker")
      /\ p # 0 => docs'[p].gone
  BY <1>2, <1>3, <1>4, StatusIssueKeeps
<1>6. Len(docs') = Len(docs) + 1
  BY <1>5 DEF Effects!Issuance
<1>7. p # 0 => p \in DOMAIN docs /\ docs'[p].gone
  BY <1>3, <1>5
<1>8. /\ StatusBooks(docs', link') /\ Converted(docs', link')
      /\ \A n \in DOMAIN link : link'[n] = link[n]
  BY <1>1, <1>5, <1>6, <1>7, LinkAdded
<1> QED BY <1>1, <1>5, <1>8, StatusChangeKeeps

LEMMA StatusStornoKeeps ==
  ASSUME Status!StatusBounds, StatusInv, NEW n \in DOMAIN docs, Status!Storno(n)
  PROVE  StatusInv'
<1>1. /\ result \in {"idle", "none"} /\ Len(docs) < MaxDocs /\ link' = Append(link, 0) /\ Status!Change
      /\ docs' = Status!Reverse(docs, n, TRUE, "worker") /\ Effects!Stornoable(docs, n)
  BY StatusEffects DEF Status!Storno, Effects!Stornoable
<1>2. docs \in Seq(Status!Document({"worker"})) /\ 0 \in 0..MaxDocs
  BY DEF StatusInv, StatusBooks, Status!StatusBounds
<1>3. /\ docs' \in Seq(Status!Document({"worker"})) /\ Effects!Reversal(docs, docs', n, TRUE, "worker")
      /\ Effects!Kept(docs, docs')
  BY <1>1, <1>2, StatusReverseKeeps
<1>4. Len(docs') = Len(docs) + 1
  BY <1>3 DEF Effects!Reversal
<1>5. /\ StatusBooks(docs', link') /\ Converted(docs', link')
      /\ \A m \in DOMAIN link : link'[m] = link[m]
  BY <1>1, <1>2, <1>3, <1>4, LinkAdded
<1> QED BY <1>1, <1>3, <1>5, StatusChangeKeeps

LEMMA StatusDeleteProformaKeeps ==
  ASSUME Status!StatusBounds, StatusInv, NEW n \in DOMAIN docs, Status!DeleteProforma(n)
  PROVE  StatusInv'
<1>1. /\ result \in {"idle", "none"} /\ link' = link /\ Status!Change
      /\ docs' = Status!Delete(docs, n) /\ docs[n].kind = "proforma"
  BY DEF Status!DeleteProforma
<1>2. docs \in Seq(Status!Document({"worker"}))
  BY DEF StatusInv, StatusBooks
<1>3. /\ docs' \in Seq(Status!Document({"worker"})) /\ DOMAIN docs' = DOMAIN docs
      /\ Len(docs') = Len(docs) /\ Effects!Kept(docs, docs')
  BY <1>1, <1>2, StatusDeleteKeeps
<1>4. StatusBooks(docs', link')
  BY <1>1, <1>3 DEF StatusInv, StatusBooks
<1>5. Converted(docs', link')
  BY <1>1, <1>3 DEF StatusInv, Converted, Effects!Kept
<1> QED BY <1>1, <1>3, <1>4, <1>5, StatusChangeKeeps

LEMMA StatusCollideKeeps ==
  ASSUME Status!StatusBounds, StatusInv, NEW kind \in Status!Kinds, Status!Collide(kind)
  PROVE  StatusInv'
<1> DEFINE doc == [kind |-> kind, of |-> 0, ext |-> TRUE, order |-> FALSE,
                   reversed |-> FALSE, gone |-> FALSE, by |-> "worker"]
<1>1. /\ result \in {"idle", "none"} /\ Len(docs) < MaxDocs /\ link' = Append(link, 0) /\ Status!Change
      /\ docs' = Append(docs, doc)
  BY DEF Status!Collide
<1>2. docs \in Seq(Status!Document({"worker"})) /\ 0 \in 0..MaxDocs
  BY DEF StatusInv, StatusBooks, Status!StatusBounds
<1>3. doc \in Status!Document({"worker"})
  BY DEF Status!Document, Status!Kinds, Status!IssuedKind, Status!StornoableKind, Status!InvoiceFamily
<1> HIDE DEF doc
<1>4. /\ docs' \in Seq(Status!Document({"worker"})) /\ Len(docs') = Len(docs) + 1 /\ Effects!Kept(docs, docs')
  BY <1>1, <1>2, <1>3, StatusAppendKeeps
<1>5. /\ StatusBooks(docs', link') /\ Converted(docs', link')
      /\ \A m \in DOMAIN link : link'[m] = link[m]
  BY <1>1, <1>2, <1>4, LinkAdded
<1> QED BY <1>1, <1>4, <1>5, StatusChangeKeeps

-----------------------------------------------------------------------------
(* The invariant.                                                          *)

LEMMA StatusInit ==
  ASSUME Status!StatusBounds, Status!Init
  PROVE  StatusInv
<1>1. /\ docs = <<>> /\ link = <<>> /\ seen = <<>> /\ tries = 0 /\ result = "idle"
      /\ status = [kind \in Status!Kinds |-> [state |-> "absent", number |-> 0, by |-> 0]]
      /\ history = [kind \in Status!Kinds |-> {}] /\ MaxDocs \in Nat /\ MaxAttempts \in Nat
  BY DEF Status!Init, Status!StatusBounds
<1>2. StatusBooks(docs, link)
  BY <1>1 DEF StatusBooks
<1>3. Status!TypeOK
  <2>1. status \in [Status!Kinds -> Folds]
    <3>1. [state |-> "absent", number |-> 0, by |-> 0] \in Folds
      BY <1>1 DEF Folds
    <3> QED BY <1>1, <3>1
  <2>2. history \in [Status!Kinds -> SUBSET Status!Observation]
    BY <1>1
  <2>3. /\ docs \in Seq(Status!Document({"worker"})) /\ link \in [DOMAIN docs -> 0..MaxDocs]
        /\ seen \in Seq(Status!Observation) /\ Len(seen) <= Len(Status!ALL) /\ tries \in 0..MaxAttempts
    BY <1>1, KindsInOrder
  <2> QED BY <1>1, <2>1, <2>2, <2>3 DEF Status!TypeOK, Folds
<1>4. Converted(docs, link)
  BY <1>1 DEF Converted
<1>5. HistoryIsGrounded /\ HistoryIsCurrent /\ SeenInHistory
  BY <1>1 DEF HistoryIsGrounded, HistoryIsCurrent, SeenInHistory
<1>6. Status!EverySlotWasTrue /\ Status!ConsumedIsConverted
  BY <1>1 DEF Status!EverySlotWasTrue, Status!ConsumedIsConverted
<1> QED BY <1>2, <1>3, <1>4, <1>5, <1>6 DEF StatusInv

LEMMA StatusStutterKeeps ==
  ASSUME StatusInv, UNCHANGED Status!vars
  PROVE  StatusInv'
<1>1. /\ docs' = docs /\ link' = link /\ seen' = seen /\ tries' = tries /\ result' = result
      /\ status' = status /\ history' = history
  BY DEF Status!vars, Status!handler
<1>2. Status!TypeOK' /\ SeenInHistory'
  BY <1>1 DEF StatusInv, Status!TypeOK, SeenInHistory
<1>3. StatusBooks(docs, link)' /\ Converted(docs, link)' /\ HistoryIsGrounded'
  BY <1>1 DEF StatusInv, HistoryIsGrounded
<1>4. HistoryIsCurrent'
  <2>1. \A kind \in Status!Kinds : Status!Observed(kind)' = Status!Observed(kind)
    BY <1>1, ObservedNow, ObservedNext
  <2> QED BY <1>1, <2>1 DEF StatusInv, HistoryIsCurrent
<1>5. Status!EverySlotWasTrue' /\ Status!ConsumedIsConverted'
  BY <1>1 DEF StatusInv, Status!EverySlotWasTrue, Status!ConsumedIsConverted
<1> QED BY <1>2, <1>3, <1>4, <1>5 DEF StatusInv

LEMMA StatusNext ==
  ASSUME Status!StatusBounds, StatusInv, [Status!Next]_(Status!vars)
  PROVE  StatusInv'
<1>1. CASE Status!Handler
  BY <1>1, StatusBeginKeeps, StatusReadKeeps, StatusUnreadKeeps, StatusRespondKeeps DEF Status!Handler
<1>2. CASE Status!Others
  BY <1>2, StatusWriteKeeps, StatusStornoKeeps, StatusDeleteProformaKeeps, StatusCollideKeeps DEF Status!Others
<1>3. CASE UNCHANGED Status!vars
  BY <1>3, StatusStutterKeeps
<1> QED BY <1>1, <1>2, <1>3 DEF Status!Next

-----------------------------------------------------------------------------
(* Credit entries.  The inductive invariant.                               *)

\* Requests are bought with attempts.
Bought(i) ==
  /\ taken[i] + late[i] + (IF calls[i].phase = "sent" THEN 1 ELSE 0) <= calls[i].sends
  /\ calls[i].sends <= calls[i].attempts
  /\ calls[i].phase \in {"idle", "ready"} => calls[i].sends < calls[i].attempts

\* What is sent has been validated, and nothing is said before the end.
Validated(i) ==
  /\ calls[i].phase = "idle" \/ calls[i].result = "invalid_input" => calls[i].sends = 0
  /\ calls[i].phase \in {"ready", "sent"} \/ calls[i].sends > 0 =>
       Credit!Sendable(calls[i].size, calls[i].additive)
  /\ calls[i].phase # "done" => calls[i].result = "none"
  /\ calls[i].result = "done" => taken[i] > 0

\* The calls that have begun are the ones that are not idle.
Begun(i) == calls[i].phase # "idle" <=> \E k \in DOMAIN began : began[k] = i

\* Callers that take turns: every call but the last has ended.
TakeTurns ==
  serialised => \A k, m \in DOMAIN began : k < m => calls[began[k]].phase = "done"

Before(i, j) == \E k, m \in DOMAIN began : k < m /\ began[k] = i /\ began[m] = j

\* A later snapshot stays over one that was answered in its first attempt.
Overtaken(i, j) ==
  /\ serialised /\ Before(i, j) /\ calls[i].result = "done" /\ calls[i].attempts = 1
  /\ taken[j] > 0 /\ ~calls[j].additive /\ ledger # <<>>
  => ledger[1] # i

CreditInv ==
  /\ Credit!TypeOK
  /\ \A i \in Calls : Bought(i) /\ Validated(i) /\ Begun(i)
  /\ Credit!NothingIsCleared /\ TakeTurns
  /\ \A i, j \in Calls : i # j => Overtaken(i, j)

-----------------------------------------------------------------------------
(* One call's steps.                                                       *)

LEMMA CreditCallType ==
  ASSUME Credit!CreditBounds, Credit!TypeOK, NEW i \in Calls
  PROVE  /\ calls[i] \in Credit!Call /\ late[i] \in Nat /\ taken[i] \in Nat
         /\ calls[i].phase \in {"idle", "ready", "sent", "done"} /\ calls[i].result \in Credit!Result
         /\ calls[i].size \in Sizes /\ calls[i].size \in Nat /\ calls[i].additive \in BOOLEAN
         /\ calls[i].attempts \in 1..MaxAttempts /\ calls[i].attempts \in Nat \ {0}
         /\ calls[i].sends \in 0..MaxAttempts /\ calls[i].sends \in Nat
         /\ MaxAttempts \in Nat \ {0}
<1>1. calls[i] \in Credit!Call /\ late[i] \in 0..MaxAttempts /\ taken[i] \in 0..MaxAttempts
  BY DEF Credit!TypeOK
<1>2. MaxAttempts \in Nat \ {0} /\ Sizes \subseteq Nat
  BY DEF Credit!CreditBounds
<1>3. /\ calls[i].phase \in {"idle", "ready", "sent", "done"} /\ calls[i].result \in Credit!Result
      /\ calls[i].size \in Sizes /\ calls[i].additive \in BOOLEAN
      /\ calls[i].attempts \in 1..MaxAttempts /\ calls[i].sends \in 0..MaxAttempts
  BY <1>1 DEF Credit!Call
<1>4. /\ late[i] \in Nat /\ taken[i] \in Nat /\ calls[i].size \in Nat
      /\ calls[i].attempts \in Nat \ {0} /\ calls[i].sends \in Nat
  <2>1. calls[i].size \in Sizes /\ calls[i].attempts \in 1..MaxAttempts /\ calls[i].sends \in 0..MaxAttempts
    BY <1>3
  <2>2. \A n \in 0..MaxAttempts : n \in Nat
    BY <1>2
  <2>3. \A n \in 1..MaxAttempts : n \in Nat \ {0}
    BY <1>2
  <2> QED BY <1>1, <1>2, <2>1, <2>2, <2>3, Zenon
<1> QED BY <1>1, <1>2, <1>3, <1>4, Zenon

\* i is now in a phase with these results, and every other call is what it was.
Turned(i, stage, ending, granted, sends) ==
  /\ calls' \in [Calls -> Credit!Call]
  /\ calls'[i].phase = stage /\ calls'[i].result = ending
  /\ calls'[i].size = calls[i].size /\ calls'[i].additive = calls[i].additive
  /\ calls'[i].attempts = granted /\ calls'[i].sends = sends
  /\ \A j \in Calls : j # i => calls'[j] = calls[j]

LEMMA Ended ==
  ASSUME Credit!CreditBounds, Credit!TypeOK, NEW i \in Calls, NEW ending \in Credit!Result, Credit!End(i, ending)
  PROVE  Turned(i, "done", ending, calls[i].attempts, calls[i].sends)
<1> DEFINE c == [calls[i] EXCEPT !.phase = "done", !.result = ending]
<1>1. /\ c \in Credit!Call /\ c.phase = "done" /\ c.result = ending /\ c.size = calls[i].size
      /\ c.additive = calls[i].additive /\ c.attempts = calls[i].attempts /\ c.sends = calls[i].sends
  BY CreditCallType DEF Credit!Call
<1>2. calls' = [calls EXCEPT ![i] = c]
  BY DEF Credit!End
<1> HIDE DEF c
<1> QED BY <1>1, <1>2 DEF Credit!TypeOK, Turned

\* What was sent bounds what is about, so the counters stay within the attempts.
LEMMA CountersBounded ==
  ASSUME Credit!CreditBounds, Credit!TypeOK, NEW i \in Calls, Bought(i)', calls' \in [Calls -> Credit!Call],
         late' \in [Calls -> Nat], taken' \in [Calls -> Nat],
         \A j \in Calls : j # i => late'[j] = late[j] /\ taken'[j] = taken[j]
  PROVE  late' \in [Calls -> 0..MaxAttempts] /\ taken' \in [Calls -> 0..MaxAttempts]
<1>1. calls'[i] \in Credit!Call /\ late'[i] \in Nat /\ taken'[i] \in Nat /\ MaxAttempts \in Nat
  BY DEF Credit!CreditBounds
<1>2. calls'[i].sends \in Nat /\ calls'[i].attempts \in 1..MaxAttempts
  BY <1>1 DEF Credit!Call
<1>3. late'[i] \in 0..MaxAttempts /\ taken'[i] \in 0..MaxAttempts
  BY <1>1, <1>2 DEF Bought
<1>4. \A j \in Calls : late'[j] \in 0..MaxAttempts /\ taken'[j] \in 0..MaxAttempts
  BY <1>3 DEF Credit!TypeOK
<1> QED BY <1>4

(***************************************************************************)
(* A step of a call under way that registers nothing and is not answered   *)
(* with the totals.                                                        *)
(***************************************************************************)
LEMMA MoveKeeps ==
  ASSUME Credit!CreditBounds, CreditInv, NEW i \in Calls, calls[i].phase \in {"ready", "sent"},
         NEW stage \in {"ready", "sent", "done"}, NEW ending, NEW granted, NEW sends,
         Turned(i, stage, ending, granted, sends), ending # "done",
         late' \in [Calls -> Nat], \A j \in Calls : j # i => late'[j] = late[j],
         UNCHANGED <<serialised, began, reversed, ledger, taken>>,
         Bought(i)', Validated(i)'
  PROVE  CreditInv'
<1>0. /\ Credit!TypeOK /\ serialised' = serialised /\ began' = began /\ reversed' = reversed
      /\ ledger' = ledger /\ taken' = taken
  BY DEF CreditInv
<1>1. /\ calls' \in [Calls -> Credit!Call] /\ \A j \in Calls : j # i => calls'[j] = calls[j]
      /\ calls'[i].phase = stage /\ calls'[i].result = ending
      /\ calls'[i].size = calls[i].size /\ calls'[i].additive = calls[i].additive
  BY DEF Turned
<1>2. Credit!TypeOK'
  <2>1. taken' \in [Calls -> Nat]
    BY <1>0, CreditCallType DEF Credit!TypeOK
  <2>2. late' \in [Calls -> 0..MaxAttempts] /\ taken' \in [Calls -> 0..MaxAttempts]
    BY <1>0, <1>1, <2>1, CountersBounded
  <2> QED BY <1>0, <1>1, <2>2 DEF Credit!TypeOK
<1>3. ASSUME NEW j \in Calls PROVE Bought(j)' /\ Validated(j)' /\ Begun(j)'
  <2>1. Bought(j) /\ Validated(j) /\ Begun(j) /\ Begun(i)
    BY DEF CreditInv
  <2>2. CASE j = i
    BY <1>0, <1>1, <2>1, <2>2 DEF Begun
  <2>3. CASE j # i
    BY <1>0, <1>1, <2>1, <2>3 DEF Bought, Validated, Begun
  <2> QED BY <2>2, <2>3
<1>4. Credit!NothingIsCleared'
  <2>1. \A j \in Calls : calls'[j].size = calls[j].size
    BY <1>1
  <2> QED BY <1>0, <2>1 DEF CreditInv, Credit!NothingIsCleared
<1>5. TakeTurns'
  <2>1. ASSUME NEW k \in DOMAIN began, NEW m \in DOMAIN began, k < m, serialised
        PROVE  calls'[began[k]].phase = "done"
    <3>1. calls[began[k]].phase = "done" /\ began[k] \in Calls
      BY <1>0, <2>1 DEF CreditInv, TakeTurns, Credit!TypeOK
    <3> QED BY <1>1, <3>1
  <2> QED BY <1>0, <2>1 DEF TakeTurns
<1>6. ASSUME NEW a \in Calls, NEW b \in Calls, a # b PROVE Overtaken(a, b)'
  <2>1. Overtaken(a, b)
    BY <1>6 DEF CreditInv
  <2>2. CASE a = i
    BY <1>1, <2>2 DEF Overtaken
  <2>3. CASE a # i
    <3>1. calls'[a] = calls[a] /\ calls'[b].additive = calls[b].additive
      BY <1>1, <2>3
    <3> QED BY <1>0, <2>1, <3>1 DEF Overtaken, Before
  <2> QED BY <2>2, <2>3
<1> QED BY <1>2, <1>3, <1>4, <1>5, <1>6 DEF CreditInv

\* A call under way that ends without the totals; its request may be left about.
LEMMA CreditEndKeeps ==
  ASSUME Credit!CreditBounds, CreditInv, NEW i \in Calls, calls[i].phase \in {"ready", "sent"},
         NEW ending \in Credit!Result \ {"done", "invalid_input"}, Credit!End(i, ending),
         late' \in [Calls -> Nat], \A j \in Calls : j # i => late'[j] = late[j],
         late'[i] = late[i] \/ (calls[i].phase = "sent" /\ late'[i] = late[i] + 1),
         UNCHANGED <<serialised, began, reversed, ledger, taken>>
  PROVE  CreditInv'
<1>0. Credit!TypeOK /\ Bought(i) /\ Validated(i) /\ taken' = taken
  BY DEF CreditInv
<1>1. Turned(i, "done", ending, calls[i].attempts, calls[i].sends)
  BY <1>0, Ended
<1>2. /\ calls'[i].phase = "done" /\ calls'[i].result = ending /\ calls'[i].size = calls[i].size
      /\ calls'[i].additive = calls[i].additive /\ calls'[i].attempts = calls[i].attempts
      /\ calls'[i].sends = calls[i].sends
  BY <1>1 DEF Turned
<1>3. late[i] \in Nat /\ taken[i] \in Nat /\ calls[i].sends \in Nat /\ calls[i].attempts \in Nat
  BY <1>0, CreditCallType
<1>4. Bought(i)'
  BY <1>0, <1>2, <1>3 DEF Bought
<1>5. Validated(i)'
  BY <1>0, <1>2, <1>3 DEF Validated
<1> QED BY <1>1, <1>4, <1>5, MoveKeeps

\* What a reply that is no acknowledgement makes of a call.
LEMMA Settled ==
  ASSUME NEW i \in Calls, NEW reply \in {"acknowledged", "credentials", "refused", "inconclusive",
                                         "other_number", "lost"}, Credit!Settle(i, reply)
  PROVE  \E ending \in Credit!Result \ {"invalid_input"} :
           Credit!End(i, ending) /\ (ending = "done" => reply = "acknowledged")
<1>1. CASE reply = "acknowledged"
  <2>1. Credit!End(i, "done") /\ "done" \in Credit!Result \ {"invalid_input"}
    BY <1>1 DEF Credit!Settle, Credit!Response, Credit!Result
  <2> QED BY <1>1, <2>1
<1>2. CASE reply = "credentials"
  <2>1. Credit!End(i, "credentials_rejected") /\ "credentials_rejected" \in Credit!Result \ {"invalid_input"}
    BY <1>2 DEF Credit!Settle, Credit!Response, Credit!Result
  <2> QED BY <2>1
<1>3. CASE reply \in {"refused", "inconclusive", "other_number", "lost"}
  <2>1. Credit!End(i, "outcome_unknown") /\ "outcome_unknown" \in Credit!Result \ {"invalid_input"}
    BY <1>3 DEF Credit!Settle, Credit!Response, Credit!Result
  <2> QED BY <2>1
<1> QED BY <1>1, <1>2, <1>3

Still == UNCHANGED <<serialised, began, reversed, ledger, taken>>

LEMMA UninitializedKeeps ==
  ASSUME Credit!CreditBounds, CreditInv, NEW i \in Calls, Credit!Uninitialized(i), UNCHANGED serialised
  PROVE  CreditInv'
<1>1. /\ calls[i].phase = "ready" /\ Credit!End(i, "unavailable") /\ Still /\ late' = late
      /\ "unavailable" \in Credit!Result \ {"done", "invalid_input"}
  BY DEF Credit!Uninitialized, Still, Credit!Result
<1>2. late' \in [Calls -> Nat]
  BY <1>1, CreditCallType DEF CreditInv, Credit!TypeOK
<1> QED BY <1>1, <1>2, CreditEndKeeps DEF Still

LEMMA CreditSendKeeps ==
  ASSUME Credit!CreditBounds, CreditInv, NEW i \in Calls, Credit!Send(i), UNCHANGED serialised
  PROVE  CreditInv'
<1>0. /\ Credit!TypeOK /\ Bought(i) /\ Validated(i) /\ calls[i].phase = "ready" /\ calls[i] \in Credit!Call
      /\ calls[i].result = "none" /\ Still /\ late' = late /\ taken' = taken
      /\ late[i] \in Nat /\ taken[i] \in Nat /\ calls[i].sends \in Nat
      /\ calls[i].attempts \in 1..MaxAttempts /\ MaxAttempts \in Nat
  BY CreditCallType DEF CreditInv, Credit!Send, Still, Validated
<1>1. calls[i].sends < calls[i].attempts
  BY <1>0 DEF Bought
<1>2. calls[i].sends + 1 \in 0..MaxAttempts
  BY <1>0, <1>1
<1> DEFINE c == [calls[i] EXCEPT !.phase = "sent", !.sends = @ + 1]
<1>3. /\ c \in Credit!Call /\ c.phase = "sent" /\ c.result = "none" /\ c.size = calls[i].size
      /\ c.additive = calls[i].additive /\ c.attempts = calls[i].attempts
      /\ c.sends = calls[i].sends + 1
  BY <1>0, <1>2 DEF Credit!Call
<1>4. calls' = [calls EXCEPT ![i] = c]
  BY DEF Credit!Send
<1> HIDE DEF c
<1>5. Turned(i, "sent", "none", calls[i].attempts, calls[i].sends + 1)
  BY <1>0, <1>3, <1>4 DEF Credit!TypeOK, Turned
<1>6. /\ calls'[i].phase = "sent" /\ calls'[i].result = "none" /\ calls'[i].size = calls[i].size
      /\ calls'[i].additive = calls[i].additive /\ calls'[i].attempts = calls[i].attempts
      /\ calls'[i].sends = calls[i].sends + 1
  BY <1>5 DEF Turned
<1>7. Bought(i)'
  BY <1>0, <1>1, <1>6 DEF Bought
<1>8. Validated(i)'
  BY <1>0, <1>6 DEF Validated
<1>9. late' \in [Calls -> Nat]
  BY <1>0, CreditCallType DEF Credit!TypeOK
<1> QED BY <1>0, <1>5, <1>7, <1>8, <1>9, MoveKeeps DEF Still

LEMMA CreditRefuseKeeps ==
  ASSUME Credit!CreditBounds, CreditInv, NEW i \in Calls, Credit!Refuse(i), UNCHANGED serialised
  PROVE  CreditInv'
<1>1. calls[i].phase = "sent" /\ Still /\ late' = late
  BY DEF Credit!Refuse, Still
<1>2. PICK reply \in {"refused", "credentials", "inconclusive", "other_number"} : Credit!Settle(i, reply)
  BY DEF Credit!Refuse
<1>3. PICK ending \in Credit!Result \ {"done", "invalid_input"} : Credit!End(i, ending)
  BY <1>2, Settled
<1>4. late' \in [Calls -> Nat]
  BY <1>1, CreditCallType DEF CreditInv, Credit!TypeOK
<1> QED BY <1>1, <1>3, <1>4, CreditEndKeeps DEF Still

LEMMA LoseKeeps ==
  ASSUME Credit!CreditBounds, CreditInv, NEW i \in Calls, Credit!Lose(i), UNCHANGED serialised
  PROVE  CreditInv'
<1>1. calls[i].phase = "sent" /\ Still /\ late' \in {late, [late EXCEPT ![i] = @ + 1]}
  BY DEF Credit!Lose, Still
<1>2. PICK ending \in Credit!Result \ {"done", "invalid_input"} : Credit!End(i, ending)
  BY Settled DEF Credit!Lose
<1>3. late \in [Calls -> Nat]
  BY CreditCallType DEF CreditInv, Credit!TypeOK
<1>4. /\ late' \in [Calls -> Nat] /\ \A j \in Calls : j # i => late'[j] = late[j]
      /\ late'[i] = late[i] \/ late'[i] = late[i] + 1
  BY <1>1, <1>3
<1> QED BY <1>1, <1>2, <1>4, CreditEndKeeps DEF Still

\* An interrupted run's request is nobody's.
LEMMA OrphanedType ==
  ASSUME Credit!CreditBounds, CreditInv, NEW i \in Calls, late' = Credit!Orphaned(i)
  PROVE  /\ late' \in [Calls -> Nat] /\ \A j \in Calls : j # i => late'[j] = late[j]
         /\ late'[i] = late[i] + IF calls[i].phase = "sent" THEN 1 ELSE 0
<1>1. late \in [Calls -> Nat]
  BY CreditCallType DEF CreditInv, Credit!TypeOK
<1> QED BY <1>1 DEF Credit!Orphaned

LEMMA InterruptKeeps ==
  ASSUME Credit!CreditBounds, CreditInv, NEW i \in Calls, Credit!Interrupt(i), UNCHANGED serialised
  PROVE  CreditInv'
<1>0. /\ Credit!TypeOK /\ Bought(i) /\ Validated(i) /\ calls[i].phase \in {"ready", "sent"} /\ calls[i] \in Credit!Call
      /\ calls[i].result = "none" /\ Still /\ late' = Credit!Orphaned(i) /\ taken' = taken
      /\ late[i] \in Nat /\ taken[i] \in Nat /\ calls[i].sends \in Nat
      /\ calls[i].attempts \in 1..MaxAttempts /\ MaxAttempts \in Nat
  BY CreditCallType DEF CreditInv, Credit!Interrupt, Still, Validated
<1>1. /\ late' \in [Calls -> Nat] /\ \A j \in Calls : j # i => late'[j] = late[j]
      /\ late'[i] = late[i] + IF calls[i].phase = "sent" THEN 1 ELSE 0
  BY <1>0, OrphanedType
<1>2. CASE calls[i].attempts < MaxAttempts
  <2> DEFINE c == [calls[i] EXCEPT !.phase = "ready", !.attempts = @ + 1]
  <2>1. calls' = [calls EXCEPT ![i] = c]
    BY <1>2 DEF Credit!Interrupt
  <2>2. calls[i].attempts + 1 \in 1..MaxAttempts
    BY <1>0, <1>2
  <2>3. /\ c \in Credit!Call /\ c.phase = "ready" /\ c.result = "none" /\ c.size = calls[i].size
        /\ c.additive = calls[i].additive /\ c.attempts = calls[i].attempts + 1
        /\ c.sends = calls[i].sends
    BY <1>0, <2>2 DEF Credit!Call
  <2> HIDE DEF c
  <2>4. Turned(i, "ready", "none", calls[i].attempts + 1, calls[i].sends)
    BY <1>0, <2>1, <2>3 DEF Credit!TypeOK, Turned
  <2>5. /\ calls'[i].phase = "ready" /\ calls'[i].result = "none" /\ calls'[i].size = calls[i].size
        /\ calls'[i].additive = calls[i].additive /\ calls'[i].attempts = calls[i].attempts + 1
        /\ calls'[i].sends = calls[i].sends
    BY <2>4 DEF Turned
  <2>6. Bought(i)'
    BY <1>0, <1>1, <2>5 DEF Bought
  <2>7. Validated(i)'
    BY <1>0, <2>5 DEF Validated
  <2> QED BY <1>0, <1>1, <2>4, <2>6, <2>7, MoveKeeps DEF Still
<1>3. CASE ~(calls[i].attempts < MaxAttempts)
  <2>1. Credit!End(i, "killed") /\ "killed" \in Credit!Result \ {"done", "invalid_input"}
    BY <1>3 DEF Credit!Interrupt, Credit!Result
  <2>2. late'[i] = late[i] \/ (calls[i].phase = "sent" /\ late'[i] = late[i] + 1)
    BY <1>0, <1>1
  <2> QED BY <1>0, <1>1, <2>1, <2>2, CreditEndKeeps DEF Still
<1> QED BY <1>2, <1>3

LEMMA CreditCancelKeeps ==
  ASSUME Credit!CreditBounds, CreditInv, NEW i \in Calls, Credit!Cancel(i), UNCHANGED serialised
  PROVE  CreditInv'
<1>0. /\ calls[i].phase \in {"ready", "sent"} /\ Still /\ late' = Credit!Orphaned(i) /\ late[i] \in Nat
      /\ Credit!End(i, "outcome_unknown") /\ "outcome_unknown" \in Credit!Result \ {"done", "invalid_input"}
  BY CreditCallType DEF CreditInv, Credit!Cancel, Still, Credit!Result
<1>1. /\ late' \in [Calls -> Nat] /\ \A j \in Calls : j # i => late'[j] = late[j]
      /\ late'[i] = late[i] + IF calls[i].phase = "sent" THEN 1 ELSE 0
  BY <1>0, OrphanedType
<1>2. late'[i] = late[i] \/ (calls[i].phase = "sent" /\ late'[i] = late[i] + 1)
  BY <1>0, <1>1
<1> QED BY <1>0, <1>1, <1>2, CreditEndKeeps DEF Still

-----------------------------------------------------------------------------
(* Registrations.                                                          *)

\* The ledger a registration leaves behind.
Registered(i) ==
  /\ ledger' \in Seq(Calls)
  /\ ledger' = <<>> => ledger = <<>> /\ calls[i].size = 0
  /\ ledger' # <<>> => ledger'[1] = i \/ (ledger # <<>> /\ ledger'[1] = ledger[1])
  /\ ~calls[i].additive => ledger' # <<>> /\ ledger'[1] = i
  /\ taken' \in [Calls -> Nat] /\ taken'[i] = taken[i] + 1
  /\ \A j \in Calls : j # i => taken'[j] = taken[j]

LEMMA RegisterAdds ==
  ASSUME Credit!CreditBounds, Credit!TypeOK, NEW i \in Calls, Credit!Register(i),
         Credit!Sendable(calls[i].size, calls[i].additive)
  PROVE  Registered(i)
<1> DEFINE entries == [k \in 1..calls[i].size |-> i]
<1>0. calls[i].size \in Nat /\ ledger \in Seq(Calls)
  BY CreditCallType DEF Credit!TypeOK
<1>1. /\ entries \in Seq(Calls) /\ Len(entries) = calls[i].size
      /\ \A k \in 1..calls[i].size : entries[k] = i
  BY <1>0
<1>2. ledger' = IF calls[i].additive THEN ledger \o entries ELSE entries
  BY DEF Credit!Register
<1> HIDE DEF entries
<1>3. /\ ledger \o entries \in Seq(Calls)
      /\ ledger \o entries = <<>> => ledger = <<>> /\ calls[i].size = 0
      /\ ledger \o entries # <<>> =>
           (ledger \o entries)[1] = i \/ (ledger # <<>> /\ (ledger \o entries)[1] = ledger[1])
  <2> DEFINE both == ledger \o entries
  <2>1. /\ both \in Seq(Calls) /\ Len(both) = Len(ledger) + Len(entries)
        /\ \A k \in 1..Len(both) : both[k] = IF k <= Len(ledger) THEN ledger[k] ELSE entries[k - Len(ledger)]
    BY <1>0, <1>1
  <2> HIDE DEF both
  <2>2. Len(ledger) \in Nat /\ (ledger = <<>> <=> Len(ledger) = 0)
    BY <1>0
  <2>3. Len(both) \in Nat /\ (both = <<>> <=> Len(both) = 0)
    BY <2>1
  <2>4. both = <<>> => ledger = <<>> /\ calls[i].size = 0
    BY <1>0, <1>1, <2>1, <2>2, <2>3
  <2>5. ASSUME both # <<>> PROVE both[1] = i \/ (ledger # <<>> /\ both[1] = ledger[1])
    <3>1. 1 \in 1..Len(both)
      BY <2>3, <2>5
    <3>2. CASE Len(ledger) = 0
      <4>1. both[1] = entries[1] /\ 1 \in 1..calls[i].size
        BY <1>0, <1>1, <2>1, <3>1, <3>2
      <4> QED BY <1>1, <4>1
    <3>3. CASE Len(ledger) # 0
      BY <2>1, <2>2, <3>1, <3>3
    <3> QED BY <3>2, <3>3
  <2> QED BY <2>1, <2>4, <2>5 DEF both
<1>4. ASSUME ~calls[i].additive PROVE ledger' = entries /\ entries # <<>> /\ entries[1] = i
  <2>1. calls[i].size > 0
    BY <1>4 DEF Credit!Sendable
  <2> QED BY <1>0, <1>1, <1>2, <1>4, <2>1
<1>5. calls[i].additive => ledger' = ledger \o entries
  BY <1>2
<1>6. /\ taken' \in [Calls -> Nat] /\ taken'[i] = taken[i] + 1
      /\ \A j \in Calls : j # i => taken'[j] = taken[j]
  <2>1. taken \in [Calls -> Nat] /\ taken' = [taken EXCEPT ![i] = @ + 1]
    BY CreditCallType DEF Credit!TypeOK, Credit!Register
  <2> QED BY <2>1
<1>7. /\ ledger' \in Seq(Calls)
      /\ ledger' = <<>> => ledger = <<>> /\ calls[i].size = 0
      /\ ledger' # <<>> => ledger'[1] = i \/ (ledger # <<>> /\ ledger'[1] = ledger[1])
  <2>1. CASE calls[i].additive
    BY <1>3, <1>5, <2>1
  <2>2. CASE ~calls[i].additive
    BY <1>1, <1>4, <2>2
  <2> QED BY <2>1, <2>2
<1> QED BY <1>4, <1>6, <1>7 DEF Registered

(***************************************************************************)
(* A request of i is registered: nothing is cleared, and no later snapshot *)
(* is overtaken by one that was answered in its first attempt.             *)
(***************************************************************************)
LEMMA RegisterKeeps ==
  ASSUME Credit!CreditBounds, CreditInv, NEW i \in Calls, Registered(i),
         NEW stage, stage = calls[i].phase \/ stage = "done",
         calls[i].phase # "idle",
         NEW ending, Turned(i, stage, ending, calls[i].attempts, calls[i].sends),
         ending = "done" /\ calls[i].attempts = 1 => calls[i].phase # "done",
         late' \in [Calls -> Nat], \A j \in Calls : j # i => late'[j] = late[j],
         UNCHANGED <<serialised, began, reversed>>,
         Bought(i)', Validated(i)'
  PROVE  CreditInv'
<1>0. /\ Credit!TypeOK /\ serialised' = serialised /\ began' = began /\ reversed' = reversed
      /\ began \in Seq(Calls)
  BY DEF CreditInv, Credit!TypeOK
<1>1. /\ calls' \in [Calls -> Credit!Call] /\ \A j \in Calls : j # i => calls'[j] = calls[j]
      /\ calls'[i].phase = stage /\ calls'[i].result = ending /\ calls'[i].attempts = calls[i].attempts
      /\ calls'[i].size = calls[i].size /\ calls'[i].additive = calls[i].additive
  BY DEF Turned
<1>2. /\ ledger' \in Seq(Calls)
      /\ ledger' = <<>> => ledger = <<>> /\ calls[i].size = 0
      /\ ledger' # <<>> => ledger'[1] = i \/ (ledger # <<>> /\ ledger'[1] = ledger[1])
      /\ ~calls[i].additive => ledger' # <<>> /\ ledger'[1] = i
      /\ taken' \in [Calls -> Nat] /\ \A j \in Calls : j # i => taken'[j] = taken[j]
  BY DEF Registered
<1>3. Credit!TypeOK'
  <2>1. late' \in [Calls -> 0..MaxAttempts] /\ taken' \in [Calls -> 0..MaxAttempts]
    BY <1>0, <1>1, <1>2, CountersBounded
  <2> QED BY <1>0, <1>1, <1>2, <2>1 DEF Credit!TypeOK
<1>4. ASSUME NEW j \in Calls PROVE Bought(j)' /\ Validated(j)' /\ Begun(j)'
  <2>1. Bought(j) /\ Validated(j) /\ Begun(j) /\ Begun(i)
    BY DEF CreditInv
  <2>2. CASE j = i
    BY <1>0, <1>1, <2>1, <2>2 DEF Begun
  <2>3. CASE j # i
    BY <1>0, <1>1, <1>2, <2>1, <2>3 DEF Bought, Validated, Begun
  <2> QED BY <2>2, <2>3
<1>5. Credit!NothingIsCleared'
  <2>1. ASSUME NEW j \in Calls, taken'[j] > 0, calls'[j].size > 0, ~reversed', ledger' = <<>> PROVE FALSE
    <3>1. ledger = <<>> /\ calls[i].size = 0
      BY <1>2, <2>1
    <3>2. j # i /\ calls[j].size > 0 /\ taken[j] > 0
      BY <1>1, <1>2, <2>1, <3>1
    <3> QED BY <1>0, <2>1, <3>1, <3>2 DEF CreditInv, Credit!NothingIsCleared
  <2> QED BY <2>1 DEF Credit!NothingIsCleared
<1>6. TakeTurns'
  <2>1. ASSUME NEW k \in DOMAIN began, NEW m \in DOMAIN began, k < m, serialised
        PROVE  calls'[began[k]].phase = "done"
    <3>1. calls[began[k]].phase = "done" /\ began[k] \in Calls
      BY <1>0, <2>1 DEF CreditInv, TakeTurns
    <3> QED BY <1>1, <3>1
  <2> QED BY <1>0, <2>1 DEF TakeTurns
<1>7. ASSUME NEW a \in Calls, NEW b \in Calls, a # b, Before(a, b), serialised,
             calls'[a].result = "done", calls'[a].attempts = 1,
             taken'[b] > 0, ~calls'[b].additive, ledger' # <<>>
      PROVE  ledger'[1] # a
  <2>1. a # i
    <3>1. calls[a].phase = "done"
      BY <1>7 DEF Before, CreditInv, TakeTurns
    <3> QED BY <1>1, <1>7, <3>1
  <2>2. CASE b = i
    BY <1>1, <1>2, <1>7, <2>2
  <2>3. CASE b # i
    <3>1. ledger # <<>> => ledger[1] # a
      BY <1>1, <1>2, <1>7, <2>1, <2>3 DEF CreditInv, Overtaken
    <3> QED BY <1>2, <1>7, <2>1, <3>1
  <2> QED BY <2>2, <2>3
<1>8. \A a, b \in Calls : a # b => Overtaken(a, b)'
  BY <1>0, <1>7 DEF Overtaken, Before
<1> QED BY <1>3, <1>4, <1>5, <1>6, <1>8 DEF CreditInv

LEMMA AcknowledgeKeeps ==
  ASSUME Credit!CreditBounds, CreditInv, NEW i \in Calls, Credit!Acknowledge(i), UNCHANGED serialised
  PROVE  CreditInv'
<1>0. /\ Credit!TypeOK /\ Bought(i) /\ Validated(i) /\ calls[i].phase = "sent" /\ Credit!Register(i)
      /\ UNCHANGED <<serialised, began, reversed>> /\ late' = late
      /\ late[i] \in Nat /\ taken[i] \in Nat /\ calls[i].sends \in Nat /\ calls[i].attempts \in Nat
  BY CreditCallType DEF CreditInv, Credit!Acknowledge
<1>1. Registered(i)
  BY <1>0, RegisterAdds DEF Validated
<1>2. PICK reply \in {"acknowledged", "other_number", "inconclusive"} : Credit!Settle(i, reply)
  BY DEF Credit!Acknowledge
<1>3. PICK ending \in Credit!Result \ {"invalid_input"} : Credit!End(i, ending)
  BY <1>2, Settled
<1>4. Turned(i, "done", ending, calls[i].attempts, calls[i].sends)
  BY <1>0, <1>3, Ended
<1>5. /\ calls'[i].phase = "done" /\ calls'[i].result = ending /\ calls'[i].size = calls[i].size
      /\ calls'[i].additive = calls[i].additive /\ calls'[i].attempts = calls[i].attempts
      /\ calls'[i].sends = calls[i].sends /\ taken'[i] = taken[i] + 1
  BY <1>1, <1>4 DEF Turned, Registered
<1>6. Bought(i)'
  BY <1>0, <1>5 DEF Bought
<1>7. Validated(i)'
  BY <1>0, <1>5 DEF Validated
<1>8. late' \in [Calls -> Nat]
  BY <1>0, CreditCallType DEF Credit!TypeOK
<1> QED BY <1>0, <1>1, <1>4, <1>6, <1>7, <1>8, RegisterKeeps

\* A call that changes nothing of itself.
LEMMA Unturned ==
  ASSUME Credit!CreditBounds, Credit!TypeOK, NEW i \in Calls, calls' = calls
  PROVE  Turned(i, calls[i].phase, calls[i].result, calls[i].attempts, calls[i].sends)
BY DEF Credit!TypeOK, Turned

LEMMA ExecuteLateKeeps ==
  ASSUME Credit!CreditBounds, CreditInv, NEW i \in Calls, Credit!ExecuteLate(i), UNCHANGED serialised
  PROVE  CreditInv'
<1>0. /\ Credit!TypeOK /\ Bought(i) /\ Validated(i) /\ late[i] > 0 /\ Credit!Register(i)
      /\ UNCHANGED <<serialised, began, reversed>> /\ calls' = calls
      /\ late' = [late EXCEPT ![i] = @ - 1]
      /\ late[i] \in Nat /\ taken[i] \in Nat /\ calls[i].sends \in Nat /\ calls[i].attempts \in Nat
  BY CreditCallType DEF CreditInv, Credit!ExecuteLate
<1>1. calls[i].sends > 0 /\ (calls[i].result = "done" => calls[i].attempts > 1)
  BY <1>0 DEF Bought, Validated
<1>2. Registered(i)
  BY <1>0, <1>1, RegisterAdds DEF Validated
<1>3. calls[i].phase # "idle"
  BY <1>0, <1>1 DEF Validated
<1>4. taken'[i] = taken[i] + 1
  BY <1>2 DEF Registered
<1>5. late' \in [Calls -> Nat] /\ late'[i] = late[i] - 1 /\ \A j \in Calls : j # i => late'[j] = late[j]
  <2>1. late \in [Calls -> Nat]
    BY <1>0, CreditCallType DEF Credit!TypeOK
  <2> QED BY <1>0, <2>1
<1>6. Bought(i)'
  BY <1>0, <1>4, <1>5 DEF Bought
<1>7. Validated(i)'
  BY <1>0, <1>4 DEF Validated
<1>8. calls[i].result = "done" /\ calls[i].attempts = 1 => calls[i].phase # "done"
  BY <1>0, <1>1
<1> QED BY <1>0, <1>2, <1>3, <1>5, <1>6, <1>7, <1>8, Unturned, RegisterKeeps

\* Late requests that are dropped, and steps that touch no call.
LEMMA DropKeeps ==
  ASSUME Credit!CreditBounds, CreditInv, UNCHANGED <<serialised, calls, began, taken>>,
         late' \in [Calls -> Nat], \A j \in Calls : late'[j] <= late[j],
         ledger' \in Seq(Calls), reversed' \in BOOLEAN,
         \/ UNCHANGED <<reversed, ledger>>
         \/ reversed' /\ ledger' = <<>>
  PROVE  CreditInv'
<1>0. Credit!TypeOK /\ serialised' = serialised /\ calls' = calls /\ began' = began /\ taken' = taken
  BY DEF CreditInv
<1>1. Credit!TypeOK'
  <2>1. \A j \in Calls : late'[j] \in 0..MaxAttempts
    <3>1. \A j \in Calls : late'[j] \in Nat /\ late[j] \in 0..MaxAttempts /\ late'[j] <= late[j]
      BY <1>0 DEF Credit!TypeOK
    <3>2. MaxAttempts \in Nat
      BY DEF Credit!CreditBounds
    <3> QED BY <3>1, <3>2
  <2>2. late' \in [Calls -> 0..MaxAttempts]
    BY <2>1
  <2> QED BY <1>0, <2>2 DEF Credit!TypeOK
<1>2. ASSUME NEW j \in Calls PROVE Bought(j)' /\ Validated(j)' /\ Begun(j)'
  <2>1. Bought(j) /\ Validated(j) /\ Begun(j)
    BY DEF CreditInv
  <2>2. late'[j] <= late[j] /\ late'[j] \in Nat /\ late[j] \in Nat /\ taken[j] \in Nat
        /\ calls[j].sends \in Nat
    BY <1>0, CreditCallType
  <2>3. Bought(j)'
    BY <1>0, <2>1, <2>2 DEF Bought
  <2> QED BY <1>0, <2>1, <2>3 DEF Validated, Begun
<1>3. Credit!NothingIsCleared' /\ TakeTurns'
  BY <1>0 DEF CreditInv, Credit!NothingIsCleared, TakeTurns
<1>4. ASSUME NEW a \in Calls, NEW b \in Calls, a # b PROVE Overtaken(a, b)'
  BY <1>0, <1>4 DEF CreditInv, Overtaken, Before
<1> QED BY <1>1, <1>2, <1>3, <1>4 DEF CreditInv

LEMMA DiscardKeeps ==
  ASSUME Credit!CreditBounds, CreditInv, NEW i \in Calls, Credit!Discard(i), UNCHANGED serialised
  PROVE  CreditInv'
<1>1. late[i] > 0 /\ late' = [late EXCEPT ![i] = @ - 1] /\ late \in [Calls -> Nat]
  BY CreditCallType DEF CreditInv, Credit!TypeOK, Credit!Discard
<1>2. late' \in [Calls -> Nat] /\ \A j \in Calls : late'[j] <= late[j]
  BY <1>1
<1>3. UNCHANGED <<serialised, calls, began, taken>> /\ UNCHANGED <<reversed, ledger>>
  BY DEF Credit!Discard
<1>4. ledger' \in Seq(Calls) /\ reversed' \in BOOLEAN
  BY <1>3 DEF CreditInv, Credit!TypeOK
<1> QED BY <1>2, <1>3, <1>4, DropKeeps

LEMMA ReverseInvoiceKeeps ==
  ASSUME Credit!CreditBounds, CreditInv, Credit!ReverseInvoice, UNCHANGED serialised
  PROVE  CreditInv'
<1>1. late' = late /\ late \in [Calls -> Nat]
  BY CreditCallType DEF CreditInv, Credit!TypeOK, Credit!ReverseInvoice
<1>2. late' \in [Calls -> Nat] /\ \A j \in Calls : late'[j] <= late[j]
  BY <1>1
<1>3. UNCHANGED <<serialised, calls, began, taken>> /\ reversed' = TRUE /\ ledger' = <<>>
  BY DEF Credit!ReverseInvoice
<1>4. ledger' \in Seq(Calls) /\ reversed' \in BOOLEAN
  BY <1>3
<1> QED BY <1>2, <1>3, <1>4, DropKeeps

LEMMA CreditStutterKeeps ==
  ASSUME Credit!CreditBounds, CreditInv, UNCHANGED <<serialised, Credit!vars>>
  PROVE  CreditInv'
<1>1. late' = late /\ late \in [Calls -> Nat]
  BY CreditCallType DEF CreditInv, Credit!TypeOK, Credit!vars
<1>2. late' \in [Calls -> Nat] /\ \A j \in Calls : late'[j] <= late[j]
  BY <1>1
<1>3. UNCHANGED <<serialised, calls, began, taken>> /\ UNCHANGED <<reversed, ledger>>
  BY DEF Credit!vars
<1>4. ledger' \in Seq(Calls) /\ reversed' \in BOOLEAN
  BY <1>3 DEF CreditInv, Credit!TypeOK
<1> QED BY <1>2, <1>3, <1>4, DropKeeps

(***************************************************************************)
(* A call begins: it was idle, so nothing of it is about, and callers that *)
(* take turns have ended what they began.                                  *)
(***************************************************************************)
LEMMA CreditBeginKeeps ==
  ASSUME Credit!CreditBounds, CreditInv, NEW i \in Calls, NEW size \in Sizes, NEW additive \in BOOLEAN,
         Credit!Begin(i, size, additive), UNCHANGED serialised
  PROVE  CreditInv'
<1> DEFINE ok == Credit!Sendable(size, additive)
           stage == IF ok THEN "ready" ELSE "done"
           ending == IF ok THEN "none" ELSE "invalid_input"
           c == [calls[i] EXCEPT !.size = size, !.additive = additive, !.phase = stage, !.result = ending]
<1>0. /\ Credit!TypeOK /\ Bought(i) /\ Validated(i) /\ Begun(i) /\ calls[i].phase = "idle" /\ calls[i] \in Credit!Call
      /\ serialised' = serialised /\ began' = Append(began, i) /\ reversed' = reversed
      /\ ledger' = ledger /\ late' = late /\ taken' = taken /\ began \in Seq(Calls)
      /\ late[i] \in Nat /\ taken[i] \in Nat /\ calls[i].sends \in Nat /\ calls[i].attempts \in Nat
  BY CreditCallType DEF CreditInv, Credit!TypeOK, Credit!Begin
<1>1. calls[i].sends = 0 /\ taken[i] = 0 /\ late[i] = 0 /\ calls[i].sends < calls[i].attempts
  BY <1>0 DEF Bought, Validated
<1>2. /\ c \in Credit!Call /\ c.phase = stage /\ c.result = ending /\ c.size = size /\ c.additive = additive
      /\ c.attempts = calls[i].attempts /\ c.sends = calls[i].sends
  <2>1. stage \in {"idle", "ready", "sent", "done"} /\ ending \in Credit!Result
    BY DEF Credit!Result
  <2> HIDE DEF stage, ending
  <2> QED BY <1>0, <2>1 DEF Credit!Call
<1>3. calls' = [calls EXCEPT ![i] = c]
  BY DEF Credit!Begin
<1>4. /\ stage # "idle" /\ stage # "sent" /\ ending # "done" /\ (stage = "ready" => ok)
      /\ (stage # "done" => ending = "none")
  OBVIOUS
<1> HIDE DEF c, stage, ending, ok
<1>5. calls' \in [Calls -> Credit!Call] /\ calls'[i] = c /\ \A j \in Calls : j # i => calls'[j] = calls[j]
  BY <1>0, <1>2, <1>3 DEF Credit!TypeOK
<1> DEFINE N == Len(began) + 1
<1>6. /\ began' \in Seq(Calls) /\ Len(began) \in Nat /\ DOMAIN began = 1..Len(began)
      /\ DOMAIN began' = 1..N /\ began'[N] = i /\ \A k \in DOMAIN began : began'[k] = began[k]
  BY <1>0
<1>7. /\ DOMAIN began' = DOMAIN began \cup {N} /\ N \notin DOMAIN began
      /\ \A k \in DOMAIN began : k < N /\ began[k] # i /\ began[k] \in Calls
  <2>1. \A k \in DOMAIN began : began[k] # i
    BY <1>0 DEF Begun
  <2> QED BY <1>0, <1>6, <2>1
<1> HIDE DEF N
<1>8. Credit!TypeOK'
  <2>1. \A k, m \in DOMAIN began' : began'[k] = began'[m] => k = m
    BY <1>0, <1>6, <1>7 DEF Credit!TypeOK
  <2> QED BY <1>0, <1>5, <1>6, <2>1 DEF Credit!TypeOK
<1>9. ASSUME NEW j \in Calls PROVE Bought(j)' /\ Validated(j)' /\ Begun(j)'
  <2>1. CASE j = i
    <3>1. Bought(i)'
      BY <1>0, <1>1, <1>2, <1>4, <1>5 DEF Bought
    <3>2. Validated(i)'
      BY <1>0, <1>1, <1>2, <1>4, <1>5 DEF Validated, ok
    <3>3. Begun(i)'
      BY <1>2, <1>4, <1>5, <1>6, <1>7 DEF Begun
    <3> QED BY <2>1, <3>1, <3>2, <3>3
  <2>2. CASE j # i
    <3>1. Bought(j) /\ Validated(j) /\ Begun(j) /\ calls'[j] = calls[j]
      BY <1>5, <2>2 DEF CreditInv
    <3>2. Begun(j)'
      BY <1>6, <1>7, <2>2, <3>1 DEF Begun
    <3> QED BY <1>0, <3>1, <3>2 DEF Bought, Validated
  <2> QED BY <2>1, <2>2
<1>10. Credit!NothingIsCleared'
  <2>1. ASSUME NEW j \in Calls, taken'[j] > 0, calls'[j].size > 0, ~reversed' PROVE ledger' # <<>>
    <3>1. j # i /\ calls'[j] = calls[j]
      BY <1>0, <1>1, <1>5, <2>1
    <3> QED BY <1>0, <2>1, <3>1 DEF CreditInv, Credit!NothingIsCleared
  <2> QED BY <2>1 DEF Credit!NothingIsCleared
<1>11. TakeTurns'
  <2>1. ASSUME serialised, NEW k \in DOMAIN began PROVE calls'[began[k]].phase = "done"
    <3>1. began[k] \in Calls /\ began[k] # i
      BY <1>7, <2>1
    <3>2. calls[began[k]].phase \in {"idle", "done"}
      BY <2>1, <3>1 DEF Credit!Begin
    <3>3. calls[began[k]].phase # "idle"
      BY <2>1, <3>1 DEF CreditInv, Begun
    <3> QED BY <1>5, <3>1, <3>2, <3>3
  <2>2. ASSUME serialised, NEW k \in DOMAIN began', NEW m \in DOMAIN began', k < m
        PROVE  k \in DOMAIN began
    BY <1>6, <1>7, <2>2 DEF N
  <2> QED BY <1>0, <1>6, <2>1, <2>2 DEF TakeTurns
<1>12. ASSUME NEW a \in Calls, NEW b \in Calls, a # b PROVE Overtaken(a, b)'
  <2>1. CASE a = i \/ b = i
    BY <1>0, <1>1, <1>2, <1>4, <1>5, <2>1 DEF Overtaken
  <2>2. CASE a # i /\ b # i
    <3>1. calls'[a] = calls[a] /\ calls'[b] = calls[b] /\ Overtaken(a, b)
      BY <1>5, <1>12, <2>2 DEF CreditInv
    <3>2. Before(a, b)' => Before(a, b)
      BY <1>6, <1>7, <2>2 DEF Before
    <3> QED BY <1>0, <3>1, <3>2 DEF Overtaken
  <2> QED BY <2>1, <2>2
<1> QED BY <1>8, <1>9, <1>10, <1>11, <1>12 DEF CreditInv

-----------------------------------------------------------------------------
(* The invariant.                                                          *)

LEMMA CreditInit ==
  ASSUME Credit!CreditBounds, Credit!Init
  PROVE  CreditInv
<1> DEFINE s == CHOOSE s \in Sizes : TRUE
           c == [phase |-> "idle", size |-> s, additive |-> FALSE, result |-> "none",
                 attempts |-> 1, sends |-> 0]
<1>1. /\ calls = [i \in Calls |-> c] /\ began = <<>> /\ reversed = FALSE /\ ledger = <<>>
      /\ late = [i \in Calls |-> 0] /\ taken = [i \in Calls |-> 0]
  BY DEF Credit!Init
<1>2. s \in Sizes
  BY DEF Credit!CreditBounds
<1> HIDE DEF s
<1>3. /\ c \in Credit!Call /\ c.phase = "idle" /\ c.result = "none" /\ c.attempts = 1 /\ c.sends = 0
  BY <1>2 DEF Credit!Call, Credit!Result, Credit!CreditBounds
<1> HIDE DEF c
<1>4. Credit!TypeOK
  <2>1. 0 \in 0..MaxAttempts
    BY DEF Credit!CreditBounds
  <2>2. /\ calls \in [Calls -> Credit!Call] /\ late \in [Calls -> 0..MaxAttempts]
        /\ taken \in [Calls -> 0..MaxAttempts]
    BY <1>1, <1>3, <2>1
  <2>3. began \in Seq(Calls) /\ ledger \in Seq(Calls) /\ DOMAIN began = {}
    BY <1>1
  <2> QED BY <1>1, <2>2, <2>3 DEF Credit!TypeOK
<1>5. ASSUME NEW i \in Calls PROVE Bought(i) /\ Validated(i) /\ Begun(i)
  <2>1. calls[i] = c /\ late[i] = 0 /\ taken[i] = 0 /\ DOMAIN began = {}
    BY <1>1
  <2> QED BY <1>3, <2>1 DEF Bought, Validated, Begun
<1>6. Credit!NothingIsCleared /\ TakeTurns
  BY <1>1 DEF Credit!NothingIsCleared, TakeTurns
<1>7. \A i, j \in Calls : Overtaken(i, j)
  BY <1>1 DEF Overtaken
<1> QED BY <1>4, <1>5, <1>6, <1>7 DEF CreditInv

LEMMA CreditNext ==
  ASSUME Credit!CreditBounds, CreditInv, [Credit!Next /\ UNCHANGED serialised]_<<serialised, Credit!vars>>
  PROVE  CreditInv'
<1>1. CASE UNCHANGED <<serialised, Credit!vars>>
  BY <1>1, CreditStutterKeeps
<1>2. ASSUME NEW i \in Calls, Credit!Step(i), UNCHANGED serialised PROVE CreditInv'
  BY <1>2, UninitializedKeeps, CreditSendKeeps, AcknowledgeKeeps, CreditRefuseKeeps, LoseKeeps DEF Credit!Step
<1>3. ASSUME NEW i \in Calls, UNCHANGED serialised,
             \E size \in Sizes, additive \in BOOLEAN : Credit!Begin(i, size, additive)
      PROVE  CreditInv'
  BY <1>3, CreditBeginKeeps
<1>4. ASSUME NEW i \in Calls, UNCHANGED serialised,
             Credit!Interrupt(i) \/ Credit!Cancel(i) \/ Credit!ExecuteLate(i) \/ Credit!Discard(i)
      PROVE  CreditInv'
  BY <1>4, InterruptKeeps, CreditCancelKeeps, ExecuteLateKeeps, DiscardKeeps
<1>5. CASE Credit!ReverseInvoice /\ UNCHANGED serialised
  BY <1>5, ReverseInvoiceKeeps
<1> QED BY <1>1, <1>2, <1>3, <1>4, <1>5 DEF Credit!Next

LEMMA CreditSound ==
  ASSUME Credit!CreditBounds, CreditInv
  PROVE  Credit!CreditAnswersAreTrue /\ Credit!OnlyInterruptionsRepeat
<1>1. \A i \in Calls : /\ Bought(i) /\ Validated(i)
                       /\ late[i] \in Nat /\ taken[i] \in Nat /\ calls[i].sends \in Nat
                       /\ calls[i].attempts \in Nat \ {0}
  BY CreditCallType DEF CreditInv
<1>2. Credit!AnswersAreTrue
  <2>1. ASSUME NEW i \in Calls
        PROVE  /\ calls[i].result = "done" => taken[i] > 0
               /\ calls[i].result = "invalid_input" => calls[i].sends = 0
               /\ calls[i].sends = 0 => taken[i] = 0 /\ late[i] = 0
               /\ calls[i].sends > 0 => calls[i].size <= Credit!MaxEntries
    BY <1>1 DEF Bought, Validated, Credit!Sendable
  <2> QED BY <2>1 DEF Credit!AnswersAreTrue
<1>3. Credit!DuplicatesNeedInterruption
  BY <1>1 DEF Credit!DuplicatesNeedInterruption, Bought
<1>4. ASSUME serialised, NEW i \in Calls, NEW j \in Calls,
             calls[i].result = "done", calls[j].result = "done",
             ~calls[j].additive, \E k \in DOMAIN began : began[k] = i,
             \E k \in DOMAIN began : began[k] = j, Credit!Position(i) < Credit!Position(j),
             ledger # <<>>, ledger[1] = i
      PROVE  calls[i].attempts > 1
  <2>1. /\ Credit!Position(i) \in DOMAIN began /\ began[Credit!Position(i)] = i
        /\ Credit!Position(j) \in DOMAIN began /\ began[Credit!Position(j)] = j
    BY <1>4 DEF Credit!Position
  <2>2. Credit!Position(i) \in Nat /\ Credit!Position(j) \in Nat
    BY <2>1 DEF CreditInv, Credit!TypeOK
  <2>3. i # j
    BY <1>4, <2>2
  <2>4. Before(i, j)
    BY <1>4, <2>1 DEF Before
  <2>5. taken[j] > 0
    BY <1>1, <1>4 DEF Validated
  <2>6. calls[i].attempts # 1
    BY <1>4, <2>3, <2>4, <2>5 DEF CreditInv, Overtaken
  <2> QED BY <1>1, <2>6
<1>5. Credit!StaleSnapshotNeedsInterruption
  BY <1>4 DEF Credit!StaleSnapshotNeedsInterruption
<1> QED BY <1>2, <1>3, <1>5 DEF CreditInv, Credit!CreditAnswersAreTrue, Credit!OnlyInterruptionsRepeat

-----------------------------------------------------------------------------
(* The prologue.  The inductive invariant.                                 *)

\* The journal is filled in order, the account's runs last.
Recorded ==
  /\ journal.account # None => journal.ns # None
  /\ journal.runs # << >> => journal.account \in Accounts \ Invalid

\* A client belongs to the running execution and to the recorded account.
ClientOfExecution ==
  cell # None => phase = "running" /\ cell.account = journal.account

\* The keys of the store since the execution began.
StoreIsHeld == phase = "running" => \A a \in Accounts : <<a, store[a]>> \in held

\* A request that left: under the recorded identity, and a write from the last step.
Fits(rq) ==
  /\ rq \in [ns : Namespaces, account : Accounts, key : Keys, kind : Call!Kinds]
  /\ rq.ns = journal.ns /\ rq.account = journal.account
  /\ rq.kind = "write" =>
       /\ Len(handler.body) > 0 /\ handler.body[Len(handler.body)] = "write"
       /\ Len(journal.runs) + 1 >= Len(handler.body)

PrologueInv ==
  /\ Call!TypeOK /\ Recorded /\ ClientOfExecution /\ StoreIsHeld /\ Call!KeysAreOfThisExecution
  /\ \A rq \in sent : Fits(rq)
  /\ Call!CancelledWroteNothing /\ Call!OutagesNeverRefuseRetainedWork

-----------------------------------------------------------------------------
(* Types.                                                                  *)

Journals ==
  [ns : Namespaces \cup {None}, account : Call!Resolution \cup {None}, runs : Seq({"answered", "omitted"})]

LEMMA HandlerType ==
  ASSUME Call!PrologueAssumption, Call!TypeOK
  PROVE  /\ handler \in Handlers /\ handler.retains \in BOOLEAN /\ handler.body \in Seq(Call!Kinds)
         /\ Len(handler.body) \in Nat /\ DOMAIN handler.body = 1..Len(handler.body)
         /\ \A k \in DOMAIN handler.body :
              handler.body[k] = "write" => ~handler.retains /\ k = Len(handler.body)
<1>1. handler \in Handlers
  BY DEF Call!TypeOK
<1>2. /\ handler.retains \in BOOLEAN /\ handler.body \in Seq(Call!Kinds)
      /\ \A k \in DOMAIN handler.body :
           handler.body[k] = "write" => ~handler.retains /\ k = Len(handler.body)
  BY <1>1 DEF Call!PrologueAssumption
<1>3. handler.body \in Seq(Call!Kinds)
  BY <1>2
<1>4. Len(handler.body) \in Nat /\ DOMAIN handler.body = 1..Len(handler.body)
  BY <1>3
<1> QED BY <1>1, <1>2, <1>4, Zenon

LEMMA JournalType ==
  ASSUME Call!TypeOK
  PROVE  /\ journal \in Journals /\ journal.ns \in Namespaces \cup {None}
         /\ journal.account \in Call!Resolution \cup {None}
         /\ journal.runs \in Seq({"answered", "omitted"}) /\ Len(journal.runs) \in Nat
         /\ Len(journal.runs) <= Len(handler.body)
<1>1. journal \in Journals /\ Len(journal.runs) <= Len(handler.body)
  BY DEF Call!TypeOK, Journals
<1>2. /\ journal.ns \in Namespaces \cup {None} /\ journal.account \in Call!Resolution \cup {None}
      /\ journal.runs \in Seq({"answered", "omitted"})
  BY <1>1 DEF Journals
<1>3. Len(journal.runs) \in Nat
  BY <1>2
<1> QED BY <1>1, <1>2, <1>3

\* The step an invocation in its body is at.
LEMMA BodyStep ==
  ASSUME Call!PrologueAssumption, Call!TypeOK, Call!InBody
  PROVE  /\ Call!Step \in Call!Kinds /\ journal.account \in Accounts \ Invalid
         /\ Len(journal.runs) + 1 <= Len(handler.body)
         /\ Call!Step = "write" => /\ ~handler.retains /\ Len(journal.runs) + 1 = Len(handler.body)
                              /\ handler.body[Len(handler.body)] = "write"
<1>1. /\ handler.body \in Seq(Call!Kinds) /\ Len(handler.body) \in Nat
      /\ DOMAIN handler.body = 1..Len(handler.body)
      /\ \A k \in DOMAIN handler.body :
           handler.body[k] = "write" => ~handler.retains /\ k = Len(handler.body)
  BY HandlerType
<1>2. Len(journal.runs) \in Nat /\ Len(journal.runs) < Len(handler.body)
      /\ journal.account \in Accounts \ Invalid
  BY JournalType DEF Call!InBody
<1>3. Len(journal.runs) + 1 \in DOMAIN handler.body /\ Len(journal.runs) + 1 <= Len(handler.body)
  BY <1>1, <1>2
<1>4. Call!Step \in Call!Kinds
  BY <1>1, <1>3 DEF Call!Step
<1> QED BY <1>1, <1>2, <1>3, <1>4 DEF Call!Step

\* The constants that stand for nothing are none of the values.
LEMMA Nothings ==
  ASSUME Call!PrologueAssumption
  PROVE  /\ None \notin Namespaces /\ None \notin Accounts /\ None \notin Call!Resolution
         /\ None \notin Call!Codes /\ None \notin Call!Client
         /\ Accounts \subseteq Call!Resolution /\ Invalid \subseteq Accounts /\ BadKeys \subseteq Keys
         /\ MaxTries \in Nat \ {0} /\ MaxAttempts \in Nat \ {0} /\ MaxChanges \in Nat
         /\ Gone \notin Keys
BY DEF Call!PrologueAssumption, Call!Resolution

-----------------------------------------------------------------------------
(* The ends of an execution.                                               *)

\* What an end of the invocation asks for.
MayEnd(code, requests) ==
  /\ code \in Call!Codes
  /\ code = "cancelled" => \A rq \in requests : rq.kind # "write"
  /\ handler.retains /\ code \in {"unavailable", "killed"} =>
       journal.account \in Invalid \/ (Call!InBody /\ Call!Step = "verification")

\* An execution is left, with a later one to follow or for good.
LEMMA LeaveKeeps ==
  ASSUME Call!PrologueAssumption, PrologueInv, phase # "done",
         UNCHANGED <<Call!environment, handler, journal, held>>,
         NEW next \in {"waiting", "paused", "done"}, Call!Leave(next),
         tries' \in 0..(MaxTries - 1), attempts' \in 0..(MaxAttempts - 1),
         \A rq \in sent' : Fits(rq),
         IF next = "done" THEN MayEnd(outcome', sent') ELSE outcome' = outcome
  PROVE  PrologueInv'
<1>1. /\ deployed' = deployed /\ store' = store /\ changes' = changes /\ handler' = handler
      /\ journal' = journal /\ held' = held /\ phase' = next /\ cell' = None /\ fetches' = 0
  BY DEF Call!environment, Call!Leave
<1>2. Call!TypeOK /\ outcome = None /\ None \notin Call!Codes
  BY Nothings DEF PrologueInv, Call!TypeOK
<1>3. outcome' \in Call!Codes \cup {None} /\ (outcome' # None <=> next = "done")
  BY <1>2 DEF MayEnd
<1>4. sent' \subseteq [ns : Namespaces, account : Accounts, key : Keys, kind : Call!Kinds]
  BY DEF Fits
<1>5. Call!TypeOK'
  BY <1>1, <1>2, <1>3, <1>4 DEF Call!TypeOK, Call!FETCH_ATTEMPTS
<1>6. Recorded' /\ ClientOfExecution' /\ StoreIsHeld' /\ Call!KeysAreOfThisExecution'
  BY <1>1 DEF PrologueInv, Recorded, ClientOfExecution, StoreIsHeld, Call!KeysAreOfThisExecution
<1>7. \A rq \in sent' : Fits(rq)'
  BY <1>1 DEF Fits
<1>8. Call!CancelledWroteNothing'
  BY <1>2, <1>3 DEF Call!CancelledWroteNothing, MayEnd, Call!Codes
<1>9. Call!OutagesNeverRefuseRetainedWork'
  <2>1. ASSUME handler.retains, outcome' \in {"unavailable", "killed"}
        PROVE  journal.account \in Invalid \/ (Call!InBody /\ Call!Step = "verification")
    <3>1. outcome' # None
      BY <1>2, <2>1 DEF Call!Codes
    <3> QED BY <1>3, <2>1, <3>1 DEF MayEnd
  <2> QED BY <1>1, <2>1 DEF Call!OutagesNeverRefuseRetainedWork, Call!InBody, Call!Step
<1> QED BY <1>5, <1>6, <1>7, <1>8, <1>9 DEF PrologueInv

\* A run is recorded and the execution goes on.
LEMMA RecordKeeps ==
  ASSUME Call!PrologueAssumption, PrologueInv, phase = "running", Call!InBody,
         UNCHANGED <<Call!environment, handler, phase, cell, outcome, held>>,
         NEW answer \in {"answered", "omitted"}, Call!Records(answer),
         \A rq \in sent' : Fits(rq)
  PROVE  PrologueInv'
<1>1. /\ deployed' = deployed /\ store' = store /\ changes' = changes /\ handler' = handler
      /\ held' = held /\ phase' = phase /\ cell' = cell /\ outcome' = outcome
      /\ journal' = [journal EXCEPT !.runs = Append(@, answer)]
      /\ tries' = 0 /\ attempts' = 0 /\ fetches' = 0
  BY DEF Call!environment, Call!Records
<1>2. /\ Call!TypeOK /\ journal \in Journals /\ journal.runs \in Seq({"answered", "omitted"})
      /\ Len(journal.runs) \in Nat /\ journal.account \in Accounts \ Invalid
      /\ Len(journal.runs) + 1 <= Len(handler.body) /\ outcome = None
  BY JournalType, BodyStep DEF PrologueInv, Call!TypeOK
<1>3. /\ Append(journal.runs, answer) \in Seq({"answered", "omitted"})
      /\ Len(Append(journal.runs, answer)) = Len(journal.runs) + 1
  BY <1>2
<1>4. /\ journal' \in Journals /\ journal'.ns = journal.ns /\ journal'.account = journal.account
      /\ Len(journal'.runs) = Len(journal.runs) + 1
  BY <1>1, <1>2, <1>3 DEF Journals
<1>5. sent' \subseteq [ns : Namespaces, account : Accounts, key : Keys, kind : Call!Kinds]
  BY DEF Fits
<1>6. Call!TypeOK'
  <2>1. 0 \in 0..(MaxTries - 1) /\ 0 \in 0..(MaxAttempts - 1)
    BY Nothings
  <2> QED BY <1>1, <1>2, <1>4, <1>5, <2>1 DEF Call!TypeOK, Call!FETCH_ATTEMPTS, Journals
<1>7. Recorded' /\ ClientOfExecution' /\ StoreIsHeld' /\ Call!KeysAreOfThisExecution'
  BY <1>1, <1>2, <1>4 DEF PrologueInv, Recorded, ClientOfExecution, StoreIsHeld, Call!KeysAreOfThisExecution
<1>8. ASSUME NEW rq \in sent' PROVE Fits(rq)'
  <2>1. Fits(rq)
    BY <1>8
  <2>2. Len(handler.body) \in Nat
    BY <1>2, HandlerType
  <2> QED BY <1>1, <1>2, <1>4, <2>1, <2>2 DEF Fits
<1>9. Call!CancelledWroteNothing' /\ Call!OutagesNeverRefuseRetainedWork'
  <2>1. outcome' = None /\ None \notin Call!Codes
    BY <1>1, <1>2, Nothings
  <2> QED BY <2>1 DEF Call!CancelledWroteNothing, Call!OutagesNeverRefuseRetainedWork, Call!Codes
<1> QED BY <1>6, <1>7, <1>8, <1>9 DEF PrologueInv

\* The attempt failed: another execution, a pause, or the end of what retains nothing.
LEMMA AttemptFailsKeeps ==
  ASSUME Call!PrologueAssumption, PrologueInv, phase = "running", Call!AttemptFails,
         UNCHANGED <<Call!environment, handler, held>>,
         \A rq \in sent' : Fits(rq)
  PROVE  PrologueInv'
<1>1. /\ UNCHANGED <<Call!environment, handler, journal, held>> /\ phase # "done"
      /\ tries' = tries
  BY DEF Call!AttemptFails
<1>2. /\ tries \in 0..(MaxTries - 1) /\ attempts \in 0..(MaxAttempts - 1)
      /\ MaxAttempts \in Nat \ {0} /\ MaxTries \in Nat \ {0}
  BY Nothings DEF PrologueInv, Call!TypeOK
<1>3. tries' \in 0..(MaxTries - 1)
  BY <1>1, <1>2
<1>4. CASE attempts + 1 < MaxAttempts
  <2>1. Call!Leave("waiting") /\ attempts' = attempts + 1 /\ outcome' = outcome
    BY <1>4 DEF Call!AttemptFails
  <2>2. attempts' \in 0..(MaxAttempts - 1)
    BY <1>2, <1>4, <2>1
  <2> QED BY <1>1, <1>3, <2>1, <2>2, LeaveKeeps
<1>5. CASE ~(attempts + 1 < MaxAttempts)
  <2>1. attempts' \in 0..(MaxAttempts - 1)
    BY <1>2, <1>5 DEF Call!AttemptFails
  <2>2. CASE handler.retains
    <3>1. Call!Leave("paused") /\ outcome' = outcome
      BY <1>5, <2>2 DEF Call!AttemptFails
    <3> QED BY <1>1, <1>3, <2>1, <3>1, LeaveKeeps
  <2>3. CASE ~handler.retains
    <3>1. Call!Leave("done") /\ outcome' = "killed"
      BY <1>5, <2>3 DEF Call!AttemptFails, Call!Ends
    <3>2. MayEnd(outcome', sent')
      BY <2>3, <3>1 DEF MayEnd, Call!Codes
    <3> QED BY <1>1, <1>3, <2>1, <3>1, <3>2, LeaveKeeps
  <2> QED BY <2>2, <2>3
<1> QED BY <1>4, <1>5

\* The invocation ends with a code that may be given at this point.
LEMMA PrologueEndKeeps ==
  ASSUME Call!PrologueAssumption, PrologueInv, phase # "done",
         UNCHANGED <<Call!environment, handler, journal, tries, attempts, held>>,
         NEW code, Call!Ends(code), MayEnd(code, sent'),
         \A rq \in sent' : Fits(rq)
  PROVE  PrologueInv'
<1>1. Call!Leave("done") /\ outcome' = code
  BY DEF Call!Ends
<1>2. tries' \in 0..(MaxTries - 1) /\ attempts' \in 0..(MaxAttempts - 1)
  BY DEF PrologueInv, Call!TypeOK
<1>3. MayEnd(outcome', sent')
  BY <1>1
<1> QED BY <1>1, <1>2, <1>3, LeaveKeeps

\* Where a run under a bounded policy may be: resolving for a handler that retains
\* nothing, or in the body at a step that is not retained.
Bounded ==
  \/ journal.account = None /\ ~handler.retains
  \/ Call!InBody /\ ~Call!Retained

\* The run failed under its policy: another execution, an omitted hint, or the end.
LEMMA PolicyFailsKeeps ==
  ASSUME Call!PrologueAssumption, PrologueInv, phase = "running", Call!PolicyFails, Bounded,
         UNCHANGED <<Call!environment, handler, held>>,
         \A rq \in sent' : Fits(rq)
  PROVE  PrologueInv'
<1>1. CASE /\ tries + 1 < MaxTries /\ tries' = tries + 1 /\ Call!Leave("waiting")
           /\ UNCHANGED <<journal, attempts, outcome>>
  <2>1. /\ tries \in 0..(MaxTries - 1) /\ attempts \in 0..(MaxAttempts - 1)
        /\ MaxTries \in Nat \ {0}
    BY Nothings DEF PrologueInv, Call!TypeOK
  <2>2. tries' \in 0..(MaxTries - 1)
    BY <1>1, <2>1
  <2>3. attempts' \in 0..(MaxAttempts - 1)
    BY <1>1, <2>1
  <2> QED BY <1>1, <2>2, <2>3, LeaveKeeps
<1>2. CASE Call!Exhausted
  <2>1. CASE /\ journal.account \in Accounts /\ Call!Step = "hint" /\ Call!Records("omitted")
             /\ UNCHANGED <<phase, cell, outcome>>
    <3>1. Call!InBody
      BY <2>1, Nothings DEF Bounded
    <3> QED BY <2>1, <3>1, RecordKeeps
  <2>2. CASE /\ ~(journal.account \in Accounts /\ Call!Step = "hint")
             /\ Call!Ends(IF journal.account \in Accounts /\ Call!Step = "write" THEN "outcome_unknown"
                     ELSE "unavailable")
             /\ UNCHANGED <<journal, tries, attempts>>
    <3> DEFINE code == IF journal.account \in Accounts /\ Call!Step = "write" THEN "outcome_unknown"
                       ELSE "unavailable"
    <3>1. ASSUME handler.retains PROVE Call!InBody /\ Call!Step = "verification"
      <4>1. Call!InBody /\ Call!Step # "prerequisite"
        BY <3>1 DEF Bounded, Call!Retained
      <4>2. Call!Step \in Call!Kinds /\ Call!Step # "write" /\ journal.account \in Accounts
        BY <3>1, <4>1, BodyStep DEF PrologueInv
      <4> QED BY <2>2, <4>1, <4>2 DEF Call!Kinds
    <3>2. MayEnd(code, sent')
      <4>1. code \in Call!Codes /\ code # "cancelled"
        BY DEF Call!Codes
      <4> HIDE DEF code
      <4> QED BY <3>1, <4>1 DEF MayEnd
    <3> QED BY <2>2, <3>2, PrologueEndKeeps
  <2> QED BY <1>2, <2>1, <2>2 DEF Call!Exhausted
<1> QED BY <1>1, <1>2 DEF Call!PolicyFails

-----------------------------------------------------------------------------
(* The prologue's steps.                                                   *)

\* Nothing has left before the namespace and the account are recorded.
LEMMA NothingSentBefore ==
  ASSUME Call!PrologueAssumption, PrologueInv, journal.ns = None \/ journal.account = None
  PROVE  sent = {} /\ cell = None /\ journal.account = None /\ journal.runs = << >>
<1>1. /\ None \notin Namespaces /\ None \notin Accounts
  BY Nothings
<1>2. journal.account = None
  BY DEF PrologueInv, Recorded
<1>3. sent = {}
  BY <1>1, <1>2 DEF PrologueInv, Fits
<1>4. cell = None
  BY <1>1, <1>2 DEF PrologueInv, ClientOfExecution, Call!TypeOK, Call!Client
<1>5. journal.runs = << >>
  BY <1>1, <1>2 DEF PrologueInv, Recorded
<1> QED BY <1>2, <1>3, <1>4, <1>5

\* The execution that starts has no client yet and sees the store as it is.
LEMMA ExecuteKeeps ==
  ASSUME Call!PrologueAssumption, PrologueInv, Call!Execute
  PROVE  PrologueInv'
<1>1. /\ deployed' = deployed /\ store' = store /\ changes' = changes /\ handler' = handler
      /\ journal' = journal /\ cell' = cell /\ fetches' = fetches /\ tries' = tries
      /\ attempts' = attempts /\ outcome' = outcome /\ sent' = sent
      /\ phase = "waiting" /\ phase' = "running" /\ held' = Call!HeldNow
  BY DEF Call!Execute, Call!environment
<1>2. cell = None
  BY <1>1 DEF PrologueInv, ClientOfExecution
<1>3. Call!TypeOK'
  BY <1>1 DEF PrologueInv, Call!TypeOK
<1>4. Recorded' /\ ClientOfExecution' /\ Call!KeysAreOfThisExecution'
  BY <1>1, <1>2 DEF PrologueInv, Recorded, ClientOfExecution, Call!KeysAreOfThisExecution
<1>5. StoreIsHeld'
  BY <1>1 DEF StoreIsHeld, Call!HeldNow
<1>6. \A rq \in sent' : Fits(rq)'
  BY <1>1 DEF PrologueInv, Fits
<1>7. Call!CancelledWroteNothing' /\ Call!OutagesNeverRefuseRetainedWork'
  BY <1>1 DEF PrologueInv, Call!CancelledWroteNothing, Call!OutagesNeverRefuseRetainedWork, Call!InBody, Call!Step
<1> QED BY <1>3, <1>4, <1>5, <1>6, <1>7 DEF PrologueInv

\* A step of the prologue is recorded: the namespace, or an account under it.
LEMMA IdentityRecorded ==
  ASSUME Call!PrologueAssumption, PrologueInv, phase = "running",
         journal.ns = None \/ journal.account = None,
         UNCHANGED <<Call!environment, handler, phase, cell, fetches, outcome, sent, held>>,
         tries' = 0, attempts' = 0,
         journal' \in Journals, journal'.runs = journal.runs,
         journal'.account # None => journal'.ns # None
  PROVE  PrologueInv'
<1>1. /\ deployed' = deployed /\ store' = store /\ changes' = changes /\ handler' = handler
      /\ phase' = phase /\ cell' = cell /\ fetches' = fetches /\ outcome' = outcome
      /\ sent' = sent /\ held' = held
  BY DEF Call!environment
<1>2. sent = {} /\ cell = None /\ journal.runs = << >>
  BY NothingSentBefore
<1>3. Call!TypeOK'
  <2>1. 0 \in 0..(MaxTries - 1) /\ 0 \in 0..(MaxAttempts - 1)
    BY Nothings
  <2> QED BY <1>1, <2>1 DEF PrologueInv, Call!TypeOK, Journals
<1>4. Recorded' /\ ClientOfExecution' /\ StoreIsHeld' /\ Call!KeysAreOfThisExecution'
  BY <1>1, <1>2 DEF PrologueInv, Recorded, ClientOfExecution, StoreIsHeld, Call!KeysAreOfThisExecution
<1>5. \A rq \in sent' : Fits(rq)'
  BY <1>1, <1>2
<1>6. Call!CancelledWroteNothing' /\ Call!OutagesNeverRefuseRetainedWork'
  <2>1. outcome' = None /\ None \notin Call!Codes
    BY <1>1, Nothings DEF PrologueInv, Call!TypeOK
  <2> QED BY <2>1 DEF Call!CancelledWroteNothing, Call!OutagesNeverRefuseRetainedWork, Call!Codes
<1> QED BY <1>3, <1>4, <1>5, <1>6 DEF PrologueInv

LEMMA PinKeeps ==
  ASSUME Call!PrologueAssumption, PrologueInv, Call!Pin
  PROVE  PrologueInv'
<1>1. /\ phase = "running" /\ journal.ns = None
      /\ journal' = [journal EXCEPT !.ns = deployed.ns] /\ tries' = 0 /\ attempts' = 0
      /\ UNCHANGED <<Call!environment, handler, phase, cell, fetches, outcome, sent, held>>
  BY DEF Call!Pin
<1>2. journal \in Journals /\ deployed.ns \in Namespaces /\ None \notin Namespaces
  BY JournalType, Nothings DEF PrologueInv, Call!TypeOK
<1>3. journal' \in Journals /\ journal'.runs = journal.runs /\ journal'.ns # None
  BY <1>1, <1>2 DEF Journals
<1> QED BY <1>1, <1>3, IdentityRecorded

LEMMA ResolveKeeps ==
  ASSUME Call!PrologueAssumption, PrologueInv, Call!Resolve
  PROVE  PrologueInv'
<1>1. /\ phase = "running" /\ journal.ns # None /\ journal.account = None
      /\ UNCHANGED <<Call!environment, handler, sent, held>>
  BY DEF Call!Resolve
<1>2. \A rq \in sent' : Fits(rq)
  BY <1>1 DEF PrologueInv
<1>3. CASE /\ journal' = [journal EXCEPT !.account = deployed.resolves]
           /\ tries' = 0 /\ attempts' = 0
           /\ UNCHANGED <<phase, cell, fetches, outcome>>
  <2>1. journal \in Journals /\ deployed.resolves \in Call!Resolution
    BY JournalType DEF PrologueInv, Call!TypeOK
  <2>2. journal' \in Journals /\ journal'.runs = journal.runs /\ journal'.ns = journal.ns
    BY <1>3, <2>1 DEF Journals
  <2> QED BY <1>1, <1>3, <2>2, IdentityRecorded
<1>4. CASE Call!RunFails(handler.retains)
  <2>1. CASE handler.retains
    <3>1. Call!AttemptFails
      BY <1>4, <2>1 DEF Call!RunFails
    <3> QED BY <1>1, <1>2, <3>1, AttemptFailsKeeps
  <2>2. CASE ~handler.retains
    <3>1. Call!PolicyFails
      BY <1>4, <2>2 DEF Call!RunFails
    <3> QED BY <1>1, <1>2, <2>2, <3>1, PolicyFailsKeeps DEF Bounded
  <2> QED BY <2>1, <2>2
<1> QED BY <1>3, <1>4 DEF Call!Resolve

LEMMA PrologueRefuseKeeps ==
  ASSUME Call!PrologueAssumption, PrologueInv, Call!Refuse
  PROVE  PrologueInv'
<1> DEFINE code == IF journal.account \in Invalid THEN "unavailable" ELSE "unknown_account"
<1>1. /\ phase # "done" /\ Call!Ends(code)
      /\ UNCHANGED <<Call!environment, handler, journal, tries, attempts, sent, held>>
  BY DEF Call!Refuse
<1>2. \A rq \in sent' : Fits(rq)
  BY <1>1 DEF PrologueInv
<1>3. MayEnd(code, sent')
  BY DEF MayEnd, Call!Codes
<1> QED BY <1>1, <1>2, <1>3, PrologueEndKeeps

-----------------------------------------------------------------------------
(* The steps of the body.                                                  *)

LEMMA InitFailsKeeps ==
  ASSUME Call!PrologueAssumption, PrologueInv, phase = "running", Call!InBody, Call!InitFails,
         UNCHANGED <<Call!environment, handler, sent, held>>
  PROVE  PrologueInv'
<1>1. \A rq \in sent' : Fits(rq)
  BY DEF PrologueInv
<1>2. CASE Call!Retained /\ Call!AttemptFails
  BY <1>1, <1>2, AttemptFailsKeeps
<1>3. CASE Call!Step = "hint" /\ Call!Records("omitted") /\ UNCHANGED <<phase, cell, outcome>>
  BY <1>1, <1>3, RecordKeeps
<1>4. CASE /\ ~Call!Retained /\ Call!Step # "hint"
           /\ Call!Ends("unavailable") /\ UNCHANGED <<journal, tries, attempts>>
  <2>1. ASSUME handler.retains PROVE Call!Step = "verification"
    <3>1. Call!Step # "prerequisite"
      BY <1>4, <2>1 DEF Call!Retained
    <3>2. Call!Step \in Call!Kinds /\ Call!Step # "write"
      BY <2>1, BodyStep DEF PrologueInv
    <3> QED BY <1>4, <3>1, <3>2 DEF Call!Kinds
  <2>2. MayEnd("unavailable", sent')
    BY <2>1 DEF MayEnd, Call!Codes
  <2> QED BY <1>1, <1>4, <2>2, PrologueEndKeeps
<1> QED BY <1>2, <1>3, <1>4 DEF Call!InitFails

\* The client opened, or another call of the fetch loop to come: nothing else changes.
LEMMA FetchedKeeps ==
  ASSUME Call!PrologueAssumption, PrologueInv, phase = "running", Call!InBody,
         UNCHANGED <<Call!environment, handler, journal, phase, tries, attempts, outcome, sent, held>>,
         fetches' \in 0..(Call!FETCH_ATTEMPTS - 1),
         cell' \in {None} \cup Call!Client,
         cell' # None => /\ cell'.account = journal.account
                         /\ <<cell'.account, cell'.key>> \in held
  PROVE  PrologueInv'
<1>1. /\ deployed' = deployed /\ store' = store /\ changes' = changes /\ handler' = handler
      /\ journal' = journal /\ phase' = phase /\ tries' = tries /\ attempts' = attempts
      /\ outcome' = outcome /\ sent' = sent /\ held' = held
  BY DEF Call!environment
<1>2. Call!TypeOK'
  BY <1>1 DEF PrologueInv, Call!TypeOK
<1>3. Recorded' /\ ClientOfExecution' /\ StoreIsHeld' /\ Call!KeysAreOfThisExecution'
  BY <1>1 DEF PrologueInv, Recorded, ClientOfExecution, StoreIsHeld, Call!KeysAreOfThisExecution
<1>4. \A rq \in sent' : Fits(rq)'
  BY <1>1 DEF PrologueInv, Fits
<1>5. Call!CancelledWroteNothing' /\ Call!OutagesNeverRefuseRetainedWork'
  BY <1>1 DEF PrologueInv, Call!CancelledWroteNothing, Call!OutagesNeverRefuseRetainedWork, Call!InBody, Call!Step
<1> QED BY <1>2, <1>3, <1>4, <1>5 DEF PrologueInv

LEMMA FetchKeeps ==
  ASSUME Call!PrologueAssumption, PrologueInv, Call!Fetch
  PROVE  PrologueInv'
<1>1. /\ phase = "running" /\ Call!InBody /\ cell = None
      /\ UNCHANGED <<Call!environment, handler, sent, held>>
  BY DEF Call!Fetch
<1>2. CASE /\ store[journal.account] \in Keys \ BadKeys
           /\ cell' = [account |-> journal.account, key |-> store[journal.account]]
           /\ fetches' = 0
           /\ UNCHANGED <<journal, phase, tries, attempts, outcome>>
  <2>1. journal.account \in Accounts
    BY <1>1 DEF Call!InBody
  <2>2. /\ cell' \in Call!Client /\ cell'.account = journal.account
        /\ cell'.key = store[journal.account]
    BY <1>2, <2>1 DEF Call!Client
  <2>3. <<journal.account, store[journal.account]>> \in held
    BY <1>1, <2>1 DEF PrologueInv, StoreIsHeld
  <2>4. fetches' \in 0..(Call!FETCH_ATTEMPTS - 1)
    BY <1>2 DEF Call!FETCH_ATTEMPTS
  <2> QED BY <1>1, <1>2, <2>2, <2>3, <2>4, FetchedKeeps
<1>3. CASE Call!InitFails
  BY <1>1, <1>3, InitFailsKeeps
<1>4. CASE /\ ~Call!Spent /\ fetches' = fetches + 1
           /\ UNCHANGED <<journal, phase, cell, tries, attempts, outcome>>
  <2>1. fetches' \in 0..(Call!FETCH_ATTEMPTS - 1)
    BY <1>4 DEF PrologueInv, Call!TypeOK, Call!FETCH_ATTEMPTS, Call!Spent
  <2>2. cell' = None
    BY <1>1, <1>4
  <2> QED BY <1>1, <1>4, <2>1, <2>2, FetchedKeeps
<1> QED BY <1>2, <1>3, <1>4 DEF Call!Fetch

\* The request that leaves is of the recorded identity and of the step at hand.
LEMMA RequestFits ==
  ASSUME Call!PrologueAssumption, PrologueInv, Call!InBody, cell # None,
         NEW rq,
         rq = [ns |-> Call!Namespace, account |-> cell.account, key |-> cell.key, kind |-> Call!Step]
  PROVE  Fits(rq)
<1>1. cell \in Call!Client /\ cell.account = journal.account
  BY DEF PrologueInv, Call!TypeOK, ClientOfExecution
<1>2. cell.account \in Accounts /\ cell.key \in Keys
  BY <1>1 DEF Call!Client
<1>3. /\ Call!Step \in Call!Kinds /\ Len(journal.runs) + 1 <= Len(handler.body)
      /\ Call!Step = "write" => /\ Len(journal.runs) + 1 = Len(handler.body)
                           /\ handler.body[Len(handler.body)] = "write"
  BY BodyStep DEF PrologueInv
<1>4. journal.ns \in Namespaces
  BY <1>1, <1>2, JournalType, Nothings DEF PrologueInv, Recorded
<1>5. Len(journal.runs) \in Nat /\ Len(handler.body) \in Nat
  BY JournalType, HandlerType DEF PrologueInv
<1>6. /\ rq \in [ns : Namespaces, account : Accounts, key : Keys, kind : Call!Kinds]
      /\ rq.ns = journal.ns /\ rq.account = journal.account /\ rq.kind = Call!Step
  BY <1>1, <1>2, <1>3, <1>4 DEF Call!Namespace
<1> QED BY <1>3, <1>5, <1>6 DEF Fits

LEMMA PerformKeeps ==
  ASSUME Call!PrologueAssumption, PrologueInv, Call!Perform
  PROVE  PrologueInv'
<1> DEFINE rq == [ns |-> Call!Namespace, account |-> cell.account, key |-> cell.key,
                       kind |-> Call!Step]
<1>1. /\ phase = "running" /\ Call!InBody /\ cell # None /\ sent' = sent \cup {rq}
      /\ UNCHANGED <<Call!environment, handler, held>>
  BY DEF Call!Perform
<1>2. \A r \in sent' : Fits(r)
  <2>1. Fits(rq)
    BY <1>1, RequestFits
  <2> HIDE DEF rq
  <2> QED BY <1>1, <2>1 DEF PrologueInv
<1> HIDE DEF rq
<1>3. CASE Call!Records("answered") /\ UNCHANGED <<phase, cell, outcome>>
  BY <1>1, <1>2, <1>3, RecordKeeps
<1>4. CASE /\ Call!Step # "hint"
           /\ Call!Ends("credentials_rejected") /\ UNCHANGED <<journal, tries, attempts>>
  <2>1. MayEnd("credentials_rejected", sent')
    BY DEF MayEnd, Call!Codes
  <2> QED BY <1>1, <1>2, <1>4, <2>1, PrologueEndKeeps
<1>5. CASE Call!RunFails(Call!Retained)
  <2>1. CASE Call!Retained
    <3>1. Call!AttemptFails
      BY <1>5, <2>1 DEF Call!RunFails
    <3> QED BY <1>1, <1>2, <3>1, AttemptFailsKeeps
  <2>2. CASE ~Call!Retained
    <3>1. Call!PolicyFails
      BY <1>5, <2>2 DEF Call!RunFails
    <3> QED BY <1>1, <1>2, <2>2, <3>1, PolicyFailsKeeps DEF Bounded
  <2> QED BY <2>1, <2>2
<1> QED BY <1>3, <1>4, <1>5 DEF Call!Perform

LEMMA FinishKeeps ==
  ASSUME Call!PrologueAssumption, PrologueInv, Call!Finish
  PROVE  PrologueInv'
<1>1. /\ phase # "done" /\ Call!Ends("ok")
      /\ UNCHANGED <<Call!environment, handler, journal, tries, attempts, sent, held>>
  BY DEF Call!Finish
<1>2. \A rq \in sent' : Fits(rq)
  BY <1>1 DEF PrologueInv
<1>3. MayEnd("ok", sent')
  BY DEF MayEnd, Call!Codes
<1> QED BY <1>1, <1>2, <1>3, PrologueEndKeeps

-----------------------------------------------------------------------------
(* Restate, the operator and the deployment.                               *)

LEMMA CrashKeeps ==
  ASSUME Call!PrologueAssumption, PrologueInv, Call!Crash
  PROVE  PrologueInv'
<1>1. /\ phase = "running" /\ Call!AttemptFails /\ UNCHANGED <<Call!environment, handler, sent, held>>
  BY DEF Call!Crash
<1>2. \A rq \in sent' : Fits(rq)
  BY <1>1 DEF PrologueInv
<1> QED BY <1>1, <1>2, AttemptFailsKeeps

LEMMA ResumeKeeps ==
  ASSUME Call!PrologueAssumption, PrologueInv, Call!Resume
  PROVE  PrologueInv'
<1>1. /\ deployed' = deployed /\ store' = store /\ changes' = changes /\ handler' = handler
      /\ journal' = journal /\ cell' = cell /\ fetches' = fetches /\ tries' = tries
      /\ outcome' = outcome /\ sent' = sent /\ held' = held
      /\ phase = "paused" /\ phase' = "waiting" /\ attempts' = 0
  BY DEF Call!Resume, Call!environment
<1>2. cell = None
  BY <1>1 DEF PrologueInv, ClientOfExecution
<1>3. Call!TypeOK'
  <2>1. 0 \in 0..(MaxAttempts - 1)
    BY Nothings
  <2> QED BY <1>1, <2>1 DEF PrologueInv, Call!TypeOK
<1>4. Recorded' /\ ClientOfExecution' /\ StoreIsHeld' /\ Call!KeysAreOfThisExecution'
  BY <1>1, <1>2 DEF PrologueInv, Recorded, ClientOfExecution, StoreIsHeld, Call!KeysAreOfThisExecution
<1>5. \A rq \in sent' : Fits(rq)'
  BY <1>1 DEF PrologueInv, Fits
<1>6. Call!CancelledWroteNothing' /\ Call!OutagesNeverRefuseRetainedWork'
  BY <1>1 DEF PrologueInv, Call!CancelledWroteNothing, Call!OutagesNeverRefuseRetainedWork, Call!InBody, Call!Step
<1> QED BY <1>3, <1>4, <1>5, <1>6 DEF PrologueInv

\* A write that has left is the last step and still to be recorded where a run can
\* be cancelled: the answer is the write's.
LEMMA PrologueCancelKeeps ==
  ASSUME Call!PrologueAssumption, PrologueInv, Call!Cancel
  PROVE  PrologueInv'
<1>1. /\ phase # "done" /\ Call!Ends(Call!CancelledAs) /\ (journal.account = None \/ Call!InBody)
      /\ UNCHANGED <<Call!environment, handler, journal, tries, attempts, sent, held>>
  BY DEF Call!Cancel
<1>2. \A rq \in sent' : Fits(rq)
  BY <1>1 DEF PrologueInv
<1>3. ASSUME NEW rq \in sent, rq.kind = "write" PROVE Call!InBody /\ Call!Step = "write"
  <2>1. Call!InBody
    BY <1>1, NothingSentBefore
  <2>2. /\ handler.body[Len(handler.body)] = "write"
        /\ Len(journal.runs) + 1 >= Len(handler.body)
    BY <1>3 DEF PrologueInv, Fits
  <2>3. Len(journal.runs) \in Nat /\ Len(handler.body) \in Nat
    BY JournalType, HandlerType DEF PrologueInv
  <2>4. Len(journal.runs) + 1 = Len(handler.body)
    BY <2>1, <2>2, <2>3 DEF Call!InBody
  <2> QED BY <2>1, <2>2, <2>4 DEF Call!Step
<1>4. MayEnd(Call!CancelledAs, sent')
  BY <1>1, <1>3 DEF MayEnd, Call!CancelledAs, Call!Codes
<1> QED BY <1>1, <1>2, <1>4, PrologueEndKeeps

LEMMA PrologueEnvironmentKeeps ==
  ASSUME Call!PrologueAssumption, PrologueInv, Call!Environment
  PROVE  PrologueInv'
<1>1. /\ changes' \in 0..MaxChanges
  BY Nothings DEF Call!Environment, PrologueInv, Call!TypeOK
<1>2. /\ handler' = handler /\ journal' = journal /\ phase' = phase /\ cell' = cell
      /\ fetches' = fetches /\ tries' = tries /\ attempts' = attempts /\ outcome' = outcome
      /\ sent' = sent
  BY DEF Call!Environment, Call!Redeploy, Call!Rotate
<1>3. /\ deployed' \in [ns : Namespaces, resolves : Call!Resolution]
      /\ store' \in [Accounts -> Keys \cup {Gone}]
      /\ held \subseteq held' /\ StoreIsHeld'
  <2>1. CASE \E ns \in Namespaces, resolves \in Call!Resolution : Call!Redeploy(ns, resolves)
    BY <2>1 DEF Call!Redeploy, PrologueInv, Call!TypeOK, StoreIsHeld
  <2>2. CASE \E owner \in Accounts, key \in Keys \cup {Gone} : Call!Rotate(owner, key)
    <3>1. PICK owner \in Accounts, key \in Keys \cup {Gone} : Call!Rotate(owner, key)
      BY <2>2
    <3>2. /\ deployed' = deployed /\ store' = [store EXCEPT ![owner] = key]
          /\ held' = held \cup {<<owner, key>>} /\ store \in [Accounts -> Keys \cup {Gone}]
      BY <3>1 DEF Call!Rotate, PrologueInv, Call!TypeOK
    <3>3. StoreIsHeld'
      BY <1>2, <3>2 DEF PrologueInv, StoreIsHeld
    <3>4. store' \in [Accounts -> Keys \cup {Gone}]
      BY <3>2
    <3> QED BY <3>2, <3>3, <3>4 DEF PrologueInv, Call!TypeOK
  <2> QED BY <2>1, <2>2 DEF Call!Environment
<1>4. Call!TypeOK'
  BY <1>1, <1>2, <1>3 DEF PrologueInv, Call!TypeOK
<1>5. Recorded' /\ ClientOfExecution' /\ Call!KeysAreOfThisExecution'
  BY <1>2, <1>3 DEF PrologueInv, Recorded, ClientOfExecution, Call!KeysAreOfThisExecution
<1>6. \A rq \in sent' : Fits(rq)'
  BY <1>2 DEF PrologueInv, Fits
<1>7. Call!CancelledWroteNothing' /\ Call!OutagesNeverRefuseRetainedWork'
  BY <1>2 DEF PrologueInv, Call!CancelledWroteNothing, Call!OutagesNeverRefuseRetainedWork, Call!InBody, Call!Step
<1> QED BY <1>3, <1>4, <1>5, <1>6, <1>7 DEF PrologueInv

-----------------------------------------------------------------------------
(* The invariant.                                                          *)

LEMMA PrologueInit ==
  ASSUME Call!PrologueAssumption, Call!Init
  PROVE  PrologueInv
<1>1. /\ handler \in Handlers /\ deployed \in [ns : Namespaces, resolves : Call!Resolution]
      /\ store \in [Accounts -> Keys \cup {Gone}]
      /\ changes = 0 /\ phase = "waiting" /\ cell = None /\ fetches = 0 /\ tries = 0
      /\ attempts = 0 /\ outcome = None /\ sent = {}
      /\ journal = [ns |-> None, account |-> None, runs |-> << >>]
  BY DEF Call!Init
<1>2. /\ journal \in Journals /\ journal.account = None /\ journal.runs = << >>
      /\ Len(journal.runs) = 0
  BY <1>1 DEF Journals
<1>3. Len(handler.body) \in Nat
  <2>1. handler.body \in Seq(Call!Kinds)
    BY <1>1 DEF Call!PrologueAssumption
  <2> QED BY <2>1
<1>4. /\ 0 \in 0..MaxChanges /\ 0 \in 0..(MaxTries - 1) /\ 0 \in 0..(MaxAttempts - 1)
      /\ 0 \in 0..(Call!FETCH_ATTEMPTS - 1) /\ 0 <= Len(handler.body)
  BY <1>3, Nothings DEF Call!FETCH_ATTEMPTS
<1>5. Call!TypeOK
  BY <1>1, <1>2, <1>4 DEF Call!TypeOK, Journals
<1>6. /\ Recorded /\ ClientOfExecution /\ StoreIsHeld /\ Call!KeysAreOfThisExecution
      /\ \A rq \in sent : Fits(rq)
  BY <1>1, <1>2 DEF Recorded, ClientOfExecution, StoreIsHeld, Call!KeysAreOfThisExecution
<1>7. Call!CancelledWroteNothing /\ Call!OutagesNeverRefuseRetainedWork
  <2>1. outcome \notin Call!Codes
    BY <1>1, Nothings
  <2> QED BY <2>1 DEF Call!CancelledWroteNothing, Call!OutagesNeverRefuseRetainedWork, Call!Codes
<1> QED BY <1>5, <1>6, <1>7 DEF PrologueInv

LEMMA PrologueNext ==
  ASSUME Call!PrologueAssumption, PrologueInv, [Call!Next]_(Call!vars)
  PROVE  PrologueInv'
<1>1. CASE Call!System
  BY <1>1, ExecuteKeeps, PinKeeps, ResolveKeeps, PrologueRefuseKeeps, FetchKeeps, PerformKeeps,
     FinishKeeps DEF Call!System
<1>2. CASE Call!Crash
  BY <1>2, CrashKeeps
<1>3. CASE Call!Resume
  BY <1>3, ResumeKeeps
<1>4. CASE Call!Cancel
  BY <1>4, PrologueCancelKeeps
<1>5. CASE Call!Environment
  BY <1>5, PrologueEnvironmentKeeps
<1>6. CASE UNCHANGED Call!vars
  <2>1. /\ handler' = handler /\ deployed' = deployed /\ store' = store /\ changes' = changes
        /\ journal' = journal /\ phase' = phase /\ cell' = cell /\ fetches' = fetches
        /\ tries' = tries /\ attempts' = attempts /\ outcome' = outcome /\ sent' = sent
        /\ held' = held
    BY <1>6 DEF Call!vars
  <2>2. Call!TypeOK'
    BY <2>1 DEF PrologueInv, Call!TypeOK
  <2>3. Recorded' /\ ClientOfExecution' /\ StoreIsHeld' /\ Call!KeysAreOfThisExecution'
    BY <2>1 DEF PrologueInv, Recorded, ClientOfExecution, StoreIsHeld, Call!KeysAreOfThisExecution
  <2>4. \A rq \in sent' : Fits(rq)'
    BY <2>1 DEF PrologueInv, Fits
  <2>5. Call!CancelledWroteNothing' /\ Call!OutagesNeverRefuseRetainedWork'
    BY <2>1 DEF PrologueInv, Call!CancelledWroteNothing, Call!OutagesNeverRefuseRetainedWork, Call!InBody, Call!Step
  <2> QED BY <2>2, <2>3, <2>4, <2>5 DEF PrologueInv
<1> QED BY <1>1, <1>2, <1>3, <1>4, <1>5, <1>6 DEF Call!Next

-----------------------------------------------------------------------------
(* Accounts: the deployed table is one that was accepted, so an id names   *)
(* one entry and the key fetched under it is that entry's.                 *)

Served ==
  /\ served.by \in {"none", "unscoped", "unknown", "key"}
  /\ Table!ServedUnderItsScope

AccountsInv ==
  /\ Table!TypeOK /\ Table!Accepted(account, accounts) /\ Served

\* What is accepted has its types, one shape and sound entries.
LEMMA AcceptedTypes ==
  ASSUME Table!EntriesAssumption, NEW one, NEW many, Table!Accepted(one, many),
         \/ one \in Singles /\ many \in AccountTables \cup {<< >>}
         \/ one = Absent /\ many \in AccountTables
  PROVE  /\ one \in Table!StaticAccount \cup {Absent}
         /\ DOMAIN many \subseteq Scopes /\ \A s \in DOMAIN many : many[s] \in Table!StaticAccount
         /\ one # Absent => many = << >> /\ Table!Builds(one)
         /\ one = Absent => \A s \in DOMAIN many : Table!Builds(many[s])
<1>1. DOMAIN << >> = {}
  OBVIOUS
<1>2. /\ DOMAIN many \subseteq Scopes /\ \A s \in DOMAIN many : many[s] \in Table!StaticAccount
  BY <1>1 DEF Table!EntriesAssumption
<1>3. one \in Table!StaticAccount \cup {Absent} /\ (one \in Singles => one # Absent)
  BY DEF Table!EntriesAssumption
<1> QED BY <1>2, <1>3 DEF Table!Accepted

\* The deployed entries keep their types.
LEMMA TypesFollow ==
  ASSUME Table!TypeOK, UNCHANGED <<account, accounts>>, request' \in Scopes \cup {""},
         served'.by \in {"none", "unscoped", "unknown", "key"}
  PROVE  Table!TypeOK'
  BY DEF Table!TypeOK, Table!Entries

LEMMA DeployKeeps ==
  ASSUME Table!EntriesAssumption, NEW one, NEW many, Table!Accepted(one, many),
         \/ one \in Singles /\ many \in AccountTables \cup {<< >>}
         \/ one = Absent /\ many \in AccountTables,
         account' = one, accounts' = many, request' = "", served' = Table!Unserved
  PROVE  AccountsInv'
<1>1. /\ one \in Table!StaticAccount \cup {Absent}
      /\ DOMAIN many \subseteq Scopes /\ \A s \in DOMAIN many : many[s] \in Table!StaticAccount
      /\ one # Absent => many = << >> /\ Table!Builds(one)
      /\ one = Absent => \A s \in DOMAIN many : Table!Builds(many[s])
  BY AcceptedTypes
<1>2. served'.by = "none"
  BY DEF Table!Unserved
<1>3. \A e \in Table!Entries' : e.id # Blank /\ e.key # Blank /\ Table!Parses(e.endpoint)
  BY <1>1 DEF Table!Entries, Table!Builds
<1>4. Table!TypeOK'
  BY <1>1, <1>2, <1>3 DEF Table!TypeOK
<1>5. Served'
  BY <1>2 DEF Served, Table!ServedUnderItsScope
<1> QED BY <1>4, <1>5 DEF AccountsInv

\* An id names one entry, so the reference finds its key.
LEMMA FetchedIsItsOwn ==
  ASSUME AccountsInv, NEW scope, Table!Resolve(scope) # Absent, NEW key, Table!Fetched(Table!Resolve(scope).id, key)
  PROVE  /\ Table!Resolve(scope) = IF account # Absent THEN account ELSE accounts[scope]
         /\ account # Absent => scope = ""
         /\ key = Table!Resolve(scope).key
<1>1. \/ account # Absent /\ scope = "" /\ Table!Resolve(scope) = account
      \/ account = Absent /\ scope \in DOMAIN accounts /\ Table!Resolve(scope) = accounts[scope]
  BY DEF Table!Resolve
<1>2. PICK e \in Table!Entries : e.id = Table!Resolve(scope).id /\ e.key = key
  BY DEF Table!Fetched
<1>3. CASE account # Absent
  BY <1>1, <1>2, <1>3 DEF Table!Entries
<1>4. CASE account = Absent
  <2>1. PICK t \in DOMAIN accounts : e = accounts[t]
    BY <1>2, <1>4 DEF Table!Entries
  <2>2. Table!Distinct(accounts)
    BY <1>4 DEF AccountsInv, Table!Accepted
  <2>3. t = scope
    BY <1>1, <1>2, <1>4, <2>1, <2>2 DEF Table!Distinct
  <2> QED BY <1>1, <1>2, <1>4, <2>1, <2>3
<1> QED BY <1>3, <1>4

LEMMA ServeKeeps ==
  ASSUME AccountsInv, NEW scope \in Scopes \cup {""}, Table!Serve(scope)
  PROVE  AccountsInv'
<1>1. account' = account /\ accounts' = accounts /\ request' = scope
  BY DEF Table!Serve
<1>2. CASE Table!Resolve(scope) # Absent
  <2>1. PICK key \in AgentKeys :
          /\ Table!Fetched(Table!Resolve(scope).id, key)
          /\ served' = [by |-> "key", account |-> Table!Resolve(scope), key |-> key]
    BY <1>2 DEF Table!Serve
  <2>2. served'.by = "key" /\ served'.account = Table!Resolve(scope) /\ served'.key = key
    BY <2>1
  <2>3. Table!ServedUnderItsScope'
    BY <1>1, <1>2, <2>1, <2>2, FetchedIsItsOwn DEF Table!ServedUnderItsScope
  <2> QED BY <1>1, <2>2, <2>3, TypesFollow DEF AccountsInv, Served
<1>3. CASE Table!Resolve(scope) = Absent
  <2> DEFINE fault == IF account = Absent /\ scope = "" THEN "unscoped" ELSE "unknown"
  <2>1. served' = [by |-> fault] /\ fault \in {"unscoped", "unknown"}
    BY <1>3 DEF Table!Serve
  <2> HIDE DEF fault
  <2>2. served'.by \in {"unscoped", "unknown"}
    BY <2>1
  <2> QED BY <1>1, <2>2, TypesFollow DEF AccountsInv, Served, Table!ServedUnderItsScope
<1> QED BY <1>2, <1>3

\* Endpoints that agree in their URL are the same once normalized.
LEMMA SameUrl ==
  ASSUME NEW e \in Table!Endpoint, NEW f \in Table!Endpoint, Table!Parses(e), Table!Parses(f),
         e.scheme = f.scheme, e.host = f.host
  PROVE  Table!Normalized(e) = Table!Normalized(f)
  BY DEF Table!Endpoint, Table!Parses, Table!Normalized

LEMMA AccountsSound ==
  ASSUME AccountsInv
  PROVE  Table!AccountsAreSeparate
<1>1. ASSUME NEW s \in DOMAIN accounts, NEW t \in DOMAIN accounts,
             accounts[s].key = accounts[t].key,
             accounts[s].endpoint.scheme = accounts[t].endpoint.scheme,
             accounts[s].endpoint.host = accounts[t].endpoint.host, s # t
      PROVE  FALSE
  <2>1. account = Absent
    BY DEF AccountsInv, Table!Accepted
  <2>2. /\ accounts[s].endpoint \in Table!Endpoint /\ accounts[t].endpoint \in Table!Endpoint
        /\ Table!Parses(accounts[s].endpoint) /\ Table!Parses(accounts[t].endpoint)
    BY <2>1 DEF AccountsInv, Table!TypeOK, Table!StaticAccount, Table!Entries
  <2>3. Table!Distinct(accounts)
    BY <2>1 DEF AccountsInv, Table!Accepted
  <2> QED BY <1>1, <2>2, <2>3, SameUrl DEF Table!Distinct
<1>2. Table!ScopesAreSeparate
  BY <1>1 DEF Table!ScopesAreSeparate
<1> QED BY <1>2 DEF Table!AccountsAreSeparate, AccountsInv, Served

LEMMA AccountsInit ==
  ASSUME Table!EntriesAssumption, Table!Init
  PROVE  AccountsInv
<1>1. /\ \/ account \in Singles /\ accounts \in AccountTables \cup {<< >>}
         \/ account = Absent /\ accounts \in AccountTables
      /\ Table!Accepted(account, accounts) /\ request = "" /\ served = Table!Unserved
  BY DEF Table!Init
<1>2. /\ account \in Table!StaticAccount \cup {Absent}
      /\ DOMAIN accounts \subseteq Scopes
      /\ \A s \in DOMAIN accounts : accounts[s] \in Table!StaticAccount
      /\ account # Absent => accounts = << >> /\ Table!Builds(account)
      /\ account = Absent => \A s \in DOMAIN accounts : Table!Builds(accounts[s])
  BY <1>1, AcceptedTypes
<1>3. \A e \in Table!Entries : e.id # Blank /\ e.key # Blank /\ Table!Parses(e.endpoint)
  BY <1>2 DEF Table!Entries, Table!Builds
<1>4. Table!TypeOK /\ Served
  BY <1>1, <1>2, <1>3 DEF Table!TypeOK, Served, Table!ServedUnderItsScope, Table!Unserved
<1> QED BY <1>1, <1>4 DEF AccountsInv

LEMMA AccountsNext ==
  ASSUME Table!EntriesAssumption, AccountsInv, [Table!Next]_(Table!vars)
  PROVE  AccountsInv'
<1>1. CASE \E many \in AccountTables : Table!Deploy(Absent, many)
  BY <1>1, DeployKeeps DEF Table!Deploy
<1>2. CASE \E one \in Singles, many \in AccountTables : Table!Deploy(one, many)
  BY <1>2, DeployKeeps DEF Table!Deploy
<1>3. CASE \E scope \in Scopes \cup {""} : Table!Serve(scope)
  BY <1>3, ServeKeeps
<1>4. CASE UNCHANGED Table!vars
  <2>1. account' = account /\ accounts' = accounts /\ request' = request /\ served' = served
    BY <1>4 DEF Table!vars
  <2> QED BY <2>1 DEF AccountsInv, Table!TypeOK, Table!Entries, Served, Table!ServedUnderItsScope
<1> QED BY <1>1, <1>2, <1>3, <1>4 DEF Table!Next

(***************************************************************************)
(* The inductive invariant of the account table.                           *)
(***************************************************************************)
THEOREM AccountsInvariance ==
  ASSUME Table!EntriesAssumption
  PROVE  Table!Spec => []AccountsInv
<1>1. Table!Init => AccountsInv
  BY AccountsInit
<1>2. AccountsInv /\ [Table!Next]_(Table!vars) => AccountsInv'
  BY AccountsNext
<1> QED BY <1>1, <1>2, PTL DEF Table!Spec

-----------------------------------------------------------------------------
(* Configuration.  A configuration serves only once every check has passed *)
(* it, and is the same after it was written out and read back; a delay     *)
(* only grows, from the first one towards the cap.                         *)

\* What the checks leave: a policy whose delays are ordered and grow.
SoundPolicy(policy) ==
  /\ policy \in Config!Policies /\ policy.max_attempts # 0
  /\ policy.initial_delay <= policy.max_delay
  /\ policy.factor \in Nat /\ policy.factor >= 2

AllSound ==
  /\ \A t \in Config!Tables : SoundPolicy(Config!Configured(t))
  /\ config.issue.initial_delay >= Config!MIN_INITIAL_DELAY

RunningUnder(policy) ==
  /\ delay \in Nat /\ policy.initial_delay <= delay /\ delay <= policy.max_delay
  /\ executions \in Nat /\ executions > 0
  /\ policy.max_attempts # Unset => executions <= policy.max_attempts
  /\ now \in Nat /\ failed \in Nat /\ failed <= now
  /\ phase = "running" =>
       /\ now <= policy.max_duration + policy.max_delay
       /\ executions > 1 => now - failed >= policy.initial_delay
  /\ phase = "waiting" =>
       /\ now = failed /\ now < policy.max_duration
       /\ policy.max_attempts # Unset => executions < policy.max_attempts

ConfigInv ==
  /\ config \in Config!Deployable
  /\ error = NoError \/ error \in Config!Tables \X Config!Errors
  /\ phase \in {"written", "refused", "serving", "waiting", "running", "exhausted"}
  /\ phase \in {"serving", "waiting", "running", "exhausted"} => AllSound
  /\ phase \in {"written", "refused", "serving"} =>
       step = "none" /\ now = 0 /\ executions = 0 /\ failed = 0 /\ delay = 0
  /\ phase \in {"waiting", "running", "exhausted"} => step \in Config!Tables /\ RunningUnder(Config!Configured(step))

-----------------------------------------------------------------------------
\* A duration is what its text says.
LEMMA RoundTrip ==
  ASSUME NEW d \in Nat
  PROVE  Config!Parse(Config!Format(d)) = d
<1> DEFINE ms == d > 0 /\ d % Config!SECOND # 0
           h == d > 0 /\ d % Config!HOUR = 0
           m == d > 0 /\ d % Config!MINUTE = 0
<1>1. Config!Format(d) = IF ms THEN <<d, 1>>
                  ELSE IF h THEN <<d \div Config!HOUR, Config!HOUR>>
                  ELSE IF m THEN <<d \div Config!MINUTE, Config!MINUTE>>
                  ELSE <<d \div Config!SECOND, Config!SECOND>>
  BY DEF Config!Format
<1>2. /\ h => (d \div Config!HOUR) * Config!HOUR = d
      /\ m => (d \div Config!MINUTE) * Config!MINUTE = d
      /\ ~ms => (d \div Config!SECOND) * Config!SECOND = d
      /\ d * 1 = d
  BY DEF Config!SECOND, Config!MINUTE, Config!HOUR
<1> HIDE DEF ms, h, m
<1>3. \A x, y : Config!Parse(<<x, y>>) = x * y
  BY DEF Config!Parse
<1> QED BY <1>1, <1>2, <1>3, Zenon

LEMMA RereadIsTheSame ==
  ASSUME NEW policy \in Config!Policies
  PROVE  Config!Reread(policy) = policy
<1>1. /\ policy.initial_delay \in Nat /\ policy.max_delay \in Nat /\ policy.max_duration \in Nat
  BY DEF Config!Policies
<1>2. /\ Config!Parse(Config!Format(policy.initial_delay)) = policy.initial_delay
      /\ Config!Parse(Config!Format(policy.max_delay)) = policy.max_delay
      /\ Config!Parse(Config!Format(policy.max_duration)) = policy.max_duration
  BY <1>1, RoundTrip
<1> QED BY <1>2 DEF Config!Reread, Config!Policies

\* A factor of at least one (two halves) never shrinks a delay.
LEMMA DelaysGrow ==
  ASSUME NEW policy, SoundPolicy(policy), NEW d \in Nat,
         policy.initial_delay <= d, d <= policy.max_delay
  PROVE  /\ Config!Grown(d, policy) \in Nat
         /\ policy.initial_delay <= Config!Grown(d, policy) /\ Config!Grown(d, policy) <= policy.max_delay
         /\ Config!Capped(d, policy) = d
<1>1. /\ policy.factor \in Nat /\ policy.factor >= 2
      /\ policy.max_delay \in Nat /\ policy.initial_delay \in Nat
  BY DEF SoundPolicy, Config!Policies
<1> DEFINE f == policy.factor
           product == d * f
<1>2. product \in Nat /\ product >= 2 * d
  <2>1. f - 2 \in Nat
    BY <1>1
  <2>2. d * (f - 2) \in Nat
    BY <2>1
  <2>3. d * f = d * (f - 2) + 2 * d
    BY <1>1
  <2> QED BY <2>2, <2>3
<1> HIDE DEF product
<1>3. CASE product > 2 * policy.max_delay
  BY <1>1, <1>3 DEF Config!Grown, Config!Capped, SoundPolicy, product, f
<1>4. CASE ~(product > 2 * policy.max_delay)
  <2>1. Config!Grown(d, policy) = product \div 2
    BY <1>4 DEF Config!Grown, product, f
  <2>2. product \div 2 \in Nat /\ product \div 2 >= d /\ product \div 2 <= policy.max_delay
    BY <1>1, <1>2, <1>4
  <2> QED BY <1>1, <2>1, <2>2 DEF Config!Capped
<1> QED BY <1>3, <1>4

-----------------------------------------------------------------------------
Join(j, a, b, S) ==
  /\ j \in Seq(S) /\ Len(j) = Len(a) + Len(b)
  /\ \A k \in 1..Len(a) : j[k] = a[k]
  /\ \A k \in 1..Len(b) : j[k + Len(a)] = b[k]

\* What stands where in the concatenation of two sequences.
LEMMA Joined ==
  ASSUME NEW S, NEW a \in Seq(S), NEW b \in Seq(S)
  PROVE  Join(a \o b, a, b, S)
<1>1. a \o b \in Seq(S) /\ Len(a \o b) = Len(a) + Len(b) /\ Len(a) \in Nat /\ Len(b) \in Nat
  OBVIOUS
<1>2. \A k \in 1..Len(a) : (a \o b)[k] = a[k]
  OBVIOUS
<1>3. ASSUME NEW k \in 1..Len(b) PROVE (a \o b)[k + Len(a)] = b[k]
  <2>1. k + Len(a) \in 1..(Len(a) + Len(b)) /\ ~(k + Len(a) <= Len(a)) /\ k + Len(a) - Len(a) = k
    BY <1>1
  <2> QED BY <1>1, <2>1
<1> QED BY <1>1, <1>2, <1>3 DEF Join

\* Where a check stands in the order.
LEMMA ChecksMade ==
  ASSUME NEW c \in Config!Deployable
  PROVE  /\ Config!Checks(c) \in Seq(Config!Tables \X (Config!Errors \cup {NoError}))
         /\ \A t \in {"issue", "read", "resolve"} :
              /\ \E k \in DOMAIN Config!Checks(c) :
                   Config!Checks(c)[k] = <<t, IF Config!Zero(c[t]) THEN "attempts" ELSE NoError>>
              /\ \E k \in DOMAIN Config!Checks(c) : Config!Checks(c)[k] = <<t, Config!CheckDelays(c[t])>>
         /\ c.query # Unset =>
              /\ \E k \in DOMAIN Config!Checks(c) :
                   Config!Checks(c)[k] = <<"query", IF Config!Zero(c.query) THEN "attempts" ELSE NoError>>
              /\ \E k \in DOMAIN Config!Checks(c) : Config!Checks(c)[k] = <<"query", Config!CheckDelays(c.query)>>
         /\ \E k \in DOMAIN Config!Checks(c) :
              Config!Checks(c)[k] = <<"issue", IF c.issue.initial_delay < Config!MIN_INITIAL_DELAY THEN "floor"
                                        ELSE NoError>>
<1> DEFINE capped(t) == <<t, IF Config!Zero(c[t]) THEN "attempts" ELSE NoError>>
           delays(t) == <<t, Config!CheckDelays(c[t])>>
           query == IF c.query = Unset THEN << >> ELSE <<capped("query"), delays("query")>>
           floor == <<"issue", IF c.issue.initial_delay < Config!MIN_INITIAL_DELAY THEN "floor"
                               ELSE NoError>>
           first == <<capped("issue"), capped("read")>>
           last == <<capped("resolve"), floor, delays("issue"), delays("read"), delays("resolve")>>
           A == Config!Tables \X (Config!Errors \cup {NoError})
<1>1. Config!Checks(c) = first \o query \o last
  BY DEF Config!Checks
<1>2. \A t \in Config!Tables : capped(t) \in A /\ delays(t) \in A
  BY DEF Config!Errors, Config!CheckDelays
<1>3. floor \in A
  BY DEF Config!Errors, Config!Tables
<1>4. /\ capped("issue") \in A /\ capped("read") \in A /\ capped("resolve") \in A
      /\ capped("query") \in A /\ delays("query") \in A
      /\ delays("issue") \in A /\ delays("read") \in A /\ delays("resolve") \in A
  BY <1>2 DEF Config!Tables
<1> HIDE DEF capped, delays, floor, A
<1>5. first \in Seq(A) /\ last \in Seq(A) /\ query \in Seq(A)
  BY <1>3, <1>4
<1>6. /\ Len(first) = 2 /\ first[1] = capped("issue") /\ first[2] = capped("read")
      /\ Len(last) = 5 /\ last[1] = capped("resolve") /\ last[2] = floor
      /\ last[3] = delays("issue") /\ last[4] = delays("read") /\ last[5] = delays("resolve")
  OBVIOUS
<1>7. /\ c.query = Unset => Len(query) = 0
      /\ c.query # Unset =>
           Len(query) = 2 /\ query[1] = capped("query") /\ query[2] = delays("query")
  OBVIOUS
<1>8. Len(query) \in Nat
  BY <1>5
<1> HIDE DEF first, last, query
<1> DEFINE p == first \o query
           s == p \o last
<1>9. /\ p \in Seq(A) /\ Len(p) = Len(query) + 2
      /\ \A k \in 1..2 : p[k] = first[k]
      /\ \A k \in 1..Len(query) : p[k + 2] = query[k]
  <2>1. Join(p, first, query, A)
    BY <1>5, Joined, Zenon
  <2> HIDE DEF p
  <2> QED BY <1>6, <1>8, <2>1 DEF Join
<1> HIDE DEF p
<1>10. /\ s \in Seq(A) /\ Len(s) = Len(query) + 7
       /\ \A k \in 1..(Len(query) + 2) : s[k] = p[k]
       /\ \A k \in 1..5 : s[k + (Len(query) + 2)] = last[k]
  <2>1. Join(s, p, last, A)
    BY <1>5, <1>9, Joined, Zenon
  <2> HIDE DEF s
  <2> QED BY <1>6, <1>8, <1>9, <2>1 DEF Join
<1>11. DOMAIN s = 1..(Len(query) + 7)
  BY <1>10
<1> HIDE DEF s
<1>12. /\ \E k \in DOMAIN s : s[k] = capped("issue")
       /\ \E k \in DOMAIN s : s[k] = capped("read")
  <2>1. 1 \in DOMAIN s /\ 2 \in DOMAIN s /\ s[1] = first[1] /\ s[2] = first[2]
    BY <1>8, <1>9, <1>10, <1>11
  <2> QED BY <1>6, <2>1
<1>13. \A k \in 1..5 : k + (Len(query) + 2) \in DOMAIN s
  BY <1>8, <1>11
<1>14. /\ \E k \in DOMAIN s : s[k] = capped("resolve")
       /\ \E k \in DOMAIN s : s[k] = floor
       /\ \E k \in DOMAIN s : s[k] = delays("issue")
       /\ \E k \in DOMAIN s : s[k] = delays("read")
       /\ \E k \in DOMAIN s : s[k] = delays("resolve")
  BY <1>6, <1>10, <1>13
<1>15. c.query # Unset => /\ \E k \in DOMAIN s : s[k] = capped("query")
                          /\ \E k \in DOMAIN s : s[k] = delays("query")
  <2> SUFFICES ASSUME c.query # Unset
               PROVE  /\ \E k \in DOMAIN s : s[k] = capped("query")
                      /\ \E k \in DOMAIN s : s[k] = delays("query")
    OBVIOUS
  <2>1. 3 \in DOMAIN s /\ 4 \in DOMAIN s /\ s[3] = query[1] /\ s[4] = query[2]
    <3>1. Len(query) = 2
      BY <1>7
    <3> QED BY <1>9, <1>10, <1>11, <3>1
  <2> QED BY <1>7, <2>1
<1>16. Config!Checks(c) = s
  BY <1>1 DEF s, p
<1>17. \A t \in {"issue", "read", "resolve"} :
         (\E k \in DOMAIN s : s[k] = capped(t)) /\ (\E k \in DOMAIN s : s[k] = delays(t))
  BY <1>12, <1>14
<1> QED BY <1>10, <1>14, <1>15, <1>16, <1>17 DEF capped, delays, floor, A

\* An accepted configuration passed every check; a refused one failed one.
LEMMA ValidateDecides ==
  ASSUME Config!ConfigsAssumption, NEW c \in Config!Deployable
  PROVE  /\ Config!Validate(c) = NoError \/ Config!Validate(c) \in Config!Tables \X Config!Errors
         /\ Config!Validate(c) = NoError => \A k \in DOMAIN Config!Checks(c) : Config!Checks(c)[k][2] = NoError
<1> DEFINE checks == Config!Checks(c)
           violated == {k \in DOMAIN checks : Config!Fails(checks[k])}
           worst == CHOOSE k \in violated : \A j \in violated : k <= j
<1>1. checks \in Seq(Config!Tables \X (Config!Errors \cup {NoError}))
  BY ChecksMade
<1> HIDE DEF checks
<1>2. violated \in SUBSET Nat
  BY <1>1
<1>3. \A k \in violated : checks[k] \in Config!Tables \X Config!Errors
  BY <1>1 DEF Config!Fails
<1>4. CASE violated = {}
  <2>1. Config!Validate(c) = NoError
    BY <1>4 DEF Config!Validate, checks
  <2>2. \A k \in DOMAIN checks : checks[k][2] = NoError
    BY <1>4 DEF Config!Fails
  <2> QED BY <2>1, <2>2 DEF checks
<1>5. CASE violated # {}
  <2>1. \E k \in violated : \A j \in violated : k <= j
    BY <1>2, <1>5, LeastNumber
  <2>2. worst \in violated
    BY <2>1
  <2>3. Config!Validate(c) = checks[worst]
    BY <1>5 DEF Config!Validate, checks
  <2>4. Config!Validate(c) \in Config!Tables \X Config!Errors
    BY <1>3, <2>2, <2>3
  <2>5. Config!Validate(c) # NoError
    BY <2>4 DEF Config!ConfigsAssumption
  <2> QED BY <2>4, <2>5
<1> QED BY <1>4, <1>5

\* What the checks accept is sound.
LEMMA PassedIsSound ==
  ASSUME Config!ConfigsAssumption, NEW policy \in Config!Policies,
         (IF Config!Zero(policy) THEN "attempts" ELSE NoError) = NoError, Config!CheckDelays(policy) = NoError
  PROVE  SoundPolicy(policy)
<1>1. "attempts" # NoError /\ "order" # NoError /\ "factor" # NoError
  BY DEF Config!ConfigsAssumption, Config!Errors
<1>2. ~Config!Zero(policy)
  BY <1>1
<1>3. /\ ~(policy.initial_delay > policy.max_delay) /\ policy.factor # Infinite
      /\ ~(policy.factor < 2)
  BY <1>1 DEF Config!CheckDelays
<1> QED BY <1>2, <1>3 DEF SoundPolicy, Config!Policies, Config!Zero

LEMMA AcceptedIsSound ==
  ASSUME Config!ConfigsAssumption, config \in Config!Deployable, Config!Validate(config) = NoError
  PROVE  AllSound
<1>1. \A k \in DOMAIN Config!Checks(config) : Config!Checks(config)[k][2] = NoError
  BY ValidateDecides
<1>2. \A t \in {"issue", "read", "resolve"} :
        /\ (IF Config!Zero(config[t]) THEN "attempts" ELSE NoError) = NoError
        /\ Config!CheckDelays(config[t]) = NoError
  BY <1>1, ChecksMade
<1>3. config.query # Unset =>
        /\ (IF Config!Zero(config.query) THEN "attempts" ELSE NoError) = NoError
        /\ Config!CheckDelays(config.query) = NoError
  BY <1>1, ChecksMade
<1>4. /\ config["issue"] \in Config!Policies /\ config["read"] \in Config!Policies
      /\ config["resolve"] \in Config!Policies /\ config.query \in Config!Policies \cup {Unset}
      /\ config["query"] = config.query /\ config["read"] = config.read
  BY DEF Config!Deployable
<1>5. \A t \in {"issue", "read", "resolve"} : SoundPolicy(config[t])
  BY <1>2, <1>4, PassedIsSound
<1>6. config.query # Unset => SoundPolicy(config.query)
  BY <1>3, <1>4, PassedIsSound
<1>7. \A t \in Config!Tables : SoundPolicy(Config!Configured(t))
  BY <1>4, <1>5, <1>6 DEF Config!Configured, Config!Tables
<1>8. (IF config.issue.initial_delay < Config!MIN_INITIAL_DELAY THEN "floor" ELSE NoError) = NoError
  BY <1>1, ChecksMade
<1>9. ~(config.issue.initial_delay < Config!MIN_INITIAL_DELAY)
  BY <1>8 DEF Config!ConfigsAssumption, Config!Errors
<1>10. config.issue.initial_delay >= Config!MIN_INITIAL_DELAY
  <2>1. config.issue.initial_delay \in Nat
    BY DEF Config!Deployable, Config!Policies
  <2> QED BY <1>9, <2>1 DEF Config!MIN_INITIAL_DELAY, Config!REQUEST_TIMEOUT, Config!RE_CHECK_MARGIN
<1> QED BY <1>7, <1>10 DEF AllSound

-----------------------------------------------------------------------------
(* The steps.                                                              *)

LEMMA ConfigInit ==
  ASSUME Config!ConfigsAssumption, Config!Init
  PROVE  ConfigInv
  BY DEF Config!ConfigsAssumption, Config!Init, ConfigInv

LEMMA ConfigLoadKeeps ==
  ASSUME Config!ConfigsAssumption, ConfigInv, Config!Load
  PROVE  ConfigInv'
<1>1. /\ phase = "written" /\ config' = config /\ error' = Config!Validate(config)
      /\ phase' = IF error' = NoError THEN "serving" ELSE "refused"
      /\ step' = step /\ now' = now /\ executions' = executions /\ failed' = failed
      /\ delay' = delay
  BY DEF Config!Load, Config!run
<1>2. config \in Config!Deployable
  BY DEF ConfigInv
<1>3. error' = NoError \/ error' \in Config!Tables \X Config!Errors
  BY <1>1, <1>2, ValidateDecides
<1>4. error' = NoError => AllSound'
  <2>1. error' = NoError => AllSound
    BY <1>1, <1>2, AcceptedIsSound
  <2> QED BY <1>1, <2>1 DEF AllSound, Config!Configured
<1>5. phase' \in {"serving", "refused"} /\ (phase' = "serving" => error' = NoError)
  BY <1>1
<1> QED BY <1>1, <1>2, <1>3, <1>4, <1>5 DEF ConfigInv

\* Writing a configuration out and reading it back changes nothing.
LEMMA WriteBackKeeps ==
  ASSUME ConfigInv, Config!WriteBack
  PROVE  ConfigInv' /\ config' = config
<1>1. config \in Config!Deployable
  BY DEF ConfigInv
<1>2. DOMAIN config = Config!Tables
  BY <1>1 DEF Config!Deployable, Config!Tables
<1>3. \A t \in Config!Tables : config[t] # Unset => config[t] \in Config!Policies
  BY <1>1 DEF Config!Deployable, Config!Tables
<1>4. \A t \in Config!Tables : config[t] # Unset => Config!Reread(config[t]) = config[t]
  BY <1>3, RereadIsTheSame
<1>5. config' = [t \in Config!Tables |-> config[t]]
  BY <1>2, <1>4 DEF Config!WriteBack
<1>6. config = [t \in Config!Tables |-> config[t]]
  BY <1>1, <1>2 DEF Config!Deployable
<1>7. config' = config
  BY <1>5, <1>6
<1>8. /\ error' = error /\ phase' = phase /\ step' = step /\ now' = now
      /\ executions' = executions /\ failed' = failed /\ delay' = delay
  BY DEF Config!WriteBack, Config!run
<1> QED BY <1>7, <1>8 DEF ConfigInv, AllSound, Config!Configured, RunningUnder, Config!WriteBack

LEMMA SoundFields ==
  ASSUME NEW policy, SoundPolicy(policy)
  PROVE  /\ policy.initial_delay \in Nat /\ policy.max_delay \in Nat
         /\ policy.max_duration \in Nat /\ policy.initial_delay <= policy.max_delay
         /\ policy.max_attempts # 0 /\ policy.max_attempts \in Nat \cup {Unset}
  BY DEF SoundPolicy, Config!Policies

LEMMA ConfigBeginKeeps ==
  ASSUME ConfigInv, NEW table \in Config!Tables, Config!Begin(table)
  PROVE  ConfigInv'
<1> DEFINE policy == Config!Configured(table)
<1>1. /\ phase = "serving" /\ step' = table /\ phase' = "running" /\ now' = 0
      /\ executions' = 1 /\ failed' = 0 /\ delay' = policy.initial_delay
      /\ config' = config /\ error' = error
  BY DEF Config!Begin, Config!PolicyOf, Config!RunRetryPolicy
<1>2. AllSound /\ SoundPolicy(policy)
  BY <1>1 DEF ConfigInv, AllSound
<1>3. AllSound' /\ Config!Configured(step)' = policy
  BY <1>1, <1>2 DEF AllSound, Config!Configured
<1> HIDE DEF policy
<1>4. /\ policy.initial_delay \in Nat /\ policy.max_delay \in Nat
      /\ policy.max_duration \in Nat /\ policy.initial_delay <= policy.max_delay
      /\ policy.max_attempts # 0 /\ policy.max_attempts \in Nat \cup {Unset}
  BY <1>2, SoundFields
<1>5. RunningUnder(Config!Configured(step))'
  BY <1>1, <1>3, <1>4 DEF RunningUnder
<1> QED BY <1>1, <1>3, <1>5 DEF ConfigInv

LEMMA ConfigFailKeeps ==
  ASSUME Config!ConfigsAssumption, ConfigInv, NEW took \in Took, Config!Fail(took)
  PROVE  ConfigInv'
<1> DEFINE policy == Config!Configured(step)
<1>1. /\ phase = "running" /\ now' = now + took /\ failed' = now + took
      /\ phase' = IF Config!Exhausts(policy, now + took) THEN "exhausted" ELSE "waiting"
      /\ config' = config /\ error' = error /\ step' = step /\ executions' = executions
      /\ delay' = delay
  BY DEF Config!Fail, Config!PolicyOf, Config!RunRetryPolicy
<1>2. AllSound /\ step \in Config!Tables /\ RunningUnder(policy) /\ SoundPolicy(policy)
  BY <1>1 DEF ConfigInv, AllSound
<1>3. AllSound' /\ Config!Configured(step)' = policy
  BY <1>1, <1>2 DEF AllSound, Config!Configured
<1> HIDE DEF policy
<1>4. /\ policy.initial_delay \in Nat /\ policy.max_delay \in Nat
      /\ policy.max_duration \in Nat /\ policy.initial_delay <= policy.max_delay
      /\ policy.max_attempts # 0 /\ policy.max_attempts \in Nat \cup {Unset}
  BY <1>2, SoundFields
<1>5. took \in Nat
  BY DEF Config!ConfigsAssumption
<1>6. phase' \in {"exhausted", "waiting"} /\ (phase' = "waiting" => ~Config!Exhausts(policy, now + took))
  BY <1>1
<1>7. RunningUnder(Config!Configured(step))'
  BY <1>1, <1>2, <1>3, <1>4, <1>5, <1>6 DEF RunningUnder, Config!Exhausts
<1> QED BY <1>1, <1>2, <1>3, <1>6, <1>7 DEF ConfigInv

LEMMA ConfigRetryKeeps ==
  ASSUME ConfigInv, Config!Retry
  PROVE  ConfigInv'
<1> DEFINE policy == Config!Configured(step)
<1>1. /\ phase = "waiting" /\ now' = now + Config!Capped(delay, policy)
      /\ delay' = Config!Grown(delay, policy) /\ executions' = executions + 1 /\ phase' = "running"
      /\ config' = config /\ error' = error /\ step' = step /\ failed' = failed
  BY DEF Config!Retry, Config!PolicyOf, Config!RunRetryPolicy
<1>2. AllSound /\ step \in Config!Tables /\ RunningUnder(policy) /\ SoundPolicy(policy)
  BY <1>1 DEF ConfigInv, AllSound
<1>3. AllSound' /\ Config!Configured(step)' = policy
  BY <1>1, <1>2 DEF AllSound, Config!Configured
<1> HIDE DEF policy
<1>4. /\ policy.initial_delay \in Nat /\ policy.max_delay \in Nat
      /\ policy.max_duration \in Nat /\ policy.initial_delay <= policy.max_delay
      /\ policy.max_attempts # 0 /\ policy.max_attempts \in Nat \cup {Unset}
  BY <1>2, SoundFields
<1>5. /\ delay' \in Nat /\ policy.initial_delay <= delay' /\ delay' <= policy.max_delay
      /\ now' = now + delay
  BY <1>1, <1>2, DelaysGrow DEF RunningUnder
<1>6. /\ delay \in Nat /\ policy.initial_delay <= delay /\ delay <= policy.max_delay
      /\ executions \in Nat /\ executions > 0
      /\ policy.max_attempts # Unset => executions < policy.max_attempts
      /\ now \in Nat /\ now = failed /\ now < policy.max_duration
  BY <1>1, <1>2 DEF RunningUnder
<1>7. RunningUnder(Config!Configured(step))'
  BY <1>1, <1>3, <1>4, <1>5, <1>6 DEF RunningUnder
<1> QED BY <1>1, <1>2, <1>3, <1>7 DEF ConfigInv

LEMMA ConfigNext ==
  ASSUME Config!ConfigsAssumption, ConfigInv, [Config!Next]_(Config!vars)
  PROVE  ConfigInv'
<1>1. CASE Config!Load \/ Config!WriteBack \/ Config!Retry
  BY <1>1, ConfigLoadKeeps, WriteBackKeeps, ConfigRetryKeeps
<1>2. CASE \E table \in Config!Tables : Config!Begin(table)
  BY <1>2, ConfigBeginKeeps
<1>3. CASE \E took \in Took : Config!Fail(took)
  BY <1>3, ConfigFailKeeps
<1>4. CASE UNCHANGED Config!vars
  <2>1. /\ config' = config /\ error' = error /\ phase' = phase /\ step' = step /\ now' = now
        /\ executions' = executions /\ failed' = failed /\ delay' = delay
    BY <1>4 DEF Config!vars
  <2> QED BY <2>1 DEF ConfigInv, AllSound, Config!Configured, RunningUnder
<1> QED BY <1>1, <1>2, <1>3, <1>4 DEF Config!Next

LEMMA ConfigSound ==
  ASSUME ConfigInv
  PROVE  Config!TypeOK /\ Config!PoliciesHold
<1>1. config \in Config!Deployable
  BY DEF ConfigInv
<1>2. DOMAIN config = Config!Tables
  BY <1>1 DEF Config!Deployable, Config!Tables
<1>3. phase \in {"waiting", "running", "exhausted"} =>
        step \in Config!Tables /\ RunningUnder(Config!Configured(step)) /\ SoundPolicy(Config!Configured(step)) /\ AllSound
  BY DEF ConfigInv, AllSound
<1>4. phase \in {"written", "refused", "serving"} =>
        step = "none" /\ now = 0 /\ executions = 0 /\ failed = 0 /\ delay = 0
  BY DEF ConfigInv
<1>5. "none" \notin Config!Tables
  BY DEF Config!Tables
<1>6. Config!TypeOK
  <2>1. CASE phase \in {"waiting", "running", "exhausted"}
    <3> DEFINE policy == Config!Configured(step)
    <3>1. RunningUnder(policy) /\ SoundPolicy(policy) /\ Config!PolicyOf(step) = policy
      BY <1>3, <2>1 DEF Config!PolicyOf, Config!RunRetryPolicy
    <3> HIDE DEF policy
    <3>2. /\ now \in Nat /\ failed \in Nat /\ delay \in Nat /\ executions \in Nat
          /\ policy.max_attempts # 0
          /\ policy.max_attempts # Unset => executions <= policy.max_attempts
      BY <3>1 DEF RunningUnder, SoundPolicy
    <3> QED BY <1>2, <1>3, <1>5, <2>1, <3>1, <3>2 DEF Config!TypeOK, ConfigInv
  <2>2. CASE phase \in {"written", "refused", "serving"}
    BY <1>2, <1>4, <2>2 DEF Config!TypeOK, ConfigInv
  <2> QED BY <2>1, <2>2 DEF ConfigInv
<1>7. Config!RetriesKeepTheirDistance
  <2> SUFFICES ASSUME phase = "running", step = "issue", executions > 1
               PROVE  now - failed >= Config!MIN_INITIAL_DELAY
    BY DEF Config!RetriesKeepTheirDistance
  <2> DEFINE policy == config.issue
  <2>1. Config!Configured(step) = policy
    BY <1>1 DEF Config!Configured, Config!Deployable
  <2>2. /\ now \in Nat /\ failed \in Nat /\ now - failed >= policy.initial_delay
    BY <1>3, <2>1 DEF RunningUnder
  <2>3. policy.initial_delay \in Nat /\ policy.initial_delay >= Config!MIN_INITIAL_DELAY
    BY <1>1, <1>3 DEF AllSound, Config!Deployable, Config!Policies
  <2>4. Config!MIN_INITIAL_DELAY \in Nat
    BY DEF Config!MIN_INITIAL_DELAY, Config!REQUEST_TIMEOUT, Config!RE_CHECK_MARGIN
  <2> HIDE DEF policy
  <2> QED BY <2>2, <2>3, <2>4
<1>8. Config!StepsEndInTime
  BY <1>3 DEF Config!StepsEndInTime, RunningUnder
<1>9. Config!TextKeepsPolicies
  <2>1. \A t \in Config!Tables : config[t] # Unset => config[t] \in Config!Policies
    BY <1>1 DEF Config!Deployable, Config!Tables
  <2> QED BY <2>1, RereadIsTheSame DEF Config!TextKeepsPolicies
<1> QED BY <1>6, <1>7, <1>8, <1>9 DEF Config!PoliciesHold

(***************************************************************************)
(* The inductive invariant of a deployment's policies.                     *)
(***************************************************************************)
THEOREM ConfigInvariance ==
  ASSUME Config!ConfigsAssumption
  PROVE  Config!Spec => []ConfigInv
<1>1. Config!Init => ConfigInv
  BY ConfigInit
<1>2. ConfigInv /\ [Config!Next]_(Config!vars) => ConfigInv'
  BY ConfigNext
<1> QED BY <1>1, <1>2, PTL DEF Config!Spec

-----------------------------------------------------------------------------
(* storno, whose proof is in a module of its own, for the parameters it     *)
(* has here.                                                                *)

\* storno here is the storno of AgentStorno_proofs.
LEMMA StornoIsAgentStorno ==
  /\ Storno!StornoBounds <=> OfStorno!StornoBounds
  /\ Storno!StornoAccount <=> OfStorno!StornoAccount
  /\ Storno!Init <=> OfStorno!Init
  /\ Storno!Next <=> OfStorno!Next
  /\ Storno!TypeOK <=> OfStorno!TypeOK
  /\ Storno!StornoIsAccountedFor <=> OfStorno!StornoIsAccountedFor
<1>1. Storno!StornoBounds <=> OfStorno!StornoBounds
  BY DEF
     Storno!StornoBounds, OfStorno!StornoBounds
<1>2. Storno!StornoAccount <=> OfStorno!StornoAccount
  BY DEF
     Storno!StornoAccount, OfStorno!StornoAccount, Storno!Document, OfStorno!Document,
     Storno!Books, OfStorno!Books, Storno!IssuedKind, OfStorno!IssuedKind,
     Storno!StornoableKind, OfStorno!StornoableKind, Storno!InvoiceFamily,
     OfStorno!InvoiceFamily
<1>3. Storno!Init <=> OfStorno!Init
  BY DEF
     Storno!Init, OfStorno!Init
<1>4. Storno!Next <=> OfStorno!Next
  BY DEF
     Storno!Next, OfStorno!Next, Storno!Start, OfStorno!Start, Storno!Step, OfStorno!Step,
     Storno!Crash, OfStorno!Crash, Storno!Kill, OfStorno!Kill, Storno!Cancel, OfStorno!Cancel,
     Storno!ExecuteLate, OfStorno!ExecuteLate, Storno!Discard, OfStorno!Discard,
     Storno!OutsideStorno, OfStorno!OutsideStorno, Storno!Collide, OfStorno!Collide,
     Storno!Verify, OfStorno!Verify, Storno!Name, OfStorno!Name, Storno!Lookup,
     OfStorno!Lookup, Storno!ReadFails, OfStorno!ReadFails, Storno!Leading, OfStorno!Leading,
     Storno!Send, OfStorno!Send, Storno!VerifyReply, OfStorno!VerifyReply, Storno!Settle,
     OfStorno!Settle, Storno!SettleOnce, OfStorno!SettleOnce, Storno!Acknowledge,
     OfStorno!Acknowledge, Storno!Decline, OfStorno!Decline, Storno!Lose, OfStorno!Lose,
     Storno!Reading, OfStorno!Reading, Storno!Writing, OfStorno!Writing, Storno!Abandon,
     OfStorno!Abandon, Storno!End, OfStorno!End, Storno!Takes, OfStorno!Takes,
     Storno!Reversible, OfStorno!Reversible, Storno!Reverse, OfStorno!Reverse, Storno!Visible,
     OfStorno!Visible, Storno!Go, OfStorno!Go, Storno!StornoSeen, OfStorno!StornoSeen,
     Storno!StornoUnseen, OfStorno!StornoUnseen, Storno!Again, OfStorno!Again, Storno!StornoOf,
     OfStorno!StornoOf, Storno!Reply, OfStorno!Reply, Storno!StornoableKind,
     OfStorno!StornoableKind, Storno!ByExternalId, OfStorno!ByExternalId, Storno!Holders,
     OfStorno!Holders, Storno!InvoiceFamily, OfStorno!InvoiceFamily, Storno!Newest,
     OfStorno!Newest
<1>5. Storno!TypeOK <=> OfStorno!TypeOK
  BY DEF
     Storno!TypeOK, OfStorno!TypeOK, Storno!Document, OfStorno!Document, Storno!Call,
     OfStorno!Call, Storno!IssuedKind, OfStorno!IssuedKind, Storno!Reading, OfStorno!Reading,
     Storno!Writing, OfStorno!Writing, Storno!Result, OfStorno!Result, Storno!StornoableKind,
     OfStorno!StornoableKind, Storno!Untouched, OfStorno!Untouched, Storno!Refused,
     OfStorno!Refused, Storno!Open, OfStorno!Open, Storno!InvoiceFamily, OfStorno!InvoiceFamily
<1>6. Storno!StornoIsAccountedFor <=> OfStorno!StornoIsAccountedFor
  BY DEF
     Storno!StornoIsAccountedFor, OfStorno!StornoIsAccountedFor, Storno!ReversedIsTrue,
     OfStorno!ReversedIsTrue, Storno!UntouchedSentNothing, OfStorno!UntouchedSentNothing,
     Storno!RefusalOfOneSendIsFinal, OfStorno!RefusalOfOneSendIsFinal, Storno!SendsArePaidFor,
     OfStorno!SendsArePaidFor, Storno!OrdersAreLeft, OfStorno!OrdersAreLeft, Storno!StornoOf,
     OfStorno!StornoOf, Storno!Untouched, OfStorno!Untouched, Storno!Issued, OfStorno!Issued,
     Storno!Refused, OfStorno!Refused, Storno!Visible, OfStorno!Visible
<1> QED BY <1>1, <1>2, <1>3, <1>4, <1>5, <1>6

-----------------------------------------------------------------------------
(* The composition.                                                        *)

ServiceInv ==
  /\ component = "status" => StatusInv
  /\ component = "storno" => OfStorno!IInv
  /\ component = "credit" => CreditInv
  /\ component = "accounts" => AccountsInv
  /\ component = "prologue" => PrologueInv
  /\ component = "config" => ConfigInv

\* A step is one of the running component, or leaves its variables alone.
LEMMA OneComponentMoves ==
  ASSUME [Next]_vars
  PROVE  /\ component' = component
         /\ component = "status" => [Status!Next]_(Status!vars)
         /\ component = "storno" => [OfStorno!Next]_(OfStorno!vars)
         /\ component = "credit" =>
              [Credit!Next /\ UNCHANGED serialised]_<<serialised, Credit!vars>>
         /\ component = "accounts" => [Table!Next]_(Table!vars)
         /\ component = "prologue" => [Call!Next]_(Call!vars)
         /\ component = "config" => [Config!Next]_(Config!vars)
<1>1. CASE Next
  <2>1. /\ component' = component
        /\ component = "status" => Status!Next
        /\ component = "storno" => Storno!Next
        /\ component = "credit" => Credit!Next /\ UNCHANGED serialised
        /\ component = "accounts" => Table!Next
        /\ component = "prologue" => Call!Next
        /\ component = "config" => Config!Next
    BY <1>1 DEF Next, StatusStep, StornoStep, CreditStep, AccountsStep, PrologueStep, ConfigStep
  <2> QED BY <2>1, StornoIsAgentStorno
<1>2. CASE UNCHANGED vars
  <2>1. component' = component
    BY <1>2 DEF vars
  <2>2. UNCHANGED Status!vars
    BY <1>2 DEF vars, forStatus, Status!vars, Status!handler
  <2>3. UNCHANGED OfStorno!vars
    BY <1>2 DEF vars, forStorno, forCalls, OfStorno!vars
  <2>4. UNCHANGED <<serialised, Credit!vars>>
    BY <1>2 DEF vars, forCredit, forCalls, Credit!vars
  <2>5. UNCHANGED Table!vars
    BY <1>2 DEF vars, forAccounts, Table!vars
  <2>6. UNCHANGED Call!vars
    BY <1>2 DEF vars, forPrologue, Call!vars, Call!environment
  <2>7. UNCHANGED Config!vars
    BY <1>2 DEF vars, forConfig, Config!vars, Config!run
  <2> QED BY <2>1, <2>2, <2>3, <2>4, <2>5, <2>6, <2>7
<1> QED BY <1>1, <1>2

LEMMA ServiceBounds ==
  /\ Status!StatusBounds
  /\ OfStorno!StornoBounds /\ OfStorno!StornoAccount
  /\ Credit!CreditBounds /\ Table!EntriesAssumption
  /\ Call!PrologueAssumption /\ Config!ConfigsAssumption
  BY Bounds, StornoIsAgentStorno

LEMMA ServiceInit ==
  ASSUME Init
  PROVE  ServiceInv
<1>1. /\ component = "status" => Status!Init
      /\ component = "storno" => Storno!Init
      /\ component = "credit" => Credit!Init
      /\ component = "accounts" => Table!Init
      /\ component = "prologue" => Call!Init
      /\ component = "config" => Config!Init
  BY DEF Init
<1>2. component = "status" => StatusInv
  BY <1>1, ServiceBounds, StatusInit
<1>3. component = "storno" => OfStorno!IInv
  BY <1>1, ServiceBounds, StornoIsAgentStorno, OfStorno!StornoInit
<1>4. component = "credit" => CreditInv
  BY <1>1, ServiceBounds, CreditInit
<1>5. component = "accounts" => AccountsInv
  BY <1>1, ServiceBounds, AccountsInit
<1>6. component = "prologue" => PrologueInv
  BY <1>1, ServiceBounds, PrologueInit
<1>7. component = "config" => ConfigInv
  BY <1>1, ServiceBounds, ConfigInit
<1> QED BY <1>2, <1>3, <1>4, <1>5, <1>6, <1>7 DEF ServiceInv

LEMMA ServiceNext ==
  ASSUME ServiceInv, [Next]_vars
  PROVE  ServiceInv'
<1>1. component' = component
  BY OneComponentMoves
<1>2. component = "status" => StatusInv'
  BY OneComponentMoves, ServiceBounds, StatusNext DEF ServiceInv
<1>3. component = "storno" => OfStorno!IInv'
  BY OneComponentMoves, ServiceBounds, OfStorno!StornoNext DEF ServiceInv
<1>4. component = "credit" => CreditInv'
  BY OneComponentMoves, ServiceBounds, CreditNext DEF ServiceInv
<1>5. component = "accounts" => AccountsInv'
  BY OneComponentMoves, ServiceBounds, AccountsNext DEF ServiceInv
<1>6. component = "prologue" => PrologueInv'
  BY OneComponentMoves, ServiceBounds, PrologueNext DEF ServiceInv
<1>7. component = "config" => ConfigInv'
  BY OneComponentMoves, ServiceBounds, ConfigNext DEF ServiceInv
<1> QED BY <1>1, <1>2, <1>3, <1>4, <1>5, <1>6, <1>7 DEF ServiceInv

(***************************************************************************)
(* Whichever part of the worker runs, its inductive invariant holds.       *)
(***************************************************************************)
THEOREM ServiceInvariance == Spec => []ServiceInv
<1>1. Init => ServiceInv
  BY ServiceInit
<1>2. ServiceInv /\ [Next]_vars => ServiceInv'
  BY ServiceNext
<1> QED BY <1>1, <1>2, PTL DEF Spec

(***************************************************************************)
(* The state of every part of the worker keeps its type.                   *)
(***************************************************************************)
THEOREM ServiceTypeCorrect == Spec => []TypeOK
<1>1. ASSUME ServiceInv PROVE TypeOK
  <2>1. component = "status" => Status!TypeOK
    BY <1>1 DEF ServiceInv, StatusInv
  <2>2. component = "storno" => Storno!TypeOK
    BY <1>1, StornoIsAgentStorno DEF ServiceInv, OfStorno!IInv
  <2>3. component = "credit" => Credit!TypeOK
    BY <1>1 DEF ServiceInv, CreditInv
  <2>4. component = "accounts" => Table!TypeOK
    BY <1>1 DEF ServiceInv, AccountsInv
  <2>5. component = "prologue" => Call!TypeOK
    BY <1>1 DEF ServiceInv, PrologueInv
  <2>6. component = "config" => Config!TypeOK
    BY <1>1, ConfigSound DEF ServiceInv
  <2> QED BY <2>1, <2>2, <2>3, <2>4, <2>5, <2>6 DEF TypeOK
<1> QED BY <1>1, ServiceInvariance, PTL

(***************************************************************************)
(* get: every slot of an answer was so at some moment of the call, and a   *)
(* proforma reported as consumed was converted by the document named.      *)
(***************************************************************************)
THEOREM ServiceStatusIsTrue == Spec => []StatusIsTrue
<1>1. ASSUME ServiceInv PROVE StatusIsTrue
  <2>1. StatusInv => Status!StatusIsTrue
    BY DEF StatusInv, Status!StatusIsTrue
  <2> QED BY <1>1, <2>1 DEF ServiceInv, StatusIsTrue
<1> QED BY <1>1, ServiceInvariance, PTL

(***************************************************************************)
(* storno by number: what its caller is told of the invoice is so, a       *)
(* further send is paid for, and no send reverses a document of an order.  *)
(***************************************************************************)
THEOREM ServiceStornoIsAccountedFor == Spec => []StornoIsAccountedFor
<1>1. ASSUME ServiceInv PROVE StornoIsAccountedFor
  BY <1>1, ServiceBounds, StornoIsAgentStorno, OfStorno!StornoSound
     DEF ServiceInv, StornoIsAccountedFor
<1> QED BY <1>1, ServiceInvariance, PTL

(***************************************************************************)
(* set_credit_entries: an answered call took effect, a refused one has     *)
(* none, none sends more entries than the vendor takes, and no call clears *)
(* the ledger.                                                             *)
(***************************************************************************)
THEOREM ServiceCreditAnswersAreTrue == Spec => []CreditAnswersAreTrue
<1>1. ASSUME ServiceInv PROVE CreditAnswersAreTrue
  BY <1>1, ServiceBounds, CreditSound DEF ServiceInv, CreditAnswersAreTrue
<1> QED BY <1>1, ServiceInvariance, PTL

(***************************************************************************)
(* set_credit_entries: only an interrupted execution registers twice, or   *)
(* puts an older snapshot over a newer one.                                *)
(***************************************************************************)
THEOREM ServiceOnlyInterruptionsRepeat == Spec => []OnlyInterruptionsRepeat
<1>1. ASSUME ServiceInv PROVE OnlyInterruptionsRepeat
  BY <1>1, ServiceBounds, CreditSound DEF ServiceInv, OnlyInterruptionsRepeat
<1> QED BY <1>1, ServiceInvariance, PTL

(***************************************************************************)
(* Accounts: whatever table is deployed, a request is served under the     *)
(* entry of its scope and with that entry's key, and no two scopes share   *)
(* an account of szamlazz.hu.                                              *)
(***************************************************************************)
THEOREM ServiceAccountsAreSeparate == Spec => []AccountsAreSeparate
<1>1. ASSUME ServiceInv PROVE AccountsAreSeparate
  BY <1>1, AccountsSound DEF ServiceInv, AccountsAreSeparate
<1> QED BY <1>1, ServiceInvariance, PTL

(***************************************************************************)
(* Prologue: the requests of an invocation leave under one identity, with  *)
(* a key held in their execution; an outage never refuses retained work.   *)
(***************************************************************************)
THEOREM ServiceKeepsIdentity == Spec => []InvocationsKeepTheirIdentity
<1>1. ASSUME ServiceInv PROVE InvocationsKeepTheirIdentity
  <2>1. PrologueInv => Call!InvocationsKeepTheirIdentity
    BY DEF PrologueInv, Call!InvocationsKeepTheirIdentity, Call!OneIdentityPerInvocation, Fits
  <2> QED BY <1>1, <2>1 DEF ServiceInv, InvocationsKeepTheirIdentity
<1> QED BY <1>1, ServiceInvariance, PTL

(***************************************************************************)
(* Configuration: whatever policy is accepted, a reversal's retries keep   *)
(* the floor's distance, a failing step ends near its duration threshold,  *)
(* and the text a policy is stored as says the same policy.                *)
(***************************************************************************)
THEOREM ServicePoliciesHold == Spec => []PoliciesHold
<1>1. ASSUME ServiceInv PROVE PoliciesHold
  BY <1>1, ConfigSound DEF ServiceInv, PoliciesHold
<1> QED BY <1>1, ServiceInvariance, PTL
=============================================================================
