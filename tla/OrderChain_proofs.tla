-------------------------- MODULE OrderChain_proofs --------------------------
(***************************************************************************)
(* Proofs about OrderChain, for any orders: any kinds created under them   *)
(* and any bound on their documents.                                       *)
(*                                                                         *)
(* The argument: what an operation read once stays true until its own      *)
(* write, because the write is the only step that adds a document under    *)
(* the order's external ids.  So every check the operation has behind it   *)
(* (a step that is not ahead any more) still holds when the request takes  *)
(* effect, however late.                                                   *)
(***************************************************************************)
EXTENDS OrderChain, Szamlazz_proofs

-----------------------------------------------------------------------------
(* The inductive invariant.                                                *)

Has(t, step) == \E k \in DOMAIN t : t[k] = step

\* The step is still to be taken.
Ahead(step) == Has(op.todo, step)

\* An operation runs that has not taken effect.
Going == op.todo # <<>> /\ op.todo[1] # "decided"

WriteStep == {"write", "sent", "decided"}

Ends(t) == \A k \in DOMAIN t : t[k] \in WriteStep => k = Len(t)

\* Whatever was to be read before the write has been read when it is reached.
WriteComesLast == Ends(op.todo)

\* Of the order's own documents of a kind only the newest can be live.
NewestLives ==
  \A kind \in IssuedKind : \A m, n \in DOMAIN docs :
    Own(docs, kind, m) /\ Own(docs, kind, n) /\ m < n => docs[m].reversed

\* No storno exists for a proforma.
ProformasStand == \A n \in DOMAIN docs : docs[n].kind = "proforma" => ~docs[n].reversed

\* Behind existing_target: no live document of the operation's own kind.
TargetChecked == Going /\ ~Ahead("target") => ~SomeLive(op.kind)

Excludes(kind, other) == Has(ExclusiveWith(kind), other)

\* Behind exclusivity: no live document of the other kind.
OthersChecked ==
  Going => \A kind \in InvoiceFamily :
             Excludes(op.kind, kind) /\ ~Ahead(kind) => ~SomeLive(kind)

\* Behind prepayment_for_final: no live invoice, and the prepayment to be
\* settled is the newest.
SettlesChecked ==
  Going /\ op.kind = "final" /\ ~Ahead("settles") =>
    /\ ~SomeLive("invoice")
    /\ Own(docs, "prepayment", op.prepayment)
    /\ \A q \in DOMAIN docs : Own(docs, "prepayment", q) => q <= op.prepayment

\* Behind proforma_link, unless a proforma was named: the order's own proforma
\* is the one to be converted.
LinkChecked ==
  Going /\ LinksProforma(op.kind) /\ op.link \in {0, AutoProforma} /\ ~Ahead("link") =>
    \A n \in DOMAIN docs : Own(docs, "proforma", n) => n = op.proforma

\* Behind decide_base: the base is an invoice of this order.
BaseChecked ==
  Going /\ op.kind = "corrective" /\ ~Ahead("base") =>
    op.base \in DOMAIN docs /\ docs[op.base].order /\ docs[op.base].kind \in InvoiceFamily

Checked ==
  TargetChecked /\ OthersChecked /\ SettlesChecked /\ LinkChecked /\ BaseChecked

Chain ==
  NewestLives /\ ProformasStand /\ NoDoubleBilling /\ FinalSettlesNewestPrepayment
    /\ CorrectivesHaveBases

Typed == TypeOK /\ Len(docs) <= MaxDocs /\ WriteComesLast

IInv == Typed /\ Chain /\ Checked

-----------------------------------------------------------------------------
(* The steps of an operation.                                              *)

Plain(t) == \A k \in DOMAIN t : t[k] \notin WriteStep

\* A concatenation has the steps of both parts, in order.
LEMMA ConcatHas ==
  ASSUME NEW s \in Seq(Step), NEW t \in Seq(Step)
  PROVE  /\ s \o t \in Seq(Step)
         /\ \A x : Has(s \o t, x) <=> Has(s, x) \/ Has(t, x)
         /\ Plain(s) /\ Plain(t) => Plain(s \o t)
         /\ Plain(s) /\ Ends(t) => Ends(s \o t)
<1> DEFINE u == s \o t
<1>1. /\ u \in Seq(Step) /\ Len(s) \in Nat /\ Len(t) \in Nat /\ Len(u) = Len(s) + Len(t)
      /\ DOMAIN u = 1..(Len(s) + Len(t)) /\ DOMAIN s = 1..Len(s) /\ DOMAIN t = 1..Len(t)
      /\ \A k \in DOMAIN u : u[k] = IF k <= Len(s) THEN s[k] ELSE t[k - Len(s)]
  OBVIOUS
<1> HIDE DEF u
<1>2. \A k \in DOMAIN s : k \in DOMAIN u /\ u[k] = s[k]
  BY <1>1
<1>3. \A k \in DOMAIN t : k + Len(s) \in DOMAIN u /\ u[k + Len(s)] = t[k]
  BY <1>1
<1>4. \A k \in DOMAIN u : (k \in DOMAIN s /\ u[k] = s[k])
                           \/ (k - Len(s) \in DOMAIN t /\ u[k] = t[k - Len(s)])
  BY <1>1
<1>5. \A x : Has(u, x) <=> Has(s, x) \/ Has(t, x)
  BY <1>2, <1>3, <1>4 DEF Has
<1>6. Plain(s) /\ Plain(t) => Plain(u)
  BY <1>4 DEF Plain
<1>7. Plain(s) /\ Ends(t) => Ends(u)
  BY <1>1, <1>4 DEF Plain, Ends
<1> QED BY <1>1, <1>5, <1>6, <1>7 DEF u

\* The table of exclusive kinds names invoices, prepayments and finals.
LEMMA ExclusiveType ==
  ASSUME NEW kind \in IssuedKind
  PROVE  /\ ExclusiveWith(kind) \in Seq(Step) /\ Plain(ExclusiveWith(kind))
         /\ kind = "invoice" => Excludes(kind, "prepayment") /\ Excludes(kind, "final")
         /\ kind = "prepayment" => Excludes(kind, "invoice") /\ Excludes(kind, "final")
         /\ kind = "proforma" => \A other \in InvoiceFamily : Excludes(kind, other)
<1> USE DEF ExclusiveWith, Plain, Step, WriteStep, Excludes, Has
<1>1. CASE kind = "invoice"
  BY <1>1
<1>2. CASE kind = "prepayment"
  BY <1>2
<1>3. CASE kind = "proforma"
  BY <1>3 DEF InvoiceFamily
<1>4. CASE kind \notin {"invoice", "prepayment", "proforma"}
  BY <1>4
<1> QED BY <1>1, <1>2, <1>3, <1>4

\* Every operation has its reads ahead of it, and its write last.
LEMMA StepsType ==
  ASSUME NEW kind \in IssuedKind
  PROVE  /\ Steps(kind) \in Seq(Step) /\ Ends(Steps(kind))
         /\ Has(Steps(kind), "target")
         /\ \A other : Excludes(kind, other) => Has(Steps(kind), other)
         /\ kind = "final" => Has(Steps(kind), "settles")
         /\ LinksProforma(kind) => Has(Steps(kind), "link")
         /\ kind = "corrective" => Has(Steps(kind), "base")
<1> DEFINE a == ExclusiveWith(kind)
           b == IF kind = "final" THEN <<"settles">> ELSE <<>>
           c == IF LinksProforma(kind) THEN <<"link">> ELSE <<>>
           d == IF kind = "corrective" THEN <<"base">> ELSE <<>>
           e == <<"lookup", "write">>
           h == <<"target">>
<1>1. /\ a \in Seq(Step) /\ b \in Seq(Step) /\ c \in Seq(Step) /\ d \in Seq(Step)
      /\ e \in Seq(Step) /\ h \in Seq(Step)
  <2>1. a \in Seq(Step)
    BY ExclusiveType
  <2>2. /\ <<>> \in Seq(Step) /\ <<"settles">> \in Seq(Step) /\ <<"link">> \in Seq(Step)
        /\ <<"base">> \in Seq(Step) /\ e \in Seq(Step) /\ h \in Seq(Step)
    BY DEF Step
  <2> QED BY <2>1, <2>2
<1>2. Plain(h) /\ Plain(a) /\ Plain(b) /\ Plain(c) /\ Plain(d) /\ Ends(e)
  BY ExclusiveType DEF Plain, WriteStep, Ends
<1>3. /\ Has(h, "target") /\ \A other : Excludes(kind, other) => Has(a, other)
      /\ kind = "final" => Has(b, "settles")
      /\ LinksProforma(kind) => Has(c, "link")
      /\ kind = "corrective" => Has(d, "base")
  BY DEF Has, Excludes
<1>4. Steps(kind) = h \o a \o b \o c \o d \o e
  BY DEF Steps
<1> HIDE DEF a, b, c, d, e, h
<1>5. /\ h \o a \in Seq(Step) /\ Plain(h \o a)
      /\ \A x : Has(h \o a, x) <=> Has(h, x) \/ Has(a, x)
  BY <1>1, <1>2, ConcatHas
<1>6. /\ h \o a \o b \in Seq(Step) /\ Plain(h \o a \o b)
      /\ \A x : Has(h \o a \o b, x) <=> Has(h \o a, x) \/ Has(b, x)
  BY <1>1, <1>2, <1>5, ConcatHas
<1>7. /\ h \o a \o b \o c \in Seq(Step) /\ Plain(h \o a \o b \o c)
      /\ \A x : Has(h \o a \o b \o c, x) <=> Has(h \o a \o b, x) \/ Has(c, x)
  BY <1>1, <1>2, <1>6, ConcatHas
<1>8. /\ h \o a \o b \o c \o d \in Seq(Step) /\ Plain(h \o a \o b \o c \o d)
      /\ \A x : Has(h \o a \o b \o c \o d, x) <=> Has(h \o a \o b \o c, x) \/ Has(d, x)
  BY <1>1, <1>2, <1>7, ConcatHas
<1>9. /\ h \o a \o b \o c \o d \o e \in Seq(Step) /\ Ends(h \o a \o b \o c \o d \o e)
      /\ \A x : Has(h \o a \o b \o c \o d \o e, x) <=> Has(h \o a \o b \o c \o d, x) \/ Has(e, x)
  BY <1>1, <1>2, <1>8, ConcatHas
<1> QED BY <1>3, <1>4, <1>5, <1>6, <1>7, <1>8, <1>9

\* A step that is taken is the only one that is not ahead any more.
LEMMA TailHas ==
  ASSUME NEW t \in Seq(Step), t # <<>>
  PROVE  /\ Head(t) = t[1] /\ Head(t) \in Step /\ Tail(t) \in Seq(Step)
         /\ \A x : Has(t, x) => x = Head(t) \/ Has(Tail(t), x)
         /\ Ends(t) => Ends(Tail(t))
         /\ Ends(t) /\ Head(t) \in WriteStep => Len(t) = 1
         /\ Tail(t) # <<>> => Has(t, Tail(t)[1]) /\ Len(t) > 1
<1>1. /\ Head(t) = t[1] /\ Head(t) \in Step /\ Tail(t) \in Seq(Step)
      /\ Len(t) \in Nat /\ Len(t) >= 1 /\ DOMAIN t = 1..Len(t)
      /\ DOMAIN Tail(t) = 1..(Len(t) - 1) /\ Len(Tail(t)) = Len(t) - 1
      /\ \A k \in DOMAIN Tail(t) : Tail(t)[k] = t[k + 1]
  OBVIOUS
<1>2. \A x : Has(t, x) => x = Head(t) \/ Has(Tail(t), x)
  <2> SUFFICES ASSUME NEW x, NEW k \in DOMAIN t, t[k] = x, k # 1
               PROVE  Has(Tail(t), x)
    BY <1>1 DEF Has
  <2>1. k - 1 \in DOMAIN Tail(t) /\ Tail(t)[k - 1] = t[k]
    BY <1>1
  <2> QED BY <2>1 DEF Has
<1>3. Ends(t) => Ends(Tail(t))
  <2> SUFFICES ASSUME Ends(t), NEW k \in DOMAIN Tail(t), Tail(t)[k] \in WriteStep
               PROVE  k = Len(Tail(t))
    BY DEF Ends
  <2>1. k + 1 \in DOMAIN t /\ t[k + 1] \in WriteStep
    BY <1>1
  <2> QED BY <1>1, <2>1 DEF Ends
<1>4. Ends(t) /\ Head(t) \in WriteStep => Len(t) = 1
  BY <1>1 DEF Ends
<1>5. Tail(t) # <<>> => Has(t, Tail(t)[1]) /\ Len(t) > 1
  <2> SUFFICES ASSUME Tail(t) # <<>> PROVE Has(t, Tail(t)[1]) /\ Len(t) > 1
    OBVIOUS
  <2>1. Len(Tail(t)) # 0
    BY <1>1
  <2>2. 1 \in DOMAIN Tail(t) /\ 2 \in DOMAIN t
    BY <1>1, <2>1
  <2> QED BY <1>1, <2>2 DEF Has
<1> QED BY <1>1, <1>2, <1>3, <1>4, <1>5

-----------------------------------------------------------------------------
(* The documents between the reads and the write.                          *)

\* The documents of the order and their number are well typed.
DocsOK == docs \in Seq(Document(Issuer)) /\ Len(docs) <= MaxDocs

\* Documents changed, but not by the worker.
OthersDocs ==
  /\ DocsOK /\ DocsOK' /\ Kept(docs, docs') /\ NoneOwned(docs, docs')
  /\ \A n \in DOMAIN docs' \ DOMAIN docs : docs'[n].by # "worker" /\ ~docs'[n].reversed

\* A live document is one of the order's own that is not reversed.
LEMMA LiveIsOwn ==
  ASSUME NEW kind, NEW n
  PROVE  /\ Live(n, kind) <=> Own(docs, kind, n) /\ ~docs[n].reversed
         /\ Live(n, kind)' <=> Own(docs', kind, n) /\ ~docs'[n].reversed
         /\ Own(docs, kind, n) => n \in DOMAIN docs
         /\ Own(docs', kind, n) => n \in DOMAIN docs'
BY DEF Live, Own, Holders, Visible

\* What anyone else does: reversals, deletions of proformas, documents that
\* are not under the order's ids.
LEMMA OutsideFrame ==
  ASSUME Typed, Outside, UNCHANGED order
  PROVE  OthersDocs /\ UNCHANGED <<refs, op>>
<1> USE DEF MaxDocs
<1>a. "outside" \in Issuer
  BY DEF Issuer
<1>1. docs \in Seq(Document(Issuer)) /\ Len(docs) <= MaxDocs /\ order \in Orders /\ order.docs \in Nat /\ order.kinds \subseteq IssuedKind
  BY ChainOrders DEF Typed, TypeOK
<1>2. ASSUME NEW n \in DOMAIN docs, NEW ext \in BOOLEAN, Storno(n, ext)
      PROVE  OthersDocs /\ UNCHANGED <<refs, op>>
  <2>1. docs' = Reverse(docs, n, ext, "outside") /\ docs[n].kind \in StornoableKind
        /\ Len(docs) < MaxDocs
    BY <1>2 DEF Storno
  <2>2. /\ docs' \in Seq(Document(Issuer)) /\ Reversal(docs, docs', n, ext, "outside")
        /\ Kept(docs, docs') /\ NoneOwned(docs, docs')
    BY <1>1, <1>a, <2>1, ReverseKeeps DEF Stornoable
  <2>3. Len(docs') <= MaxDocs
    BY <1>1, <2>1, <2>2, Numbers DEF Reversal
  <2> QED BY <1>1, <1>2, <2>2, <2>3 DEF Storno, OthersDocs, DocsOK, Reversal
<1>3. ASSUME NEW n \in DOMAIN docs, DeleteProforma(n)
      PROVE  OthersDocs /\ UNCHANGED <<refs, op>>
  <2>1. docs' = Delete(docs, n) /\ docs[n].kind = "proforma"
    BY <1>3 DEF DeleteProforma
  <2>2. docs' \in Seq(Document(Issuer)) /\ Len(docs') = Len(docs) /\ DOMAIN docs' = DOMAIN docs
        /\ Kept(docs, docs')
    BY <1>1, <2>1, DeleteKeeps
  <2> QED BY <1>1, <1>3, <2>2 DEF DeleteProforma, NoneOwned, OthersDocs, DocsOK
<1>4. ASSUME NEW kind \in CreateKind, NEW collides \in BOOLEAN, OutsideIssue(kind, collides)
      PROVE  OthersDocs /\ UNCHANGED <<refs, op>>
  <2> DEFINE doc == [kind |-> kind, of |-> 0, ext |-> collides, order |-> ~collides,
                     reversed |-> FALSE, gone |-> FALSE, by |-> "outside"]
  <2>1. docs' = Append(docs, doc) /\ Len(docs) < MaxDocs
    BY <1>4 DEF OutsideIssue
  <2>2. doc \in Document(Issuer) /\ ~Owned(doc) /\ doc.by = "outside" /\ ~doc.reversed
    BY <1>1, <1>a DEF Document, Owned, CreateKind
  <2> HIDE DEF doc
  <2>3. DOMAIN docs' \ DOMAIN docs = {Len(docs) + 1} /\ docs'[Len(docs) + 1] = doc
        /\ docs' \in Seq(Document(Issuer)) /\ Len(docs') = Len(docs) + 1
        /\ Kept(docs, docs')
    BY <1>1, <2>1, <2>2, AppendKeeps
  <2>4. Len(docs') <= MaxDocs
    BY <1>1, <2>1, <2>3, Numbers
  <2> QED BY <1>1, <1>4, <2>2, <2>3, <2>4 DEF OutsideIssue, NoneOwned, OthersDocs, DocsOK
<1> QED BY <1>2, <1>3, <1>4 DEF Outside

\* A kind without a live document gets one from the worker only.
LEMMA QuietStays ==
  ASSUME OthersDocs, NEW kind \in IssuedKind, ~SomeLive(kind)
  PROVE  ~SomeLive(kind)'
<1> SUFFICES ASSUME NEW n \in DOMAIN docs', Live(n, kind)'
             PROVE  FALSE
  BY DEF SomeLive
<1>1. Own(docs', kind, n) /\ ~docs'[n].reversed
  BY LiveIsOwn
<1>2. Own(docs, kind, n) /\ n \in DOMAIN docs
  BY <1>1, OwnKept, LiveIsOwn DEF OthersDocs, DocsOK
<1>3. ~docs[n].reversed
  BY <1>1, <1>2 DEF OthersDocs, Kept
<1> QED BY <1>2, <1>3, LiveIsOwn DEF SomeLive

\* Reversals, deletions and other documents break no rule of the chain.
LEMMA ChainOthers ==
  ASSUME Typed, Chain, OthersDocs, UNCHANGED refs
  PROVE  Chain'
<1> USE DEF OthersDocs, DocsOK
<1>k. InvoiceFamily \subseteq IssuedKind /\ "proforma" \in IssuedKind /\ "proforma" \notin StornoableKind
  BY DEF IssuedKind, StornoableKind, InvoiceFamily
<1>i. "invoice" \in IssuedKind /\ "prepayment" \in IssuedKind /\ "final" \in IssuedKind
  BY DEF IssuedKind, StornoableKind, InvoiceFamily
<1>o. \A kind \in IssuedKind : \A n : Own(docs', kind, n) => Own(docs, kind, n) /\ n \in DOMAIN docs
  BY OwnKept, LiveIsOwn
<1>1. NewestLives'
  <2> SUFFICES ASSUME NEW kind \in IssuedKind, NEW m \in DOMAIN docs', NEW n \in DOMAIN docs',
                      Own(docs', kind, m), Own(docs', kind, n), m < n
               PROVE  docs'[m].reversed
    BY DEF NewestLives
  <2>1. docs[m].reversed /\ m \in DOMAIN docs
    BY <1>o DEF Chain, NewestLives
  <2> QED BY <2>1 DEF Kept
<1>2. ProformasStand'
  <2> SUFFICES ASSUME NEW n \in DOMAIN docs', docs'[n].kind = "proforma", docs'[n].reversed
               PROVE  FALSE
    BY DEF ProformasStand
  <2> QED BY <1>k DEF Chain, ProformasStand, Kept, Owned, NoneOwned
<1>3. NoDoubleBilling'
  BY <1>i, QuietStays DEF Chain, NoDoubleBilling
<1>4. FinalSettlesNewestPrepayment'
  <2> SUFFICES ASSUME NEW f \in DOMAIN docs', Live(f, "final")'
               PROVE  \E p \in DOMAIN docs' :
                        /\ <<f, p>> \in refs' /\ p \in Holders(docs', "prepayment", 0)
                        /\ docs'[p].order
                        /\ \A q \in Holders(docs', "prepayment", 0) : docs'[q].order => q <= p
    BY DEF FinalSettlesNewestPrepayment
  <2>1. Live(f, "final") /\ f \in DOMAIN docs
    BY <1>i, <1>o, LiveIsOwn DEF Kept
  <2>2. PICK p \in DOMAIN docs :
               /\ <<f, p>> \in refs /\ p \in Holders(docs, "prepayment", 0) /\ docs[p].order
               /\ \A q \in Holders(docs, "prepayment", 0) : docs[q].order => q <= p
    BY <2>1 DEF Chain, FinalSettlesNewestPrepayment
  <2>3. Own(docs', "prepayment", p) /\ p \in DOMAIN docs'
    BY <1>i, <2>2, OwnKept, LiveIsOwn DEF Own
  <2>4. \A q : Own(docs', "prepayment", q) => q <= p
    BY <1>i, <1>o, <2>2 DEF Own
  <2> QED BY <2>2, <2>3, <2>4 DEF Own
<1>5. CorrectivesHaveBases'
  <2> SUFFICES ASSUME NEW n \in DOMAIN docs', docs'[n].kind = "corrective", docs'[n].by = "worker"
               PROVE  \E m \in DOMAIN docs' :
                        <<n, m>> \in refs' /\ docs'[m].order /\ docs'[m].kind \in InvoiceFamily
    BY DEF CorrectivesHaveBases
  <2>1. n \in DOMAIN docs /\ docs[n].kind = "corrective" /\ docs[n].by = "worker"
    BY DEF Kept
  <2>2. PICK m \in DOMAIN docs :
               <<n, m>> \in refs /\ docs[m].order /\ docs[m].kind \in InvoiceFamily
    BY <2>1 DEF Chain, CorrectivesHaveBases
  <2>3. m \in DOMAIN docs'
    BY Numbers DEF Kept
  <2> QED BY <2>2, <2>3 DEF Kept
<1> QED BY <1>1, <1>2, <1>3, <1>4, <1>5 DEF Chain

\* What an operation has checked stays so while others change documents.
LEMMA CheckedOthers ==
  ASSUME Typed, Chain, Checked, OthersDocs, UNCHANGED <<order, op>>
  PROVE  Checked'
<1>k. InvoiceFamily \subseteq IssuedKind /\ "invoice" \in IssuedKind /\ "prepayment" \in IssuedKind
      /\ "proforma" \in IssuedKind /\ "prepayment" # "proforma" /\ op.kind \in IssuedKind
  BY DEF IssuedKind, StornoableKind, InvoiceFamily, Typed, TypeOK, Operation
<1>s. /\ Going' = Going /\ \A x : Ahead(x)' = Ahead(x)
      /\ op' = op /\ AutoProforma' = AutoProforma
  BY DEF Going, Ahead, AutoProforma, MaxDocs
<1>d. docs \in Seq(Document(Issuer)) /\ docs' \in Seq(Document(Issuer)) /\ Kept(docs, docs')
      /\ NoneOwned(docs, docs')
  BY DEF OthersDocs, DocsOK
<1>1. TargetChecked'
  BY <1>k, <1>s, QuietStays DEF Checked, TargetChecked
<1>2. OthersChecked'
  <2> SUFFICES ASSUME Going', NEW kind \in InvoiceFamily, Excludes(op.kind, kind)', ~Ahead(kind)'
               PROVE  ~SomeLive(kind)'
    BY DEF OthersChecked
  <2>1. ~SomeLive(kind)
    BY <1>s DEF Checked, OthersChecked, Excludes
  <2> QED BY <1>k, <2>1, QuietStays
<1>3. SettlesChecked'
  <2> SUFFICES ASSUME Going', op'.kind = "final", ~Ahead("settles")'
               PROVE  /\ ~SomeLive("invoice")'
                      /\ Own(docs', "prepayment", op'.prepayment)
                      /\ \A q \in DOMAIN docs' : Own(docs', "prepayment", q) => q <= op'.prepayment
    BY DEF SettlesChecked
  <2>1. /\ ~SomeLive("invoice") /\ Own(docs, "prepayment", op.prepayment)
        /\ \A q \in DOMAIN docs : Own(docs, "prepayment", q) => q <= op.prepayment
    BY <1>s DEF Checked, SettlesChecked
  <2>2. ~SomeLive("invoice")'
    BY <1>k, <2>1, QuietStays
  <2>3. Own(docs', "prepayment", op'.prepayment)
    BY <1>k, <1>s, <1>d, <2>1, OwnKept
  <2>4. \A q : Own(docs', "prepayment", q) => Own(docs, "prepayment", q) /\ q \in DOMAIN docs
    BY <1>k, <1>d, OwnKept, LiveIsOwn
  <2> QED BY <1>s, <2>1, <2>2, <2>3, <2>4
<1>4. LinkChecked'
  <2> SUFFICES ASSUME Going', LinksProforma(op.kind)', op'.link \in {0, AutoProforma'}, ~Ahead("link")',
                      NEW n \in DOMAIN docs', Own(docs', "proforma", n)
               PROVE  n = op'.proforma
    BY DEF LinkChecked
  <2>1. Own(docs, "proforma", n) /\ n \in DOMAIN docs
    BY <1>k, <1>d, OwnKept, LiveIsOwn
  <2> QED BY <1>s, <2>1 DEF Checked, LinkChecked, LinksProforma
<1>5. BaseChecked'
  <2>1. DOMAIN docs \subseteq DOMAIN docs'
    BY <1>d, Numbers DEF Kept
  <2> QED BY <1>s, <1>d, <2>1 DEF Checked, BaseChecked, Kept
<1> QED BY <1>1, <1>2, <1>3, <1>4, <1>5 DEF Checked

-----------------------------------------------------------------------------
(* Reads.                                                                  *)

\* A slot that is not live when it is read has no live document: the newest
\* hides none.
LEMMA NotLiveIsQuiet ==
  ASSUME Typed, NewestLives, NEW kind \in IssuedKind, NotLive(kind)
  PROVE  ~SomeLive(kind)
<1> SUFFICES ASSUME NEW m \in DOMAIN docs, Live(m, kind) PROVE FALSE
  BY DEF SomeLive
<1>1. Own(docs, kind, m) /\ ~docs[m].reversed /\ m \in Holders(docs, kind, 0)
  BY LiveIsOwn DEF Own
<1>2. PICK n \in DOMAIN docs : SeenReversed(docs, kind, n)
  BY <1>1 DEF NotLive, SeenAbsent
<1>3. Own(docs, kind, n) /\ docs[n].reversed /\ m <= n
  BY <1>1, <1>2 DEF SeenReversed, ByExternalId, Newest, Own
<1>4. m < n
  <2>1. m \in Nat /\ n \in Nat
    BY Numbers DEF Typed, TypeOK
  <2>2. m # n
    BY <1>1, <1>3
  <2> QED BY <2>1, <2>2, <1>3
<1> QED BY <1>1, <1>3, <1>4 DEF NewestLives

\* So has the target when it is as the caller expects.
LEMMA TargetIsQuiet ==
  ASSUME Typed, NewestLives, NEW kind \in IssuedKind, NEW expected \in Number,
         TargetAsExpected(docs, kind, expected)
  PROVE  ~SomeLive(kind)
<1>1. NotLive(kind)
  BY DEF TargetAsExpected, NotLive, SeenReversed, ByExternalId, Newest, Holders, Visible
<1> QED BY <1>1, NotLiveIsQuiet

\* Without a change of documents the chain is as it was.
LEMMA ChainSame ==
  ASSUME Chain, UNCHANGED <<docs, refs>>
  PROVE  Chain'
BY DEF Chain, NewestLives, ProformasStand, NoDoubleBilling, FinalSettlesNewestPrepayment,
       CorrectivesHaveBases, SomeLive, Live, Own

\* An operation that ends leaves nothing to be checked.
LEMMA IdleChecked ==
  ASSUME op' = Idle
  PROVE  Checked'
BY DEF Idle, Checked, TargetChecked, OthersChecked, SettlesChecked, LinkChecked, BaseChecked, Going

\* What the read of a step establishes.
Reads1 ==
  /\ Head(op.todo) = "target" => ~SomeLive(op.kind)
  /\ \A kind \in InvoiceFamily : Head(op.todo) = kind => ~SomeLive(kind)

Reads2 ==
  IF Head(op.todo) = "settles"
  THEN /\ ~SomeLive("invoice") /\ Own(docs, "prepayment", op'.prepayment)
       /\ \A q \in DOMAIN docs : Own(docs, "prepayment", q) => q <= op'.prepayment
  ELSE op'.prepayment = op.prepayment

Reads3 ==
  IF Head(op.todo) = "link"
  THEN op.link \in {0, AutoProforma} => \A n \in DOMAIN docs : Own(docs, "proforma", n) => n = op'.proforma
  ELSE op'.proforma = op.proforma

Reads4 ==
  Head(op.todo) = "base" =>
    op.base \in DOMAIN docs /\ docs[op.base].order /\ docs[op.base].kind \in InvoiceFamily

\* A read that lets the operation go on adds what it established.
LEMMA ReadKeeps ==
  ASSUME IInv, UNCHANGED <<order, docs, refs>>, op.todo # <<>>, op' \in Operation,
         op'.todo = Tail(op.todo), op'.kind = op.kind, op'.link = op.link, op'.base = op.base,
         Reads1, Reads2, Reads3, Reads4
  PROVE  IInv'
<1> USE DEF IInv
<1>t. op \in Operation /\ op.todo \in Seq(Step) /\ Ends(op.todo)
  BY DEF Typed, TypeOK, Operation, WriteComesLast
<1>g. Going' => Going
  <2> SUFFICES ASSUME Going' PROVE op.todo[1] # "decided"
    BY DEF Going
  <2>1. Tail(op.todo) # <<>>
    BY DEF Going
  <2>2. Len(op.todo) > 1
    BY <1>t, <2>1, TailHas
  <2>3. Head(op.todo) \notin WriteStep
    BY <1>t, <2>2, TailHas
  <2> QED BY <1>t, <2>3, TailHas DEF WriteStep
<1>a. \A x : ~Ahead(x)' => x = Head(op.todo) \/ ~Ahead(x)
  BY <1>t, TailHas DEF Ahead
<1>l. /\ \A kind : SomeLive(kind)' = SomeLive(kind)
      /\ AutoProforma' = AutoProforma
  BY DEF SomeLive, Live, AutoProforma, MaxDocs
<1>1. Typed'
  <2>1. Operation' = Operation /\ Number' = Number /\ MaxDocs' = MaxDocs
    BY DEF MaxDocs, Number, Operation, AutoProforma
  <2>2. Ends(op'.todo)
    BY <1>t, TailHas
  <2> QED BY <2>1, <2>2 DEF Typed, TypeOK, WriteComesLast
<1>2. TargetChecked'
  BY <1>g, <1>a, <1>l DEF Checked, TargetChecked, Reads1
<1>3. OthersChecked'
  BY <1>g, <1>a, <1>l DEF Checked, OthersChecked, Reads1, Excludes
<1>4. SettlesChecked'
  BY <1>g, <1>a, <1>l DEF Checked, SettlesChecked, Reads2
<1>5. LinkChecked'
  BY <1>g, <1>a, <1>l DEF Checked, LinkChecked, Reads3, LinksProforma
<1>6. BaseChecked'
  BY <1>g, <1>a, <1>l DEF Checked, BaseChecked, Reads4
<1> QED BY <1>1, <1>2, <1>3, <1>4, <1>5, <1>6, ChainSame DEF Checked

\* Typing of an operation that goes on.
LEMMA OperationType ==
  ASSUME Typed
  PROVE  /\ op \in Operation /\ op.kind \in IssuedKind /\ op.todo \in Seq(Step)
         /\ op.expected \in Number /\ op.prepayment \in Number /\ op.proforma \in Number
         /\ op.base \in Number /\ Len(docs) \in Nat /\ MaxDocs \in Nat
         /\ \A n \in DOMAIN docs : n \in Number
<1>1. order.docs \in Nat
  BY ChainOrders DEF Typed, TypeOK
<1>2. Len(docs) \in Nat /\ DOMAIN docs = 1..Len(docs) /\ Len(docs) <= MaxDocs
  BY Numbers DEF Typed, TypeOK
<1> QED BY <1>1, <1>2 DEF Typed, TypeOK, Operation, Number, MaxDocs

\* An operation that ends, answered or resolved, leaves the order free.
LEMMA ResolveKeeps ==
  ASSUME IInv, UNCHANGED order, op' = Idle, UNCHANGED <<docs, refs>>
  PROVE  IInv'
<1> USE DEF IInv
<1>1. Operation' = Operation /\ Number' = Number /\ MaxDocs' = MaxDocs
  BY DEF MaxDocs, Number, Operation, AutoProforma
<1>2. Idle \in Operation /\ Idle.todo = <<>>
  BY OperationType DEF Idle, Operation, Number, AutoProforma, IssuedKind, StornoableKind,
     InvoiceFamily
<1>3. Typed'
  BY <1>1, <1>2 DEF Typed, TypeOK, WriteComesLast, Ends
<1> QED BY <1>3, IdleChecked, ChainSame

\* Every read of issue_kind and correct keeps the invariant.
LEMMA ReadsKeep ==
  ASSUME IInv, Reads, UNCHANGED order
  PROVE  IInv'
<1> USE DEF IInv
<1>t. /\ op \in Operation /\ op.kind \in IssuedKind /\ op.todo \in Seq(Step)
      /\ op.expected \in Number /\ \A n \in DOMAIN docs : n \in Number
      /\ NewestLives
  BY OperationType DEF Chain
<1>k. InvoiceFamily \subseteq IssuedKind /\ "proforma" \in IssuedKind
      /\ InvoiceFamily \cap {"target", "settles", "link", "base", "lookup"} = {}
  BY DEF IssuedKind, StornoableKind, InvoiceFamily
<1>p. ASSUME op.todo # <<>>, Proceed
      PROVE  /\ op' \in Operation /\ op'.todo = Tail(op.todo) /\ op'.kind = op.kind
             /\ op'.link = op.link /\ op'.base = op.base /\ op'.prepayment = op.prepayment
             /\ op'.proforma = op.proforma
  BY <1>t, <1>p, TailHas DEF Proceed, Operation
<1>1. CASE Answer
  BY <1>1, ResolveKeeps DEF Answer
<1>2. CASE ReadTarget
  <2>1. op.todo # <<>> /\ Head(op.todo) = "target" /\ Proceed /\ UNCHANGED <<docs, refs>>
        /\ TargetAsExpected(docs, op.kind, op.expected)
    BY <1>2 DEF ReadTarget, At
  <2>2. Reads1
    BY <1>t, <1>k, <2>1, TargetIsQuiet DEF Reads1
  <2>3. Reads2 /\ Reads3 /\ Reads4
    BY <1>p, <2>1 DEF Reads2, Reads3, Reads4
  <2> QED BY <1>p, <2>1, <2>2, <2>3, ReadKeeps
<1>3. ASSUME NEW kind \in InvoiceFamily, ReadOther(kind) PROVE IInv'
  <2>1. op.todo # <<>> /\ Head(op.todo) = kind /\ Proceed /\ UNCHANGED <<docs, refs>>
        /\ NotLive(kind)
    BY <1>3 DEF ReadOther, At
  <2>2. Reads1
    BY <1>t, <1>k, <2>1, NotLiveIsQuiet DEF Reads1
  <2>3. Reads2 /\ Reads3 /\ Reads4
    BY <1>p, <1>k, <2>1 DEF Reads2, Reads3, Reads4
  <2> QED BY <1>p, <2>1, <2>2, <2>3, ReadKeeps
<1>4. CASE ReadPrepayment
  <2>1. op.todo # <<>> /\ Head(op.todo) = "settles" /\ UNCHANGED <<docs, refs>>
    BY <1>4 DEF ReadPrepayment, At
  <2>2. PICK n \in DOMAIN docs : /\ SeenLive(docs, "prepayment", n)
                                 /\ op' = [op EXCEPT !.todo = Tail(@), !.prepayment = n]
    BY <1>4 DEF ReadPrepayment
  <2>3. /\ op' \in Operation /\ op'.todo = Tail(op.todo) /\ op'.kind = op.kind
        /\ op'.link = op.link /\ op'.base = op.base /\ op'.prepayment = n
        /\ op'.proforma = op.proforma
    BY <1>t, <2>1, <2>2, TailHas DEF Operation
  <2>4. Own(docs, "prepayment", n) /\ Live(n, "prepayment")
        /\ \A q \in DOMAIN docs : Own(docs, "prepayment", q) => q <= n
    BY <2>2 DEF SeenLive, ByExternalId, Newest, Own, Live
  <2>5. ~SomeLive("invoice")
    BY <2>4 DEF Chain, NoDoubleBilling, SomeLive
  <2>6. Reads1 /\ Reads2 /\ Reads3 /\ Reads4
    BY <1>k, <2>1, <2>3, <2>4, <2>5 DEF Reads1, Reads2, Reads3, Reads4
  <2> QED BY <2>1, <2>3, <2>6, ReadKeeps
<1>5. CASE ReadLink
  <2>1. op.todo # <<>> /\ Head(op.todo) = "link" /\ UNCHANGED <<docs, refs>>
    BY <1>5 DEF ReadLink, At
  <2>2. Reads1 /\ Reads4
    BY <1>k, <2>1 DEF Reads1, Reads4
  <2>3. CASE NoOwnLink /\ Proceed
    <3>1. \A n \in DOMAIN docs : ~Own(docs, "proforma", n)
      BY <1>k, <2>3, NotLiveIsQuiet, LiveIsOwn DEF NoOwnLink, SomeLive, Chain, ProformasStand, Own, Holders
    <3>2. Reads2 /\ Reads3
      BY <1>p, <2>1, <2>3, <3>1 DEF Reads2, Reads3
    <3> QED BY <1>p, <2>1, <2>2, <2>3, <3>2, ReadKeeps
  <2>4. ASSUME NEW n \in DOMAIN docs, OwnLink(n) \/ NamedLink(n),
               op' = [op EXCEPT !.todo = Tail(@), !.proforma = n]
        PROVE  IInv'
    <3>1. /\ op' \in Operation /\ op'.todo = Tail(op.todo) /\ op'.kind = op.kind
          /\ op'.link = op.link /\ op'.base = op.base /\ op'.prepayment = op.prepayment
          /\ op'.proforma = n
      BY <1>t, <2>1, <2>4, TailHas DEF Operation
    <3>2. ASSUME op.link \in {0, AutoProforma}, NEW m \in DOMAIN docs, Own(docs, "proforma", m)
          PROVE  m = n
      <4>1. OwnLink(n)
        <5>1. n \in 1..Len(docs) /\ Len(docs) <= MaxDocs /\ MaxDocs \in Nat /\ Len(docs) \in Nat
          BY OperationType, Numbers DEF Typed, TypeOK
        <5>2. n # 0 /\ n # AutoProforma
          BY <5>1 DEF AutoProforma
        <5> QED BY <2>4, <3>2, <5>2 DEF NamedLink
      <4>2. Own(docs, "proforma", n) /\ m <= n
        BY <3>2, <4>1 DEF OwnLink, SeenLive, ByExternalId, Newest, Own
      <4>3. ~docs[m].reversed
        BY <3>2 DEF Chain, ProformasStand, Own, Holders
      <4>4. ~(m < n)
        BY <1>k, <3>2, <4>2, <4>3 DEF Chain, NewestLives
      <4>5. m \in Nat /\ n \in Nat
        BY Numbers DEF Typed, TypeOK
      <4> QED BY <4>2, <4>4, <4>5
    <3>3. Reads2 /\ Reads3
      BY <2>1, <3>1, <3>2 DEF Reads2, Reads3
    <3> QED BY <2>1, <2>2, <3>1, <3>3, ReadKeeps
  <2> QED BY <1>5, <2>3, <2>4 DEF ReadLink
<1>6. CASE ReadBase
  <2>1. op.todo # <<>> /\ Head(op.todo) = "base" /\ Proceed /\ UNCHANGED <<docs, refs>>
        /\ Base(op.base)
    BY <1>6 DEF ReadBase, At
  <2>2. Reads1 /\ Reads2 /\ Reads3
    BY <1>p, <1>k, <2>1 DEF Reads1, Reads2, Reads3
  <2>3. Reads4
    BY <2>1 DEF Reads4, Base, Visible
  <2> QED BY <1>p, <2>1, <2>2, <2>3, ReadKeeps
<1>7. CASE Lookup
  <2>1. op.todo # <<>> /\ Head(op.todo) = "lookup" /\ Proceed /\ UNCHANGED <<docs, refs>>
    BY <1>7 DEF Lookup, At
  <2>2. Reads1 /\ Reads2 /\ Reads3 /\ Reads4
    BY <1>p, <1>k, <2>1 DEF Reads1, Reads2, Reads3, Reads4
  <2> QED BY <1>p, <2>1, <2>2, ReadKeeps
<1> QED BY <1>1, <1>2, <1>3, <1>4, <1>5, <1>6, <1>7 DEF Reads

\* An operation begins with every read ahead of it.
LEMMA BeginKeeps ==
  ASSUME IInv, UNCHANGED order, NEW kind \in CreateKind, NEW expected \in Number,
         NEW link \in 0..AutoProforma, NEW base \in Number, Begin(kind, expected, link, base)
  PROVE  IInv'
<1> USE DEF IInv
<1>k. kind \in IssuedKind
  BY ChainOrders DEF CreateKind, Typed, TypeOK
<1>1. /\ op' = [Idle EXCEPT !.kind = kind, !.expected = expected, !.link = link, !.base = base,
                             !.todo = Steps(kind)]
      /\ UNCHANGED <<docs, refs>>
  BY DEF Begin
<1>2. op'.todo = Steps(kind) /\ op'.kind = kind
  BY <1>1 DEF Idle
<1>3. /\ Steps(kind) \in Seq(Step) /\ Ends(Steps(kind)) /\ Ahead("target")'
      /\ \A other : Excludes(kind, other) => Ahead(other)'
      /\ kind = "final" => Ahead("settles")'
      /\ LinksProforma(kind) => Ahead("link")'
      /\ kind = "corrective" => Ahead("base")'
  BY <1>k, <1>2, StepsType DEF Ahead
<1>4. Typed'
  <2>1. Operation' = Operation /\ Number' = Number /\ MaxDocs' = MaxDocs
    BY DEF MaxDocs, Number, Operation, AutoProforma
  <2>2. op' \in Operation
    <3>1. 0 \in Number
      BY OperationType DEF Number
    <3>2. op' = [kind |-> kind, expected |-> expected, link |-> link, base |-> base,
                 todo |-> Steps(kind), proforma |-> 0, prepayment |-> 0]
      BY <1>1 DEF Idle
    <3> QED BY <1>k, <1>3, <3>1, <3>2 DEF Operation
  <2> QED BY <1>1, <1>2, <1>3, <2>1, <2>2 DEF Typed, TypeOK, WriteComesLast
<1>5. Checked'
  BY <1>2, <1>3 DEF Checked, TargetChecked, OthersChecked, SettlesChecked, LinkChecked, BaseChecked,
                    Excludes, LinksProforma
<1> QED BY <1>1, <1>4, <1>5, ChainSame

\* With one step left nothing else is ahead.
LEMMA NothingAhead ==
  ASSUME Typed, op.todo # <<>>, Head(op.todo) \in WriteStep
  PROVE  op.todo[1] = Head(op.todo) /\ \A x : x # Head(op.todo) => ~Ahead(x)
<1>1. op.todo \in Seq(Step) /\ Ends(op.todo)
  BY DEF Typed, TypeOK, Operation, WriteComesLast
<1>2. Len(op.todo) = 1 /\ Head(op.todo) = op.todo[1] /\ DOMAIN op.todo = 1..Len(op.todo)
  BY <1>1, TailHas
<1> QED BY <1>2 DEF Ahead, Has

\* The request goes out with every check behind it.
LEMMA SubmitKeeps ==
  ASSUME IInv, UNCHANGED order, Submit
  PROVE  IInv'
<1> USE DEF IInv
<1>1. op.todo # <<>> /\ Head(op.todo) = "write" /\ op' = [op EXCEPT !.todo = <<"sent">>]
      /\ UNCHANGED <<docs, refs>>
  BY DEF Submit, At
<1>2. op.todo[1] = "write" /\ \A x : x # "write" => ~Ahead(x)
  BY <1>1, NothingAhead DEF WriteStep
<1>3. Going
  BY <1>1, <1>2 DEF Going
<1>4. /\ op' \in Operation /\ op'.todo = <<"sent">> /\ op'.kind = op.kind
      /\ op'.link = op.link /\ op'.base = op.base /\ op'.prepayment = op.prepayment
      /\ op'.proforma = op.proforma
  <2>1. <<"sent">> \in Seq(Step)
    BY DEF Step
  <2> QED BY <1>1, <2>1, OperationType DEF Operation
<1>5. Typed'
  <2>1. Operation' = Operation /\ Number' = Number /\ MaxDocs' = MaxDocs
    BY DEF MaxDocs, Number, Operation, AutoProforma
  <2>2. Ends(<<"sent">>)
    BY DEF Ends
  <2> QED BY <1>1, <1>4, <2>1, <2>2 DEF Typed, TypeOK, WriteComesLast
<1>6. /\ \A kind : SomeLive(kind)' = SomeLive(kind)
      /\ AutoProforma' = AutoProforma /\ docs' = docs
  BY <1>1 DEF SomeLive, Live, AutoProforma, MaxDocs
<1>7. TargetChecked' /\ OthersChecked'
  <2>1. ~SomeLive(op.kind) /\ \A kind \in InvoiceFamily : Excludes(op.kind, kind) => ~SomeLive(kind)
    BY <1>2, <1>3 DEF Checked, TargetChecked, OthersChecked, InvoiceFamily
  <2> QED BY <1>4, <1>6, <2>1 DEF TargetChecked, OthersChecked, Excludes
<1>8. SettlesChecked'
  BY <1>2, <1>3, <1>4, <1>6 DEF Checked, SettlesChecked
<1>9. LinkChecked'
  BY <1>2, <1>3, <1>4, <1>6 DEF Checked, LinkChecked, LinksProforma
<1>10. BaseChecked'
  BY <1>2, <1>3, <1>4, <1>6 DEF Checked, BaseChecked
<1> QED BY <1>1, <1>5, <1>7, <1>8, <1>9, <1>10, ChainSame DEF Checked


-----------------------------------------------------------------------------
(* The write takes effect.                                                 *)

\* Executing issues one document and converts at most one proforma: the one
\* to be converted, when the order has no other of its own.
LEMMA ExecuteFrame ==
  ASSUME Typed, Execute
  PROVE  /\ docs' \in Seq(Document(Issuer)) /\ Len(docs') <= MaxDocs
         /\ Kept(docs, docs') /\ Issuance(docs, docs', op.kind, "worker")
         /\ LinksProforma(op.kind) /\ (\A n \in DOMAIN docs : Own(docs, "proforma", n) => n = op.proforma)
              => \A n \in DOMAIN docs' : ~Own(docs', "proforma", n)
<1> DEFINE N == Len(docs) + 1
           live == {n \in Visible(docs) : docs[n].kind = "proforma" /\ docs[n].order}
<1>1. PICK gone \in Consumed :
        docs' = Issue(IF gone = 0 THEN docs ELSE Delete(docs, gone), op.kind, "worker")
  BY DEF Execute
<1>2. docs \in Seq(Document(Issuer)) /\ op.kind \in IssuedKind /\ "worker" \in Issuer
      /\ Len(docs) \in Nat /\ Len(docs) < MaxDocs /\ MaxDocs \in Nat
  BY OperationType DEF Typed, TypeOK, Execute, Issuer
<1>3. /\ gone = 0 \/ (gone \in DOMAIN docs /\ docs[gone].kind = "proforma")
      /\ LinksProforma(op.kind) /\ op.proforma \in live => gone = op.proforma
  BY <1>1 DEF Consumed, Visible
<1>4. /\ docs' \in Seq(Document(Issuer)) /\ Kept(docs, docs') /\ Issuance(docs, docs', op.kind, "worker")
      /\ gone # 0 => docs'[gone].gone
  BY <1>1, <1>2, <1>3, IssueKeeps
<1>5. Len(docs') = N /\ DOMAIN docs' = DOMAIN docs \cup {N} /\ N \notin DOMAIN docs /\ docs'[N].kind = op.kind
  BY <1>4 DEF Issuance
<1>6. Len(docs') <= MaxDocs
  BY <1>2, <1>5
<1>7. ASSUME LinksProforma(op.kind), NEW n \in DOMAIN docs', Own(docs', "proforma", n),
             \A m \in DOMAIN docs : Own(docs, "proforma", m) => m = op.proforma
      PROVE  FALSE
  <2>1. n # N /\ n \in DOMAIN docs
    BY <1>5, <1>7 DEF Own, Holders, LinksProforma
  <2>2. Own(docs, "proforma", n)
    BY <1>2, <1>4, <1>7, <2>1, OwnKept DEF IssuedKind
  <2>3. n = op.proforma /\ n \in live
    BY <1>7, <2>1, <2>2 DEF Own, Holders
  <2>4. n # 0
    BY <1>2, <2>1, Numbers
  <2>5. docs'[n].gone
    BY <1>3, <1>4, <1>7, <2>3, <2>4
  <2> QED BY <1>7, <2>5 DEF Own, Holders, Visible
<1> QED BY <1>4, <1>6, <1>7

\* The write keeps the invariant: all its checks still hold.
LEMMA ExecuteKeeps ==
  ASSUME IInv, UNCHANGED order, Execute
  PROVE  IInv'
<1> USE DEF IInv
<1> DEFINE N == Len(docs) + 1
<1>1. op.todo # <<>> /\ Head(op.todo) = "sent" /\ op' = [op EXCEPT !.todo = <<"decided">>]
      /\ refs' = refs \cup {<<N, n>> : n \in {m \in {op.prepayment, op.base} : m # 0}}
  BY DEF Execute, At
<1>2. op.todo[1] = "sent" /\ \A x : x # "sent" => ~Ahead(x)
  BY <1>1, NothingAhead DEF WriteStep
<1>3. Going
  BY <1>1, <1>2 DEF Going
<1>4. /\ docs \in Seq(Document(Issuer)) /\ docs' \in Seq(Document(Issuer))
      /\ Len(docs') <= MaxDocs /\ Len(docs) \in Nat /\ MaxDocs \in Nat
      /\ Kept(docs, docs') /\ Issuance(docs, docs', op.kind, "worker")
  BY ExecuteFrame, OperationType DEF Typed, TypeOK
<1>t. op.kind \in IssuedKind /\ "proforma" \in IssuedKind /\ InvoiceFamily \subseteq IssuedKind
      /\ "invoice" \in IssuedKind /\ "prepayment" \in IssuedKind /\ "final" \in IssuedKind
      /\ "invoice" \in InvoiceFamily /\ "prepayment" \in InvoiceFamily /\ "final" \in InvoiceFamily
  BY OperationType DEF IssuedKind, StornoableKind, InvoiceFamily
<1>5. /\ Len(docs') = N /\ DOMAIN docs' = DOMAIN docs \cup {N} /\ N \notin DOMAIN docs
      /\ docs'[N].kind = op.kind /\ docs'[N].by = "worker"
      /\ Own(docs', op.kind, N) /\ ~docs'[N].reversed
      /\ \A n \in DOMAIN docs : docs'[n].reversed = docs[n].reversed
  BY <1>4 DEF Issuance
<1>6. \A kind \in IssuedKind : \A n \in DOMAIN docs : Own(docs', kind, n) => Own(docs, kind, n)
  BY <1>4, OwnKept
<1>7. \A kind : Own(docs', kind, N) => kind = op.kind
  BY <1>5 DEF Own, Holders
<1>8. \A kind \in IssuedKind : \A n : Live(n, kind)' => (n = N /\ kind = op.kind) \/ Live(n, kind)
  <2> SUFFICES ASSUME NEW kind \in IssuedKind, NEW n, Live(n, kind)', ~(n = N /\ kind = op.kind)
               PROVE  Live(n, kind)
    OBVIOUS
  <2>1. Own(docs', kind, n) /\ ~docs'[n].reversed /\ n \in DOMAIN docs'
    BY LiveIsOwn
  <2>2. n \in DOMAIN docs
    BY <1>5, <1>7, <2>1
  <2> QED BY <1>5, <1>6, <2>1, <2>2, LiveIsOwn
<1>9. \A kind \in IssuedKind : kind # op.kind /\ ~SomeLive(kind) => ~SomeLive(kind)'
  BY <1>8, LiveIsOwn DEF SomeLive
<1>10. ~SomeLive(op.kind) /\ \A kind \in InvoiceFamily : Excludes(op.kind, kind) => ~SomeLive(kind)
  BY <1>2, <1>3 DEF Checked, TargetChecked, OthersChecked, InvoiceFamily
<1>11. Typed'
  <2>1. Operation' = Operation /\ Number' = Number /\ MaxDocs' = MaxDocs
    BY DEF MaxDocs, Number, Operation, AutoProforma
  <2>2. Ends(<<"decided">>) /\ <<"decided">> \in Seq(Step)
    BY DEF Ends, Step
  <2>3. op' \in Operation /\ op'.todo = <<"decided">>
    BY <1>1, <2>2, OperationType DEF Operation
  <2>4. refs' \subseteq Number \X Number
    <3>1. N \in Number /\ op.prepayment \in Number /\ op.base \in Number
      BY <1>4, <1>5, OperationType DEF Number
    <3> QED BY <1>1, <3>1 DEF Typed, TypeOK
  <2> QED BY <1>4, <2>1, <2>2, <2>3, <2>4 DEF Typed, TypeOK, WriteComesLast
<1>12. Checked'
  <2>1. ~Going'
    BY <1>1, OperationType DEF Going, Operation
  <2> QED BY <2>1 DEF Checked, TargetChecked, OthersChecked, SettlesChecked, LinkChecked, BaseChecked
<1>13. NewestLives'
  <2> SUFFICES ASSUME NEW kind \in IssuedKind, NEW m \in DOMAIN docs', NEW n \in DOMAIN docs',
                      Own(docs', kind, m), Own(docs', kind, n), m < n
               PROVE  docs'[m].reversed
    BY DEF NewestLives
  <2>1. m \in DOMAIN docs
    BY <1>4, <1>5, Numbers
  <2>2. Own(docs, kind, m)
    BY <1>6, <2>1
  <2>3. CASE n = N
    BY <1>5, <1>7, <1>10, <2>1, <2>2, <2>3, LiveIsOwn DEF SomeLive
  <2>4. CASE n # N
    BY <1>5, <1>6, <2>1, <2>2, <2>4 DEF Chain, NewestLives
  <2> QED BY <2>3, <2>4
<1>14. ProformasStand'
  BY <1>4, <1>5 DEF Chain, ProformasStand, Kept
<1>15. NoDoubleBilling'
  <2> SUFFICES ASSUME SomeLive("invoice")'
               PROVE  ~SomeLive("prepayment")' /\ ~SomeLive("final")'
    BY DEF NoDoubleBilling
  <2>1. CASE op.kind = "invoice"
    BY <1>t, <1>9, <1>10, <2>1, ExclusiveType
  <2>2. CASE op.kind = "prepayment"
    BY <1>t, <1>9, <1>10, <2>2, ExclusiveType
  <2>3. CASE op.kind = "final"
    <3>1. ~SomeLive("invoice")
      BY <1>2, <1>3, <2>3 DEF Checked, SettlesChecked
    <3> QED BY <1>t, <1>9, <2>3, <3>1
  <2>4. CASE op.kind \notin {"invoice", "prepayment", "final"}
    BY <1>t, <1>9, <2>4 DEF Chain, NoDoubleBilling
  <2> QED BY <2>1, <2>2, <2>3, <2>4
<1>16. FinalSettlesNewestPrepayment'
  <2> SUFFICES ASSUME NEW f \in DOMAIN docs', Live(f, "final")'
               PROVE  \E p \in DOMAIN docs' :
                        /\ <<f, p>> \in refs' /\ p \in Holders(docs', "prepayment", 0)
                        /\ docs'[p].order
                        /\ \A q \in Holders(docs', "prepayment", 0) : docs'[q].order => q <= p
    BY DEF FinalSettlesNewestPrepayment
  <2>1. op.kind # "prepayment"
    <3> SUFFICES ASSUME op.kind = "prepayment" PROVE FALSE
      OBVIOUS
    <3>1. Live(f, "final") /\ f \in DOMAIN docs
      BY <1>t, <1>8, LiveIsOwn
    <3>2. ~SomeLive("final")
      BY <1>t, <1>10, ExclusiveType
    <3> QED BY <3>1, <3>2 DEF SomeLive
  <2>2. \A q : Own(docs', "prepayment", q) => Own(docs, "prepayment", q) /\ q \in DOMAIN docs
    BY <1>t, <1>5, <1>6, <1>7, <2>1, LiveIsOwn
  <2>3. \A p : Own(docs, "prepayment", p) => Own(docs', "prepayment", p) /\ p \in DOMAIN docs'
    BY <1>t, <1>4, OwnKept, LiveIsOwn
  <2>4. CASE f = N
    <3>1. op.kind = "final"
      BY <1>7, <2>4, LiveIsOwn
    <3>2. /\ Own(docs, "prepayment", op.prepayment)
          /\ \A q \in DOMAIN docs : Own(docs, "prepayment", q) => q <= op.prepayment
      BY <1>2, <1>3, <3>1 DEF Checked, SettlesChecked
    <3>3. op.prepayment # 0 /\ <<N, op.prepayment>> \in refs'
      BY <1>1, <1>4, <3>2, LiveIsOwn, Numbers
    <3> QED BY <2>2, <2>3, <2>4, <3>2, <3>3 DEF Own
  <2>5. CASE f # N
    <3>1. Live(f, "final") /\ f \in DOMAIN docs
      BY <1>t, <1>8, <2>5, LiveIsOwn
    <3>2. PICK p \in DOMAIN docs :
                 /\ <<f, p>> \in refs /\ p \in Holders(docs, "prepayment", 0) /\ docs[p].order
                 /\ \A q \in Holders(docs, "prepayment", 0) : docs[q].order => q <= p
      BY <3>1 DEF Chain, FinalSettlesNewestPrepayment
    <3>3. Own(docs', "prepayment", p) /\ p \in DOMAIN docs' /\ <<f, p>> \in refs'
      BY <1>1, <2>3, <3>2 DEF Own
    <3> QED BY <2>2, <3>2, <3>3 DEF Own
  <2> QED BY <2>4, <2>5
<1>17. CorrectivesHaveBases'
  <2> SUFFICES ASSUME NEW n \in DOMAIN docs', docs'[n].kind = "corrective", docs'[n].by = "worker"
               PROVE  \E m \in DOMAIN docs' :
                        <<n, m>> \in refs' /\ docs'[m].order /\ docs'[m].kind \in InvoiceFamily
    BY DEF CorrectivesHaveBases
  <2>1. CASE n = N
    <3>1. op.base \in DOMAIN docs /\ docs[op.base].order /\ docs[op.base].kind \in InvoiceFamily
      BY <1>2, <1>3, <1>5, <2>1 DEF Checked, BaseChecked
    <3>2. op.base # 0 /\ <<N, op.base>> \in refs'
      BY <1>1, <1>4, <3>1, Numbers
    <3> QED BY <1>4, <1>5, <2>1, <3>1, <3>2 DEF Kept
  <2>2. CASE n # N
    <3>1. n \in DOMAIN docs /\ docs[n].kind = "corrective" /\ docs[n].by = "worker"
      BY <1>4, <1>5, <2>2 DEF Kept
    <3>2. PICK m \in DOMAIN docs :
                 <<n, m>> \in refs /\ docs[m].order /\ docs[m].kind \in InvoiceFamily
      BY <3>1 DEF Chain, CorrectivesHaveBases
    <3> QED BY <1>1, <1>4, <1>5, <3>2 DEF Kept
  <2> QED BY <2>1, <2>2
<1> QED BY <1>11, <1>12, <1>13, <1>14, <1>15, <1>16, <1>17 DEF Chain

-----------------------------------------------------------------------------
(* The invariant and the theorems.                                         *)

\* It holds of an order without documents.
LEMMA InitKeeps == Init => IInv
<1> SUFFICES ASSUME Init PROVE IInv
  OBVIOUS
<1>1. order.docs \in Nat
  BY ChainOrders DEF Init
<1>2. Idle \in Operation /\ Idle.todo = <<>>
  BY <1>1 DEF Idle, Operation, Number, AutoProforma, MaxDocs, IssuedKind, StornoableKind,
     InvoiceFamily
<1>3. docs = <<>> /\ refs = {} /\ op = Idle /\ order \in Orders
  BY DEF Init
<1>4. Typed
  BY <1>1, <1>2, <1>3 DEF Typed, TypeOK, WriteComesLast, Ends, MaxDocs
<1>5. Chain
  BY <1>3 DEF Chain, NewestLives, ProformasStand, NoDoubleBilling, SomeLive,
     FinalSettlesNewestPrepayment, CorrectivesHaveBases
<1>6. Checked
  BY <1>2, <1>3 DEF Checked, TargetChecked, OthersChecked, SettlesChecked, LinkChecked, BaseChecked,
     Going
<1> QED BY <1>4, <1>5, <1>6 DEF IInv

\* Every step keeps it.
LEMMA NextKeeps ==
  ASSUME IInv, Next, UNCHANGED order
  PROVE  IInv'
<1>1. CASE Outside
  <2>1. OthersDocs /\ UNCHANGED <<refs, op>>
    BY <1>1, OutsideFrame DEF IInv
  <2>2. Typed'
    <3>1. Operation' = Operation /\ Number' = Number /\ MaxDocs' = MaxDocs
      BY DEF MaxDocs, Number, Operation, AutoProforma
    <3> QED BY <2>1, <3>1 DEF IInv, Typed, TypeOK, WriteComesLast, OthersDocs, DocsOK
  <2> QED BY <2>1, <2>2, ChainOthers, CheckedOthers DEF IInv
<1>2. CASE Write
  BY <1>2, SubmitKeeps, ExecuteKeeps, ResolveKeeps DEF Write, Resolve
<1> QED BY <1>1, <1>2, BeginKeeps, ReadsKeep DEF Next

(***************************************************************************)
(* The inductive invariant holds of every order, whatever kinds it creates *)
(* and however many documents it has.                                      *)
(***************************************************************************)
THEOREM ChainInvariance == Spec => []IInv
<1>1. IInv /\ UNCHANGED <<order, vars>> => IInv'
  <2> SUFFICES ASSUME IInv, UNCHANGED <<order, docs, refs, op>> PROVE IInv'
    BY DEF vars
  <2>1. Operation' = Operation /\ Number' = Number /\ MaxDocs' = MaxDocs /\ AutoProforma' = AutoProforma
    BY DEF MaxDocs, Number, Operation, AutoProforma
  <2>2. Typed'
    BY <2>1 DEF IInv, Typed, TypeOK, WriteComesLast
  <2>3. Checked'
    BY <2>1 DEF IInv, Checked, TargetChecked, OthersChecked, SettlesChecked, LinkChecked, BaseChecked,
       Going, Ahead, Excludes, SomeLive, Live, LinksProforma
  <2> QED BY <2>2, <2>3, ChainSame DEF IInv
<1>2. IInv /\ [Next /\ UNCHANGED order]_<<order, vars>> => IInv'
  BY <1>1, NextKeeps
<1> QED BY InitKeeps, <1>2, PTL DEF Spec

(***************************************************************************)
(* Every reachable state of an order's chain is well typed: an operation   *)
(* names only documents and proformas there are numbers for.               *)
(***************************************************************************)
THEOREM ChainTypeCorrect == Spec => []TypeOK
<1>1. IInv => TypeOK
  BY DEF IInv, Typed
<1> QED BY <1>1, ChainInvariance, PTL

(***************************************************************************)
(* exclusivity: however its reads, its late request and everyone else's    *)
(* reversals and documents interleave, the worker never has an order under *)
(* a live invoice and a live prepayment or final invoice.                  *)
(***************************************************************************)
THEOREM NeverBilledTwice == Spec => []NoDoubleBilling
<1>1. IInv => NoDoubleBilling
  BY DEF IInv, Chain
<1> QED BY <1>1, ChainInvariance, PTL

(***************************************************************************)
(* prepayment_for_final: the prepayment a live final invoice settles is    *)
(* still the newest of the order.                                          *)
(***************************************************************************)
THEOREM FinalAlwaysSettles == Spec => []FinalSettlesNewestPrepayment
<1>1. IInv => FinalSettlesNewestPrepayment
  BY DEF IInv, Chain
<1> QED BY <1>1, ChainInvariance, PTL

(***************************************************************************)
(* decide_base: every corrective the worker issues corrects an invoice of  *)
(* the order.                                                              *)
(***************************************************************************)
THEOREM CorrectivesAlwaysBased == Spec => []CorrectivesHaveBases
<1>1. IInv => CorrectivesHaveBases
  BY DEF IInv, Chain
<1> QED BY <1>1, ChainInvariance, PTL

\* A document of the worker appears when its write executes, with every read
\* of the operation behind it.
LEMMA WorkerIssues ==
  ASSUME IInv, [Next /\ UNCHANGED order]_<<order, vars>>, NEW n \in DOMAIN docs' \ DOMAIN docs,
         docs'[n].by = "worker"
  PROVE  /\ Execute /\ docs'[n].kind = op.kind /\ op.kind \in IssuedKind
         /\ Going /\ \A x : x # "sent" => ~Ahead(x)
<1>1. ~Outside
  BY OutsideFrame DEF IInv, OthersDocs, vars
<1>2. Execute
  BY <1>1 DEF Next, Begin, Reads, Write, Answer, ReadTarget, ReadOther, ReadPrepayment, ReadLink,
              ReadBase, Lookup, Submit, Resolve, vars
<1>3. op.todo # <<>> /\ Head(op.todo) = "sent"
  BY <1>2 DEF Execute, At
<1>4. op.todo[1] = "sent" /\ \A x : x # "sent" => ~Ahead(x)
  BY <1>3, NothingAhead DEF WriteStep, IInv
<1>5. docs'[n].kind = op.kind /\ op.kind \in IssuedKind
  BY <1>2, ExecuteFrame, OperationType DEF IInv, Issuance
<1> QED BY <1>2, <1>3, <1>4, <1>5 DEF Going

(***************************************************************************)
(* exclusivity of a proforma: none is issued beside a live invoice,        *)
(* prepayment or final invoice.                                            *)
(***************************************************************************)
THEOREM ProformaAlwaysFirst == Spec => ProformaComesFirst
<1> DEFINE A == \A n \in DOMAIN docs' \ DOMAIN docs :
                  docs'[n].by = "worker" /\ docs'[n].kind = "proforma" =>
                    ~\E kind \in InvoiceFamily : SomeLive(kind)
<1>1. IInv /\ [Next /\ UNCHANGED order]_<<order, vars>> => [A]_vars
  <2> SUFFICES ASSUME IInv, [Next /\ UNCHANGED order]_<<order, vars>>,
                      NEW n \in DOMAIN docs' \ DOMAIN docs, docs'[n].by = "worker",
                      docs'[n].kind = "proforma", NEW kind \in InvoiceFamily
               PROVE  ~SomeLive(kind)
    OBVIOUS
  <2>1. op.kind = "proforma" /\ op.kind \in IssuedKind /\ Going /\ ~Ahead(kind)
    BY WorkerIssues DEF InvoiceFamily
  <2>2. Excludes(op.kind, kind)
    BY <2>1, ExclusiveType
  <2> QED BY <2>1, <2>2 DEF IInv, Checked, OthersChecked
<1> QED BY <1>1, ChainInvariance, PTL DEF Spec, ProformaComesFirst

(***************************************************************************)
(* proforma_link: an invoice or prepayment that links the order's proforma *)
(* or none leaves no proforma of the worker behind.                        *)
(***************************************************************************)
THEOREM ProformaAlwaysConverted == Spec => OwnProformaIsConverted
<1> DEFINE A == \A n \in DOMAIN docs' \ DOMAIN docs :
                  docs'[n].by = "worker" /\ LinksProforma(docs'[n].kind)
                    /\ op.link \in {0, AutoProforma} =>
                    ~\E d \in Holders(docs', "proforma", 0) : docs'[d].order
<1>1. IInv /\ [Next /\ UNCHANGED order]_<<order, vars>> => [A]_vars
  <2> SUFFICES ASSUME IInv, [Next /\ UNCHANGED order]_<<order, vars>>,
                      NEW n \in DOMAIN docs' \ DOMAIN docs, docs'[n].by = "worker",
                      LinksProforma(docs'[n].kind), op.link \in {0, AutoProforma},
                      NEW d \in Holders(docs', "proforma", 0), docs'[d].order
               PROVE  FALSE
    OBVIOUS
  <2>1. Execute /\ LinksProforma(op.kind) /\ Going /\ ~Ahead("link")
    BY WorkerIssues
  <2>2. \A m \in DOMAIN docs : Own(docs, "proforma", m) => m = op.proforma
    BY <2>1 DEF IInv, Checked, LinkChecked
  <2>3. Own(docs', "proforma", d) /\ d \in DOMAIN docs'
    BY DEF Own, Holders, Visible
  <2> QED BY <2>1, <2>2, <2>3, ExecuteFrame DEF IInv
<1> QED BY <1>1, ChainInvariance, PTL DEF Spec, OwnProformaIsConverted
=============================================================================
