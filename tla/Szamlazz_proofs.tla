--------------------------- MODULE Szamlazz_proofs ---------------------------
(***************************************************************************)
(* What the service's effects do to its documents, whoever causes them:    *)
(* the facts the proofs about an order's documents rest on.                *)
(***************************************************************************)
EXTENDS Szamlazz, TLAPS

(***************************************************************************)
(* The documents d become e with nothing lost: every document stays what   *)
(* and whose it was, a reversal or a deletion is never undone, only types  *)
(* a storno exists for are reversed and only proformas are deleted.        *)
(***************************************************************************)
Kept(d, e) ==
  /\ Len(d) <= Len(e)
  /\ \A n \in DOMAIN d :
       /\ e[n].kind = d[n].kind /\ e[n].of = d[n].of /\ e[n].by = d[n].by
       /\ e[n].ext = d[n].ext /\ e[n].order = d[n].order
       /\ d[n].reversed => e[n].reversed
       /\ e[n].reversed => d[n].reversed \/ d[n].kind \in StornoableKind
       /\ d[n].gone => e[n].gone
       /\ e[n].gone => d[n].gone \/ d[n].kind = "proforma"

\* The document carries the external id of its kind and the order's number.
Owned(doc) == doc.ext /\ doc.order /\ doc.kind # "storno"

\* Nothing among the new documents is under an external id of this order.
NoneOwned(d, e) == \A n \in DOMAIN e \ DOMAIN d : ~Owned(e[n])

\* n is a document of this order under the external id of a kind.
Own(d, kind, n) == n \in Holders(d, kind, 0) /\ d[n].order

\* Documents are numbered from one.
LEMMA Numbers ==
  ASSUME NEW Issuers, NEW d \in Seq(Document(Issuers))
  PROVE  /\ DOMAIN d = 1..Len(d) /\ Len(d) \in Nat
         /\ \A n \in DOMAIN d : n \in Nat \ {0} /\ d[n] \in Document(Issuers)
OBVIOUS

(***************************************************************************)
(* Appending a document (an issuance of the worker or of anyone else)      *)
(* touches no other.                                                       *)
(***************************************************************************)
LEMMA AppendKeeps ==
  ASSUME NEW Issuers, NEW d \in Seq(Document(Issuers)), NEW doc \in Document(Issuers)
  PROVE  /\ Append(d, doc) \in Seq(Document(Issuers))
         /\ Len(Append(d, doc)) = Len(d) + 1
         /\ Append(d, doc)[Len(d) + 1] = doc
         /\ \A n \in DOMAIN d : Append(d, doc)[n] = d[n]
         /\ DOMAIN Append(d, doc) = DOMAIN d \cup {Len(d) + 1}
         /\ Len(d) + 1 \notin DOMAIN d
         /\ Kept(d, Append(d, doc))
<1>1. /\ Append(d, doc) \in Seq(Document(Issuers))
      /\ Len(Append(d, doc)) = Len(d) + 1
      /\ Append(d, doc)[Len(d) + 1] = doc
      /\ \A n \in DOMAIN d : Append(d, doc)[n] = d[n]
      /\ Len(d) \in Nat
  OBVIOUS
<1> DEFINE e == Append(d, doc)
<1> HIDE DEF e
<1>2. DOMAIN d = 1..Len(d) /\ DOMAIN e = 1..Len(e) /\ Len(e) = Len(d) + 1
  BY <1>1 DEF e
<1>3. DOMAIN e = DOMAIN d \cup {Len(d) + 1} /\ Len(d) + 1 \notin DOMAIN d
  BY <1>1, <1>2
<1>4. Kept(d, e)
  BY <1>1, <1>2 DEF Kept, e
<1> QED BY <1>1, <1>3, <1>4 DEF e

\* A document that is rewritten in place.
LEMMA UpdateKeeps ==
  ASSUME NEW Issuers, NEW d \in Seq(Document(Issuers)), NEW n \in DOMAIN d,
         NEW doc \in Document(Issuers)
  PROVE  LET e == [d EXCEPT ![n] = doc] IN
         /\ e \in Seq(Document(Issuers)) /\ Len(e) = Len(d) /\ DOMAIN e = DOMAIN d
         /\ e[n] = doc /\ \A m \in DOMAIN d : m # n => e[m] = d[m]
OBVIOUS

(***************************************************************************)
(* Deleting a proforma hides it and touches no other document.             *)
(***************************************************************************)
LEMMA DeleteKeeps ==
  ASSUME NEW Issuers, NEW d \in Seq(Document(Issuers)), NEW n \in DOMAIN d
  PROVE  /\ Delete(d, n) \in Seq(Document(Issuers))
         /\ DOMAIN Delete(d, n) = DOMAIN d /\ Len(Delete(d, n)) = Len(d)
         /\ Delete(d, n)[n].gone
         /\ \A m \in DOMAIN d : m # n => Delete(d, n)[m] = d[m]
         /\ d[n].kind = "proforma" => Kept(d, Delete(d, n))
<1> DEFINE doc == [d[n] EXCEPT !.gone = TRUE]
           e == [d EXCEPT ![n] = doc]
<1>1. d[n] \in Document(Issuers)
  BY Numbers
<1>2. /\ doc \in Document(Issuers) /\ doc.gone
      /\ doc.kind = d[n].kind /\ doc.of = d[n].of /\ doc.by = d[n].by
      /\ doc.ext = d[n].ext /\ doc.order = d[n].order /\ doc.reversed = d[n].reversed
  BY <1>1 DEF Document
<1>3. Delete(d, n) = e
  BY DEF Delete
<1> HIDE DEF doc
<1>4. /\ e \in Seq(Document(Issuers)) /\ Len(e) = Len(d) /\ DOMAIN e = DOMAIN d
      /\ e[n] = doc /\ \A m \in DOMAIN d : m # n => e[m] = d[m]
  BY <1>2, UpdateKeeps
<1> HIDE DEF e
<1>5. d[n].kind = "proforma" => Kept(d, e)
  <2>1. Len(d) <= Len(e)
    BY <1>4, Numbers
  <2> QED BY <1>2, <1>4, <2>1 DEF Kept
<1> QED BY <1>2, <1>3, <1>4, <1>5

\* n is a document a storno can reverse.
Stornoable(d, n) == d[n].kind \in StornoableKind

\* e is d with n reversed and its storno added.
Reversal(d, e, n, ext, by) ==
  /\ Len(e) = Len(d) + 1 /\ DOMAIN e = DOMAIN d \cup {Len(d) + 1} /\ Len(d) + 1 \notin DOMAIN d
  /\ e[n].reversed /\ e[Len(d) + 1].kind = "storno" /\ e[Len(d) + 1].of = n
  /\ e[Len(d) + 1].by = by /\ ~e[Len(d) + 1].reversed
  /\ e[Len(d) + 1].ext = ext /\ e[Len(d) + 1].order = d[n].order /\ ~e[Len(d) + 1].gone
  /\ \A m \in DOMAIN d : m # n => e[m] = d[m]

(***************************************************************************)
(* Reversing marks the original and adds its storno, which is never under  *)
(* the external id of an issued kind.                                      *)
(***************************************************************************)
LEMMA ReverseKeeps ==
  ASSUME NEW Issuers, NEW d \in Seq(Document(Issuers)), NEW n \in DOMAIN d, NEW ext \in BOOLEAN,
         NEW by \in Issuers, NEW e, e = Reverse(d, n, ext, by)
  PROVE  /\ e \in Seq(Document(Issuers))
         /\ Reversal(d, e, n, ext, by)
         /\ NoneOwned(d, e)
         /\ Stornoable(d, n) => Kept(d, e)
<1> DEFINE doc == [d[n] EXCEPT !.reversed = TRUE]
           marked == [d EXCEPT ![n] = doc]
           storno == [kind |-> "storno", of |-> n, ext |-> ext, order |-> d[n].order,
                      reversed |-> FALSE, gone |-> FALSE, by |-> by]
<1>1. d[n] \in Document(Issuers) /\ n \in Nat
  BY Numbers
<1>2. /\ doc \in Document(Issuers) /\ doc.reversed
      /\ doc.kind = d[n].kind /\ doc.of = d[n].of /\ doc.by = d[n].by
      /\ doc.ext = d[n].ext /\ doc.order = d[n].order /\ doc.gone = d[n].gone
  BY <1>1 DEF Document
<1>3. /\ storno \in Document(Issuers) /\ storno.kind = "storno" /\ storno.of = n
      /\ storno.ext = ext /\ storno.order = d[n].order /\ ~storno.gone /\ storno.by = by
      /\ ~storno.reversed
  BY <1>1 DEF Document
<1>4. e = Append(marked, storno)
  BY DEF Reverse
<1> HIDE DEF doc, storno
<1>5. /\ marked \in Seq(Document(Issuers)) /\ Len(marked) = Len(d) /\ DOMAIN marked = DOMAIN d
      /\ marked[n] = doc /\ \A m \in DOMAIN d : m # n => marked[m] = d[m]
  BY <1>2, UpdateKeeps
<1> HIDE DEF marked
<1>6. /\ e \in Seq(Document(Issuers))
      /\ Len(e) = Len(d) + 1 /\ DOMAIN e = DOMAIN d \cup {Len(d) + 1} /\ Len(d) + 1 \notin DOMAIN d
      /\ e[Len(d) + 1] = storno /\ \A m \in DOMAIN d : e[m] = marked[m]
  BY <1>3, <1>4, <1>5, AppendKeeps
<1>7. NoneOwned(d, e)
  BY <1>3, <1>6 DEF NoneOwned, Owned
<1>8. Stornoable(d, n) => Kept(d, e)
  <2>1. Len(d) <= Len(e)
    BY <1>6, Numbers
  <2> QED BY <1>2, <1>5, <1>6, <2>1 DEF Kept, Stornoable
<1>9. Reversal(d, e, n, ext, by)
  BY <1>2, <1>3, <1>5, <1>6 DEF Reversal
<1> QED BY <1>6, <1>7, <1>8, <1>9

\* Nothing lost twice is nothing lost.
LEMMA KeptTransitive ==
  ASSUME NEW Issuers, NEW d \in Seq(Document(Issuers)), NEW e \in Seq(Document(Issuers)),
         NEW f \in Seq(Document(Issuers)), Kept(d, e), Kept(e, f)
  PROVE  Kept(d, f)
<1>1. Len(d) \in Nat /\ Len(e) \in Nat /\ Len(f) \in Nat /\ DOMAIN d = 1..Len(d)
      /\ DOMAIN e = 1..Len(e)
  BY Numbers
<1>2. Len(d) <= Len(f) /\ DOMAIN d \subseteq DOMAIN e
  BY <1>1 DEF Kept
<1> QED BY <1>2 DEF Kept, StornoableKind, InvoiceFamily

\* e is d with a live document of the order's own added, and nothing reversed.
Issuance(d, e, kind, by) ==
  /\ Len(e) = Len(d) + 1 /\ DOMAIN e = DOMAIN d \cup {Len(d) + 1} /\ Len(d) + 1 \notin DOMAIN d
  /\ e[Len(d) + 1].kind = kind /\ e[Len(d) + 1].by = by
  /\ Own(e, kind, Len(d) + 1) /\ ~e[Len(d) + 1].reversed
  /\ \A n \in DOMAIN d : e[n].reversed = d[n].reversed

(***************************************************************************)
(* Issuing adds one document of the order's own and converts at most one   *)
(* proforma.                                                               *)
(***************************************************************************)
LEMMA IssueKeeps ==
  ASSUME NEW Issuers, NEW d \in Seq(Document(Issuers)), NEW kind \in IssuedKind, NEW by \in Issuers,
         NEW gone, gone = 0 \/ (gone \in DOMAIN d /\ d[gone].kind = "proforma"),
         NEW e, e = Issue(IF gone = 0 THEN d ELSE Delete(d, gone), kind, by)
  PROVE  /\ e \in Seq(Document(Issuers)) /\ Kept(d, e) /\ Issuance(d, e, kind, by)
         /\ gone # 0 => e[gone].gone
<1> DEFINE N == Len(d) + 1
           f == IF gone = 0 THEN d ELSE Delete(d, gone)
           doc == [kind |-> kind, of |-> 0, ext |-> TRUE, order |-> TRUE,
                   reversed |-> FALSE, gone |-> FALSE, by |-> by]
<1>1. Len(d) \in Nat
  BY Numbers
<1>2. /\ f \in Seq(Document(Issuers)) /\ Len(f) = Len(d) /\ DOMAIN f = DOMAIN d
      /\ Kept(d, f) /\ \A n \in DOMAIN d : f[n].reversed = d[n].reversed
      /\ gone # 0 => f[gone].gone /\ gone \in DOMAIN d
  <2>1. CASE gone = 0
    BY <1>1, <2>1 DEF Kept
  <2>2. CASE gone # 0
    <3>1. gone \in DOMAIN d /\ d[gone].kind = "proforma" /\ f = Delete(d, gone)
      BY <2>2
    <3>2. d[gone] \in Document(Issuers)
      BY <3>1, Numbers
    <3>3. f[gone].reversed = d[gone].reversed
      BY <3>1, <3>2 DEF Delete, Document
    <3> HIDE DEF f
    <3> QED BY <2>2, <3>1, <3>3, DeleteKeeps
  <2> QED BY <2>1, <2>2
<1>3. e = Append(f, doc)
  BY DEF Issue
<1> HIDE DEF f
<1>4. /\ doc \in Document(Issuers) /\ doc.kind = kind /\ doc.of = 0 /\ doc.ext /\ doc.order
      /\ ~doc.reversed /\ ~doc.gone /\ doc.by = by
  BY DEF Document
<1> HIDE DEF doc
<1>5. /\ e \in Seq(Document(Issuers)) /\ Len(e) = N /\ e[N] = doc
      /\ \A n \in DOMAIN d : e[n] = f[n]
      /\ DOMAIN e = DOMAIN d \cup {N} /\ N \notin DOMAIN d /\ Kept(f, e)
  <2> DEFINE g == Append(f, doc)
  <2>1. f \in Seq(Document(Issuers)) /\ doc \in Document(Issuers)
    BY <1>2, <1>4
  <2>2. /\ g \in Seq(Document(Issuers)) /\ Len(g) = Len(f) + 1 /\ g[Len(f) + 1] = doc
        /\ \A n \in DOMAIN f : g[n] = f[n]
        /\ DOMAIN g = DOMAIN f \cup {Len(f) + 1} /\ Len(f) + 1 \notin DOMAIN f /\ Kept(f, g)
    BY <2>1, AppendKeeps
  <2>3. e = g
    BY <1>3
  <2> HIDE DEF g
  <2> QED BY <1>2, <2>2, <2>3
<1>6. Kept(d, e)
  BY <1>2, <1>5, KeptTransitive
<1>7. Issuance(d, e, kind, by)
  BY <1>2, <1>4, <1>5 DEF Issuance, Own, Holders, Visible
<1> QED BY <1>2, <1>5, <1>6, <1>7

(***************************************************************************)
(* Where nothing of the order's own is added, its own documents are among  *)
(* those it had; only proformas may have left.                             *)
(***************************************************************************)
LEMMA OwnKept ==
  ASSUME NEW Issuers, NEW d \in Seq(Document(Issuers)), NEW e \in Seq(Document(Issuers)),
         Kept(d, e), NEW kind \in IssuedKind, NEW n
  PROVE  /\ n \in DOMAIN d \/ NoneOwned(d, e) => (Own(e, kind, n) => Own(d, kind, n))
         /\ kind # "proforma" => (Own(d, kind, n) => Own(e, kind, n))
<1>1. DOMAIN d \subseteq DOMAIN e
  BY Numbers DEF Kept
<1>2. kind # "storno"
  BY DEF IssuedKind, StornoableKind, InvoiceFamily
<1>3. Own(e, kind, n) => n \in DOMAIN e /\ Owned(e[n])
  BY <1>2 DEF Own, Holders, Visible, Owned
<1>4. NoneOwned(d, e) /\ Own(e, kind, n) => n \in DOMAIN d
  BY <1>3 DEF NoneOwned
<1>5. n \in DOMAIN d /\ Own(e, kind, n) => Own(d, kind, n)
  BY DEF Kept, Own, Holders, Visible
<1>6. kind # "proforma" /\ Own(d, kind, n) => Own(e, kind, n)
  BY <1>1 DEF Kept, Own, Holders, Visible
<1> QED BY <1>4, <1>5, <1>6
=============================================================================
