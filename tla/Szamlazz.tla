------------------------------ MODULE Szamlazz ------------------------------
(***************************************************************************)
(* The invoicing service as the worker sees it: the documents of one       *)
(* account that matter to one order, the queries the gateway puts to them, *)
(* and the effect of each mutating request.                                *)
(*                                                                         *)
(* docs is a sequence; a document's number is its index, so a larger       *)
(* number is a newer document.  Numbers are never reused: deletion sets    *)
(* gone and hides the document from every query.                           *)
(***************************************************************************)
EXTENDS Integers, Sequences

InvoiceFamily == {"invoice", "prepayment", "final"}

\* Types that a storno can reverse: the invoice family and correctives.
StornoableKind == InvoiceFamily \cup {"corrective"}

IssuedKind == StornoableKind \cup {"proforma"}

(***************************************************************************)
(* ext: the document carries the worker's external id for its kind (for a  *)
(* storno: for its original).  order: it carries this order's number.  A   *)
(* document with ext but not order collides with one of the worker's ids.  *)
(* of: the original of a storno.  by: who caused it (history; no query     *)
(* returns it).                                                            *)
(***************************************************************************)
Document(Issuers) ==
  [kind : IssuedKind \cup {"storno"}, of : Nat, ext : BOOLEAN, order : BOOLEAN,
   reversed : BOOLEAN, gone : BOOLEAN, by : Issuers]

Visible(docs) == {n \in DOMAIN docs : ~docs[n].gone}

Newest(S, n) == n \in S /\ \A m \in S : m <= n

\* The documents under the external id of a kind, or of a number's storno.
Holders(docs, kind, of) ==
  {n \in Visible(docs) : docs[n].ext /\ docs[n].kind = kind /\ docs[n].of = of}

\* A query by external id answers with the newest holder.
ByExternalId(docs, kind, of, n) == Newest(Holders(docs, kind, of), n)

\* A query by order number (the hint) answers with the order's newest document.
Hint(docs, n) == Newest({m \in Visible(docs) : docs[m].order}, n)

-----------------------------------------------------------------------------
(* What the gateway concludes from an external-id query of a slot.         *)

SeenAbsent(docs, kind) == Holders(docs, kind, 0) = {}

SeenLive(docs, kind, n) ==
  ByExternalId(docs, kind, 0, n) /\ docs[n].order /\ ~docs[n].reversed

SeenReversed(docs, kind, n) ==
  ByExternalId(docs, kind, 0, n) /\ docs[n].order /\ docs[n].reversed

(***************************************************************************)
(* The only holder a create may send past: none, or the reversed document  *)
(* its caller named (expected = 0 when no reissue was asked for).          *)
(***************************************************************************)
TargetAsExpected(docs, kind, expected) ==
  IF expected = 0 THEN SeenAbsent(docs, kind) ELSE SeenReversed(docs, kind, expected)

\* n can be reversed by this order.
StornoOriginal(docs, n) ==
  n \in Visible(docs) /\ docs[n].order /\ docs[n].kind \in StornoableKind

\* Candidate c proves the reversal of original n: the storno of n, of this
\* order, beside a fresh read of n as a reversed document of this order.
VerifiedStorno(docs, c, n) ==
  /\ c \in Visible(docs) /\ docs[c].kind = "storno" /\ docs[c].of = n /\ docs[c].order
  /\ StornoOriginal(docs, n) /\ docs[n].reversed

-----------------------------------------------------------------------------
(* Effects.                                                                *)

Issue(docs, kind, issuer) ==
  Append(docs, [kind |-> kind, of |-> 0, ext |-> TRUE, order |-> TRUE,
                reversed |-> FALSE, gone |-> FALSE, by |-> issuer])

\* Reversing marks the original and issues its storno; only a storno sent by
\* the worker carries the worker's external id.
Reverse(docs, n, ext, issuer) ==
  Append([docs EXCEPT ![n].reversed = TRUE],
         [kind |-> "storno", of |-> n, ext |-> ext, order |-> docs[n].order,
          reversed |-> FALSE, gone |-> FALSE, by |-> issuer])

Delete(docs, n) == [docs EXCEPT ![n].gone = TRUE]
=============================================================================
