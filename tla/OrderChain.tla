----------------------------- MODULE OrderChain -----------------------------
(***************************************************************************)
(* How one order's documents depend on each other: the reads that          *)
(* issue_kind and correct take, one journaled step at a time, before they  *)
(* write, and what they conclude from each, under retained execution.      *)
(*                                                                         *)
(* Operations are one at a time and a write that was submitted is the only *)
(* one until it is resolved: that is what OrderWrite implements and        *)
(* UnresolvedOrder states.  Between any two steps anyone may reverse, delete *)
(* or issue documents.                                                     *)
(***************************************************************************)
EXTENDS Szamlazz

CONSTANT Orders \* the kinds created under an order, with a bound on its documents

ASSUME ChainOrders == Orders \subseteq [kinds : SUBSET IssuedKind, docs : Nat]

VARIABLES
  order, \* what the callers of this order create; it does not change
  docs, \* the service's documents
  refs, \* <<n, m>>: n was issued settling prepayment m, or correcting invoice m
  op    \* the running operation

vars == <<docs, refs, op>>

CreateKind == order.kinds
MaxDocs == order.docs

Step == {"target", "invoice", "prepayment", "final", "settles", "link", "base", "lookup", "write",
         "sent", "decided"}

\* Document numbers; 0 is none.
Number == 0..MaxDocs

\* options.proforma: 0 is none, AutoProforma is auto, another number names a proforma.
AutoProforma == MaxDocs + 1

Operation ==
  [kind : IssuedKind, expected : Number, link : 0..AutoProforma, base : Number, todo : Seq(Step),
   proforma : Number, prepayment : Number]

Idle ==
  [kind |-> "invoice", expected |-> 0, link |-> 0, base |-> 0, todo |-> <<>>,
   proforma |-> 0, prepayment |-> 0]

Issuer == {"worker", "outside"}

TypeOK ==
  /\ order \in Orders
  /\ docs \in Seq(Document(Issuer))
  /\ refs \subseteq (Number \X Number)
  /\ op \in Operation

Init == order \in Orders /\ docs = <<>> /\ refs = {} /\ op = Idle

-----------------------------------------------------------------------------
(* The tables.                                                             *)

\* Variant: an invoiced order still gets a proforma.
ExclusiveWithoutInvoiced(kind) ==
  CASE kind = "invoice"    -> <<"prepayment", "final">>
    [] kind = "prepayment" -> <<"invoice", "final">>
    [] kind = "proforma"   -> <<"prepayment", "final">>
    [] OTHER               -> <<>>

\* Variant: an invoice is refused by the settled chain only.
ExclusiveWithoutPrepaid(kind) ==
  CASE kind = "invoice"    -> <<"final">>
    [] kind = "prepayment" -> <<"invoice", "final">>
    [] kind = "proforma"   -> <<"invoice", "prepayment", "final">>
    [] OTHER               -> <<>>

\* The kinds whose live document refuses a create.
ExclusiveWith(kind) ==
  CASE kind = "invoice"    -> <<"prepayment", "final">>
    [] kind = "prepayment" -> <<"invoice", "final">>
    [] kind = "proforma"   -> <<"invoice", "prepayment", "final">>
    [] OTHER               -> <<>>

LinksProforma(kind) == kind \in {"invoice", "prepayment"}

\* The steps of issue_kind, and of correct, in order.
Steps(kind) ==
  <<"target">> \o ExclusiveWith(kind)
    \o (IF kind = "final" THEN <<"settles">> ELSE <<>>)
    \o (IF LinksProforma(kind) THEN <<"link">> ELSE <<>>)
    \o (IF kind = "corrective" THEN <<"base">> ELSE <<>>)
    \o <<"lookup", "write">>

-----------------------------------------------------------------------------
(* Operations.                                                             *)

\* prepare: the option applies to kinds that convert a proforma; the target of
\* a reissue is named; a corrective has no reissue.
Begin(kind, expected, link, base) ==
  /\ op = Idle
  /\ ~LinksProforma(kind) => link = AutoProforma
  /\ kind = "corrective" => expected = 0
  /\ kind # "corrective" => base = 0
  /\ op' = [Idle EXCEPT !.kind = kind, !.expected = expected, !.link = link, !.base = base,
                        !.todo = Steps(kind)]
  /\ UNCHANGED <<docs, refs>>

At(step) == op.todo # <<>> /\ Head(op.todo) = step

\* The read lets the operation go on.
Proceed == op' = [op EXCEPT !.todo = Tail(@)]

\* Any step before the send may end the operation: the answer is in the
\* documents (a conflict, already issued, reversed), or the read failed.
Answer ==
  /\ op.todo # <<>> /\ Head(op.todo) \notin {"sent", "decided"}
  /\ op' = Idle
  /\ UNCHANGED <<docs, refs>>

\* existing_target
ReadTarget ==
  /\ At("target")
  /\ TargetAsExpected(docs, op.kind, op.expected)
  /\ Proceed
  /\ UNCHANGED <<docs, refs>>

\* The slot of a kind holds nothing, or a reversed document of the order.  A
\* colliding holder may hide a live document and refuses as well.
NotLive(kind) == SeenAbsent(docs, kind) \/ \E n \in DOMAIN docs : SeenReversed(docs, kind, n)

\* exclusivity
ReadOther(kind) ==
  /\ At(kind)
  /\ NotLive(kind)
  /\ Proceed
  /\ UNCHANGED <<docs, refs>>

\* Variant: the prepayment is looked up by the order number.
ReadPrepaymentOfOrder ==
  /\ At("settles")
  /\ \E n \in Visible(docs) :
       /\ docs[n].order /\ docs[n].kind = "prepayment" /\ ~docs[n].reversed
       /\ op' = [op EXCEPT !.todo = Tail(@), !.prepayment = n]
  /\ UNCHANGED <<docs, refs>>

\* prepayment_for_final
ReadPrepayment ==
  /\ At("settles")
  /\ \E n \in DOMAIN docs :
       /\ SeenLive(docs, "prepayment", n)
       /\ op' = [op EXCEPT !.todo = Tail(@), !.prepayment = n]
  /\ UNCHANGED <<docs, refs>>

\* Under auto and none the order's own proforma is looked up.
OwnLink(n) == op.link = AutoProforma /\ SeenLive(docs, "proforma", n)

NoOwnLink == op.link \in {0, AutoProforma} /\ NotLive("proforma")

\* A named proforma must be one of this order.
NamedLink(n) ==
  op.link = n /\ n \in Visible(docs) /\ docs[n].order /\ docs[n].kind = "proforma"

\* Variant: none does not look for a live proforma.
ReadLinkUnlooked ==
  /\ At("link")
  /\ \/ (op.link = 0 \/ NoOwnLink) /\ Proceed
     \/ \E n \in DOMAIN docs : /\ OwnLink(n) \/ NamedLink(n)
                               /\ op' = [op EXCEPT !.todo = Tail(@), !.proforma = n]
  /\ UNCHANGED <<docs, refs>>

\* Variant: the option is passed on in place of the proforma's number.
ReadLinkUnresolved ==
  /\ At("link")
  /\ \/ NoOwnLink /\ Proceed
     \/ \E n \in DOMAIN docs : /\ OwnLink(n) \/ NamedLink(n)
                               /\ op' = [op EXCEPT !.todo = Tail(@), !.proforma = op.link]
  /\ UNCHANGED <<docs, refs>>

\* proforma_link: a live own proforma is refused under none.
ReadLink ==
  /\ At("link")
  /\ \/ NoOwnLink /\ Proceed
     \/ \E n \in DOMAIN docs : /\ OwnLink(n) \/ NamedLink(n)
                               /\ op' = [op EXCEPT !.todo = Tail(@), !.proforma = n]
  /\ UNCHANGED <<docs, refs>>

\* Variant: the base's type is not checked.
BaseUntyped(n) == n \in Visible(docs) /\ docs[n].order /\ ~docs[n].reversed

\* decide_base
Base(n) ==
  n \in Visible(docs) /\ docs[n].order /\ ~docs[n].reversed /\ docs[n].kind \in InvoiceFamily

ReadBase ==
  /\ At("base")
  /\ Base(op.base)
  /\ Proceed
  /\ UNCHANGED <<docs, refs>>

(***************************************************************************)
(* lookup_step: the target again.  The order-number hint is read besides   *)
(* and a foreign invoice under it ends the operation, which is Answer; a   *)
(* hint that cannot be read does not, so nothing here rests on it.         *)
(***************************************************************************)
Lookup ==
  /\ At("lookup")
  /\ TargetAsExpected(docs, op.kind, op.expected)
  /\ Proceed
  /\ UNCHANGED <<docs, refs>>

-----------------------------------------------------------------------------
(* The write, as UnresolvedOrder sees it.                                  *)

\* The write run's leading query passes and the request is sent.
Submit ==
  /\ At("write")
  /\ TargetAsExpected(docs, op.kind, op.expected)
  /\ op' = [op EXCEPT !.todo = <<"sent">>]
  /\ UNCHANGED <<docs, refs>>

(***************************************************************************)
(* Issuing an invoice or a prepayment converts a proforma of the order,    *)
(* which disappears: the one it names or, if it names none, any.  A        *)
(* reference to a vanished proforma is dropped, and another may be linked. *)
(***************************************************************************)
Consumed ==
  LET live == {n \in Visible(docs) : docs[n].kind = "proforma" /\ docs[n].order} IN
  CASE ~LinksProforma(op.kind) -> {0}
    [] LinksProforma(op.kind) /\ op.proforma \in live -> {op.proforma}
    [] OTHER -> IF live = {} \/ op.proforma # 0 THEN live \cup {0} ELSE live

\* The request takes effect, however late.
Execute ==
  /\ At("sent") /\ Len(docs) < MaxDocs
  /\ \E gone \in Consumed :
       docs' = Issue(IF gone = 0 THEN docs ELSE Delete(docs, gone), op.kind, "worker")
  /\ refs' = refs \cup {<<Len(docs) + 1, n>> :
                          n \in {m \in {op.prepayment, op.base} : m # 0}}
  /\ op' = [op EXCEPT !.todo = <<"decided">>]

\* The write is resolved, executed or not, and the order is free again.
Resolve ==
  /\ At("sent") \/ At("decided")
  /\ op' = Idle
  /\ UNCHANGED <<docs, refs>>

-----------------------------------------------------------------------------
(* Everyone else.  The order's own storno_invoice and delete_proforma have *)
(* the same effects and are serialized, so they are among these.           *)

Storno(n, ext) ==
  /\ n \in Visible(docs) /\ docs[n].kind \in StornoableKind /\ ~docs[n].reversed
  /\ Len(docs) < MaxDocs
  /\ docs' = Reverse(docs, n, ext, "outside")
  /\ UNCHANGED <<refs, op>>

DeleteProforma(n) ==
  /\ n \in Visible(docs) /\ docs[n].kind = "proforma"
  /\ docs' = Delete(docs, n)
  /\ UNCHANGED <<refs, op>>

\* A document of this order without an external id, or of another order under
\* an external id of this one.
OutsideIssue(kind, collides) ==
  /\ Len(docs) < MaxDocs
  /\ docs' = Append(docs, [kind |-> kind, of |-> 0, ext |-> collides, order |-> ~collides,
                           reversed |-> FALSE, gone |-> FALSE, by |-> "outside"])
  /\ UNCHANGED <<refs, op>>

Reads ==
  \/ Answer \/ ReadTarget \/ (\E kind \in InvoiceFamily : ReadOther(kind))
  \/ ReadPrepayment \/ ReadLink \/ ReadBase \/ Lookup

Write == Submit \/ Execute \/ Resolve

Outside ==
  \/ \E n \in DOMAIN docs : (\E ext \in BOOLEAN : Storno(n, ext)) \/ DeleteProforma(n)
  \/ \E kind \in CreateKind, collides \in BOOLEAN : OutsideIssue(kind, collides)

Next ==
  \/ \E kind \in CreateKind, expected \in Number, link \in 0..AutoProforma, base \in Number :
       Begin(kind, expected, link, base)
  \/ Reads \/ Write \/ Outside

Spec == Init /\ [][Next /\ UNCHANGED order]_<<order, vars>>

-----------------------------------------------------------------------------
(* Properties.                                                             *)

\* n is the worker's live document of a kind.
Live(n, kind) ==
  n \in Holders(docs, kind, 0) /\ docs[n].order /\ ~docs[n].reversed

SomeLive(kind) == \E n \in DOMAIN docs : Live(n, kind)

(***************************************************************************)
(* The order is never billed twice: the worker's live invoice never stands *)
(* beside its live prepayment or final invoice, whatever is reversed,      *)
(* hidden behind a colliding id or issued late.                            *)
(***************************************************************************)
NoDoubleBilling == SomeLive("invoice") => ~SomeLive("prepayment") /\ ~SomeLive("final")

(***************************************************************************)
(* A live final invoice settles the order's newest prepayment: no later    *)
(* prepayment is ever left outside it.                                     *)
(***************************************************************************)
FinalSettlesNewestPrepayment ==
  \A f \in DOMAIN docs : Live(f, "final") =>
    \E p \in DOMAIN docs :
      /\ <<f, p>> \in refs /\ p \in Holders(docs, "prepayment", 0) /\ docs[p].order
      /\ \A q \in Holders(docs, "prepayment", 0) : docs[q].order => q <= p

(***************************************************************************)
(* The worker issues no proforma once the order is invoiced.               *)
(***************************************************************************)
ProformaComesFirst ==
  [][\A n \in DOMAIN docs' \ DOMAIN docs :
       docs'[n].by = "worker" /\ docs'[n].kind = "proforma" =>
         ~\E kind \in InvoiceFamily : SomeLive(kind)]_vars

(***************************************************************************)
(* An invoice or prepayment that was to link the order's proforma, or to   *)
(* link none, leaves no live proforma of the worker behind: it is converted *)
(* or was gone, whatever other proformas the order has.                    *)
(***************************************************************************)
OwnProformaIsConverted ==
  [][\A n \in DOMAIN docs' \ DOMAIN docs :
       docs'[n].by = "worker" /\ LinksProforma(docs'[n].kind) /\ op.link \in {0, AutoProforma} =>
         ~\E d \in Holders(docs', "proforma", 0) : docs'[d].order]_vars

(***************************************************************************)
(* A corrective corrects an invoice of this order, never a proforma, a     *)
(* storno, another corrective or another order's document.                 *)
(***************************************************************************)
CorrectivesHaveBases ==
  \A n \in DOMAIN docs : docs[n].kind = "corrective" /\ docs[n].by = "worker" =>
    \E m \in DOMAIN docs :
      <<n, m>> \in refs /\ docs[m].order /\ docs[m].kind \in InvoiceFamily
=============================================================================
