------------------------------ MODULE Identity ------------------------------
(***************************************************************************)
(* The identities of identity.rs at work: deployments of the worker on one    *)
(* szamlazz.hu account, each under its own namespace, find what they issued   *)
(* by an external id composed of the namespace and what the caller named.     *)
(* Nothing but the alphabets and the length bounds of the parts keeps two      *)
(* compositions apart, within what szamlazz.hu stores, and an order's          *)
(* document recognisable when it is found.                                     *)
(*                                                                         *)
(* A text is its sequence of words between separators, so that joining texts  *)
(* with ':' is concatenation and a text without ':' has one word.  What a      *)
(* word is made of is in the table Words.                                      *)
(***************************************************************************)
EXTENDS Naturals, Sequences, FiniteSets, SequencesExt

CONSTANTS Words,         \* word -> [len, trait, fold, stored]: see WordsAssumption
          RawNamespaces, \* the prefixes operators configure
          RawKeys,       \* the Virtual Object keys callers use
          RawNumbers,    \* the invoice numbers callers name
          RawCorrections,\* the correction ids callers choose
          MaxDocs

Traits == {"lower", "plain", "leading", "nonascii", "decomposed", "space", "control", "nonxml"}

\* len: bytes.  trait: its most particular characters ("lower" is [a-z0-9-],
\* "plain" [A-Za-z0-9._-], "leading" starts with one of "._-").  fold: the word
\* in lower case.  stored: a form in which a server that normalises keeps it.
WordsAssumption ==
  \A w \in DOMAIN Words :
    /\ Words[w].len \in Nat /\ Words[w].trait \in Traits
    /\ Words[w].fold \in DOMAIN Words /\ Words[w].stored \in DOMAIN Words
    /\ Words[w].trait \in {"lower", "plain", "leading", "nonascii"} => Words[w].stored = w

TextsAssumption ==
  /\ RawNamespaces \cup RawKeys \cup RawNumbers \cup RawCorrections
       \subseteq [segs : Seq(DOMAIN Words) \ {<< >>}, padded : BOOLEAN]
  /\ MaxDocs \in Nat

VARIABLES docs,      \* what szamlazz.hu holds, oldest first
          answers    \* what the calls so far were answered

vars == <<docs, answers>>

-----------------------------------------------------------------------------
(* Validation *)

\* The bytes of the words, each by its place.
Bytes(segs) == UNION {{i} \X (1..Words[segs[i]].len) : i \in DOMAIN segs}

\* Bytes of the words and the separators between them.
Length(segs) == Cardinality(Bytes(segs)) + Len(segs) - 1

Has(t, traits) == \E i \in DOMAIN t.segs : Words[t.segs[i]].trait \in traits

Invalid == << >>

\* An alphabet: one word (no ':'), a length, and the traits it may not have.
Bounded(t, max, refused) ==
  /\ Len(t.segs) = 1 /\ ~Has(t, refused)
  /\ Length(t.segs) >= 1 /\ Length(t.segs) <= max

NamespaceMax == 16
OrderKeyMax == 40
CorrectionIdMax == 40
InvoiceNumberMax == 40
ExternalIdMax == 110

\* Variant: an operator's prefix is only bounded.
NamespaceAnyText(t) ==
  IF ~t.padded /\ Length(t.segs) \in 1..NamespaceMax THEN t.segs ELSE Invalid

\* Namespace::validate
Namespace(t) ==
  IF ~t.padded /\ Bounded(t, NamespaceMax, Traits \ {"lower"}) THEN t.segs ELSE Invalid

\* OrderKey::parse, which trims
OrderKeyParse(t) ==
  IF Bounded(t, OrderKeyMax, {"control", "space", "decomposed", "nonxml"})
  THEN t.segs ELSE Invalid

\* support::order_key: the raw key must be trimmed already, since Restate locks on it.
OrderKey(t) == IF t.padded THEN Invalid ELSE OrderKeyParse(t)

\* InvoiceNumber::validate: nothing is trimmed, any normal form
InvoiceNumber(t) ==
  IF ~t.padded /\ Bounded(t, InvoiceNumberMax, {"control", "space", "nonxml"})
  THEN t.segs ELSE Invalid

IssuedKinds == {"proforma", "invoice", "prepayment", "final", "corrective"}
DocumentKinds == IssuedKinds \ {"corrective"}

\* ExternalId::TOKENS, is_token
TOKENS == IssuedKinds \cup {"storno", "by-number", "check-account"}
is_token(w) == Words[w].fold \in TOKENS

TokenLen ==
  [w \in TOKENS |-> CASE w = "proforma" -> 8 [] w = "invoice" -> 7 [] w = "final" -> 5
                      [] w \in {"prepayment", "corrective"} -> 10 [] w = "storno" -> 6
                      [] w = "by-number" -> 9 [] w = "check-account" -> 13]

\* The tokens are words in lower case.
TokensAssumption ==
  \A w \in TOKENS : /\ w \in DOMAIN Words /\ Words[w].len = TokenLen[w]
                    /\ Words[w].trait = "lower" /\ Words[w].fold = w

\* Variant: the bound of a correction id is left to szamlazz.hu.
CorrectionIdUnbounded(t) ==
  IF ~t.padded /\ Bounded(t, 100, Traits \ {"lower", "plain"}) /\ ~is_token(Head(t.segs))
  THEN t.segs ELSE Invalid

\* CorrectionId::validate
CorrectionId(t) ==
  IF ~t.padded /\ Bounded(t, CorrectionIdMax, Traits \ {"lower", "plain"})
     /\ ~is_token(Head(t.segs))
  THEN t.segs ELSE Invalid

-----------------------------------------------------------------------------
(* Composition *)

ForKind(namespace, order, kind) == namespace \o order \o <<kind>>

ForCorrective(namespace, order, id) == namespace \o order \o <<"corrective">> \o id

ForStorno(namespace, order, number) == namespace \o order \o <<"storno">> \o number

ForUnmanagedStorno(namespace, number) == namespace \o <<"by-number">> \o number \o <<"storno">>

ForProbe(namespace) == namespace \o <<"check-account">>

\* ExternalId::namespace
NamespaceOf(id) == <<Head(id)>>

-----------------------------------------------------------------------------
(* szamlazz.hu *)

\* It is not known whether it normalises an order number; an id longer than the
\* verified length is cut.
StoredOrders(segs) == {segs, [i \in DOMAIN segs |-> Words[segs[i]].stored]}
StoredId(id) == IF Length(id) <= ExternalIdMax THEN id ELSE Front(id)

\* A query by external id returns the newest holder.
Holders(id) == {i \in DOMAIN docs : docs[i].id = id}
Newest(id) == docs[CHOOSE i \in Holders(id) : \A j \in Holders(id) : j <= i]

-----------------------------------------------------------------------------
(* The worker *)

Valid(texts, parse(_)) == {t \in texts : parse(t) # Invalid}

\* The deployments that start.
Namespaces == {Namespace(t) : t \in Valid(RawNamespaces, Namespace)}

NoNumber == << >>
NoKey == [segs |-> << >>, padded |-> FALSE]

\* One call: the object it locks, what the caller named, the id it composes, and
\* what a found document must be.
Call(namespace, key, named, id, type, refers) ==
  LET order == IF key = NoKey THEN NoNumber ELSE OrderKey(key) IN
  [object |-> key, id |-> id, type |-> type, order |-> order, refers |-> refers,
   by |-> [namespace |-> namespace, order |-> order, type |-> type, named |-> named]]

KindCalls ==
  {Call(n, t, NoKey, ForKind(n, OrderKey(t), kind), kind, NoNumber) :
     n \in Namespaces, t \in Valid(RawKeys, OrderKey), kind \in DocumentKinds}

CorrectiveCalls ==
  {Call(n, t, c, ForCorrective(n, OrderKey(t), CorrectionId(c)), "corrective", NoNumber) :
     n \in Namespaces, t \in Valid(RawKeys, OrderKey), c \in Valid(RawCorrections, CorrectionId)}

StornoCalls ==
  {Call(n, t, c, ForStorno(n, OrderKey(t), InvoiceNumber(c)), "storno", InvoiceNumber(c)) :
     n \in Namespaces, t \in Valid(RawKeys, OrderKey), c \in Valid(RawNumbers, InvoiceNumber)}

\* Szamlazz.Agent.storno: an original of no order
UnmanagedCalls ==
  {Call(n, NoKey, c, ForUnmanagedStorno(n, InvoiceNumber(c)), "storno", InvoiceNumber(c)) :
     n \in Namespaces, c \in Valid(RawNumbers, InvoiceNumber)}

Calls == KindCalls \cup CorrectiveCalls \cup StornoCalls \cup UnmanagedCalls

\* is_ours for a document of an order, is_storno_of for a reversal.
Ours(doc, call) ==
  /\ doc.type = call.type
  /\ IF call.type = "storno" THEN doc.refers = call.refers ELSE doc.order = call.order

\* The leading query: nothing found, and the document is issued.
Issue(call) ==
  /\ Holders(call.id) = {} /\ Len(docs) < MaxDocs
  /\ \E order \in IF call.order = NoNumber THEN {NoNumber} ELSE StoredOrders(call.order) :
       docs' = Append(docs, [id |-> StoredId(call.id), type |-> call.type, order |-> order,
                             refers |-> call.refers, by |-> call.by,
                             object |-> call.object])
  /\ UNCHANGED answers

\* Found: the call converges on a document that is ours, and answers
\* conflict{external_id_collision} to another.
Find(call) ==
  /\ Holders(call.id) # {}
  /\ answers' = answers \cup
                {IF Ours(Newest(call.id), call) THEN "converged" ELSE "collision"}
  /\ UNCHANGED docs

\* Szamlazz.Agent.check_account
Probe(namespace) ==
  /\ answers' = answers \cup
                {IF Holders(ForProbe(namespace)) = {} THEN "probed" ELSE "probe_found"}
  /\ UNCHANGED docs

Init == docs = << >> /\ answers = {}

Next ==
  \/ \E call \in Calls : Issue(call) \/ Find(call)
  \/ \E namespace \in Namespaces : Probe(namespace)

Spec == Init /\ [][Next]_vars

-----------------------------------------------------------------------------
(* Properties *)

\* Every id is stored whole and names the deployment that issued it
\* (ExternalId::MAX_LEN, ExternalId::namespace).
TypeOK ==
  /\ Len(docs) <= MaxDocs
  /\ answers \subseteq {"converged", "collision", "probed", "probe_found"}
  /\ \A i \in DOMAIN docs :
       Length(docs[i].id) <= ExternalIdMax /\ NamespaceOf(docs[i].id) = docs[i].by.namespace

\* A document found by an external id is the one that was issued for what the
\* caller named: no order, kind, correction, number or deployment reads as
\* another, and a document of an order is recognised however szamlazz.hu keeps
\* its order number.  (Order "by-number" reversing invoice "storno" and the
\* unmanaged storno of it compose one id, and mean one reversal.)
FoundIsOwn ==
  /\ "collision" \notin answers
  /\ docs # << >> => \A call \in Calls : Holders(call.id) # {} =>
       \/ Newest(call.id).by = call.by
       \/ call.type = "storno" /\ Newest(call.id).refers = call.refers

\* What one call issued no other call issues again: each identity has one
\* document, whichever spelling of its key the callers use.
IssuedOnce ==
  \A i, j \in DOMAIN docs :
    i # j => /\ docs[i].by # docs[j].by
             /\ docs[i].type = docs[j].type /\ docs[i].order = docs[j].order
                /\ docs[i].type \in DocumentKinds => docs[i].by.namespace # docs[j].by.namespace

\* Restate locks a Virtual Object on its raw key: two keys that are served are
\* never one order, so no order has two objects working on it at once.
OneObjectPerOrder ==
  \A i, j \in DOMAIN docs :
    docs[i].order # NoNumber /\ docs[i].order = docs[j].order => docs[i].object = docs[j].object

\* The account probe never meets a document.
ProbeFindsNothing == "probe_found" \notin answers
=============================================================================
