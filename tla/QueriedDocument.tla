--------------------------- MODULE QueriedDocument ---------------------------
(***************************************************************************)
(* What an XML query's document becomes: szamlazz-agent's strict reading of   *)
(* a szamla body (ops/query_xml.rs, the readers of xml.rs), the worker's      *)
(* projection of it (gateway/document.rs), its journal entry, and what        *)
(* Szamlazz.Agent.query answers (contract/agent.rs).                          *)
(*                                                                         *)
(* szamlazz.hu knows the facts of a document (truth) and writes them in any   *)
(* of the forms its schema allows (doc.says).  The body is the tree of blocks *)
(* and leaves of WireDocuments, whose schema tables the query shares with the *)
(* push of an outgoing invoice; any leaf of it, those with the facts          *)
(* included, may be missing, empty or garbled (doc.edits).                    *)
(***************************************************************************)
EXTENDS Integers, WireDocuments

CONSTANTS Types,        \* tipus tokens of an instance
          Orders,       \* the order a document carries: "mine", "another", "none"
          Forms,        \* "paper", "electronic", "none", "unknown"
          MaxForms,     \* facts of a body that are in another than their usual form
          MaxEdits      \* how far a body departs from a complete document

Tokens == {"SZ", "D", "ES", "VS", "HS", "SS", "SL", "X"}

TypesAssumption == Types \subseteq Tokens
OrdersAssumption == Orders \subseteq {"mine", "another", "none"}
FormsAssumption == Forms \subseteq {"paper", "electronic", "none", "unknown"}
EditsAssumption == {MaxForms, MaxEdits} \subseteq Nat

VARIABLES truth,    \* the facts of the document
          doc,      \* the body of the answer
          read,     \* "unread"; "refused" or "read" by szamlazz-agent; "unidentified" to the worker
          entry,    \* the journal entry of the worker's projection
          found     \* the FoundDocument a handler works with

vars == <<truth, doc, read, entry, found>>

\* An Option: None is the empty set.
None == {}
Some(x) == {x}

\* The members that are neither an Option nor a list, once their parent is there.
RequiredBlocks == {"szallito", "alap", "vevo", "tetelek", "osszegek", "szallito_cim", "totalossz"}

-----------------------------------------------------------------------------
(* The readers of xml.rs, module de *)

Unsaid == {"absent", "empty"}

Required(text, values) == IF text \in values THEN text ELSE "error"

Optional(text, values) == IF text \in Unsaid THEN "none" ELSE Required(text, values)

\* string: any String.  text: business_text, blank is none.  number: decimal,
\* i64 and from_text.  optional_number: optional_decimal and empty_as_none.
Read(reader, text) ==
  CASE reader = "string" -> IF text = "absent" THEN "error" ELSE text
    [] reader = "text" -> IF text \in Unsaid THEN "none" ELSE text
    [] reader = "number" -> Required(text, {"good", "negative"})
    [] reader = "optional_number" -> Optional(text, {"good", "negative"})
    [] reader = "date" -> Required(text, {"good"})
    [] reader \in {"optional_date", "optional_boolean", "pdf"} -> Optional(text, {"good"})
    [] reader = "lenient_date" -> IF text = "good" THEN text ELSE "none"

\* boolean_token: xs:boolean's four spellings.  Any other text is an error, which
\* refuses the body (Read's optional_boolean), so no other token gets here.
BooleanToken(token) ==
  CASE token \in {"true", "1"} -> TRUE [] token \in {"false", "0"} -> FALSE

\* optional_flexible_bool: an absent or empty element is none.
OptionalFlexibleBool(token) ==
  IF token \in Unsaid THEN None ELSE Some(BooleanToken(token))

\* From<&str> for DocumentType: an unknown token is kept.
DocumentType(token) ==
  CASE token = "SZ" -> "Invoice" [] token = "D" -> "Proforma"
    [] token = "ES" -> "Prepayment" [] token = "VS" -> "Final"
    [] token = "HS" -> "Corrective" [] token = "SS" -> "Storno"
    [] token = "SL" -> "DeliveryNote" [] OTHER -> token

\* DocumentType::as_wire
AsWire(type) ==
  CASE type = "Invoice" -> "SZ" [] type = "Proforma" -> "D"
    [] type = "Prepayment" -> "ES" [] type = "Final" -> "VS"
    [] type = "Corrective" -> "HS" [] type = "Storno" -> "SS"
    [] type = "DeliveryNote" -> "SL" [] OTHER -> type

\* From<i64> for InvoiceAppearance
Appearance(code) ==
  CASE code = 0 -> "NotInvoice" [] code = 1 -> "Paper" [] code \in {2, 3} -> "Electronic"
    [] OTHER -> "Unknown"

-----------------------------------------------------------------------------
(* The query's answer *)

\* The number a handler looks for: that of the invoice it reverses or corrects.
Target == "target"

\* number, refers, proforma: szamlaszam, hivszamlaszam and hivdijbekszam.  A
\* document may name itself.
Truths ==
  [type : Types, reversed : BOOLEAN, test : BOOLEAN, order : Orders, form : Forms,
   number : {Target, "own"}, refers : {Target, "elsewhere", "none"},
   proforma : {"converted", "none"}]

\* A reversal is marked; a document that is not reversed may say so or not.
ReversedTokens(reversed) ==
  IF reversed THEN {"true", "1"} ELSE {"absent", "empty", "false", "0"}

\* teszt is mandatory and may all the same be left out.
TestTokens(test) ==
  (IF test THEN {"true", "1"} ELSE {"false", "0"}) \cup Unsaid

\* szamlazz.hu matches order numbers without their surrounding blanks.
OrderTexts(order) ==
  CASE order = "mine" -> {"mine", " mine "} [] order = "another" -> {"another", " another "}
    [] order = "none" -> {"absent", "empty", "blank"}

\* The eszamla code of a form.
Codes(form) ==
  CASE form = "none" -> {"0"} [] form = "paper" -> {"1"} [] form = "electronic" -> {"2", "3"}
    [] form = "unknown" -> {"4"}

Reference(number) == IF number = "none" THEN Unsaid ELSE {number}

Renderings(t) ==
  [tipus : {t.type}, sztornozott : ReversedTokens(t.reversed), teszt : TestTokens(t.test),
   rendelesszam : OrderTexts(t.order), eszamla : Codes(t.form), szamlaszam : {t.number},
   hivszamlaszam : Reference(t.refers), hivdijbekszam : Reference(t.proforma)]

\* The usual forms.
Usual ==
  [tipus |-> Tokens, sztornozott |-> {"absent", "true"}, teszt |-> {"true", "false"},
   rendelesszam |-> {"absent", "mine", "another"}, eszamla |-> {"0", "1", "2", "4"},
   szamlaszam |-> {Target, "own"}, hivszamlaszam |-> {Target, "elsewhere", "absent"},
   hivdijbekszam |-> {"converted", "absent"}]

Unusual(says) == {name \in DOMAIN Usual : says[name] \notin Usual[name]}

\* The leaves of alap the worker decides on.
Facts == {"tipus", "eszamla", "sztornozott", "teszt", "rendelesszam", "szamlaszam",
          "hivszamlaszam", "hivdijbekszam"}

Edited(name) == <<"alap", name>> \in DOMAIN doc.edits

\* The text of such a leaf.
Text(name) == IF Edited(name) THEN doc.edits[<<"alap", name>>] ELSE doc.says[name]

Leaves == Schema["szamla"]

Value(block, name) == Read(SzamlaXml[block][name], Lexeme(doc, block, name))

\* A missing required member or one unreadable leaf refuses the body, PDF included.
Parse ==
  IF \/ \E block \in RequiredBlocks :
          Above("szamla", block) \cap doc.dropped = {} /\ ~Present(doc, block)
     \/ \E block \in DOMAIN SzamlaXml : \E name \in DOMAIN SzamlaXml[block] :
          Present(doc, block) /\ Value(block, name) = "error"
  THEN "refused" ELSE "read"

-----------------------------------------------------------------------------
(* FoundDocument *)

Trim(text) == CASE text = " mine " -> "mine" [] text = " another " -> "another" [] OTHER -> text

\* business_text, then trim and filter: blank is none.
OrderNumber(text) ==
  IF text \in {"absent", "empty", "blank"} THEN None ELSE Some(Trim(text))

\* A number is kept as it is written, its blanks included.
EmptyInvoiceNumber(text) == IF text \in Unsaid THEN None ELSE Some(text)

\* The code of an integer text; an unknown one is kept.
Code(text) ==
  CASE text = "0" -> 0 [] text = "1" -> 1 [] text = "2" -> 2 [] text = "3" -> 3
    [] text = "4" -> 4 [] text = "negative" -> -1

\* The fields the handlers decide on: document_id, the dates, the currency, the
\* totals and the credit entries are repeated and not decided on here.
FoundDocument ==
  [number : {Target, "own"} \cup Lexemes,
   document_type : {DocumentType(token) : token \in Tokens \cup Lexemes},
   order_number : SUBSET (Orders \cup Lexemes),
   reversed : SUBSET BOOLEAN, test : SUBSET BOOLEAN, appearance : -1..4,
   referenced_invoice_number : SUBSET ({Target, "elsewhere"} \cup Lexemes),
   referenced_proforma_number : SUBSET ({"converted"} \cup Lexemes)]

\* From<InvoiceDocument> for FoundDocument
Project ==
  [number |-> Text("szamlaszam"),
   document_type |-> DocumentType(Text("tipus")),
   order_number |-> OrderNumber(Text("rendelesszam")),
   reversed |-> OptionalFlexibleBool(Text("sztornozott")),
   test |-> OptionalFlexibleBool(Text("teszt")),
   referenced_invoice_number |-> EmptyInvoiceNumber(Text("hivszamlaszam")),
   referenced_proforma_number |-> EmptyInvoiceNumber(Text("hivdijbekszam")),
   appearance |-> Code(Text("eszamla"))]

\* FoundDocument::validate_identity: a number, and the one asked for, if one was.
ValidIdentity(number, expected) == number # "empty" /\ (expected # None => expected = Some(number))

\* What is journaled and read back: the type as its wire token, eszamla as its code.
Encode(f) == [f EXCEPT !.document_type = AsWire(@)]

Decode(e) == [e EXCEPT !.document_type = DocumentType(@)]

is_live(f) == f.reversed # Some(TRUE)

is_storno_of(f, number) ==
  /\ f.number # "empty" /\ f.number # number
  /\ f.document_type = "Storno" /\ f.referenced_invoice_number = Some(number)

is_corrective_of(f, number) ==
  f.document_type = "Corrective" /\ f.referenced_invoice_number = Some(number)

is_invoice_family(f) == f.document_type \in {"Invoice", "Prepayment", "Final"}

is_stornoable(f) == is_invoice_family(f) \/ f.document_type = "Corrective"

e_invoice(f) ==
  CASE Appearance(f.appearance) = "Paper" -> Some(FALSE)
    [] Appearance(f.appearance) = "Electronic" -> Some(TRUE)
    [] OTHER -> None

carries_order(f, order) == f.order_number = Some(order)

\* IssuedKind::document_type
IssuedType(kind) ==
  CASE kind = "proforma" -> "Proforma" [] kind = "prepayment" -> "Prepayment"
    [] kind = "final" -> "Final" [] kind = "invoice" -> "Invoice"
    [] kind = "corrective" -> "Corrective"

is_ours(f, order, kind) == carries_order(f, order) /\ f.document_type = IssuedType(kind)

\* From<&FoundDocument> for QueryResponse
Response(f) ==
  [invoice_number |-> f.number, document_type |-> AsWire(f.document_type),
   reversed |-> f.reversed, test |-> f.test, order_number |-> f.order_number,
   referenced_invoice_number |-> f.referenced_invoice_number,
   referenced_proforma_number |-> f.referenced_proforma_number]

-----------------------------------------------------------------------------
Init ==
  /\ truth \in Truths
  /\ doc \in {[kind |-> "szamla", dropped |-> {}, edits |-> << >>, says |-> s] :
                s \in {r \in Renderings(truth) : Cardinality(Unusual(r)) <= MaxForms}}
  /\ read = "unread" /\ entry = None /\ found = None

Edits == Cardinality(doc.dropped) + Cardinality(DOMAIN doc.edits)

\* Bounds of Vary: a fact's leaf is varied under the usual form of the facts, the
\* rest of the body under one document.  What is read of a leaf depends on neither.
Sample ==
  truth = [type |-> "SZ", reversed |-> FALSE, test |-> FALSE, order |-> "mine", form |-> "paper",
           number |-> "own", refers |-> "none", proforma |-> "none"]

\* The body departs from a complete document in one place more: a fact's leaf is
\* missing, empty or garbled, or the rest of the body is.
Vary ==
  /\ read = "unread" /\ Edits < MaxEdits
  /\ Unusual(doc.says) = {}
  /\ \/ \E block \in Blocks("szamla") \ doc.dropped :
          Sample /\ doc' = [doc EXCEPT !.dropped = @ \cup {block}]
     \/ \E block \in DOMAIN Leaves :
          \E name \in DOMAIN Leaves[block], text \in Lexemes \ {"good"} :
            /\ <<block, name>> \notin DOMAIN doc.edits
            /\ Sample \/ (block = "alap" /\ name \in Facts)
            /\ doc' = [doc EXCEPT !.edits = @ ++ All({<<block, name>>}, text)]
  /\ UNCHANGED <<truth, read, entry, found>>

\* QueryInvoiceXml::parse
Receive ==
  /\ read = "unread"
  /\ read' = Parse
  /\ UNCHANGED <<truth, doc, entry, found>>

\* query_projected: the selector is a number or it is not.  A document without
\* the identity it should have is a Transport error and no evidence; otherwise
\* the run that queried records the projection, and the handler goes on with it.
Record ==
  /\ read = "read" /\ entry = None
  /\ \E expected \in {None, Some(Target)} :
       IF ValidIdentity(Text("szamlaszam"), expected)
       THEN found' = Some(Project) /\ entry' = Some(Encode(Project)) /\ UNCHANGED read
       ELSE read' = "unidentified" /\ UNCHANGED <<entry, found>>
  /\ UNCHANGED <<truth, doc>>

\* The invocation is replayed: the handler has what the journal holds.
Replay ==
  /\ entry # None
  /\ found' = {Decode(e) : e \in entry}
  /\ UNCHANGED <<truth, doc, read, entry>>

Next == Vary \/ Receive \/ Record \/ Replay

Spec == Init /\ [][Next]_vars

-----------------------------------------------------------------------------
(* Properties *)

\* A projection exists only for a body that was read, and replay gives back the
\* projection the first execution worked with (the journal rule of FoundDocument).
TypeOK ==
  /\ truth \in Truths /\ read \in {"unread", "refused", "read", "unidentified"}
  /\ found \subseteq FoundDocument
  /\ found # None => read = "read" /\ found = Some(Project)

\* Everything szamlazz.hu may answer under its schema is read: strictness never
\* costs the worker the evidence of a document that is there.  (The schema
\* calls the PDF a string; one that is not base64 is refused.)
ConformingIsRead ==
  read = "refused" =>
    ~Conforms(doc) \/ Lexeme(doc, "root", "pdf") \notin {"absent", "empty", "good"}

\* A garbled value is never taken for an absent one: in a document that was
\* read, a leaf with text has a value, and so have the reversal, the test mark,
\* the order and the references a handler works with.  The worker decides on
\* what is not said, so a lenient reader would invent facts.
GarbledIsNotAbsent ==
  /\ read \in {"read", "unidentified"} =>
       \A block \in DOMAIN SzamlaXml : \A name \in DOMAIN SzamlaXml[block] :
         <<block, name>> \in DOMAIN doc.edits /\ Lexeme(doc, block, name) \notin Unsaid =>
           Value(block, name) # "none"
  /\ \A f \in found :
       /\ f.reversed = None => Text("sztornozott") \in Unsaid
       /\ f.test = None => Text("teszt") \in Unsaid
       /\ f.order_number = None => Text("rendelesszam") \in {"absent", "empty", "blank"}
       /\ f.referenced_invoice_number = None => Text("hivszamlaszam") \in Unsaid
       /\ f.referenced_proforma_number = None => Text("hivdijbekszam") \in Unsaid

\* What a handler concludes from a projection.
Conclusions(f) ==
  [reversed |-> ~is_live(f), mine |-> carries_order(f, "mine"),
   storno |-> is_storno_of(f, Target), corrective |-> is_corrective_of(f, Target),
   invoice |-> is_invoice_family(f), stornoable |-> is_stornoable(f),
   prepayment |-> is_ours(f, "mine", "prepayment"),
   electronic |-> e_invoice(f) = Some(TRUE), paper |-> e_invoice(f) = Some(FALSE)]

\* What there is to conclude.  A document that names itself reverses nothing.
Actual ==
  [reversed |-> truth.reversed, mine |-> truth.order = "mine",
   storno |-> truth.type = "SS" /\ truth.refers = Target /\ Text("szamlaszam") # Target,
   corrective |-> truth.type = "HS" /\ truth.refers = Target,
   invoice |-> truth.type \in {"SZ", "ES", "VS"},
   stornoable |-> truth.type \in {"SZ", "ES", "VS", "HS"},
   prepayment |-> truth.order = "mine" /\ truth.type = "ES",
   electronic |-> truth.form = "electronic", paper |-> truth.form = "paper"]

\* What the handlers conclude from a document is what it is, in whichever form
\* szamlazz.hu wrote it and after any number of replays: whether it is reversed,
\* whose order it carries, what it reverses or corrects, what kind it is, and
\* whether its storno must be an e-invoice.  Garbled facts may hide a
\* conclusion and never invent one, and no garbled mark makes a reversed
\* document live.
ReadingIsTruth ==
  \A f \in found :
    /\ \A c \in DOMAIN Actual : Conclusions(f)[c] => Actual[c]
    /\ (\A name \in Facts : ~Edited(name)) =>
         \A c \in DOMAIN Actual : Actual[c] => Conclusions(f)[c]
    /\ truth.reversed /\ is_live(f) => Text("sztornozott") \in Unsaid

\* Szamlazz.Agent.query reports the document as szamlazz.hu does: the same
\* number, type token, known to the crate or not, and references; and a test
\* mark or reversal it left out stays left out, never false (the doc of
\* QueryResponse::test).
ResponseReports ==
  \A f \in found :
    LET r == Response(f) IN
    /\ r.invoice_number = Text("szamlaszam") /\ r.document_type = Text("tipus")
    /\ r.test = IF Text("teszt") \in Unsaid THEN None ELSE Some(truth.test)
    /\ r.reversed = IF Text("sztornozott") \in Unsaid THEN None ELSE Some(truth.reversed)
    /\ ~Edited("rendelesszam") =>
         r.order_number = IF truth.order = "none" THEN None ELSE Some(truth.order)
    /\ ~Edited("hivszamlaszam") =>
         r.referenced_invoice_number = IF truth.refers = "none" THEN None ELSE Some(truth.refers)
    /\ ~Edited("hivdijbekszam") =>
         r.referenced_proforma_number
           = IF truth.proforma = "none" THEN None ELSE Some(truth.proforma)
=============================================================================
