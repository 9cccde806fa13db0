---------------------------- MODULE PushDocuments ----------------------------
(***************************************************************************)
(* What szamlazz-adatkapcsolat makes of a pushed document's content         *)
(* (document.rs): the lenient parse that may refuse a body's shape and       *)
(* never its content, and the strict one that adds the schema's demands.     *)
(***************************************************************************)
EXTENDS WireDocuments

CONSTANTS Kinds,        \* the streams of an instance
          MaxEdits      \* how far a body departs from a complete document

KindsAssumption == Kinds \subseteq AllKinds
MaxEditsAssumption == MaxEdits \in Nat

VARIABLES doc, parsed, strict

vars == <<doc, parsed, strict>>

-----------------------------------------------------------------------------
(* The readers of document.rs, module de *)

\* Variant: a date that is not one is an error.
ReadStrictDates(reader, text) ==
  CASE reader = "identity" -> IF text \in {"good", "negative"} THEN text ELSE "error"
    [] reader = "name" -> IF text = "absent" THEN "error" ELSE "good"
    [] reader = "number" ->
         IF text = "junk" THEN "error" ELSE IF text \in {"absent", "empty"} THEN "none" ELSE text
    [] reader = "boolean" ->
         IF text \in {"absent", "empty"} THEN "none" ELSE IF text = "good" THEN "good" ELSE "error"
    [] reader \in {"date", "pdf"} ->
         IF text \in {"absent", "empty"} THEN "none" ELSE IF text = "good" THEN "good" ELSE "error"
    [] reader = "text" -> IF text = "absent" THEN "none" ELSE "good"
    [] reader = "nonblank" -> IF text \in {"absent", "empty"} THEN "none" ELSE "good"
    [] reader = "direction" ->
         IF text \in {"absent", "empty"} THEN "none" ELSE IF text = "good" THEN "good" ELSE "other"

\* identity: an i64 without a default.  name: a String without one.  number:
\* empty_as_none over WireNumber; "good" is a finite decimal.  boolean:
\* opt_flexible_bool.  date: opt_xs_date, never an error.  pdf: base64_pdf, never
\* one either.  text: a plain optional string, empty if the element is.
\* nonblank: empty_string_as_none.  direction: opt_transaction_direction, an
\* unknown token kept as Other.
Read(reader, text) ==
  CASE reader = "identity" -> IF text \in {"good", "negative"} THEN text ELSE "error"
    [] reader = "name" -> IF text = "absent" THEN "error" ELSE "good"
    [] reader = "number" ->
         IF text = "junk" THEN "error" ELSE IF text \in {"absent", "empty"} THEN "none" ELSE text
    [] reader = "boolean" ->
         IF text \in {"absent", "empty"} THEN "none" ELSE IF text = "good" THEN "good" ELSE "error"
    [] reader \in {"date", "pdf"} -> IF text = "good" THEN "good" ELSE "none"
    [] reader = "text" -> IF text = "absent" THEN "none" ELSE "good"
    [] reader = "nonblank" -> IF text \in {"absent", "empty"} THEN "none" ELSE "good"
    [] reader = "direction" ->
         IF text \in {"absent", "empty"} THEN "none" ELSE IF text = "good" THEN "good" ELSE "other"

\* The value a leaf has in the parsed document; an element no struct names is
\* ignored.
Value(d, block, name) ==
  IF block \in DOMAIN Layout[d.kind] /\ name \in DOMAIN Layout[d.kind][block]
  THEN Read(Layout[d.kind][block][name], Lexeme(d, block, name))
  ELSE "none"

\* A struct is deserialized unless it belongs to a list that is empty.
Deserialized(d, block) == d.kind = "xmlnyugtaarchiv" => "nyugta" \notin d.dropped

\* Document::parse_identified: one unreadable leaf refuses the whole body.
Parse(d) ==
  IF \E block \in DOMAIN Layout[d.kind] : \E name \in DOMAIN Layout[d.kind][block] :
       Deserialized(d, block) /\ Value(d, block, name) = "error"
  THEN "refused" ELSE "read"

-----------------------------------------------------------------------------
(* validate, per kind *)

ItemRequired ==
  {"nev", "mennyiseg", "mennyisegiegyseg", "nettoegysegar", "afakulcs", "netto", "afa",
   "brutto", "sztetordering"}

TotalRequired(block) == {"netto", "afa", "brutto"} \cup
                        (IF block = "afakulcsossz" THEN {"afakulcs"} ELSE {})

\* Only an outgoing invoice's buyer carries privatePersonIndicator.
BuyerRequired(kind) ==
  {"nev", "adoszam", "lokacio"} \cup (IF kind = "szamla" THEN {"privatePersonIndicator"} ELSE {})

\* InvoiceDocument::validate, with validate_address and validate_totals.
InvoiceRequired(kind, block) ==
  CASE block = "alap" ->
         {"gazdEsemAzon", "tipus", "eszamla", "kelt", "telj", "fizh", "fizmod", "fizmodunified",
          "keszpenz", "nyelv", "devizanem", "penzforg", "kata", "katafokonyv", "teszt"}
    [] block = "szallito" -> {"id", "nev", "adoszam"}
    [] block = "vevo" -> BuyerRequired(kind)
    [] block \in {"szallito_cim", "vevo_cim"} -> {"irsz", "telepules", "cim"}
    [] block = "tetel" -> ItemRequired
    [] block \in {"afakulcsossz", "totalossz"} -> TotalRequired(block)
    [] block = "kifizetes" -> {"datum", "jogcim", "osszeg"}
    [] block = "qutet" -> {"nev", "afakulcs", "netto", "afa", "brutto", "afalevon"}
    [] OTHER -> {}

\* ReceiptBatch::validate; alap/adoszam is deliberately not required.
ReceiptRequired(block) ==
  CASE block = "alap" ->
         {"nyugtaszam", "tipus", "stornozott", "kelt", "fizmod", "penznem", "teszt"}
    [] block = "tetel" ->
         {"megnevezes", "nettoEgysegar", "mennyiseg", "mennyisegiEgyseg", "netto", "afakulcs",
          "afa", "brutto"}
    [] block = "kifizetes" -> {"fizetoeszkoz", "osszeg"}
    [] block \in {"afakulcsossz", "totalossz"} -> TotalRequired(block)
    [] OTHER -> {}

\* BankTransaction::validate
TransactionRequired(block) ==
  IF block = "root"
  THEN {"bankszamla", "erteknap", "irany", "technikai", "osszeg", "devizanem"} ELSE {}

Required(kind, block) ==
  CASE kind \in Invoices -> InvoiceRequired(kind, block)
    [] kind = "xmlnyugtaarchiv" -> ReceiptRequired(block)
    [] kind = "banktranz" -> TransactionRequired(block)

\* The parties and alap are read whether the body has them or not; lists and
\* addresses must be there.
RequiredBlocks(kind) ==
  CASE kind \in Invoices ->
         {"szallito", "vevo", "szallito_cim", "vevo_cim", "tetel", "afakulcsossz", "totalossz"}
    [] kind = "xmlnyugtaarchiv" -> {"nyugta", "tetel", "afakulcsossz", "totalossz"}
    [] OTHER -> {}

\* non_negative
Rates == {"tetel", "afakulcsossz", "qutet"}

\* Document::validate
Validate(d) ==
  /\ \A block \in RequiredBlocks(d.kind) : Present(d, block)
  /\ \A block \in DOMAIN Layout[d.kind] : Present(d, block) =>
       \A name \in Required(d.kind, block) : Value(d, block, name) \notin {"none", "other"}
  /\ \A block \in Rates \cap DOMAIN Layout[d.kind] : Value(d, block, "afakulcs") # "negative"

\* Document::parse_strict
ParseStrict(d) == IF Parse(d) = "read" /\ Validate(d) THEN "accepted" ELSE "refused"

-----------------------------------------------------------------------------
Init ==
  /\ doc \in {[kind |-> k, dropped |-> {}, edits |-> << >>] : k \in Kinds}
  /\ parsed = "unread" /\ strict = "unread"

Edits == Cardinality(doc.dropped) + Cardinality(DOMAIN doc.edits)

\* The body szamlazz.hu sends departs from a complete document in one place more.
Vary ==
  /\ parsed = "unread" /\ Edits < MaxEdits
  /\ \/ \E block \in Blocks(doc.kind) \ doc.dropped :
          doc' = [doc EXCEPT !.dropped = @ \cup {block}]
     \/ \E block \in DOMAIN Schema[doc.kind] :
          \E name \in DOMAIN Schema[doc.kind][block], text \in Lexemes \ {"good"} :
            /\ <<block, name>> \notin DOMAIN doc.edits
            /\ doc' = [doc EXCEPT !.edits = @ ++ All({<<block, name>>}, text)]
  /\ UNCHANGED <<parsed, strict>>

Receive ==
  /\ parsed = "unread"
  /\ parsed' = Parse(doc)
  /\ strict' = ParseStrict(doc)
  /\ UNCHANGED doc

Next == Vary \/ Receive

Spec == Init /\ [][Next]_vars

-----------------------------------------------------------------------------
(* Properties *)

\* The verdicts, and that the strict one is a verdict on a document the lenient
\* parse could read (Document::parse_strict).
TypeOK ==
  /\ doc.kind \in Kinds /\ doc.dropped \subseteq Blocks(doc.kind)
  /\ parsed \in {"unread", "refused", "read"} /\ strict \in {"unread", "refused", "accepted"}
  /\ strict = "accepted" => parsed = "read"

\* Identity of the record: without it there is no record to keep.
Identity(kind) ==
  CASE kind \in Invoices -> {<<"alap", "id">>, <<"alap", "szamlaszam">>}
    [] kind = "banktranz" -> {<<"root", "id">>}
    [] OTHER -> {<<"alap", "id">>}

\* Document::parse refuses shape, never content: a refused body misses or
\* garbles its identity, or has a text that is not a value where the vendor's
\* schema has a number or a boolean.  No omission, date, token, PDF or text
\* can cost the record its delivery.  (A number is a finite decimal here: NaN,
\* INF and what is too large for a Decimal are values of the schema's xs:double
\* that the crate refuses, and are not among the lexemes.)
ContentNeverCostsTheRecord ==
  parsed = "refused" =>
    \/ \E leaf \in Identity(doc.kind) :
         Lexeme(doc, leaf[1], leaf[2]) \in {"absent", "empty", "junk"}
    \/ \E block \in DOMAIN Schema[doc.kind] : \E name \in DOMAIN Schema[doc.kind][block] :
         /\ Schema[doc.kind][block][name] \in {"number", "rate", "boolean"}
         /\ Lexeme(doc, block, name) \in {"junk", "negative"}

\* Nothing szamlazz.hu validly says is lost: every leaf the schema of the kind
\* names, with a value of its type, is a value of the parsed document.
NothingSaidIsLost ==
  parsed = "read" =>
    \A block \in DOMAIN Schema[doc.kind] : \A name \in DOMAIN Schema[doc.kind][block] :
      LET text == Lexeme(doc, block, name) IN
      text # "empty" /\ IsA(Schema[doc.kind][block][name], text)
      /\ ~(name = "pdf" /\ text # "good")
        => Value(doc, block, name) \in {"good", "negative"}

\* The strict parse refuses nothing that conforms to the schema of its stream.
ConformingIsAccepted == strict # "unread" /\ Conforms(doc) => strict = "accepted"

\* What InvoiceDocument::validate says of itself: a document it accepts has
\* every minOccurs="1" element of its schema.
StrictMeetsTheSchema == strict = "accepted" => MeetsOccurrences(doc)
=============================================================================
