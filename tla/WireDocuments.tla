---------------------------- MODULE WireDocuments ----------------------------
(***************************************************************************)
(* Documents on the wire.  A document is a tree of blocks, each with leaf    *)
(* elements: a block is in the body or not, a list has one entry or none,    *)
(* and a leaf's text is one of a few lexemes.  The struct tables say which   *)
(* elements the two crates read and with which reader; the Schema tables are *)
(* the vendor's XSDs (fixtures/upstream), the reference the readers are      *)
(* compared with.                                                            *)
(***************************************************************************)
EXTENDS Naturals, FiniteSets

AllKinds == {"szamla", "szamlabe", "banktranz", "xmlnyugtaarchiv"}

Invoices == {"szamla", "szamlabe"}

\* The text of a leaf: "good" is a value of the leaf's type, "negative" a
\* number below zero (junk for anything but a number or a text), "junk" a text
\* that is no value of the type.
Lexemes == {"absent", "empty", "good", "negative", "junk"}

-----------------------------------------------------------------------------
(* The structs of document.rs: element name to reader *)

All(names, reader) == [n \in names |-> reader]

\* The fields of f, and those of g besides.
f ++ g == [n \in DOMAIN f \cup DOMAIN g |-> IF n \in DOMAIN f THEN f[n] ELSE g[n]]

Address == All({"nev", "orszag", "irsz", "telepules", "cim"}, "text")

Party ==
  All({"nev", "azonosito", "email", "adoszam", "csoportazonosito", "adoszameu"}, "text")
  ++ All({"id", "lokacio"}, "number") ++ All({"privatePersonIndicator"}, "boolean")

BuyerLedger ==
  All({"vevo", "vevoazon"}, "text") ++ All({"folyamatostelj"}, "boolean")
  ++ All({"datum", "elszDatTol", "elszDatIg"}, "date")

Bank == All({"nev", "bankszamla"}, "text")

\* The identity is the id and the invoice number; eszamla is an integer whose
\* unknown values are kept (InvoiceAppearance::Unknown).
InvoiceInfo ==
  All({"id"}, "identity") ++ All({"szamlaszam"}, "name")
  ++ All({"gazdEsemAzon", "forras", "eszamla", "devizaarf"}, "number")
  ++ All({"iktatoszam", "rendelesszam"}, "nonblank")
  ++ All({"kelt", "telj", "elszDatTol", "elszDatIg", "fizh"}, "date")
  ++ All({"folyamatostelj", "keszpenz", "penzforg", "kata", "katafokonyv", "teszt",
          "dobdel", "sztornozott"}, "boolean")
  ++ All({"tipus", "hivszamlaszam", "hivdijbekszam", "fizmod", "fizmodunified", "nyelv",
          "devizanem", "devizabank", "megjegyzes", "afatipus", "email"}, "text")

InvoiceItem ==
  All({"nev", "azonosito", "mennyisegiegyseg", "afatipus", "megjegyzes"}, "text")
  ++ All({"mennyiseg", "nettoegysegar", "afakulcs", "netto", "arresafaalap", "afa",
          "brutto", "sztetordering"}, "number")

InvoiceItemLedger ==
  All({"arbevetel", "afa", "gazdasagiesemeny", "gazdasagiesemenyafa"}, "text")
  ++ All({"elszdattol", "elszdatig"}, "date")

VatTotal == All({"afatipus"}, "text") ++ All({"afakulcs", "netto", "afa", "brutto"}, "number")

RecordedCreditEntry ==
  All({"datum"}, "date") ++ All({"jogcim", "megjegyzes", "bankszamlaszam"}, "text")
  ++ All({"osszeg", "banktranzid", "devizaarf"}, "number")

FinancialItem ==
  All({"nev", "afatipus", "cimke"}, "text") ++ All({"elszdattol", "elszdatig"}, "date")
  ++ All({"afakulcs", "netto", "afa", "brutto", "afalevon"}, "number")

InvoiceDocument == All({"cimke"}, "text") ++ All({"pdf"}, "pdf")

TransactionPartner == All({"nev", "bankszamla"}, "text")

BankTransaction ==
  All({"id"}, "identity") ++ All({"erteknap"}, "date") ++ All({"irany"}, "direction")
  ++ All({"technikai"}, "boolean") ++ All({"osszeg"}, "number")
  ++ All({"bankszamla", "tipus", "devizanem", "kozlemeny"}, "text")

ReceiptInfo ==
  All({"id"}, "identity") ++ All({"kelt"}, "date") ++ All({"devizaarf"}, "number")
  ++ All({"stornozott", "teszt"}, "boolean")
  ++ All({"hivasAzonosito", "nyugtaszam", "tipus", "stornozottNyugtaszam", "fizmod",
          "penznem", "devizabank", "megjegyzes", "fokonyvVevo", "adoszam", "rendelesSzam"},
         "text")

ReceiptItem ==
  All({"megnevezes", "azonosito", "mennyisegiEgyseg", "afatipus", "megjegyzes"}, "text")
  ++ All({"nettoEgysegar", "mennyiseg", "netto", "afakulcs", "afa", "brutto"}, "number")

ReceiptItemLedger == All({"arbevetel", "afa"}, "text")

ReceiptPayment == All({"fizetoeszkoz", "leiras"}, "text") ++ All({"osszeg"}, "number")

\* Which struct reads which block of a document.
Layout == [stream \in AllKinds |->
  CASE stream \in Invoices ->
         [root |-> InvoiceDocument, alap |-> InvoiceInfo,
          szallito |-> Party, szallito_cim |-> Address, szallito_postacim |-> Address,
          szallito_bank |-> Bank,
          vevo |-> Party, vevo_cim |-> Address, vevo_postacim |-> Address,
          vevo_fokonyv |-> BuyerLedger,
          tetel |-> InvoiceItem, tetel_fokonyv |-> InvoiceItemLedger, qutet |-> FinancialItem,
          afakulcsossz |-> VatTotal, totalossz |-> VatTotal,
          kifizetes |-> RecordedCreditEntry]
    [] stream = "banktranz" -> [root |-> BankTransaction, partner |-> TransactionPartner]
    [] stream = "xmlnyugtaarchiv" ->
         [alap |-> ReceiptInfo, tetel |-> ReceiptItem, tetel_fokonyv |-> ReceiptItemLedger,
          kifizetes |-> ReceiptPayment, afakulcsossz |-> VatTotal, totalossz |-> VatTotal]]

-----------------------------------------------------------------------------
(* The wire structs of query_xml.rs: element name to reader *)

CimXml == All({"irsz", "telepules", "cim"}, "string") ++ All({"orszag"}, "text")

BankXml == All({"nev", "bankszamla"}, "text")

SzallitoXml ==
  All({"id"}, "optional_number") ++ All({"nev"}, "string")
  ++ All({"adoszam", "csoportazonosito", "adoszameu"}, "text")

\* Variant: the dates of the basic block are read only when they are dates.
AlapXmlWithLenientDates ==
  All({"id", "eszamla"}, "number") ++ All({"szamlaszam", "tipus"}, "string")
  ++ All({"gazdEsemAzon", "forras", "devizaarf"}, "optional_number")
  ++ All({"kelt", "telj", "fizh"}, "lenient_date")
  ++ All({"keszpenz", "penzforg", "kata", "katafokonyv", "teszt", "sztornozott"},
         "optional_boolean")
  ++ All({"iktatoszam", "hivszamlaszam", "hivdijbekszam", "fizmod", "fizmodunified",
          "rendelesszam", "nyelv", "devizanem", "devizabank", "megjegyzes", "afatipus",
          "email"}, "text")

AlapXml ==
  All({"id", "eszamla"}, "number") ++ All({"szamlaszam", "tipus"}, "string")
  ++ All({"gazdEsemAzon", "forras", "devizaarf"}, "optional_number")
  ++ All({"kelt", "telj", "fizh"}, "optional_date")
  ++ All({"keszpenz", "penzforg", "kata", "katafokonyv", "teszt", "sztornozott"},
         "optional_boolean")
  ++ All({"iktatoszam", "hivszamlaszam", "hivdijbekszam", "fizmod", "fizmodunified",
          "rendelesszam", "nyelv", "devizanem", "devizabank", "megjegyzes", "afatipus",
          "email"}, "text")

PostacimXml == All({"nev", "orszag", "irsz", "telepules", "cim"}, "text")

VevoFokonyvXml ==
  All({"vevo", "vevoazon"}, "text") ++ All({"folyamatostelj"}, "optional_boolean")
  ++ All({"datum", "elszDatTol", "elszDatIg"}, "optional_date")

VevoXml ==
  All({"nev"}, "string") ++ All({"id", "lokacio"}, "optional_number")
  ++ All({"azonosito", "email", "adoszam", "csoportazonosito", "adoszameu"}, "text")
  ++ All({"privatePersonIndicator"}, "optional_boolean")

TetelXml ==
  All({"nev", "mennyisegiegyseg", "afakulcs"}, "string")
  ++ All({"mennyiseg", "nettoegysegar", "netto", "afa", "brutto"}, "number")
  ++ All({"arresafaalap", "sztetordering"}, "optional_number")
  ++ All({"azonosito", "afatipus", "megjegyzes"}, "text")

TetelFokonyvXml ==
  All({"arbevetel", "afa", "gazdasagiesemeny", "gazdasagiesemenyafa"}, "text")
  ++ All({"elszdattol", "elszdatig"}, "optional_date")

QutetXml ==
  All({"nev", "afakulcs"}, "string") ++ All({"netto", "afa", "brutto", "afalevon"}, "number")
  ++ All({"elszdattol", "elszdatig"}, "optional_date") ++ All({"afatipus"}, "text")
  ++ All({"cimke"}, "text")

KifizetesXml ==
  All({"datum"}, "date") ++ All({"jogcim"}, "string") ++ All({"osszeg"}, "number")
  ++ All({"banktranzid", "devizaarf"}, "optional_number")
  ++ All({"megjegyzes", "bankszamlaszam"}, "text")

AfakulcsosszXml ==
  All({"afatipus"}, "text") ++ All({"afakulcs"}, "string")
  ++ All({"netto", "afa", "brutto"}, "number")

TotalosszXml == All({"netto", "afa", "brutto"}, "number")

SzamlaXml ==
  [root |-> All({"pdf"}, "pdf") ++ All({"cimke"}, "text"), alap |-> AlapXml,
   szallito |-> SzallitoXml, szallito_cim |-> CimXml, szallito_postacim |-> CimXml,
   szallito_bank |-> BankXml,
   vevo |-> VevoXml, vevo_cim |-> CimXml, vevo_postacim |-> PostacimXml,
   vevo_fokonyv |-> VevoFokonyvXml,
   tetel |-> TetelXml, tetel_fokonyv |-> TetelFokonyvXml, qutet |-> QutetXml,
   afakulcsossz |-> AfakulcsosszXml, totalossz |-> TotalosszXml, kifizetes |-> KifizetesXml]

-----------------------------------------------------------------------------
(* The vendor's schemas: the leaves of a block by type, and minOccurs="1" *)

Typed(strings, numbers, booleans, dates) ==
  All(strings, "string") ++ All(numbers, "number") ++ All(booleans, "boolean")
  ++ All(dates, "date")

\* cimTipus; cimpostaTipus has a name as well.
SchemaAddress == Typed({"orszag", "irsz", "telepules", "cim"}, {}, {}, {})
SchemaPostal == Typed({"nev", "orszag", "irsz", "telepules", "cim"}, {}, {}, {})
SchemaRates == Typed({"afatipus"}, {"netto", "afa", "brutto"}, {}, {}) ++ All({"afakulcs"}, "rate")
SchemaGrand == Typed({}, {"netto", "afa", "brutto"}, {}, {})

SchemaInvoice(stream) ==
  LET out == stream = "szamla" IN
  [root |-> Typed({"cimke", "pdf"}, {}, {}, {}),
   alap |-> Typed({"szamlaszam", "iktatoszam", "tipus", "hivszamlaszam", "hivdijbekszam",
                   "fizmod", "fizmodunified", "rendelesszam", "nyelv", "devizanem",
                   "devizabank", "megjegyzes"}
                  \cup (IF out THEN {"afatipus", "email"} ELSE {}),
                  {"id", "gazdEsemAzon", "forras", "eszamla", "devizaarf"},
                  {"keszpenz", "penzforg", "kata", "katafokonyv", "teszt", "sztornozott"}
                  \cup (IF out THEN {} ELSE {"folyamatostelj", "dobdel"}),
                  {"kelt", "telj", "fizh"}
                  \cup (IF out THEN {} ELSE {"elszDatTol", "elszDatIg"})),
   szallito |-> Typed({"nev", "adoszam", "csoportazonosito", "adoszameu"}, {"id"}, {}, {}),
   szallito_cim |-> SchemaAddress,
   szallito_postacim |-> IF out THEN SchemaAddress ELSE SchemaPostal,
   szallito_bank |-> Typed({"nev", "bankszamla"}, {}, {}, {}),
   vevo |-> Typed({"nev", "azonosito", "adoszam", "csoportazonosito", "adoszameu"}
                  \cup (IF out THEN {"email"} ELSE {}), {"id", "lokacio"},
                  IF out THEN {"privatePersonIndicator"} ELSE {}, {}),
   vevo_cim |-> SchemaAddress,
   vevo_postacim |-> SchemaPostal,
   vevo_fokonyv |-> IF out THEN Typed({"vevo", "vevoazon"}, {}, {"folyamatostelj"},
                                      {"datum", "elszDatTol", "elszDatIg"})
                    ELSE Typed({}, {}, {}, {}),
   tetel |-> Typed({"nev", "azonosito", "mennyisegiegyseg", "afatipus", "megjegyzes"},
                   {"mennyiseg", "nettoegysegar", "netto", "arresafaalap", "afa", "brutto",
                    "sztetordering"}, {}, {}) ++ All({"afakulcs"}, "rate"),
   tetel_fokonyv |-> Typed(IF out THEN {"arbevetel", "afa", "gazdasagiesemeny",
                                        "gazdasagiesemenyafa"} ELSE {}, {}, {},
                           {"elszdattol", "elszdatig"}),
   qutet |-> Typed({"nev", "afatipus", "cimke"}, {"netto", "afa", "brutto", "afalevon"}, {},
                   {"elszdattol", "elszdatig"}) ++ All({"afakulcs"}, "rate"),
   afakulcsossz |-> SchemaRates,
   totalossz |-> SchemaGrand,
   kifizetes |-> Typed({"jogcim", "megjegyzes", "bankszamlaszam"},
                       {"osszeg", "banktranzid", "devizaarf"}, {}, {"datum"})]

SchemaReceipts ==
  [alap |-> Typed({"hivasAzonosito", "nyugtaszam", "tipus", "stornozottNyugtaszam", "fizmod",
                   "penznem", "devizabank", "megjegyzes", "fokonyvVevo", "adoszam",
                   "rendelesSzam"}, {"id", "devizaarf"}, {"stornozott", "teszt"}, {"kelt"}),
   tetel |-> Typed({"megnevezes", "azonosito", "mennyisegiEgyseg", "afatipus", "megjegyzes"},
                   {"nettoEgysegar", "mennyiseg", "netto", "afa", "brutto"}, {}, {})
             ++ All({"afakulcs"}, "rate"),
   tetel_fokonyv |-> Typed({"arbevetel", "afa"}, {}, {}, {}),
   kifizetes |-> Typed({"fizetoeszkoz", "leiras"}, {"osszeg"}, {}, {}),
   afakulcsossz |-> SchemaRates, totalossz |-> SchemaGrand]

SchemaTransaction ==
  [root |-> Typed({"bankszamla", "tipus", "devizanem", "kozlemeny"}, {"id", "osszeg"},
                  {"technikai"}, {"erteknap"}) ++ All({"irany"}, "enumeration"),
   partner |-> Typed({"nev", "bankszamla"}, {}, {}, {})]

Schema == [stream \in AllKinds |->
  CASE stream \in Invoices -> SchemaInvoice(stream)
    [] stream = "xmlnyugtaarchiv" -> SchemaReceipts
    [] stream = "banktranz" -> SchemaTransaction]

\* minOccurs="1" inside a block
SchemaRequired(stream, block) ==
  CASE stream \in Invoices /\ block = "alap" ->
         {"id", "szamlaszam", "gazdEsemAzon", "tipus", "eszamla", "kelt", "telj", "fizh",
          "fizmod", "fizmodunified", "keszpenz", "nyelv", "devizanem", "penzforg", "kata",
          "katafokonyv", "teszt"}
    [] stream \in Invoices /\ block = "szallito" -> {"id", "nev", "adoszam"}
    [] stream \in Invoices /\ block = "vevo" ->
         {"nev", "adoszam", "lokacio"}
         \cup (IF stream = "szamla" THEN {"privatePersonIndicator"} ELSE {})
    [] block \in {"szallito_cim", "vevo_cim"}
       \/ (block = "szallito_postacim" /\ stream = "szamla") -> {"irsz", "telepules", "cim"}
    [] stream \in Invoices /\ block = "tetel" ->
         {"nev", "mennyiseg", "mennyisegiegyseg", "nettoegysegar", "afakulcs", "netto", "afa",
          "brutto", "sztetordering"}
    [] stream \in Invoices /\ block = "kifizetes" -> {"datum", "jogcim", "osszeg"}
    [] block = "qutet" -> {"nev", "afakulcs", "netto", "afa", "brutto", "afalevon"}
    [] block = "afakulcsossz" -> {"afakulcs", "netto", "afa", "brutto"}
    [] block = "totalossz" -> {"netto", "afa", "brutto"}
    [] stream = "banktranz" /\ block = "root" ->
         {"id", "bankszamla", "erteknap", "irany", "technikai", "osszeg", "devizanem"}
    [] stream = "xmlnyugtaarchiv" /\ block = "alap" ->
         {"id", "nyugtaszam", "tipus", "stornozott", "kelt", "fizmod", "penznem", "teszt"}
    [] stream = "xmlnyugtaarchiv" /\ block = "tetel" ->
         {"megnevezes", "nettoEgysegar", "mennyiseg", "mennyisegiEgyseg", "netto", "afakulcs",
          "afa", "brutto"}
    [] stream = "xmlnyugtaarchiv" /\ block = "kifizetes" -> {"fizetoeszkoz", "osszeg"}
    [] OTHER -> {}

SchemaBlocks(stream) ==
  CASE stream \in Invoices ->
         {"alap", "szallito", "vevo", "szallito_cim", "vevo_cim", "tetelek", "tetel", "osszegek",
          "afakulcsossz", "totalossz"}
    [] stream = "xmlnyugtaarchiv" ->
         {"nyugta", "alap", "tetelek", "tetel", "osszegek", "afakulcsossz", "totalossz"}
    [] OTHER -> {}

-----------------------------------------------------------------------------
(* Bodies *)

\* The blocks that must be in the body for a block to be in it.
Above(stream, block) ==
  CASE block \in {"szallito_cim", "szallito_postacim", "szallito_bank"} -> {"szallito"}
    [] block \in {"vevo_cim", "vevo_postacim", "vevo_fokonyv"} -> {"vevo"}
    [] block = "tetel" -> {"tetelek"}
    [] block = "tetel_fokonyv" -> {"tetelek", "tetel"}
    [] block = "kifizetes" -> {"kifizetesek"}
    [] block \in {"afakulcsossz", "totalossz"} -> {"osszegek"}
    [] OTHER -> {}

Wrappers(stream) ==
  IF stream = "banktranz" THEN {}
  ELSE {"tetelek", "osszegek", "kifizetesek"}
       \cup (IF stream = "xmlnyugtaarchiv" THEN {"nyugta"} ELSE {})

Blocks(stream) == (DOMAIN Schema[stream] \cup Wrappers(stream)) \ {"root"}

\* A list element is not in a body whose enclosing blocks are not.
Present(d, block) ==
  /\ (Above(d.kind, block) \cup {block}) \cap d.dropped = {}
  /\ d.kind = "xmlnyugtaarchiv" => "nyugta" \notin d.dropped

\* A complete document has every leaf its schema names.
Lexeme(d, block, name) ==
  IF ~Present(d, block) \/ name \notin DOMAIN Schema[d.kind][block] THEN "absent"
  ELSE IF <<block, name>> \in DOMAIN d.edits THEN d.edits[<<block, name>>] ELSE "good"

-----------------------------------------------------------------------------
(* Conformance to the schemas *)

\* Whether a text is a value of a schema type.
IsA(type, text) ==
  CASE type = "string" -> text # "absent"
    [] type = "number" -> text \in {"good", "negative"}
    [] OTHER -> text = "good"

MeetsOccurrences(d) ==
  /\ \A block \in SchemaBlocks(d.kind) : Present(d, block)
  /\ "kifizetesek" \in Blocks(d.kind) /\ Present(d, "kifizetesek") => Present(d, "kifizetes")
  /\ \A block \in DOMAIN Schema[d.kind] : Present(d, block) =>
       \A name \in SchemaRequired(d.kind, block) : Lexeme(d, block, name) # "absent"

Conforms(d) ==
  /\ MeetsOccurrences(d)
  /\ \A block \in DOMAIN Schema[d.kind] : \A name \in DOMAIN Schema[d.kind][block] :
       Lexeme(d, block, name) = "absent" \/ IsA(Schema[d.kind][block][name], Lexeme(d, block, name))
=============================================================================
