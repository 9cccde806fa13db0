--------------------------- MODULE CreateRequest ---------------------------
(***************************************************************************)
(* How a create call becomes the request the provider receives.  A caller  *)
(* may approve the totals of its document beforehand, with the worker's    *)
(* own preflight; the account's defaults may change before the call runs;  *)
(* the call validates the document before it reads anything, resolves the  *)
(* documents it refers to, and builds the request - again after a crash.   *)
(* What the lookups decide is OrderChain's; how the request is sent is     *)
(* OrderWrite's.                                                           *)
(***************************************************************************)
EXTENDS DocumentMoney

CONSTANTS Documents,      \* the documents a caller may compose
          DefaultSettings \* the defaults an account may have

Kinds == {"proforma", "invoice", "prepayment", "final", "corrective"}
Proformas == {None, Some("D-1")}
ProformaLinks == {"auto", "none", "number"}

Options(S) == {None} \cup {Some(x) : x \in S}
Or(option, default) == IF option = None THEN default ELSE Get(option)

----------------------------------------------------------------------------
(* What a caller writes and what an account has configured *)

Languages == {"hu", "en"}
ExchangeRates == [bank: {"MNB", "OTP", " OTP ", ""}, rate: Options({"395.5"})]
Templates == {"SzlaMost", "most", "SzlaAlap", "default", "own"}

NumberPrefixes == {"WEB", "EXP"}

Overrides == [currency: Options(Currencies), language: Options(Languages \cup {"tlh"}),
              exchange_rate: Options(ExchangeRates), template: Options(Templates),
              send_email: Options(BOOLEAN), e_invoice: Options(BOOLEAN),
              number_prefix: Options(NumberPrefixes)]

\* The name, and the address, tax numbers and contact the buyer comes with.
BuyerInputs == [name: {"Kovacs", " Kovacs", " ", "not_xml"}, details: {"details"}]

PaymentMethods == {"transfer", "cash", "card", "check", "cash_on_delivery", "pay_pal",
                   "szep_card", "other"}

IsDocumentInput(d) ==
    /\ DOMAIN d = {"buyer", "items", "overrides", "payment_method", "paid", "expected_totals"}
    /\ d.buyer \in BuyerInputs
    /\ \A i \in DOMAIN d.items : IsDecimal(d.items[i].quantity) /\ IsDecimal(d.items[i].unit_price)
    /\ d.payment_method \in PaymentMethods
    /\ d.paid \in Options(BOOLEAN)
    /\ d.overrides \in Overrides
    /\ \A t \in d.expected_totals : IsDecimal(t.net) /\ IsDecimal(t.vat) /\ IsDecimal(t.gross)

\* account::Defaults; the settings no call may override come with the seller block.
Defaults == [currency: Currencies, language: Languages \cup {"tlh"},
             exchange_rate_bank: {"MNB", "OTP"}, template: Options(Templates),
             send_email: Options(BOOLEAN), e_invoice: BOOLEAN, number_prefix: Options(NumberPrefixes),
             seller: {"seller"}]

InputsAssumption == /\ \A d \in Documents : IsDocumentInput(d)
                    /\ DefaultSettings \subseteq Defaults

----------------------------------------------------------------------------
(* Conversions *)

Trim(text) == CASE text = " OTP " -> "OTP" [] text = " Kovacs" -> "Kovacs"
                [] text = " " -> "" [] OTHER -> text

\* Text the XML writer takes; to_wire refuses a character XML 1.0 cannot hold.
XmlText(text) == text # "not_xml"

\* A template by its wire token or its English name; anything else verbatim.
Template(token) == CASE token \in {"SzlaMost", "most"} -> "SzlaMost"
                     [] token \in {"SzlaAlap", "default"} -> "SzlaAlap"
                     [] OTHER -> token

\* The contract's payment method as the text szamlazz.hu maps for NAV, and back.
FizMod(method) == CASE method = "transfer" -> "atutalas" [] method = "cash" -> "keszpenz"
                    [] method = "card" -> "bankkartya" [] method = "check" -> "csekk"
                    [] method = "cash_on_delivery" -> "utanvet" [] method = "pay_pal" -> "PayPal"
                    [] method = "szep_card" -> "SZEP kartya" [] OTHER -> "Bitcoin"
MethodRead(text) == CASE text = "atutalas" -> "transfer" [] text = "keszpenz" -> "cash"
                      [] text = "bankkartya" -> "card" [] text = "csekk" -> "check"
                      [] text = "utanvet" -> "cash_on_delivery" [] text = "PayPal" -> "pay_pal"
                      [] text = "SZEP kartya" -> "szep_card" [] OTHER -> "other"

Buyer(name, details, send_email) == [name |-> name, details |-> details, send_email |-> send_email]

\* BuyerInput to the Agent's Buyer, the name normalised.
ToBuyer(buyer, send_email) == Buyer(Trim(buyer.name), buyer.details, send_email)

\* The Agent's request: no PDF, no waybill, no attachment.
CreateInvoice(k, e_invoice, header, buyer, seller, items) ==
    [kind |-> k, e_invoice |-> e_invoice, header |-> header, buyer |-> buyer, seller |-> seller,
     items |-> items]

----------------------------------------------------------------------------
(* State *)

VARIABLES
    kind,       \* the handler called
    document,   \* the caller's DocumentInput
    link,       \* options.proforma: "auto", "none" or "number"
    approved,   \* {} or the currency and totals the caller approved
    defaults,   \* the account's defaults as the resolver answers them now
    account,    \* {} or the defaults the call has journaled
    phase,      \* "composing", "validated", "resolved", "built", "sent" or "refused"
    refs,       \* {} or the references the journaled lookups gave
    built,      \* every request the call has built
    received    \* {} or the request element the provider received

caller == <<kind, document, link, approved>>
vars == <<kind, document, link, approved, defaults, account, phase, refs, built, received>>

----------------------------------------------------------------------------
(* Account::build_create *)

\* A per-call override wins over the account's default.
Effective(override, default) == Or(override, default)

CurrencyOf(doc, settings) == Effective(doc.overrides.currency, settings.currency)

AutomaticMnb == [bank |-> "MNB", rate |-> None]

\* The exchange rate, for a currency that needs one: the caller's, or the
\* automatic one when the account is configured for it.
ExchangeRate(doc, settings) ==
    IF IsHuf(CurrencyOf(doc, settings)) THEN None
    ELSE IF doc.overrides.exchange_rate # None THEN doc.overrides.exchange_rate
    ELSE IF settings.exchange_rate_bank = "MNB" THEN Some(AutomaticMnb) ELSE None

RateRefused(doc, settings) ==
    /\ ~IsHuf(CurrencyOf(doc, settings))
    /\ \/ ExchangeRate(doc, settings) = None
       \/ \E r \in doc.overrides.exchange_rate : r.rate = None /\ r.bank # "MNB"

\* The references the kind carries; the proforma's rides on three kinds.
InvoiceKind(k, r) ==
    [is |-> k,
     proforma_number |-> IF k \in {"invoice", "prepayment", "final"} THEN r.proforma ELSE None,
     prepayment_number |-> IF k = "final" THEN r.prepayment ELSE None,
     corrected_number |-> IF k = "corrective" THEN r.corrected ELSE None]

MissingReference(k, r) == \/ k = "final" /\ r.prepayment = None
                          \/ k = "corrective" /\ r.corrected = None

Optional(override, default) == IF override # None THEN override ELSE default

\* InvoiceHeader.  Left out: the dates and the comment, passed on as the caller
\* wrote them, and the order number and external id, which are Identity's.
Header(doc, settings) ==
    [payment_method |-> doc.payment_method,
     currency |-> CurrencyOf(doc, settings),
     language |-> Effective(doc.overrides.language, settings.language),
     exchange_rate |-> ExchangeRate(doc, settings),
     number_prefix |-> Optional(doc.overrides.number_prefix, settings.number_prefix),
     template |-> {Template(token) : token \in Optional(doc.overrides.template, settings.template)},
     paid |-> doc.paid]

\* Language::from_str: a closed set of tokens.
KnownLanguage(token) == token \in Languages

\* The request with the document's lines priced.
BuildPriced(k, doc, settings, r, money) ==
    IF doc.items = <<>> THEN Err("NoItems")
    ELSE IF ~KnownLanguage(Effective(doc.overrides.language, settings.language)) THEN
            Err("UnknownLanguage")
    ELSE IF RateRefused(doc, settings) THEN Err("ExchangeRate")
    ELSE IF MissingReference(k, r) THEN Err("MissingReference")
    ELSE IF ~money.ok THEN money
    ELSE [ok |-> TRUE, request |->
            CreateInvoice(InvoiceKind(k, r),
                Effective(doc.overrides.e_invoice, settings.e_invoice), Header(doc, settings),
                ToBuyer(doc.buyer, Optional(doc.overrides.send_email, settings.send_email)),
                settings.seller, money.items)]

BuildCreate(k, doc, settings, r) ==
    BuildPriced(k, doc, settings, r,
        MonetaryPreflight(doc.items, doc.expected_totals, CurrencyOf(doc, settings)))

----------------------------------------------------------------------------
(* The Agent crate's own checks and the element it writes *)

\* CreateInvoice::validate.  The order number is always set, a pinned date has
\* passed the contract's decoder, and the worker sets no erasure-code count
\* and no waybill.
Validate(request) ==
    /\ request.items # <<>>
    /\ ~IsHuf(request.header.currency) =>
          /\ request.header.exchange_rate # None
          /\ LET r == Get(request.header.exchange_rate)
             IN  /\ Trim(r.bank) # "" /\ Trim(r.bank) = r.bank
                 /\ r.rate = None => r.bank = "MNB"

\* The one flag that says what document this is; an ordinary invoice has none.
KindFlag(k) ==
    CASE k = "prepayment" -> {"elolegszamla"} [] k = "final" -> {"vegszamla"}
      [] k = "corrective" -> {"helyesbitoszamla"} [] k = "proforma" -> {"dijbekero"}
      [] OTHER -> {}

\* CreateInvoice::write_xml: the elements of xmlszamla; an absent one is not
\* written, so an omitted fizetve is not a false one.
WriteXml(request) ==
    [flags |-> KindFlag(request.kind.is),
     eszamla |-> request.e_invoice,
     szamlaszamElotag |-> request.header.number_prefix,
     dijbekeroSzamlaszam |-> request.kind.proforma_number,
     elolegSzamlaszam |-> request.kind.prepayment_number,
     helyesbitettSzamlaszam |-> request.kind.corrected_number,
     fizmod |-> FizMod(request.header.payment_method),
     penznem |-> request.header.currency,
     arfolyam |-> request.header.exchange_rate,
     szamlaNyelve |-> request.header.language,
     szamlaSablon |-> request.header.template,
     fizetve |-> request.header.paid,
     elado |-> request.seller,
     vevo |-> request.buyer,
     tetelek |-> request.items]

\* AgentRequest::to_wire, as validate_request runs it.
ToWire(request) == Validate(request) /\ XmlText(request.buyer.name)

\* service::build: the request, or an invalid_input.
ValidateRequest(result) ==
    IF result.ok /\ ~ToWire(result.request) THEN Err("request") ELSE result

Build(k, doc, settings, r) == ValidateRequest(BuildCreate(k, doc, settings, r))

----------------------------------------------------------------------------
(* The caller and the account *)

Init ==
    /\ kind \in Kinds
    /\ document \in Documents
    /\ link \in ProformaLinks
    /\ kind = "corrective" => link = "auto"
    /\ approved = None
    /\ defaults \in DefaultSettings
    /\ account = None /\ phase = "composing" /\ refs = None /\ built = {} /\ received = None

\* The caller runs the preflight for the currency it takes to be effective,
\* approves the totals and attaches them; it may also pin the currency.
Approve(pin) ==
    /\ phase = "composing" /\ account = None /\ approved = None
    /\ LET currency == CurrencyOf(document, defaults) IN
       \E money \in {MonetaryPreflight(document.items, None, currency)} :
         /\ money.ok
         /\ approved' = Some([currency |-> currency, totals |-> money.totals])
         /\ document' = [document EXCEPT !.expected_totals = Some(money.totals),
                                         !.overrides.currency = IF pin THEN Some(currency) ELSE @]
    /\ UNCHANGED <<kind, link, defaults, account, phase, refs, built, received>>

\* The operator changes the account's defaults.
ChangeDefaults(settings) ==
    /\ phase \in {"composing", "validated", "resolved", "built"}
    /\ settings # defaults
    /\ defaults' = settings
    /\ UNCHANGED <<caller, account, phase, refs, built, received>>

----------------------------------------------------------------------------
(* The call *)

\* The account resolved once and journaled; a replay reads the journal.
Settings == Or(account, defaults)

LinksProforma(k) == k \in {"invoice", "prepayment"}
Placeholders == [proforma |-> None, prepayment |-> Some("-"), corrected |-> Some("-")]

\* The document is valid when its request builds with placeholder references.
ValidateDocument(k, doc, settings) ==
    Trim(doc.buyer.name) # "" /\ Build(k, doc, settings, Placeholders).ok

\* prepare, or the head of correct: nothing is read before the document stands.
Prepare ==
    /\ phase = "composing"
    /\ account' = Some(Settings)
    /\ phase' = IF /\ link # "auto" => LinksProforma(kind)
                   /\ ValidateDocument(kind, document, Settings)
                THEN "validated" ELSE "refused"
    /\ UNCHANGED <<caller, defaults, refs, built, received>>

\* Variant: an execution that replays looks the references up again.
LookedUpAgain(fresh) == Some(fresh)

\* What a lookup gave is journaled; a replay reads the journal.
LookedUp(fresh) == Some(Or(refs, fresh))

\* The lookups give the documents the request names; they are journaled.
Resolve(proforma) ==
    /\ phase = "validated"
    /\ proforma # None => LinksProforma(kind) /\ link # "none"
    /\ link = "number" => proforma # None
    /\ refs' = LookedUp([proforma |-> proforma,
                         prepayment |-> IF kind = "final" THEN Some("E-1") ELSE None,
                         corrected |-> IF kind = "corrective" THEN Some("SZ-1") ELSE None])
    /\ phase' = "resolved"
    /\ UNCHANGED <<caller, defaults, account, built, received>>

BuildRequest ==
    /\ phase = "resolved"
    /\ \E result \in {Build(kind, document, Settings, Get(refs))} :
         /\ phase' = IF result.ok THEN "built" ELSE "refused"
         /\ built' = IF result.ok THEN built \cup {result.request} ELSE built
    /\ UNCHANGED <<caller, defaults, account, refs, received>>

\* The process dies; the call starts over from its journal.
Crash ==
    /\ phase \in {"validated", "resolved", "built"}
    /\ phase' = "composing"
    /\ UNCHANGED <<caller, defaults, account, refs, built, received>>

Send ==
    /\ phase = "built"
    /\ received' = Some(WriteXml(Build(kind, document, Settings, Get(refs)).request))
    /\ phase' = "sent"
    /\ UNCHANGED <<caller, defaults, account, refs, built>>

Next == \/ \E pin \in BOOLEAN : Approve(pin)
        \/ \E settings \in DefaultSettings : ChangeDefaults(settings)
        \/ Prepare
        \/ \E proforma \in Proformas : Resolve(proforma)
        \/ BuildRequest
        \/ Crash
        \/ Send

Spec == Init /\ [][Next]_vars

----------------------------------------------------------------------------
(* Properties *)

TypeOK ==
    /\ IsDocumentInput(document)
    /\ kind \in Kinds /\ link \in ProformaLinks
    /\ defaults \in DefaultSettings /\ account \subseteq DefaultSettings
    /\ phase \in {"composing", "validated", "resolved", "built", "sent", "refused"}
    /\ phase \in {"resolved", "built", "sent"} => refs # None
    /\ \A r \in built : r.header.currency \in Currencies /\ r.header.language \in Languages

\* A document that cannot become a request is refused before anything is read:
\* once the validation with placeholder references has passed, the build with
\* the real ones never fails (create.rs, validate_document).
NoLateRefusal == refs # None => phase # "refused"

\* However often the call starts over, and whatever the account's defaults have
\* become meanwhile, it builds one and the same request: a retry that built
\* another would send a second document under the same identity.
OneRequestPerCall == \A x, y \in built : x = y

\* How the provider reads the kind of the document off its flags (external).
KindRead(flags) ==
    CASE flags = {} -> "invoice" [] flags = {"elolegszamla"} -> "prepayment"
      [] flags = {"vegszamla"} -> "final" [] flags = {"helyesbitoszamla"} -> "corrective"
      [] flags = {"dijbekero"} -> "proforma"

\* What a caller wrote, or else what the account has configured, if anything.
Own(written, configured) == IF written # None THEN written ELSE configured

\* What the provider reads is what was asked for: the kind, the documents it
\* settles, and each setting a call may override the caller's own where the
\* caller gave one and the journaled account's where not (currency, language,
\* template, e-mail, e-invoice, number prefix); a rate is there exactly when
\* the currency needs one, and a caller's rate is never replaced.
ReceivedAsIntended ==
    \A x \in received : \A settings \in account : \A r \in refs :
        /\ KindRead(x.flags) = kind
        /\ x.dijbekeroSzamlaszam = (IF kind \in {"invoice", "prepayment"} THEN r.proforma ELSE None)
        /\ x.elolegSzamlaszam # None <=> kind = "final"
        /\ x.helyesbitettSzamlaszam # None <=> kind = "corrective"
        /\ x.penznem = Or(document.overrides.currency, settings.currency)
        /\ x.szamlaNyelve = Or(document.overrides.language, settings.language)
        /\ x.eszamla = Or(document.overrides.e_invoice, settings.e_invoice)
        /\ x.szamlaszamElotag = Own(document.overrides.number_prefix, settings.number_prefix)
        /\ x.vevo.send_email = Own(document.overrides.send_email, settings.send_email)
        /\ x.szamlaSablon = {Template(t) : t \in Own(document.overrides.template, settings.template)}
        /\ x.fizetve = document.paid
        /\ MethodRead(x.fizmod) = document.payment_method
        /\ x.vevo.name \notin {"", "not_xml"}
        /\ (x.arfolyam = None) <=> IsHuf(x.penznem)
        /\ (x.arfolyam # None /\ document.overrides.exchange_rate # None)
               => x.arfolyam = document.overrides.exchange_rate

Sent(x) == Get(Totals(x.tetelek))

\* The totals a caller approved are the totals of the document the provider
\* receives, whatever the defaults became in between.
ApprovedAmountsHold ==
    \A x \in received, a \in approved : Sent(x) = a.totals

\* A different resolved currency cannot silently change the money of a request
\* that carries approved totals (money.rs, monetary_preflight).
ApprovedMoneyHolds ==
    \A x \in received, a \in approved : x.penznem = a.currency /\ Sent(x) = a.totals

=============================================================================
