------------------------------ MODULE Exchange ------------------------------
(***************************************************************************)
(* One exchange with szamlazz.hu: the Szamla Agent client sends a request    *)
(* (client.rs, wire.rs), szamlazz.hu acts on it or not and answers, the      *)
(* answer comes back over a network and whatever stands in it, the           *)
(* operation's parser reads it (envelope.rs, xml.rs, query_xml.rs), and the   *)
(* worker's gateway turns the result into an outcome (gateway.rs).            *)
(*                                                                         *)
(* What the worker does next rests on that outcome alone: a refusal frees    *)
(* the order for another send, a success is evidence of a document, anything  *)
(* else leaves the write open.                                               *)
(***************************************************************************)
EXTENDS Naturals, FiniteSets

CONSTANTS Ops,        \* the operations of an instance
          Tokens      \* the error code texts szamlazz.hu sends

Issuing == {"create", "storno"}
Queries == {"query_number", "query_external", "probe"}
AllOps == Issuing \cup Queries \cup {"delete", "credit"}

OpsAssumption == Ops \subseteq AllOps
\* Texts, and not the marks for an element that is missing or there twice.
TokensAssumption == Tokens \cap {"none", "duplicated"} = {}

VARIABLES op,         \* the operation
          key,        \* whether szamlazz.hu knows the agent key
          phase,      \* where the exchange is
          acted,      \* szamlazz.hu performed the operation
          holds,      \* a query's selector matches a document
          response,   \* the answer, as sent and then as received
          damage,     \* what happened to it on the way
          result,     \* what the client made of it
          outcome     \* what the gateway made of that

vars == <<op, key, phase, acted, holds, response, damage, result, outcome>>

-----------------------------------------------------------------------------
(* Error codes (error.rs) *)

\* ErrorCode::known
Known ==
  {"1", "3", "7", "14", "53", "54", "55", "56", "57", "71", "73", "135", "136", "152", "164",
   "202", "221", "259", "260", "261", "262", "263", "264", "335", "336", "337", "338", "339",
   "340", "352", "363", "364", "365", "463", "537", "538", "539", "551", "552", "553", "554",
   "555", "556"}

\* ErrorCode::from: the text is trimmed and read as a number.
ErrorCode(token) ==
  IF token = "blank" THEN "Absent"
  ELSE IF token = "007" THEN "7"
  ELSE IF token \in Known THEN token ELSE "Unknown"

\* ErrorCode::outcome_class
OutcomeClass(code) ==
  IF code \in {"1", "55", "56", "Unknown", "Absent"} THEN "Unknown"
  ELSE IF code \in {"71", "152"} THEN "DuplicateOrderNumber"
  ELSE IF code \in {"7", "339"} THEN "NotFound"
  ELSE "Rejected"

\* ErrorCode::is_retryable, is_credential_error
Retryable == {"1", "55"}
Credential == {"3", "135", "136", "164"}

NotificationFailed == "56"

-----------------------------------------------------------------------------
(* Answers *)

\* The body: an xmlszamlavalasz envelope (or the deletion's own), a szamla
\* document, other markup, plain text.  Inside, an element may be blank, twice
\* there, or of the wrong type; meta stands for the totals, the URL and the PDF.
Body(shape, sikeres, hibakod, number, meta) ==
  [shape |-> shape, sikeres |-> sikeres, hibakod |-> hibakod, number |-> number, meta |-> meta]

Page == Body("markup", "none", "none", "none", "good")
Plain == Body("plain", "none", "none", "none", "good")

\* down, code and number are the szlahu_ headers.
Response(down, code, number, status, body) ==
  [down |-> down, code |-> code, number |-> number, status |-> status, body |-> body]

None == Response("none", "none", "none", 0, Plain)

Metas == {"good", "bad", "duplicated"}

\* The codes with which szamlazz.hu says it did not act: on a deletion and on
\* credit entries the creation-only codes say nothing (DeleteOutcome, behaviour
\* note D1).
RefusalCodes(o) ==
  IF o = "delete" THEN {"53", "57", "335"} \cup Credential
  ELSE IF o = "credit" THEN {"53", "57", "463"} \cup Credential
  ELSE Known \ {"1", "55", "56"}

\* Which codes an answer may carry: a bad key is answered with a credential
\* code, a query's 7 says there is no document, a refusal that nothing was done.
MayReport(o, token, did, found, k) ==
  LET code == ErrorCode(token) IN
  /\ code \in Credential => k = "bad" /\ ~did
  /\ k = "bad" => code \in Credential \cup {"1", "Unknown", "Absent"}
  /\ (o \notin Queries /\ did) => code \notin RefusalCodes(o)
  /\ (o \in Queries /\ found) => code \notin {"7", "339"}

\* An error reported in the headers, the body, or both; the body repeats the
\* header's code, or refuses what the header calls a failed notification.
Errors(o, did, found, k) ==
  LET can == {t \in Tokens : MayReport(o, t, did, found, k)}
      body(t, n) == Body("envelope", "false", t, n, "good")
  IN {Response("none", "none", "none", 200, body(t, "none")) : t \in can}
     \cup {Response("none", t, "none", 200, body(t, "none")) : t \in can}
     \cup {Response("none", t, "none", 200, b) : t \in can, b \in {Page, Plain}}
     \cup (IF did \/ o \notin Issuing THEN {}
           ELSE {Response("none", NotificationFailed, n, 200, body(t, "none")) :
                   t \in can \ {NotificationFailed, "blank"}, n \in {"none", "ours"}})

\* Issued, with the notification undelivered: 56 in the headers or the body, the
\* number in either, and metadata in any state.
Notified(o) ==
  IF o \notin Issuing THEN {}
  ELSE {r \in {Response("none", c, n, 200, Body("envelope", s, h, b, m)) :
                 c \in {"none", NotificationFailed}, n \in {"none", "ours"},
                 s \in {"true", "false"}, h \in {"none", NotificationFailed},
                 b \in {"none", "blank", "ours", "duplicated"}, m \in Metas} :
          /\ r.body.sikeres = "false" <=> r.body.hibakod = NotificationFailed
          /\ NotificationFailed \in {r.code, r.body.hibakod}}
       \cup {Response("none", NotificationFailed, n, 200, Plain) : n \in {"none", "ours"}}

\* A plain success.  The reversal's and the registration's may name no document.
Successes(o) ==
  LET envelopes(codes, headers, numbers) ==
        {Response("none", c, n, 200, Body("envelope", "true", "none", b, m)) :
           c \in codes, n \in headers, b \in numbers, m \in Metas}
  IN
  IF o = "delete" THEN envelopes({"none"}, {"none"}, {"none"})
  ELSE IF o = "credit" THEN envelopes({"none", "blank"}, {"none"}, {"none", "ours"})
  ELSE IF o \in Issuing
  THEN envelopes({"none", "blank"}, {"none", "ours"}, {"none", "blank", "ours"})
  ELSE {Response("none", "none", "none", 200, Body("szamla", "none", "none", b, m)) :
          b \in {"ours", "blank"}, m \in Metas}

\* A registration acknowledged for some other invoice.
Misdirected(o) ==
  IF o # "credit" THEN {}
  ELSE {Response("none", "none", n, 200, Body("envelope", "true", "none", b, "good")) :
          n \in {"none", "other"}, b \in {"other"}}

\* An envelope without a readable verdict, and the maintenance answer.
Vague(o) ==
  {Response("none", "none", "none", 200, Body("envelope", s, h, "none", "good")) :
     s \in {"none", "junk", "duplicated"}, h \in {"none", "duplicated"}}
  \cup {Response("none", "none", "none", 200, Body("envelope", "false", "duplicated", "none", "good"))}
  \cup {Response("text", c, "none", 200, Plain) : c \in {"none", "1"}}

-----------------------------------------------------------------------------
(* The client's parsers *)

Failed(kind, code) == [kind |-> kind, code |-> code, number |-> "none"]
Api(code) == Failed("Api", code)
ParseFailed == Failed("Parse", "none")
Done(kind, number) == [kind |-> kind, code |-> "none", number |-> number]

\* RawResponse::header_error: a blank code is no error.
HeaderError(r) == r.code \notin {"none", "blank"}

Success(status) == status >= 200 /\ status < 300

\* RawResponse::header_verdict: the order every parser applies.
HeaderVerdict(r) ==
  IF r.down = "text" THEN Failed("ServiceUnavailable", "none")
  ELSE IF HeaderError(r) THEN Api(ErrorCode(r.code))
  ELSE IF ~Success(r.status) THEN Failed("HttpStatus", "none")
  ELSE Done("body", "none")

\* Verdict::parse reads sikeres and hibakod as unique scalars, and never needs
\* the diagnostic.
Readable(b) ==
  b.shape = "envelope" /\ b.sikeres \in {"true", "false"} /\ b.hibakod # "duplicated"

\* Verdict::api_error
BodyError(b) ==
  IF b.sikeres = "true" THEN "none"
  ELSE IF b.hibakod = "none" THEN "Absent" ELSE ErrorCode(b.hibakod)

\* xml::verdict, the whole of a deletion's answer, and the first part of
\* xml::valasz.
VerdictText(r) ==
  LET head == HeaderVerdict(r) IN
  IF head.kind # "body" THEN head
  ELSE IF ~Readable(r.body) THEN ParseFailed
  ELSE IF BodyError(r.body) # "none" THEN Api(BodyError(r.body))
  ELSE Done("acknowledged", "none")

\* nonblank_invoice_number, Body::invoice_number: the body's, else the header's.
InvoiceNumber(r) ==
  IF r.body.number \notin {"none", "blank"} THEN r.body.number
  ELSE IF r.number \notin {"none", "blank"} THEN r.number ELSE "none"

\* plain_notification_body: only under a 56 header, and never markup, which
\* could conceal a refusal.
PlainNotification(r) == HeaderError(r) /\ r.body.shape = "plain"

\* lenient: under 56 a malformed value is dropped.
Lenient(notified, meta) == notified \/ meta # "bad"

\* parse_reply with parse_envelope: every error but 56 is final; under 56 the
\* identity is salvaged from a payload that does not decode; 56 without a number
\* stays the error.
ParseReply(r) ==
  LET head == HeaderVerdict(r)
      said == IF Readable(r.body) THEN BodyError(r.body) ELSE "none"
      notified == HeaderError(r) \/ said = NotificationFailed
      number == InvoiceNumber(r)
  IN
  IF head.kind # "body" /\ head # Api(NotificationFailed) THEN head
  ELSE IF ~Readable(r.body) /\ ~PlainNotification(r) THEN ParseFailed
  ELSE IF said \notin {"none", NotificationFailed} THEN Api(said)
  ELSE IF r.body.number = "duplicated" \/ (~notified /\ r.body.meta = "duplicated") THEN ParseFailed
  ELSE IF number = "none" /\ notified THEN Api(NotificationFailed)
  ELSE IF ~Lenient(notified, r.body.meta) THEN ParseFailed
  ELSE Done(IF number = "none" THEN "unnumbered" ELSE "issued", number)

\* CreateInvoice::parse without a preview: an unnumbered success is no issuance.
ParseCreate(r) ==
  LET reply == ParseReply(r) IN IF reply.kind = "unnumbered" THEN ParseFailed ELSE reply

\* RegisterCreditEntry::parse: 56 is an error like any other, and the totals are
\* strict.
ParseCredit(r) ==
  LET head == VerdictText(r) IN
  IF head.kind # "acknowledged" THEN head
  ELSE IF r.body.meta # "good" \/ r.body.number = "duplicated" THEN ParseFailed
  ELSE Done("acknowledged", InvoiceNumber(r))

\* QueryInvoiceXml::parse: a szamla document, or the envelope of an error; a
\* successful envelope answers no query.
ParseQuery(r) ==
  LET head == HeaderVerdict(r) IN
  IF head.kind # "body" THEN head
  ELSE IF r.body.shape = "szamla" /\ r.body.meta = "good" THEN Done("document", r.body.number)
  ELSE IF Readable(r.body) /\ BodyError(r.body) # "none" THEN Api(BodyError(r.body))
  ELSE ParseFailed

Parse(o, r) ==
  IF o = "create" THEN ParseCreate(r)
  ELSE IF o = "storno" THEN ParseReply(r)
  ELSE IF o = "delete" THEN VerdictText(r)
  ELSE IF o = "credit" THEN ParseCredit(r)
  ELSE ParseQuery(r)

-----------------------------------------------------------------------------
(* The gateway *)

\* Unanswered::from_exchange with diagnostic::exchange
Unanswered(e) == IF e.kind = "ServiceUnavailable" THEN "Unavailable" ELSE "Transport"

\* classify_failure: the arms of CreateOutcome and StornoOutcome.
ClassifyFailure(e) ==
  IF e.kind = "Api" /\ e.code \in Credential THEN "CredentialsRejected"
  ELSE IF e.kind = "Api" /\ OutcomeClass(e.code) = "DuplicateOrderNumber" THEN "Duplicate"
  ELSE IF e.kind = "Api" /\ OutcomeClass(e.code) \in {"Rejected", "NotFound"} THEN "Rejected"
  ELSE IF e.kind = "Api" THEN "Open"
  ELSE IF e.kind = "Request" THEN "Rejected"
  ELSE Unanswered(e)

\* delete_proforma and DeleteOutcome::from
DeleteOutcome(e) ==
  IF e.kind = "acknowledged" THEN "Deleted"
  ELSE IF e = Api("335") THEN "AlreadyGone"
  ELSE IF e.kind = "Api" /\ e.code \in Credential THEN "CredentialsRejected"
  ELSE IF e.kind = "Api" /\ e.code \in {"53", "57"} THEN "Rejected"
  ELSE IF e.kind = "Api" THEN "Inconclusive"
  ELSE IF e.kind = "Request" THEN "Rejected"
  ELSE "Lost"

\* set_credit_entries and SetCreditEntriesOutcome::from: a registration
\* reported for another invoice is a lost answer.
CreditOutcome(e) ==
  IF e.kind = "acknowledged" /\ e.number \in {"none", "ours"} THEN "Done"
  ELSE IF e.kind = "Api" /\ e.code \in Credential THEN "CredentialsRejected"
  ELSE IF e.kind = "Api" /\ e.code \in {"53", "57", "463"} THEN "Rejected"
  ELSE IF e.kind = "Api" THEN "Inconclusive"
  ELSE IF e.kind = "Request" THEN "Rejected"
  ELSE "Lost"

\* Variant: the vendor's not-found class instead of its code 7.
QueryErrorByClass(e) ==
  IF e.kind = "Api" /\ e.code \in {"7", "335", "339"} THEN "NotFound"
  ELSE IF e.kind = "HttpStatus" THEN "NotFound"
  ELSE IF e.kind = "Api" /\ e.code \in Credential THEN "CredentialsRejected"
  ELSE IF e.kind = "Api" /\ e.code \in Retryable THEN "Transient"
  ELSE IF e.kind = "Api" THEN "Api"
  ELSE Unanswered(e)

\* The error arms of query_projected.
QueryError(e) ==
  IF e = Api("7") THEN "NotFound"
  ELSE IF e.kind = "Api" /\ e.code \in Credential THEN "CredentialsRejected"
  ELSE IF e.kind = "Api" /\ e.code \in Retryable THEN "Transient"
  ELSE IF e.kind = "Api" THEN "Api"
  ELSE Unanswered(e)

\* FoundDocument::validate_identity: a query by number must return that number.
Identified(o, number) == number # "blank" /\ (o = "query_number" => number = "ours")

\* query_projected
QueryProjected(o, e) ==
  IF e.kind # "document" THEN QueryError(e)
  ELSE IF Identified(o, e.number) THEN "Found" ELSE "Transport"

\* QueryError::answered: what the read policy re-executes.
Answered(error) == IF error = "Transient" THEN "Unavailable" ELSE error

\* Gateway::probe: only the expected miss or a document establishes acceptance.
Probe(e) ==
  LET seen == Answered(QueryProjected("probe", e)) IN
  IF seen \in {"Found", "NotFound"} THEN "Accepted"
  ELSE IF seen = "Api" THEN "Unavailable" ELSE seen

\* storno_send and create_send: a number is the evidence; the unnumbered
\* acknowledgement of a reversal leaves it open.
IssuingOutcome(e) ==
  IF e.kind = "issued" THEN "Issued"
  ELSE IF e.kind = "unnumbered" THEN "Open"
  ELSE ClassifyFailure(e)

Outcome(o, e) ==
  IF o \in Issuing THEN IssuingOutcome(e)
  ELSE IF o = "delete" THEN DeleteOutcome(e)
  ELSE IF o = "credit" THEN CreditOutcome(e)
  ELSE IF o = "probe" THEN Probe(e)
  ELSE Answered(QueryProjected(o, e))

-----------------------------------------------------------------------------

Init ==
  /\ op \in Ops
  /\ key \in {"good", "bad"}
  /\ holds \in (IF op \in Queries THEN BOOLEAN ELSE {FALSE})
  /\ phase = "request"
  /\ acted = FALSE
  /\ response = None
  /\ damage = "none"
  /\ result = Done("none", "none")
  /\ outcome = "none"

\* AgentRequest::to_wire refuses: validation, or a character XML cannot carry.
RefuseLocally ==
  /\ phase = "request"
  /\ result' = Failed("Request", "none")
  /\ phase' = "parsed"
  /\ UNCHANGED <<op, key, acted, holds, response, damage, outcome>>

\* Client::send posts the multipart body.
Send ==
  /\ phase = "request"
  /\ phase' = "sent"
  /\ UNCHANGED <<op, key, acted, holds, response, damage, result, outcome>>

\* szamlazz.hu acts or does not, and answers accordingly.  External.
Serve ==
  /\ phase = "sent"
  /\ \E did \in (IF op \in Queries \/ key = "bad" THEN {FALSE} ELSE BOOLEAN) :
       /\ acted' = did
       /\ response' \in Errors(op, did, holds, key) \cup Vague(op)
                        \cup (IF did THEN Successes(op) \cup Notified(op) ELSE Misdirected(op))
                        \cup (IF op \in Queries /\ holds /\ key = "good"
                              THEN Successes(op) ELSE {})
  /\ phase' = "answered"
  /\ UNCHANGED <<op, key, holds, damage, result, outcome>>

\* The answer arrives as it was sent; or not at all (the request may not have
\* arrived either); or its body stops short, noticed by the transport or not; or
\* something in between answers in its place.  External.
Carry ==
  /\ phase = "answered"
  /\ \/ damage' = "none" /\ UNCHANGED response
     \/ damage' \in {"lost", "incomplete"} /\ UNCHANGED response
     \/ /\ damage' = "cut"
        /\ response.body.shape \in {"envelope", "szamla"}
        /\ response' = [response EXCEPT !.body = Page]
     \/ /\ damage' = "replaced"
        /\ \E status \in {200, 404, 503}, body \in {Page, Plain} :
             response' = Response("none", "none", "none", status, body)
     \/ /\ damage' = "restatused"
        /\ response' = [response EXCEPT !.status = 503]
  /\ phase' = "received"
  /\ UNCHANGED <<op, key, acted, holds, result, outcome>>

\* The rest of Client::send: a failed exchange, an answer whose body did not
\* complete, or the operation's parser.
Receive ==
  /\ phase = "received"
  /\ result' = IF damage = "lost" THEN Failed("Transport", "none")
               ELSE IF damage = "incomplete" THEN Failed("IncompleteResponse", "none")
               ELSE Parse(op, response)
  /\ phase' = "parsed"
  /\ UNCHANGED <<op, key, acted, holds, response, damage, outcome>>

Settle ==
  /\ phase = "parsed"
  /\ outcome' = Outcome(op, result)
  /\ phase' = "settled"
  /\ UNCHANGED <<op, key, acted, holds, response, damage, result>>

\* The outcome is the handler's.
Finished == phase = "settled" /\ UNCHANGED vars

Next == RefuseLocally \/ Send \/ Serve \/ Carry \/ Receive \/ Settle \/ Finished

Spec == Init /\ [][Next]_vars

-----------------------------------------------------------------------------
(* Properties *)

Outcomes ==
  {"none", "Issued", "Deleted", "AlreadyGone", "Done", "Found", "NotFound", "Accepted", "Api",
   "Rejected", "Duplicate", "CredentialsRejected", "Open", "Inconclusive", "Lost",
   "Unavailable", "Transport"}

\* Every exchange settles into one of the outcomes the worker's steps know.
TypeOK ==
  /\ op \in Ops
  /\ phase \in {"request", "sent", "answered", "received", "parsed", "settled"}
  /\ acted \in BOOLEAN
  /\ outcome \in Outcomes
  /\ phase = "settled" => outcome # "none"

\* A refusal is never reported for a write szamlazz.hu performed, whatever it
\* said in which channel and whatever happened to the answer on its way: the
\* worker resolves the write as not made and may send again (classify_failure,
\* DeleteOutcome::from, SetCreditEntriesOutcome::from).
RefusalMeansNotActed ==
  outcome \in {"Rejected", "Duplicate", "CredentialsRejected", "AlreadyGone"} => ~acted

\* A success is never reported for a write szamlazz.hu did not perform; in
\* particular a 56 header, with or without a number, conceals no refusal in the
\* body (parse_reply), an answer cut short proves nothing, and a registration
\* acknowledged for another invoice is none for this one.
SuccessMeansActed ==
  outcome \in {"Issued", "Deleted", "Done"} => acted

\* A document issued with its notification undelivered is reported with its
\* number whenever a complete answer names it once, whatever state its totals
\* and its PDF are in (the leniency of parse_reply).
NumberedNotificationIsIssued ==
  (/\ phase = "settled" /\ op \in Issuing /\ damage = "none"
   /\ result.kind # "Request"
   /\ response \in Notified(op)
   /\ response.body.number # "duplicated"
   /\ "ours" \in {response.number, response.body.number})
  => outcome = "Issued"

\* Absence is concluded only from szamlazz.hu's own 7 and presence only from a
\* document: no page, status or cut answer on the way counts (query_projected).
AbsenceIsAnswered ==
  /\ (op \in Queries \ {"probe"} /\ outcome = "NotFound") => ~holds
  /\ (op \in Queries \ {"probe"} /\ outcome = "Found") => holds

\* The account probe accepts only a key szamlazz.hu accepted (Gateway::probe).
AcceptedKeyIsGood == outcome = "Accepted" => key = "good"

\* What an outcome says is so.
OutcomesAreTrue ==
  /\ RefusalMeansNotActed /\ SuccessMeansActed /\ NumberedNotificationIsIssued
  /\ AbsenceIsAnswered /\ AcceptedKeyIsGood

=============================================================================
