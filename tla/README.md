# szamlazz-rs: TLA+ verification project

szamlazz-rs talks to the Hungarian invoicing service Számlázz.hu. Its core is
`crates/restate-szamlazz`, a worker on the Restate durable runtime that issues,
reverses and deletes documents of an *order* so that nothing is issued twice,
although the service has no idempotency key, replies get lost, processes die
and people change documents in the service's own user interface. Around it are
the client (`crates/szamlazz-agent`) and the receiver of pushed documents
(`crates/szamlazz-adatkapcsolat`). This directory models them, checks the models
with TLC and proves results about the worker's protocols, the client's exchange, the XML
boundaries, the contents of documents, the receiver and the composition of requests with
TLAPS.

Paths below are relative to `crates/restate-szamlazz/src/` unless they start
with `crates/`.

## 1. Inventory

| Component | State it keeps | Operations | Hard behaviour |
|---|---|---|---|
| `Szamlazz.Order`, retained execution (`service/recovery.rs`, `service/handlers.rs`) | per key: exclusive lock, journal, the marker `unresolved-write`; per execution: one `AtomicBool` permit | guard, prepare, mark, arm, write, reconcile, clear | crash between any two steps, replay, abandoned executions, cancellation, kill |
| Marker recovery (`observe_unresolved`, `recover`) | the receipt it journals | compare marker, verify document evidence, record, clear | the observed marker is stale by the time recover runs |
| Gateway (`gateway.rs`, `gateway/recovery.rs`) | none | lookup by external id, hint by order number, create, storno, delete, reconcile | an absent document may still appear; echoed old numbers |
| Document chain (`service/create.rs`) | none of its own, reads the service | existing target, exclusivity, prepayment, proforma link, correct | several reads, each stale when the next is taken |
| Replay-enabled execution (`replay_enabled_write`, `*_replay_enabled`) | lock, journal and marker as above, no permit | write run that may run again | a retry after an executed request |
| `get` (`service/status.rs`) | none | four lookups | not atomic against writers |
| `Szamlazz.Agent` (`service/agent.rs`, `service/storno.rs`) | none | check account, queries, credit entries, storno by number | additive credit entries, retried reversal |
| Prologue (`service/prologue.rs`, `account/`) | journaled account | resolve, fetch credentials | a resolver that is down, credentials rotated between attempts |
| Worker configuration (`config.rs`) | the retry policies | validate, inherit, write back | a policy that repeats too early or never ends |
| Identity (`identity.rs`) | none | order key, namespace, external id | two inputs with one id, a server that normalises or cuts |
| Create requests (`contract/`, `gateway/build.rs`) | approved totals | preflight, validate, resolve references, build | defaults that change between approval and call, a request built again after a crash |
| Line amounts (`contract/document/money.rs`, `crates/szamlazz-agent/src/number.rs`) | none | exact decimals, rounding, agreement of figures | ties, overflow, a deduction that does not cancel |
| `crates/szamlazz-agent` | HTTP session | one exchange per operation, error classes, the queried document | which failures leave the outcome open, damaged answers, garbled values |
| XML boundaries of both crates | namespace scopes | one event at a time | foreign elements, scopes that leak |
| `crates/szamlazz-adatkapcsolat` | the archive's objects, a sequence number | route, resolve the key, fan out, archive, merge the acknowledgements, parse the document | redelivery after a partial failure, overlapping deliveries, crashes between two objects |
| `crates/szamlazz-ipn`, `crates/szamlazz-cli`, `xtask` | none | parsing, command line, build checks | none |

How they interact. A caller invokes a handler of `Szamlazz.Order` for a key.
The runtime serializes the exclusive handlers of that key. The handler guards on
the marker, resolves the account, reads the service through the gateway (each
read a journaled run), stores the marker, arms, and opens one write run, in which
the gateway queries once more and sends at most one request. The result is
journaled, or reconciled by queries until there is positive evidence; then the
marker is cleared. When an owner of a marker was stopped, an operator observes
the marker and submits `recover`.

Beside the orders, `Szamlazz.Agent` reads and writes by number, without a lock.
Every handler begins with the prologue, which pins the namespace and the account
in the journal. The gateway composes requests with the identities and amounts of
the contract types and sends them with the client. Independently, szamlazz.hu
pushes documents to the receiver.

What makes each part correct:

* **Write protection**: a request that may still execute is always named by the
  stored marker; one invocation sends at most once; a settled answer is true now
  and later.
* **Recovery**: only the observed marker is cleared, only when the write is known
  to be decided; a stopped owner does not block an order forever.
* **Gateway**: no conclusion from an absence; an old holder is never taken for the
  new document.
* **Chain**: an order is billed by one invoice or by one prepayment chain, never both;
  a final settles the newest prepayment; a proforma comes first and is converted.
* **Replay-enabled execution**: fresh checks keep a repeated run from a second
  document unless the first request is still on its way.
* **Status**: each slot is what the slot held at some moment of the call.
* **Agent**: a storno may be repeated and what its caller is told is true; credit
  entries are registered twice only after an interruption.
* **Prologue**: an invocation acts for one account throughout, with a current key.
* **Requests**: an external id names one object of one deployment; the document
  received is the one composed and approved.
* **Client**: a refusal means nothing happened, an absence was answered as such.
* **Receiver**: an accepted version is in every member's hands; only a verdict
  stops the pushes; content never costs a record.

The hazards behind these properties are listed, line by line, in `PROJECT.json`.

## 2. Plan

| Step | Module | Content | State |
|---|---|---|---|
| 1 | `Szamlazz` | documents, queries, effects: the service as the worker uses it | done |
| 1 | `UnresolvedOrder` | abstract promise: one unresolved write per order, effects only while unresolved | done |
| 1 | `OrderWrite` | one key under retained execution, composed with the service, outsiders and the operator | done |
| 1 | `OrderWrite_proofs` | type correctness, one send per invocation, the inductive invariant, the safety properties, the refinement | done |
| 1 | `OrderChain` | the decisions of `issue_kind` and `correct` between kinds | done |
| 2 | `ReplayWrite` | the replay-enabled write run and its fresh checks | done |
| 2 | `OrderStatus` | `get` against concurrent writers | done |
| 2 | `AgentStorno`, `CreditEntries` | the two writes by number | done |
| 2 | `Accounts`, `Prologue`, `WorkerConfig` | resolution, credentials, retry policies | done |
| 2 | `Identity`, `DocumentMoney`, `LineAmounts`, `CreateRequest` | ids, amounts and the request they make | done |
| 2 | `Exchange`, `XmlShape`, `WireDocuments`, `QueriedDocument` | one exchange, the XML boundary, the document it brings | done |
| 2 | `PushReceiver`, `PushDocuments` | deliveries, fan-out and archive; the pushed document | done |
| 3 | `Szamlazz_proofs` | what the effects of the service keep, for every proof about documents | done |
| 3 | `OrderChain_proofs`, `ReplayWrite_proofs` | their safety invariants and action properties | done |
| 3 | `AgentStorno_proofs` | true answers about a reversal | done |
| 4 | `Service`, `Crates`, `Requests` | the parts that share no state, composed; the modules the runs check | done |
| 4 | `Service_proofs` | every property of `Service`: get, credit entries, prologue, accounts and configuration proved there, storno carried over | done |
| 4 | `Crates_proofs` | every property of `Crates`: XML boundaries, pushed content, archive, acknowledgements, outcomes and queried documents | done |
| 4 | `Requests_proofs` | external ids are apart; the document received is the one composed and approved | done |
| - | proofs about `LineAmounts` | its properties are about decimals; left to TLC, see section 5 | not planned |

## 3. Modules

### Szamlazz

The documents of one account that matter to one order. `docs` is a sequence and a
document's number is its index, so numbers grow and are never reused. A document
has a kind, the original it reverses (`of`), `ext` (it carries the worker's
external id for its kind, or for its original), `order` (it carries this order's
number), `reversed`, `gone`, and, as history, `by`. External ids are abstracted to
the pair (kind, original), which is what `identity.rs` renders. Assumptions about
the service, taken from how the gateway uses it:

* a query by external id answers with the newest holder;
* the hint, a query by order number, answers with the order's newest document;
* deleting hides a proforma from every query;
* reversing a reversed original names the existing storno and changes nothing;
* a request that is refused, or acknowledged with an existing number, has no effect;
  an initial issuance is never acknowledged with the number of an existing document.

### OrderWrite

| Model | Code |
|---|---|
| `lock` | the runtime's exclusive lock of a key |
| `marker` | state key `unresolved-write` (`service/recovery.rs`), reduced to its token |
| `journal[i]` | the last completed run or state command of invocation `i` |
| `answer[i]` | the journaled `WriteResult`, later the response class |
| `local[i]`, `permit[i]` | the current execution and its permit; lost at `Interrupt` |
| `stray[i]` | an abandoned execution whose process still has permission |
| `recovery` | the `recover` invocation: observed token, evidence, number |
| `net` | requests the service has not decided on |
| `Guard` | `guard` |
| `LookupProceeds`, `LookupAnswers` | the reads before the write in `issue_kind`, `storno`, `delete` |
| `Prepare` ... `Return` | `protected_write`, one action per journaled step |
| `LeadingQuery`, `Send`, `ReceiveReply`, `LoseReply` | `protected_create`, `protected_storno`, `WriteResult::delete` |
| `Reconcile`, `PositiveEvidence` | `reconcile_write_checked` |
| `SubmitRecovery` ... `AbandonRecovery` | `observe_marker`, `recover_marker_inner` |
| `Execute`, `Refuse`, `Drop` | the service |
| `OutsideStorno`, `OutsideDelete`, `OutsideIssue` | changes made elsewhere |

Where the model is coarser than the code, and why that is sound:

* A lookup, or the pair *verify-original* and *lookup-storno*, is one step: each
  read is followed by a fresh one in the write run, and the two commute with every
  outside change that matters to the decision.
* The query of a reconciliation and the journaling of its result are one step,
  because positive evidence is stable: a document issued by the write stays issued,
  a reversal stays.
* The invocation retry budget is a choice: any interruption may pause.
* A lost acknowledgement of *arm-write* is `Arm` followed by `Interrupt`.
* The runtime ignores whatever an abandoned execution tries to journal. That is a
  guarantee of Restate the code relies on.
* Documents under the worker's external ids come from this worker and this order,
  or collide (`OutsideIssue` with `collides`).
* Operators attest the truth. What a false attestation does is outside the code's
  control.
* In *UncertaintyIsMarked* a storno whose original is already reversed is an
  exception: such a write may be settled by someone else's reversal found through
  the hint, while the worker's own request is still on its way. It then changes
  nothing.

### UnresolvedOrder

Two variables: the unresolved write and the set of writes that took effect.
`OrderWrite` implements it with `unresolved <- marker, effects <- executed`.

### OrderChain

What `OrderWrite` takes as one lookup is here the sequence of reads `issue_kind` or
`correct` makes before it writes, each a journaled step between which anyone may
reverse, delete or issue documents. The write itself is reduced to what
`UnresolvedOrder` promises: one at a time, taking effect at most once and before it
is resolved.

| Model | Code |
|---|---|
| `op` | the request and `Refs` of the running handler; `op.todo`, the steps it still has to take |
| `refs` | the references *elolegSzamlaszam* and the corrected number of issued documents |
| `Steps`, `ExclusiveWith`, `LinksProforma` | the order of steps in `issue_kind`, `exclusive_with`, `links_proforma` |
| `Begin` | `prepare` |
| `ReadTarget`, `Lookup` | `existing_target`, `lookup_step` |
| `ReadOther`, `NotLive` | `exclusivity`, `decide_exclusivity` |
| `ReadPrepayment` | `prepayment_for_final` |
| `ReadLink` | `proforma_link` and its two decisions |
| `ReadBase`, `Base` | `correct`, `decide_base` |
| `Answer` | every refusal, existing document or failed read |
| `Submit`, `Execute`, `Resolve` | `create_step`, as `UnresolvedOrder` |
| `Storno`, `DeleteProforma`, `OutsideIssue` | others, and this order's own storno and delete |

`Answer` may end an operation at every read, because every read can fail; it never
writes, so the safety properties do not depend on when it is taken. The order-number
hint is not a guard of `Lookup`: it is best effort in the code, and no property may
rest on it. One correction id is modelled. The conversion of proformas by the service
(`Consumed`) follows `docs/szamlazz-hu-behaviour.md`, section *Proformas*.

*OwnProformaIsConverted* is stated for `auto` and `none` only. With
`options.proforma: {number}` naming another proforma of the order, retained execution
does not look at the worker's own proforma; whether the service then leaves it alive
is not known from the recorded observations. Replay-enabled execution looks
(`ReplayWrite`, `KindsPermit`).

### ReplayWrite

The same key under replay-enabled execution (`docs/design/request-response-outcomes.md`).
The marker is stored and acknowledged as before, but no permission is consumed: a write
run whose result was not journaled runs again, beside an abandoned execution of itself or
its late request.

| Model | Code |
|---|---|
| `intent[i]` | what the marker pins: operation, target, prepayment, proforma |
| `exec[i]`, `attached[i]` | the executions of the write run; the runtime listens to the last one only |
| `Admit`, `Admissible` | the reads before the marker, the two extra ones of replay-enabled execution included |
| `Mark`, `Commit`, `Open` | `replay_enabled_write` up to the run |
| `CheckTarget`, `CheckKinds`, `CheckReferences`, `CheckHint` | the fresh checks of `create_replay_enabled`, `storno_replay_enabled`, `delete_replay_enabled`, in order: one step per group of queries (`CheckKinds` asks for each kind concerned, `CheckReferences` for the proforma or the prepayment); outside changes before and after a group stand for those within it |
| `CheckSettles`, `CheckFails` | a check that finds the effect, a check that fails |
| `Send`, `Receive`, `ReplyResults` | the request and what each reply concludes |
| `Reconcile`, `Clear`, `Stop`, `Interrupt` | reconciliation, clearing, cancellation, a lost execution |

A second document is an accepted risk of this mode; *DuplicatesNeedOverlap* says exactly
when it may happen: only if some execution was checked while another one's request was
still undecided. `overlapped` is the history variable that records this. Correctives do not
occur: the worker refuses them in this mode before anything else (`docs/adr/0019`).

### OrderStatus

`get`: `Begin`, then one journaled `Read` per kind in the order of `ALL`, or `ReadUnanswered`
(counted by the read policy), `ReadFaults` (an answered code, cancellation), then `Respond`,
which folds the observations. `history` keeps what each slot could be seen to hold since
the call began; the observations of one answer may be of different ages, so *StatusIsTrue*
is stated slot by slot.

### AgentStorno and CreditEntries

The two writes of `Szamlazz.Agent`. `AgentStorno` has one action per journaled or retried
step of `storno` (`Verify`, `Name`, `Lookup`, `Leading`, `Send`, `Reply`, `VerifyReply`,
`Settle`, `SettleOnce`), with `Crash`, `Kill`, `Cancel`, a service that acknowledges,
declines, loses or executes late, and outsiders that reverse or put an unrelated document
under the storno id (`Collide`). `runs` counts the executions the issue policy allows.
`CreditEntries` has one send without a query before it; an interrupted execution repeats
it. The ledger is the sequence of registered entries, so a replaced, appended or doubled
registration can be told apart. `serialised` says whether the callers take turns.

### Accounts, Prologue, WorkerConfig

`Accounts` is the static resolver: the configurations it accepts (`Accepted`, with the
comparison of endpoints by canonical form), `Resolve` and the key fetched for the result.
`Prologue` is one invocation over its executions: `Pin`, `Resolve`, then the steps of a
body, each of which fetches the credentials only if it really executes (`cell` is
`Execution::gateway`). A body is a sequence of step kinds: a prerequisite read, a
verification, a best-effort hint, a write. `WorkerConfig` keeps times in milliseconds and
factors in halves; `Checks` lists the validation in its order, `Fail` and `Retry` run a
step that goes on failing under the policy Restate is given (`RunRetryPolicy`).

### Identity

Texts are sequences of segments with the traits the code looks at (length, alphabet, form,
padding); a namespace, an order key, an invoice number or a correction id is accepted or
not, and an external id is their composition. The server may keep an id as it is,
normalised, or cut. Deployments issue and look up under their own ids. (`normalize_buyer_name`, in
the same file, is part of `CreateRequest`: `Trim`.)

### DocumentMoney, LineAmounts, CreateRequest

`DocumentMoney` is the arithmetic: exact decimals that refuse rather than round, VAT by
rate and minor unit, the agreement of asserted figures, totals. Decimals are pairs of
coefficient and scale with a small width, so that the refusals of `try_from_i128_with_scale`
happen. The currencies have zero, two and three minor digits, and forints also their alias
`Ft`; those with four digits would take the arithmetic past TLC's integers.
`LineAmounts` prepares a line, asks again with the figures asserted (or off by one
unit), and deducts it. `CreateRequest` is a call from approval to the received document:
`Approve` (the preflight), `ChangeDefaults`, `Prepare`, `Resolve`, `BuildRequest`, `Crash`,
`Send`; `WriteXml` gives the flags the service reads the kind from. Every setting a call may
override is there (currency, language, exchange rate, template, e-mail, e-invoice, number prefix),
and *ReceivedAsIntended* asks of each that it is the call's own or else the account's. Left
out are the dates and the comment, which are passed on as written, and what comes with the
seller.

### Exchange

One exchange: `RefuseLocally`, `Send`, `Serve` (the service acts or not and answers with any
of the shapes it has: header, envelope, plain text, page), `Carry` (the answer arrives,
damaged or not), `Receive` (the verdicts of `wire.rs`, `envelope.rs` and the operation's
parser), `Settle` (the gateway's outcome). Which codes mean that nothing happened is the
vendor's documentation as `error.rs` records it. Multipart assembly and cookies are left out.

### XmlShape

The two validating readers, one event at a time, beside reference variables that restate
the events by the XML grammar. The tokenizers are external. What is inside a DTD is
abstracted to right or wrong.

### WireDocuments, PushDocuments, QueriedDocument

A document is a tree of blocks with leaf elements; a leaf's text is absent, empty, good,
negative or junk. `WireDocuments` holds the tables: which elements the structs of
`document.rs` and `ops/query_xml.rs` read, with which reader, and the vendor's schemas, the
reference they are compared with. `PushDocuments` parses leniently and strictly
(`Parse`, `ParseStrict`, `Validate`); a number is written as a decimal, so NaN and INF, which
`xs:double` allows and the crate refuses, do not occur. `QueriedDocument` goes from a document's facts
(`truth`) through the renderings the schema allows (`doc.says`), departures from them in any leaf
(`doc.edits`, the leaves with the facts included), the strict parse, the identity check of
`query_projected` (`ValidIdentity`: a body without a number, or with another than the one asked for,
is a failed query and never evidence), the worker's projection (`Project`), its journal entry
(`Encode`, `Decode`) and the answer of `query`. A boolean in none of the four spellings refuses the
body, so *GarbledIsNotAbsent* can be about it. A document may name itself as the invoice it
reverses, which `is_storno_of` does not take for a storno. Because a garbled but readable text
(an order number of another form, a negative code) may hide what a document is,
*ReadingIsTruth* has two halves: nothing false is ever concluded, and everything true is when the
facts' leaves are whole.

### PushReceiver

The vendor pushes a record until it gets a 200 or its attempts are spent (`Push`, `GiveUp`,
`Change`). A write of a versioned object that fails (`WriteFails`) may have taken effect or not. A request the vendor abandoned goes on in the receiver, so two may be handled
at once; `Crash` ends all of them. `Resolve` is the key lookup, `ArchiverStep` and `AppStep`
one await of a member each (`WriteVersion`, `WriteLatest`, `WriteFails`), `Merge` the
acknowledgement. `nest_at`'s two routes are one.

`contents` says what each version of an invoice has: a PDF or none (`pdf` is optional, and one
that cannot be decoded is read as none) and the month of its issue date, or none, which is the folder of its
objects (`Archiver::path`). The archiver writes what a version has and removes nothing. After a
version without a PDF the earlier version's `name.pdf` stays beside the new `name.xml` and
`name.json`, and after a change of month the whole earlier set stays in its old folder, so the comment of
`Redelivery::Both` (`crates/szamlazz-adatkapcsolat/src/archive.rs:73`, "`name.ext` always holds the
latest state") holds of the objects the latest version has, not of all that are in the store. That is
what *LatestWins* says: without overlapping deliveries, each artifact the accepted version has
is the one under its unversioned name. A reader of the archive must take the set of objects
from the JSON or XML, not from the folder.

### Service, Crates, Requests

The parts of the worker, the parts of the two other crates, and the parts of composing a
request (`Identity`, `LineAmounts`, `CreateRequest`), that share no state. A
behaviour is one component's, chosen at the start, and leaves the variables of the others at
`"idle"`: the state space is the sum of theirs, not the product. Every bound and every table
of an instance is a CONSTANT, and `Bounds` gathers the assumptions of the components. A
property of such a module gathers the named parts of one component (for instance
*StornoIsAccountedFor* those of `AgentStorno`), each of which is documented in the
component's module. `MCService`, `MCCrates` and `MCRequests` extend them with the values TLC
uses; `Service_proofs`, `Crates_proofs` and `Requests_proofs` with the proofs.

In `Crates`, the component `queried` has all documents. To keep the instance small, at most
`MaxForms` of a document's facts are in another than their usual form (a reversal written `1`,
an empty reference), a fact's leaf is varied under the usual forms and the rest of the body under
one document (`Sample`); what is read of a leaf depends on no other leaf. The theorems hold for
every `MaxForms`. `Requests` extends
`Identity`, whose idle state is its initial one, so the names of `Identity` are its own and the
composition's begin with `Requests`.

### MCProgress

`MCProgress` puts components side by side in the same way for the liveness properties, with the
fairness of each component.

## 4. Runs

| Run | Instance | Checks |
|---|---|---|
| `order_write` | two invocations, invoices, 3 documents | `TypeOK`, `UncertaintyIsMarked`, `AtMostOneSend`, `OneLiveDocumentPerSlot`, `SettledResultsAreTrue`, implements `UnresolvedOrder` |
| `order_write_delete` | two invocations, proformas, 2 documents | `SettledResultsAreTrue` with deletions, which no query settles; the others are proved for every kind |
| `order_write_progress` | two invocations, 1 document | `StoppedOwnerIsRecoverable` |
| `order_chain` | invoices, prepayments, finals (4 documents); proformas (3); correctives (3) | `TypeOK`, `NoDoubleBilling`, `FinalSettlesNewestPrepayment`, `CorrectivesHaveBases`, `ProformaComesFirst`, `OwnProformaIsConverted` |
| `replay_write` | two invocations, invoices with 3 documents or all kinds with 2, two executions per run | `TypeOK`, `UncertaintyBlocks`, `DuplicatesNeedOverlap`, `SettledWritesHappened` |
| `service` | get (3 documents), storno (two calls, with a proforma or a managed invoice beside), credit entries (two calls, sizes around 5), account tables of two scopes, the prologue under four bodies, configurations around every limit | `TypeOK`, `StatusIsTrue`, `StornoIsAccountedFor`, `CreditAnswersAreTrue`, `OnlyInterruptionsRepeat`, `AccountsAreSeparate`, `InvocationsKeepTheirIdentity`, `PoliciesHold` |
| `crates` | XML three elements deep, four document streams with one departure each, deliveries of two versions, which lose or gain a PDF or change their month, with two faults, every answer to seven operations, queried documents with one departure each | `TypeOK`, `BoundaryIsExact`, `PushedContentIsKept`, `ArchiveIsComplete`, `AcknowledgementsAreTrue`, `OutcomesAreTrue`, `QueriedDocumentIsTrue` |
| `requests` | the texts closest to a confusion, small decimals, documents with one unusual trait, each setting written or left out | `RequestsTypeOK`, `IdentitiesAreApart`, `LinesAddUp`, `SentAsIntended` |
| `progress` | get, storno, prologue, receiver, one replayed and one retained write | `CallsEnd`, `PushesSettle`, `WritesSettle` |
| `worker_config_order` | configurations | `ReportedInOrder`, violated |
| `push_documents_schema` | pushed documents | `StrictMeetsTheSchema`, violated |
| `create_request_currency` | create requests | `ApprovedMoneyHolds`, violated |

The last three show where a comment or a doc says something the code does not do; the
findings in `PROJECT.json` quote them:

* `config.rs` says a zero cap on any table and the issue floor are reported before any
  table's consistency rules; the query table's delays are checked in between.
* `InvoiceDocument::validate` says it checks every `minOccurs="1"` element; it does not look
  at an outgoing supplier's postal address, and an empty *kifizetesek* wrapper counts as absent.
* `monetary_preflight` says approved totals keep a different resolved currency from changing
  the money; only the figures are compared, so totals in whole units approved in forints
  are sent in euros after the account's default changed. Pinning the currency prevents it.

Bounds. Two invocations are enough for a second writer to meet the first one's
marker, late request or abandoned execution; the protocol treats any further one
alike, because everything between them goes through one lock and one marker. Three
documents are the least with which a document is issued, reversed (the storno is a
document) and reissued. With proformas two suffice: one deleted, one issued in its
place. `MaxDocs` is the only bound of `OrderWrite`; sends and attempts are not
bounded. Calls are symmetric in the safety runs; the liveness runs use no symmetry.

In `OrderChain` four documents are a prepayment, its final, the prepayment's storno and
whatever is created next, the longest sequence the exclusivity table speaks about. Three
are an own proforma, another one (or a colliding holder) and the invoice that converts; or
an invoice, its corrective and a second candidate. The properties are proved for every
number of documents.

In `ReplayWrite` two executions of a run are one that was abandoned and one that is
listened to; a third would relate to the second as the second to the first. Two racing
calls meet each other's reversal or registration at every step of the by-number writes;
two attempts and two runs are a first and a repeated one, and credit entries are tried at
0, 1, 5 and 6, around the limit of five, so that a sixth entry that leaves the worker violates
*CreditAnswersAreTrue*. `FETCH_ATTEMPTS` is the code's. Two namespaces,
accounts and keys are an old and a new one; two changes take a value away and back. In
`PushReceiver` two versions overlap in two slots, and two faults are fewer than three
attempts, the case in which nothing may be dropped. XML three elements deep has an element
inside a foreign one inside the root, and documents are of any length. One departure from
a complete document is enough because readers and validation look at each element apart;
the few that relate two elements are tables of their own; the proofs are for any number of
departures. Decimals have at most five digits
and four places: products overflow, round up, round down and tie in units, cents and
thousandths.

Deadlock is checked in `order_chain` only: everywhere else the system may stop, when
every invocation, call or delivery has ended.

Fairness. In `OrderWrite` (`FairSpec`) `OutagesEnd` says that from some point on no
execution is interrupted; without it a worker that crashes forever proves nothing. The runtime
attempts every invocation it has not ended, and a person resumes a paused one
(weak fairness of `Attempt`, `Resume`); a running handler takes its next step. A
request is decided or lost. For recovery the operator is strongly fair about
submitting a truthful attestation, since other recoveries may come in between, and
the steps of an attested recovery are strongly fair: recoveries may be refused or
given up any number of times, but not at the same step every time.
No fairness is assumed of callers, outsiders, cancellation or kills.

In `progress` each component has the fairness its module gives it, restricted to its own
behaviours; `OrderWrite` without recovery's part. `get`, `storno` and the prologue: the
runtime executes what it has not ended, so some step of the handler is taken; nothing says that
the service answers, since a read that is not answered is a step too and the policies bound
it. Replay: every journaled step, every execution that runs and every request on the wire
is decided. Receiver: szamlazz.hu pushes while it has attempts, gives up waiting in the end,
requests arrive, and the receiver's tasks are scheduled; faults are bounded by
`MaxFaults`, not excluded.

## 5. Proofs

Every proof has the same shape: an inductive invariant `IInv` that holds initially, is kept
by every action (one lemma per action) and implies the properties. TLC checked each `IInv`
on a small instance before it was proved. The theorems hold for every value of the constants
that satisfies the named assumptions of the component's module, which TLC evaluates in the
runs.

### What documents keep

`Szamlazz_proofs` says what each effect of the service does to the documents, once for all:
`Kept`, nothing is lost and no reversal or deletion is undone, and `NoneOwned`, which of the
new documents are under an external id of the order.

### Retained execution

The theorems hold for any set of invocations, any kinds and any `MaxDocs`. The assumptions
of `OrderWrite`: the actors are distinct, the created kinds are kinds the service issues, and
the bound is a natural number.

`OrderWrite_proofs`:

* `TypeCorrect`: `Spec => []TypeOK`, one lemma per group of actions.
* `OneSendPerInvocation`: `Spec => []AtMostOneSend`. The property is not inductive:
  it does not say that the permit implies that nothing was sent and no abandoned
  execution exists, nor at which journaled step an execution may hold permission.
  `OnePermission` says so: permission is in exactly one place, and it is created only
  at *arm-write*, which no replay executes again.
* the lemmas on the lock, the marker and requests; what each change of the documents
  keeps (`Kept`, `NoNewOwn`); and that the evidence a write is settled with is true
  when it is taken (`IssuedEvidenceIsTrue`, `PositiveEvidenceIsTrue`,
  `LeadingResultIsTrue`).

It proves that `IInv` is inductive (`Invariance`) and from it:

* `UncertaintyAlwaysMarked`, `NoSecondLiveDocument`, `SettledResultsAlwaysTrue`;
* `Refinement`: `OrderWrite` implements `UnresolvedOrder`. Storing the marker is
  *Admit*, an execution at the service is *TakeEffect*, clearing the marker, by the
  owner or by recover, is *Resolve*; everything else is a stutter.

Why the parts of `IInv` need each other. A marker may be cleared when its write is
settled, so *UncertaintyIsMarked* needs that settled results are true
(`ResultsAreTrue`). A reissue settles on a document under its external id, which is
its own only if the slot is still as its lookup saw it (`SlotAsExpected`). The slot
stays so because whoever else could issue into it would have to hold the marker
(`MarkerDiscipline`, *UncertaintyIsMarked* again), because only invoices are reversed
and only proformas deleted (`TargetsOfTheirKind`, `DocumentsInOrder`), and because
the lookup itself saw all older documents reversed. recover clears on what was true
when it was submitted, which stays true (`RecoveryIsJustified`). So the properties
are proved together.

### The chain of an order

`OrderChain_proofs`, for any kinds an order creates and any number of documents
(`ChainOrders`). A handler reads one kind after another, and its write takes effect later; the
properties are not inductive because they say nothing of what a running operation has read.
`Checked` says it, step by step: behind each step that is not ahead any more (`Ahead`), what
that step concluded still holds. It does because reversals and deletions only remove live
documents, outsiders issue nothing under the order's external ids that counts as the order's,
and there is one operation at a time. `Chain` is what the documents themselves keep: of the
order's documents of a kind only the newest can be live (`NewestLives`), proformas are never
reversed. From it `NeverBilledTwice`, `FinalAlwaysSettles`, `CorrectivesAlwaysBased`, and the
action properties `ProformaAlwaysFirst` and `ProformaAlwaysConverted`.

### Replay-enabled execution

`ReplayWrite_proofs`, for any invocations, orders and number of executions of a run
(`ReplayActors`, `ReplayKinds`, `ReplayBound`). `UncertaintyAlwaysBlocks` needs the disciplines
of lock, marker and runs: the marker is stored before a run opens and only evidence clears
it. `SettledAlwaysHappened` needs `EvidenceIsTrue` and that a document, a reversal or a deletion
does not go away. `DuplicatesOnlyByOverlap` needs `Undisturbed`: as long as no check
overlapped an outstanding write, at most one execution is past its checks, and what it
checked holds until its request is decided.

### Reversal by number

`AgentStorno_proofs`, for any calls, account and policies (`StornoBounds`; `StornoAccount`: the
documents found in the account are others', and every storno among them stands beside its
reversed original, as the service keeps them). `StornoAlwaysAccountedFor` is about each call
apart (`Sound`): before the write step nothing was sent; the only send is on the wire or refused
while it is the only one; a run about to send has an execution granted for it; the original
was verified as not managed. `Books` carries `StornoAccount` over to every state, so a storno that
is found proves the reversal it is reported as.

### Order status

The first section of `Service_proofs` (`StatusInv`), for any number of documents and attempts
(`StatusBounds`). `ServiceStatusIsTrue` is about answers put together from reads of different
ages. It needs that
what an observation says stays true (`Grounded`: the document it names keeps naming the
same proforma), that a proforma a document names is gone for good (`Converted`), and that the
history has every slot's present content (`HistoryIsCurrent`) and every journaled read
(`SeenInHistory`). That a query has a newest holder to answer with is a theorem of its own
(`HolderFound`), from the well-foundedness of the natural numbers.

### The worker's other parts

`Service_proofs` proves all eight properties the run `service` checks, for any set of components
and any constants that satisfy `Bounds`. Each component has an inductive invariant over its own
variables; `ServiceInv` says that the running component's holds and that the others' variables
are idle. A step of the composition is a step of the running component
(`OneComponentMoves`), so the components' lemmas carry over. `storno` has its own in
`AgentStorno_proofs`, instantiated with the variables of the composition; the others are proved
here, `get` with the lemmas of `Szamlazz_proofs` (`StatusEffects` says that the operators are the
same).

* Credit entries (`CreditInv`, for any calls, sizes and attempts, `CreditBounds`). Each request is
  bought with an attempt (`Bought`), so two effects of one call need two attempts; what is sent was
  validated, so it has at most five entries; callers that take turns leave only the last call under way (`TakeTurns`), and a
  snapshot answered in its first attempt has no request left that could overtake a later one
  (`Overtaken`).
* Prologue (`PrologueInv`, for any handlers, namespaces, accounts, keys and policies,
  `PrologueAssumption`). The part of the assumption that is more than typing says where writes
  are: only handlers of `Szamlazz.Agent` write through `run_operating` (`service/agent.rs`,
  `service/storno.rs`), these retain nothing, and the write is the last step of their bodies; the
  writes of `Szamlazz.Order` are the other modules' subject. The property rests on three
  facts: a request that left (`Fits`) shows that namespace and account are recorded, and what is
  recorded is never recorded again (`Recorded`); a client exists only within one execution, during
  which `held` has the store's keys of every moment (`ClientOfExecution`, `StoreIsHeld`); a write
  that left is the last step, so a cancelled run is that step's or nothing is left to cancel.
* Accounts (`AccountsInv`, for any tables over any scopes, ids, keys and endpoints,
  `EntriesAssumption`). What the resolver was built from was accepted, so two scopes that lead to
  one account agree in everything a request is sent with; a request served keeps the entry it was
  resolved to.
* Configuration (`ConfigInv`, for any configurations, `ConfigsAssumption`). A configuration that
  starts has every check behind it, in the order `Validate` takes them; the delays of a step that
  goes on failing stay between the first one and the cap, so executions never come closer than
  the issue floor, and the count and the time spent stay within what the policy allows.

### The two other crates

`Crates_proofs` proves the seven properties of the run `crates`, for any constants that satisfy
`Bounds`, with the same composition argument (`CratesInv`). In particular `MaxDepth`, the number
of versions, attempts and faults, the error codes, and in how many places at once a
document departs from a complete one, are arbitrary.

* XML boundaries (`ShapeInv`). *BoundaryIsExact* compares the reader's scopes with the grammar of
  the document. It needs a scope per open element that says what the elements down to it
  declare, innermost first (`Nested`, `Innermost`); that the skipped elements are those from the
  outermost foreign one on (`Skipping`); and that the reader's flags and counters and those of the
  grammar move together, also while an end tag is still to be popped (`Abreast`).
* Pushed documents (`DocumentsInv`: the verdicts are those on the body as it was sent).
  *PushedContentIsKept* rests on the agreement of two tables per block, the readers of a struct and
  the types of the vendor's schema (`PushAgrees`, proved for each of the 24 blocks of the four
  streams and gathered in `TablesAgree`): every leaf of the schema has a reader of a kind that
  keeps its values, the readers that may fail stand where the schema has the identity, a number or a
  boolean, and what the validation demands the schema demands too. From the tables and the
  readers follow why a body is refused (`RefusedForCause`), that a value said is kept
  (`SaidIsKept`), and that a conforming body is parsed and valid (`ConformingIsParsed`,
  `ConformingIsValid`).
* Queried documents (`QueryInv`: what the handler has and what the journal holds are
  the projection of a body that was read and names a document). *QueriedDocumentIsTrue* is about
  bodies with any number of departures. It needs that a leaf with a fact is as written or is edited
  to a text its reader accepts (`FactReaders`, `EditedIsReadable`, `TextsAre`), what each such text
  projects to (`ProjectIs`), and that the journal's
  encoding is undone by its decoding (`Journaled`); and for the whole body the agreement
  of the 16 wire structs with the schema (`QueryAgrees`, `AnswerTables`): a mandatory reader
  stands only where the schema has minOccurs="1", and a strict one where it has the type.
* Receiver (`ReceiverInv`). *ArchiveIsComplete* and *AcknowledgementsAreTrue* are about requests
  that overlap. The invariant follows each request through its members: what each of them has
  already done for the version it carries is in the archive or was handled, an answer exists only when
  all are done, and without abandoned requests there is one at a time (`Alone`); every object
  is of a version that was pushed (`AllKnown`), and faults and sequence numbers are counted.
  That the objects without a version are the accepted version's needs that no request overlapped,
  and is proved of those that version has (`WritesCover`: the writes of a member are its
  artifacts).
* Exchange (`ExchangeInv`). What the service did restricts what it answers (honest answers), what
  the transport did to an answer restricts what the client reads from it (plausible results), and
  each outcome of the gateway follows from such results only if it is true (justified outcomes).
  The three are separate predicates, with one lemma per stage of the exchange.

### Composing a request

`Requests_proofs` proves two of the four properties of the run `requests`, for any constants
that satisfy `Bounds`. `RequestsInv` composes the invariants of two components; the third shares
no variable with them.

* Identity (`IdentityInv`, for any words, prefixes, keys, numbers and correction ids,
  `WordsAssumption`, `TextsAssumption`; `TokensAssumption`: the eight tokens of identity.rs are
  words of lower-case letters with their byte counts). Every call that passes the validation
  has one of four forms (`CallsHaveForms`), each of whose parts is a single word, because no alphabet
  has the separator. An id then has three or four words and the place of its token tells the forms
  apart (`IdsAreApart`): a correction id is no token, an order's ids carry theirs in the third place,
  and an unmanaged storno in the second and fourth. One pair of calls does share an id, order
  `by-number` reversing invoice `storno` and the unmanaged storno of it, and they mean the
  same reversal. That ids are kept apart by szamlazz.hu needs that they are kept whole: the parts'
  bounds and the tokens' lengths sum up to at most `ExternalIdMax` (`IdsFit`, with bytes
  counted as a set, `RequestsIdsAreWhole`). `IdentityInv` says that every document is one a call
  issued, and no two of one id; from it *IdentitiesAreApart* (`RequestsIdentitiesAreApart`).
* Create (`CreateInv`, for any documents and defaults, `InputsAssumption`). *NoLateRefusal* needs
  that a build that passes with placeholder references passes with the real ones
  (`PlaceholdersSuffice`): the references decide nothing but `MissingReference`, and neither the
  Agent's checks nor the text check look at them (`ReferencesDoNotMatter`). The journal holds
  settings under which the document stands (`Stands`) and references of the call's kind
  (`Referred`), so every build, of whichever execution, gives the one request of the call
  (`Made`), whatever the defaults are by then, and the document received has each setting as the
  call or else the account has it. Approved totals are the document's
  `expected_totals`, and a build that passes has totals equal to them
  (`PricedAsExpected`). The arithmetic of the lines is left uninterpreted throughout.

### What the proofs changed in the models

* Some definitions used CASE with arms that overlap, where the code takes the first match. TLC
  takes the first arm too, but the meaning of such a CASE is a choice. They are IF/ELSE chains
  now (`WorkerConfig`, `Exchange`, `CreateRequest`, `DocumentMoney`, `PushReceiver`).
* `WriteFails` lacked the case in which the failed write of a versioned object had taken effect
  and used a sequence number. Both properties hold with it.
* `WorkerConfig` reports the least violated check instead of recursing over the list, and
  the merged acknowledgement is written for its at most two members, so that both can be proved
  about.
* The length of a composed text is the number of its bytes, as a set, instead of a fold over its
  words; `CreateRequest` says *OneRequestPerCall* without counting. Each means what it meant.
* `Requests` has the decimals' widths and inputs as parameters, of which the former instance is a
  value.
* The tables of `WireDocuments` are merged with an operator of the module (`++`) instead of TLC's
  `@@`, whose definition the prover does not know.
* The account of `AgentStorno` is a parameter (`Holdings`), of which the former two instances are
  values.

### Only model-checked

* Liveness (`StoppedOwnerIsRecoverable`, `CallsEnd`, `PushesSettle`, `WritesSettle`), which is out
  of the prover's reach.
* `LinesAddUp` and the parts of `RequestsTypeOK` about lines and documents: amounts are quotients
  of products of decimals, rounded at a power of ten. The provers have no exponentiation, and
  the bounds on the rounding are nonlinear in the operands. (The part about identities is
  `RequestsIdsAreWhole`.)
* `ApprovedMoneyHolds` of `Requests`, which a run shows to be violated.

## 6. Not modelled

* `crates/szamlazz-ipn`: parsing of one status snapshot, without state.
* Receipts of `crates/szamlazz-agent`: request and response records of operations the
  worker does not use.
* `crates/szamlazz-cli`, `xtask`: command line and build checks.
* Decoding of markers other deployments wrote, and the comparison of an attested
  completion with the marker's operation; what a false attestation does.
* Encoding of journal entries, faults and ingress bodies; multipart assembly, cookies,
  logging and metrics.
