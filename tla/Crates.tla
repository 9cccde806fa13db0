------------------------------- MODULE Crates -------------------------------
(***************************************************************************)
(* The client and receiver crates' parts, which share no state, side by    *)
(* side: a behaviour is one component's, chosen at the start, and leaves   *)
(* the variables of the others alone.                                      *)
(***************************************************************************)
EXTENDS Integers, Sequences

CONSTANTS
  Components,                                   \* the components a behaviour may be of
  Surfaces, MaxDepth,                           \* xml
  Streams, PushEdits,                           \* documents
  Pushed, Redeliveries, Fanouts, MaxVersion, Contents, Attempts, MaxFaults,   \* receiver
  Ops, ErrorCodes,                              \* exchange
  Types, OrderNumbers, Forms, MaxForms, AnswerEdits   \* queried

VARIABLES component,
  surface, scopes, pendingPop, depth, seenRoot, first, dirty, skipped,
  emitted, verdict, open, roots, started, dtd, due, wellformed,             \* xml
  parsed, strict,                                                           \* documents
  kind, contents, redelivery, members, version, left, vendor, awaited, connected,
  requests, latest, kept, sequence, handled, faults, refusals, overlapped,  \* receiver
  op, key, phase, acted, holds, response, damage, result, outcome,          \* exchange
  truth, read, entry, found,                                                \* queried
  doc                                                                       \* documents and queried

-----------------------------------------------------------------------------
(* The components *)

Shape == INSTANCE XmlShape             \* the XML boundaries of both crates
Documents == INSTANCE PushDocuments    \* the content of a pushed document
               WITH Kinds <- Streams, MaxEdits <- PushEdits
Receiver == INSTANCE PushReceiver      \* szamlazz-adatkapcsolat behind szamlazz.hu's pushes
              WITH Kinds <- Pushed, Orders <- Fanouts
Agent == INSTANCE Exchange             \* one operation of szamlazz-agent
           WITH Tokens <- ErrorCodes
Query == INSTANCE QueriedDocument      \* the document an XML query is answered with
           WITH Orders <- OrderNumbers, MaxEdits <- AnswerEdits

ASSUME Bounds ==
  /\ Shape!SurfacesAssumption /\ Shape!MaxDepthAssumption
  /\ Documents!KindsAssumption /\ Documents!MaxEditsAssumption
  /\ Receiver!KindsAssumption /\ Receiver!RedeliveriesAssumption
  /\ Receiver!OrdersAssumption /\ Receiver!BoundsAssumption /\ Receiver!ContentsAssumption
  /\ Agent!OpsAssumption /\ Agent!TokensAssumption
  /\ Query!TypesAssumption /\ Query!OrdersAssumption /\ Query!FormsAssumption
  /\ Query!EditsAssumption

-----------------------------------------------------------------------------
(* Composition *)

forShape == <<surface, scopes, pendingPop, depth, seenRoot, first, dirty, skipped,
              emitted, verdict, open, roots, started, dtd, due, wellformed>>
forDocuments == <<parsed, strict>>
forReceiver == <<kind, contents, redelivery, members, version, left, vendor, awaited, connected,
                 requests, latest, kept, sequence, handled, faults, refusals, overlapped>>
forExchange == <<op, key, phase, acted, holds, response, damage, result, outcome>>
forQueried == <<truth, read, entry, found>>

vars == <<component, forShape, forDocuments, forReceiver, forExchange, forQueried, doc>>

Idle == "idle"
IdleShape ==
  /\ surface = Idle /\ scopes = Idle /\ pendingPop = Idle /\ depth = Idle /\ seenRoot = Idle
  /\ first = Idle /\ dirty = Idle /\ skipped = Idle /\ emitted = Idle /\ verdict = Idle
  /\ open = Idle /\ roots = Idle /\ started = Idle /\ dtd = Idle /\ due = Idle
  /\ wellformed = Idle
IdleDocuments == parsed = Idle /\ strict = Idle
IdleReceiver ==
  /\ kind = Idle /\ contents = Idle /\ redelivery = Idle /\ members = Idle
  /\ version = Idle /\ left = Idle /\ vendor = Idle /\ awaited = Idle /\ connected = Idle /\ requests = Idle /\ latest = Idle
  /\ kept = {} /\ sequence = Idle /\ handled = Idle /\ faults = Idle /\ refusals = Idle
  /\ overlapped = Idle
IdleExchange ==
  /\ op = Idle /\ key = Idle /\ phase = Idle /\ acted = Idle /\ holds = Idle
  /\ response = Idle /\ damage = Idle /\ result = Idle /\ outcome = Idle
IdleQueried == truth = Idle /\ read = Idle /\ entry = Idle /\ found = Idle

Init ==
  /\ component \in Components
  /\ \/ /\ component = "xml" /\ Shape!Init
        /\ IdleDocuments /\ IdleReceiver /\ IdleExchange /\ IdleQueried /\ doc = Idle
     \/ /\ component = "documents" /\ Documents!Init
        /\ IdleShape /\ IdleReceiver /\ IdleExchange /\ IdleQueried
     \/ /\ component = "receiver" /\ Receiver!Init
        /\ IdleShape /\ IdleDocuments /\ IdleExchange /\ IdleQueried /\ doc = Idle
     \/ /\ component = "exchange" /\ Agent!Init
        /\ IdleShape /\ IdleDocuments /\ IdleReceiver /\ IdleQueried /\ doc = Idle
     \/ /\ component = "queried" /\ Query!Init
        /\ IdleShape /\ IdleDocuments /\ IdleReceiver /\ IdleExchange

ShapeStep ==
  /\ component = "xml" /\ Shape!Next
  /\ UNCHANGED <<component, forDocuments, forReceiver, forExchange, forQueried, doc>>

DocumentsStep ==
  /\ component = "documents" /\ Documents!Next
  /\ UNCHANGED <<component, forShape, forReceiver, forExchange, forQueried>>

ReceiverStep ==
  /\ component = "receiver" /\ Receiver!Next
  /\ UNCHANGED <<component, forShape, forDocuments, forExchange, forQueried, doc>>

ExchangeStep ==
  /\ component = "exchange" /\ Agent!Next
  /\ UNCHANGED <<component, forShape, forDocuments, forReceiver, forQueried, doc>>

QueryStep ==
  /\ component = "queried" /\ Query!Next
  /\ UNCHANGED <<component, forShape, forDocuments, forReceiver, forExchange>>

Next == ShapeStep \/ DocumentsStep \/ ReceiverStep \/ ExchangeStep \/ QueryStep

Spec == Init /\ [][Next]_vars

-----------------------------------------------------------------------------
(* Properties: each component's own, of its behaviours *)

\* The state of the running component has its type.
TypeOK ==
  /\ component = "xml" => Shape!TypeOK
  /\ component = "documents" => Documents!TypeOK
  /\ component = "receiver" => Receiver!TypeOK
  /\ component = "exchange" => Agent!TypeOK
  /\ component = "queried" => Query!TypeOK

\* XML: the namespace scopes are those of the open elements, a body is read exactly when it
\* is one document, and only elements of the protocol's namespace reach the typed reader
\* (szamlazz-adatkapcsolat/src/document/xml.rs, szamlazz-agent/src/xml.rs).
BoundaryIsExact ==
  component = "xml" => /\ Shape!ScopesAreTheOpenElements
                       /\ Shape!ReadsExactlyDocuments /\ Shape!OnlyTheProtocolSpeaks

\* Pushed documents: garbled content never costs the record, every value szamlazz.hu sent is
\* in it, and what the schema allows is accepted, strictly too (document.rs), all of finite
\* decimals: an xs:double that is none (NaN, INF) is refused by design and left out.
PushedContentIsKept ==
  component = "documents" => /\ Documents!ContentNeverCostsTheRecord
                             /\ Documents!NothingSaidIsLost /\ Documents!ConformingIsAccepted

\* Pushed documents: what the strict reader accepts meets the schema (document.rs).
StrictMeetsTheSchema == component = "documents" => Documents!StrictMeetsTheSchema

\* Receiver: a version answered as accepted is in every member's hands, and without
\* overlapping requests the unversioned names of what it has hold it (fanout.rs, archive.rs).
ArchiveIsComplete == component = "receiver" => Receiver!ArchiveIsComplete

\* Receiver: only a verdict of the receiver ends the vendor's pushes early, the merged answer
\* keeps a refusing member's code, one member's failure keeps no other from the record, and
\* with fewer faults than attempts none is dropped (axum.rs, ack.rs, fanout.rs).
AcknowledgementsAreTrue == component = "receiver" => Receiver!AcknowledgementsAreTrue

\* Agent: a refusal means szamlazz.hu did nothing, a success that it performed the operation, a
\* notification failure with a number that the document is issued; a document is taken for
\* absent only when szamlazz.hu says so, and only a key it knows passes check_account
\* (error.rs, ops/envelope.rs, wire.rs, gateway.rs).
OutcomesAreTrue == component = "exchange" => Agent!OutcomesAreTrue

\* Queried documents: what handlers conclude is what the document is, and query reports what
\* szamlazz.hu said and no more; what the schema allows is read, and a garbled value is never
\* taken for an absent one (ops/query_xml.rs, gateway/document.rs, service/agent.rs).
QueriedDocumentIsTrue ==
  component = "queried" => /\ Query!ReadingIsTruth /\ Query!ResponseReports
                           /\ Query!ConformingIsRead /\ Query!GarbledIsNotAbsent

=============================================================================
