------------------------------ MODULE Requests ------------------------------
(***************************************************************************)
(* How a request is composed: the identity it goes out under, the amounts  *)
(* of one line, and a whole create request.  The three share no state: a   *)
(* behaviour is one component's, chosen at the start, and leaves the       *)
(* variables of the others alone.  Identity has the first component's      *)
(* variables.                                                              *)
(***************************************************************************)
EXTENDS Identity, Integers

CONSTANTS Components,                             \* the components a behaviour may be of
          MaxCoefficient, MaxScale, MaxInteger,   \* line and create
          Quantities, Prices, Rates, Drift,       \* line
          Documents, DefaultSettings              \* create

VARIABLES component,
  currency, asked, answer, earlier,                     \* line
  kind, document, link, approved, defaults, account,
  phase, refs, built, received                          \* create

Line == INSTANCE LineAmounts        \* one line under a currency
Create == INSTANCE CreateRequest    \* a create call, from approval to the received document

ASSUME Bounds ==
  /\ WordsAssumption /\ TokensAssumption /\ TextsAssumption
  /\ Line!WidthsAssumption /\ Line!DriftAssumption
  /\ Create!InputsAssumption

-----------------------------------------------------------------------------
(* Composition *)

forIdentity == <<docs, answers>>
forLine == <<currency, asked, answer, earlier>>
forCreate == <<kind, document, link, approved, defaults, account, phase, refs, built, received>>

allVars == <<component, forIdentity, forLine, forCreate>>

Idle == "idle"
IdleIdentity == docs = << >> /\ answers = {}
IdleLine == currency = Idle /\ asked = Idle /\ answer = Idle /\ earlier = Idle
IdleCreate ==
  /\ kind = Idle /\ document = Idle /\ link = Idle /\ approved = Idle /\ defaults = Idle
  /\ account = Idle /\ phase = Idle /\ refs = Idle /\ built = Idle /\ received = Idle

RequestsInit ==
  /\ component \in Components
  /\ \/ component = "identity" /\ Init /\ IdleLine /\ IdleCreate
     \/ component = "line" /\ Line!Init /\ IdleIdentity /\ IdleCreate
     \/ component = "create" /\ Create!Init /\ IdleIdentity /\ IdleLine

IdentityStep == component = "identity" /\ Next /\ UNCHANGED <<component, forLine, forCreate>>

LineStep == component = "line" /\ Line!Next /\ UNCHANGED <<component, forIdentity, forCreate>>

CreateStep == component = "create" /\ Create!Next /\ UNCHANGED <<component, forIdentity, forLine>>

RequestsNext == IdentityStep \/ LineStep \/ CreateStep

RequestsSpec == RequestsInit /\ [][RequestsNext]_allVars

-----------------------------------------------------------------------------
(* Properties: each component's own, of its behaviours; those of Identity      *)
(* hold of its idle state as they stand                                        *)

\* The state of the running component has its type.
RequestsTypeOK ==
  /\ component = "identity" => TypeOK
  /\ component = "line" => Line!TypeOK
  /\ component = "create" => Create!TypeOK

\* Identity: what a deployment finds under an external id is its own and what it asked for, one
\* key is one object, and a probe finds nothing (identity.rs); of the first component.
IdentitiesAreApart == FoundIsOwn /\ IssuedOnce /\ OneObjectPerOrder /\ ProbeFindsNothing

\* Line: net and VAT of a line that is sent add up to its gross, the VAT is the rate's within
\* rounding, the worker accepts the figures it calculates, and a deducted line cancels the
\* original to the last place (contract/document/money.rs).
LinesAddUp ==
  component = "line" => /\ Line!SentLineAddsUp /\ Line!VatStaysWithinRounding
                        /\ Line!CalculatedAmountsAreAcceptable /\ Line!DeductionCancels

\* Create: szamlazz.hu receives the document the caller composed, with the totals it approved
\* and the same however often the call is replayed; what validation passed is not refused
\* after the order is marked (service/create.rs, gateway/build.rs, contract/document/money.rs).
SentAsIntended ==
  component = "create" => /\ Create!ReceivedAsIntended /\ Create!ApprovedAmountsHold
                          /\ Create!OneRequestPerCall /\ Create!NoLateRefusal

\* Create: an approval of totals is an approval of an amount of money (contract/document/money.rs).
ApprovedMoneyHolds == component = "create" => Create!ApprovedMoneyHolds

=============================================================================
