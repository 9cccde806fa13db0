----------------------------- MODULE OrderStatus -----------------------------
(***************************************************************************)
(* Szamlazz.Order.get: four journaled reads of the order's external ids    *)
(* and a fold, taken without the key's lock while documents come and go.   *)
(* An execution may die between two reads; the journaled ones are kept, so *)
(* the observations of one answer may be of very different ages.           *)
(***************************************************************************)
EXTENDS Szamlazz

CONSTANTS
  MaxDocs,     \* bound on the documents ever issued
  MaxAttempts  \* attempts of one read under the read policy

StatusBounds == MaxDocs \in Nat /\ MaxAttempts \in Nat \ {0}

VARIABLES
  docs, link,  \* the documents, and the proforma each one names (hivdijbekszam), 0 if none
  seen,        \* the journaled observations, in the order of ALL
  tries,       \* attempts of the read under way
  result,      \* how get ended: not yet, with a status, or with a fault
  status,      \* the status, once there is one
  history      \* history: what each slot could be seen to hold since get began

handler == <<seen, tries, result, status>>
vars == <<docs, link, handler, history>>

Kinds == {"proforma", "invoice", "prepayment", "final"}
ALL == <<"proforma", "invoice", "prepayment", "final">>

Nothing == [state |-> "absent", number |-> 0, link |-> 0]

\* What lookup_ours makes of a slot's newest holder.
Observed(kind) ==
  IF SeenAbsent(docs, kind) THEN Nothing
  ELSE LET n == CHOOSE m \in DOMAIN docs : ByExternalId(docs, kind, 0, m) IN
       IF ~docs[n].order THEN [Nothing EXCEPT !.state = "collision"]
       ELSE [state |-> IF docs[n].reversed THEN "reversed" ELSE "live",
             number |-> n, link |-> link[n]]

Observation ==
  [state : {"absent", "collision", "live", "reversed"}, number : 0..MaxDocs, link : 0..MaxDocs]

TypeOK ==
  /\ docs \in Seq(Document({"worker"})) /\ link \in [DOMAIN docs -> 0..MaxDocs]
  /\ seen \in Seq(Observation) /\ Len(seen) <= Len(ALL)
  /\ tries \in 0..MaxAttempts
  /\ result \in {"idle", "none", "status", "unavailable", "credentials_rejected", "cancelled"}
  /\ status \in [Kinds -> [state : {"absent", "collision", "live", "reversed", "consumed"},
                           number : 0..MaxDocs, by : 0..MaxDocs]]
  /\ history \in [Kinds -> SUBSET Observation]

Init ==
  /\ docs = <<>> /\ link = <<>>
  /\ seen = <<>> /\ tries = 0 /\ result = "idle"
  /\ status = [kind \in Kinds |-> [state |-> "absent", number |-> 0, by |-> 0]]
  /\ history = [kind \in Kinds |-> {}]

-----------------------------------------------------------------------------
(* The handler.                                                            *)

Begin ==
  /\ result = "idle"
  /\ result' = "none"
  /\ history' = [kind \in Kinds |-> {Observed(kind)}]
  /\ UNCHANGED <<docs, link, seen, tries, status>>

\* The next kind's lookup is answered and journaled.
Read ==
  /\ result = "none" /\ Len(seen) < Len(ALL)
  /\ seen' = Append(seen, Observed(ALL[Len(seen) + 1]))
  /\ tries' = 0
  /\ UNCHANGED <<docs, link, result, status, history>>

\* Variant: nothing counts the attempts.
ReadUncounted ==
  /\ result = "none" /\ Len(seen) < Len(ALL)
  /\ tries' = tries + 1
  /\ UNCHANGED <<docs, link, seen, result, status, history>>

\* No answer: the read policy tries again, and gives up at its limit.
ReadUnanswered ==
  /\ result = "none" /\ Len(seen) < Len(ALL)
  /\ IF tries + 1 < MaxAttempts
     THEN tries' = tries + 1 /\ UNCHANGED result
     ELSE tries' = tries /\ result' = "unavailable"
  /\ UNCHANGED <<docs, link, seen, status, history>>

\* An answered code ends the reads at once; so does cancellation.
ReadFaults ==
  /\ result = "none" /\ Len(seen) < Len(ALL)
  /\ result' \in {"unavailable", "credentials_rejected", "cancelled"}
  /\ UNCHANGED <<docs, link, seen, tries, status, history>>

Slot(kind) == seen[CHOOSE k \in DOMAIN ALL : ALL[k] = kind]

\* The first of invoice and prepayment that names a proforma.
Consumer ==
  IF Slot("invoice").link # 0 THEN Slot("invoice")
  ELSE IF Slot("prepayment").link # 0 THEN Slot("prepayment") ELSE Nothing

\* Variant: a colliding proforma slot is filled as well.
ConsumedOverCollision ==
  /\ Slot("proforma").state \in {"absent", "collision"} /\ Consumer.link # 0

\* Only an empty proforma slot is filled in from its consumer.
Consumed == Slot("proforma").state = "absent" /\ Consumer.link # 0

Folded(kind) ==
  IF kind = "proforma" /\ Consumed
  THEN [state |-> "consumed", number |-> Consumer.link, by |-> Consumer.number]
  ELSE [state |-> Slot(kind).state, number |-> Slot(kind).number, by |-> 0]

Respond ==
  /\ result = "none" /\ Len(seen) = Len(ALL)
  /\ result' = "status"
  /\ status' = [kind \in Kinds |-> Folded(kind)]
  /\ UNCHANGED <<docs, link, seen, tries, history>>

-----------------------------------------------------------------------------
(* Everyone else: the writers of this order and of others.                 *)

\* What the slots hold after a change belongs to the history of this get.
Change ==
  /\ UNCHANGED handler
  /\ history' = [kind \in Kinds |->
                  IF result = "idle" THEN {} ELSE history[kind] \cup {Observed(kind)'}]

\* An issued invoice or prepayment names a live proforma, which is converted.
Write(kind, proforma) ==
  /\ result \in {"idle", "none"} /\ Len(docs) < MaxDocs
  /\ \/ proforma = 0 /\ docs' = Issue(docs, kind, "worker")
     \/ /\ kind \in {"invoice", "prepayment"}
        /\ proforma \in Visible(docs) /\ docs[proforma].kind = "proforma" /\ docs[proforma].order
        /\ docs' = Issue(Delete(docs, proforma), kind, "worker")
  /\ link' = Append(link, proforma)
  /\ Change

Storno(n) ==
  /\ result \in {"idle", "none"} /\ Len(docs) < MaxDocs
  /\ n \in Visible(docs) /\ docs[n].kind \in StornoableKind /\ ~docs[n].reversed
  /\ docs' = Reverse(docs, n, TRUE, "worker") /\ link' = Append(link, 0)
  /\ Change

DeleteProforma(n) ==
  /\ result \in {"idle", "none"}
  /\ n \in Visible(docs) /\ docs[n].kind = "proforma"
  /\ docs' = Delete(docs, n) /\ UNCHANGED link
  /\ Change

\* Another order's document under one of the order's ids.
Collide(kind) ==
  /\ result \in {"idle", "none"} /\ Len(docs) < MaxDocs
  /\ docs' = Append(docs, [kind |-> kind, of |-> 0, ext |-> TRUE, order |-> FALSE,
                           reversed |-> FALSE, gone |-> FALSE, by |-> "worker"])
  /\ link' = Append(link, 0)
  /\ Change

Handler == Begin \/ Read \/ ReadUnanswered \/ ReadFaults \/ Respond

Others ==
  \/ \E kind \in Kinds, p \in 0..MaxDocs : Write(kind, p)
  \/ \E n \in DOMAIN docs : Storno(n) \/ DeleteProforma(n)
  \/ \E kind \in Kinds : Collide(kind)

Next == Handler \/ Others

Spec == Init /\ [][Next]_vars

\* The runtime keeps executing the handler; a read is answered or not.
FairSpec == Spec /\ WF_vars(Handler)

-----------------------------------------------------------------------------
(* Properties.                                                             *)

(***************************************************************************)
(* Each slot of a status is what that slot held at some moment of the get, *)
(* however long the reads lay apart and however often one was repeated.    *)
(***************************************************************************)
EverySlotWasTrue ==
  result = "status" => \A kind \in Kinds :
    \/ kind = "proforma" /\ status[kind].state = "consumed"
    \/ \E o \in history[kind] : o.state = status[kind].state /\ o.number = status[kind].number

(***************************************************************************)
(* A proforma reported as consumed is gone, the document reported as its   *)
(* consumer names it and the order's proforma slot was seen empty,         *)
(* whatever was issued, reversed or collided between the reads.            *)
(***************************************************************************)
ConsumedIsConverted ==
  result = "status" /\ status["proforma"].state = "consumed" =>
    /\ docs[status["proforma"].number].gone
    /\ link[status["proforma"].by] = status["proforma"].number
    /\ Nothing \in history["proforma"]

(***************************************************************************)
(* What a caller of get can rely on.                                       *)
(***************************************************************************)
StatusIsTrue == EverySlotWasTrue /\ ConsumedIsConverted

(***************************************************************************)
(* get holds no lock and retains no work: it ends even when the service    *)
(* never answers again, unlike the reads of a write.                       *)
(***************************************************************************)
GetEnds == result = "none" ~> result # "none"
=============================================================================
