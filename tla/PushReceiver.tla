---------------------------- MODULE PushReceiver ----------------------------
(***************************************************************************)
(* The Adatkapcsolat receiver of szamlazz-adatkapcsolat: the router          *)
(* (axum.rs), a Fanout of two members (fanout.rs), the Archiver over an       *)
(* object store (archive.rs) and an application handler, and the Acks they    *)
(* answer (ack.rs), against szamlazz.hu's retries of one record.              *)
(*                                                                         *)
(* szamlazz.hu pushes a record until it gets a 200 or its attempts are        *)
(* spent.  An attempt it gave up waiting for goes on in the receiver, so two  *)
(* requests, of two versions of an invoice, may be handled at once; a crash   *)
(* ends every request of the process.  Each await of a handler is a step.     *)
(*                                                                         *)
(* A version of an invoice has a PDF or none (pdf is optional, and one that   *)
(* cannot be decoded is read as none) and an issue date, whose month is the   *)
(* folder of its objects.  Everything an archiver can save is saved, the      *)
(* default of its builder.                                                    *)
(*                                                                         *)
(* History variables: refusals (why a control code was answered), overlapped. *)
(***************************************************************************)
EXTENDS Integers, Sequences, SequencesExt

CONSTANTS Kinds,          \* subset of {"invoice", "transaction", "receipts"}
          Redeliveries,   \* subset of {"overwrite", "timestamped", "both"}
          Orders,         \* the registration orders of the members
          MaxVersion,     \* how often szamlazz.hu changes the invoice
          Contents,      \* the invoice's successive versions
          Attempts,       \* pushes of one version (the 72 hours)
          MaxFaults       \* faults of an instance

Members == {"archiver", "app"}

\* Archiver::path, the month of the issue date; in the flat layout all versions
\* of an invoice have the same.
Folders == {"one", "other", "undated"}
Content == [pdf : BOOLEAN, folder : Folders]

KindsAssumption == Kinds \subseteq {"invoice", "transaction", "receipts"}
RedeliveriesAssumption == Redeliveries \subseteq {"overwrite", "timestamped", "both"}
OrdersAssumption ==
  Orders \subseteq {<<"archiver", "app">>, <<"app", "archiver">>, <<"archiver">>, <<>>}
BoundsAssumption == {MaxVersion, Attempts} \subseteq Nat \ {0} /\ MaxFaults \in Nat
ContentsAssumption == Contents \subseteq [1..MaxVersion -> Content]

VARIABLES
  kind, contents,                    \* the record's kind, what its versions contain
  redelivery, members,              \* the receiver's setup
  version, left, vendor, awaited,   \* szamlazz.hu: version, pushes left, verdict, open request
  connected,                        \* whether the key names a connection
  requests,                         \* the requests in the receiver, by slot
  latest, kept, sequence,           \* the store, and the process's SEQUENCE
  handled,                          \* versions the application has taken
  faults, refusals, overlapped

vars == <<kind, contents, redelivery, members, version, left, vendor, awaited, connected,
          requests, latest, kept, sequence, handled, faults, refusals, overlapped>>

Slots == 1..2
Codes == {"KEY_ERR", "KEY_DEL"}
Registrations == {"none", "number", "forbidden"}
AckOf(control, registration) == [control |-> control, registration |-> registration]

Free == [stage |-> "free", version |-> 0, todo |-> <<>>, queue |-> <<>>, failures |-> 0,
         acks |-> <<>>, answer |-> "none"]

\* What is archived of version v of the record, in the order it is written: of
\* an invoice the PDF only when there is one, of receipts the batch once and
\* then each receipt.
Artifacts(v) ==
  IF kind = "invoice" /\ contents[v].pdf THEN <<"xml", "pdf", "json">>
  ELSE IF kind = "receipts" THEN <<"batch", "first", "second">>
  ELSE <<"xml", "json">>

Names == {"xml", "pdf", "json", "batch", "first", "second"}

\* The unversioned objects, and the one of version v's artifact.
Places == Folders \X Names
Unversioned(v, artifact) == <<contents[v].folder, artifact>>

Put(s, r) == requests' = [requests EXCEPT ![s] = r]

-----------------------------------------------------------------------------
(* szamlazz.hu *)

Init ==
  /\ kind \in Kinds /\ contents \in Contents
  /\ redelivery \in Redeliveries /\ members \in Orders
  /\ version = 1 /\ left = Attempts /\ vendor = "pushing" /\ awaited = 0
  /\ connected = TRUE
  /\ requests = [s \in Slots |-> Free]
  /\ latest = [o \in Places |-> 0] /\ kept = {} /\ sequence = 0
  /\ handled = {} /\ faults = 0 /\ refusals = {} /\ overlapped = FALSE

store == <<latest, kept, sequence, handled>>
setup == <<kind, contents, redelivery, members>>

\* One attempt: the request is at the door of receive_inner.
Push(s) ==
  /\ vendor = "pushing" /\ awaited = 0 /\ left > 0
  /\ requests[s].stage = "free" /\ (s = 2 => requests[1].stage # "free")
  /\ left' = left - 1 /\ awaited' = s
  /\ Put(s, [Free EXCEPT !.stage = "received", !.version = version])
  /\ overlapped' = (overlapped \/ \E t \in Slots : requests[t].stage # "free")
  /\ UNCHANGED <<setup, version, vendor, connected, store, faults, refusals>>

\* The attempts are spent: szamlazz.hu gives the version up.
GiveUp ==
  /\ vendor = "pushing" /\ awaited = 0 /\ left = 0
  /\ vendor' = "dropped"
  /\ UNCHANGED <<setup, version, left, awaited, connected, requests, store, faults, refusals,
                 overlapped>>

\* An invoice that changes is pushed anew, whatever became of the last version.
Change ==
  /\ kind = "invoice" /\ vendor # "severed" /\ awaited = 0 /\ version < MaxVersion
  /\ version' = version + 1 /\ left' = Attempts /\ vendor' = "pushing"
  /\ UNCHANGED <<setup, awaited, connected, requests, store, faults, refusals, overlapped>>

\* The answer arrives.  Anything but a 200 is retried; KEY_ERR and KEY_DEL end
\* the record, KEY_DEL the connection as well.
Arrive(s) ==
  /\ requests[s].stage = "answered"
  /\ Put(s, Free)
  /\ IF awaited = s
     THEN /\ awaited' = 0
          /\ vendor' = IF requests[s].answer = "accepted" THEN "accepted"
                       ELSE IF requests[s].answer = "KEY_ERR" THEN "stopped"
                       ELSE IF requests[s].answer = "KEY_DEL" THEN "severed" ELSE vendor
     ELSE UNCHANGED <<awaited, vendor>>
  /\ UNCHANGED <<setup, version, left, connected, store, faults, refusals, overlapped>>

Fault == faults < MaxFaults /\ faults' = faults + 1

\* szamlazz.hu waits no longer: the answer is lost, the request goes on.
Abandon ==
  /\ awaited # 0 /\ Fault /\ awaited' = 0
  /\ UNCHANGED <<setup, version, left, vendor, connected, requests, store, refusals, overlapped>>

\* The process dies and is started again: a static SEQUENCE begins at zero.
Crash ==
  /\ \E s \in Slots : requests[s].stage # "free"
  /\ Fault
  /\ requests' = [s \in Slots |-> Free] /\ awaited' = 0 /\ sequence' = 0
  /\ UNCHANGED <<setup, version, left, vendor, connected, latest, kept, handled, refusals,
                 overlapped>>

\* The operator removes the connection.
Disconnect ==
  /\ connected /\ Fault /\ connected' = FALSE
  /\ UNCHANGED <<setup, version, left, vendor, awaited, requests, store, refusals, overlapped>>

-----------------------------------------------------------------------------
(* receive_inner *)

Answer(r, what) == [r EXCEPT !.stage = "answered", !.answer = what]

\* A stripped header is a 401, a body over the limit a 413, one that is cut
\* off or not a known root a 400: before the key is looked up.  One that cannot
\* be parsed is a 400 after the lookup, with the same effect: none.
Damaged(s) ==
  /\ requests[s].stage = "received" /\ Fault
  /\ Put(s, Answer(requests[s], "refused"))
  /\ UNCHANGED <<setup, version, left, vendor, awaited, connected, store, refusals, overlapped>>

\* The writes of one artifact (Archiver::write).
Writes(artifact) ==
  IF redelivery = "overwrite" THEN <<<<"latest", artifact>>>>
  ELSE IF redelivery = "timestamped" THEN <<<<"version", artifact>>>>
  ELSE <<<<"version", artifact>>, <<"latest", artifact>>>>

\* archive_invoice, archive_bank_transaction, archive_receipt_batch and the
\* archive_receipt of each receipt.
ArchiverWrites(v) ==
  LET a == Artifacts(v) IN
  IF Len(a) = 2 THEN Writes(a[1]) \o Writes(a[2])
  ELSE Writes(a[1]) \o Writes(a[2]) \o Writes(a[3])

\* The member that runs next; the document is answered after the last.
Begin(r) ==
  IF r.queue = <<>> THEN [r EXCEPT !.stage = "merge", !.todo = <<>>]
  ELSE IF Head(r.queue) = "archiver"
       THEN [r EXCEPT !.stage = "archiver", !.todo = ArchiverWrites(r.version), !.queue = Tail(@)]
       ELSE [r EXCEPT !.stage = "app", !.todo = <<>>, !.queue = Tail(@)]

\* Variant: a resolver that fails counts as one that found nothing.
ResolveUnavailableAsUnknown(s) ==
  /\ requests[s].stage = "received"
  /\ \/ /\ connected
        /\ Put(s, Begin([requests[s] EXCEPT !.queue = members]))
        /\ UNCHANGED <<faults, refusals>>
     \/ /\ ~connected
        /\ Put(s, Answer(requests[s], "KEY_ERR"))
        /\ refusals' = refusals \cup {<<"unknown", requests[s].version>>}
        /\ UNCHANGED faults
     \/ /\ Fault
        /\ Put(s, Answer(requests[s], "KEY_ERR"))
        /\ UNCHANGED refusals
  /\ UNCHANGED <<setup, version, left, vendor, awaited, connected, store, overlapped>>

\* KeyResolver::resolve: Some starts the handler, None is KEY_ERR, Err a 503.
Resolve(s) ==
  /\ requests[s].stage = "received"
  /\ \/ /\ connected
        /\ Put(s, Begin([requests[s] EXCEPT !.queue = members]))
        /\ UNCHANGED <<faults, refusals>>
     \/ /\ ~connected
        /\ Put(s, Answer(requests[s], "KEY_ERR"))
        /\ refusals' = refusals \cup {<<"unknown", requests[s].version>>}
        /\ UNCHANGED faults
     \/ /\ Fault
        /\ Put(s, Answer(requests[s], "refused"))
        /\ UNCHANGED refusals
  /\ UNCHANGED <<setup, version, left, vendor, awaited, connected, store, overlapped>>

-----------------------------------------------------------------------------
(* The members *)

\* dispatch: the member answered, or failed; the next one runs either way.
Answered(r, ack) == Begin([r EXCEPT !.acks = Append(@, ack)])

Failed(r) == Begin([r EXCEPT !.failures = @ + 1])

\* The archiver answers accept once everything is written.
Written(r) ==
  IF Len(r.todo) > 1 THEN [r EXCEPT !.todo = Tail(@)] ELSE Answered(r, AckOf("none", "none"))

\* There is an object of that name.
Taken(file) ==
  \E k \in kept : /\ k.artifact = file.artifact /\ k.stamp = file.stamp
                  /\ contents[k.version].folder = contents[file.version].folder

\* Variant: a name that exists counts as written.
WriteVersionSatisfied(s, artifact) ==
  LET file == [artifact |-> artifact, stamp |-> sequence, version |-> requests[s].version] IN
  /\ sequence' = sequence + 1
  /\ kept' = IF Taken(file) THEN kept ELSE kept \cup {file}
  /\ Put(s, Written(requests[s]))
  /\ UNCHANGED latest

\* Variant: the same name is tried again.
WriteVersionStubborn(s, artifact) ==
  LET file == [artifact |-> artifact, stamp |-> sequence, version |-> requests[s].version] IN
  /\ ~Taken(file)
  /\ sequence' = sequence + 1
  /\ kept' = kept \cup {file}
  /\ Put(s, Written(requests[s]))
  /\ UNCHANGED latest

\* write_version_with, one turn of its loop: a name that exists is not written
\* over and the next one is tried.  The clock in the name is left at its
\* worst: it repeats across restarts.
WriteVersion(s, artifact) ==
  LET file == [artifact |-> artifact, stamp |-> sequence, version |-> requests[s].version] IN
  /\ sequence' = sequence + 1
  /\ IF Taken(file)
     THEN UNCHANGED <<kept, requests>>
     ELSE /\ kept' = kept \cup {file}
          /\ Put(s, Written(requests[s]))
  /\ UNCHANGED latest

\* The unversioned object, written over.
WriteLatest(s, artifact) ==
  /\ latest' = [latest EXCEPT ![Unversioned(requests[s].version, artifact)] = requests[s].version]
  /\ Put(s, Written(requests[s]))
  /\ UNCHANGED <<kept, sequence>>

\* A write fails, having taken effect or not: the archiver's error.
WriteFails(s, artifact) ==
  LET file == [artifact |-> artifact, stamp |-> sequence, version |-> requests[s].version] IN
  /\ Fault
  /\ \/ /\ requests[s].todo[1][1] = "version"
        /\ sequence' = sequence + 1
        /\ kept' \in {kept, kept \cup {file}} /\ (Taken(file) => kept' = kept)
        /\ UNCHANGED latest
     \/ /\ requests[s].todo[1][1] = "latest"
        /\ latest' \in {latest, [latest EXCEPT ![Unversioned(requests[s].version, artifact)] =
                                     requests[s].version]}
        /\ UNCHANGED <<kept, sequence>>
  /\ Put(s, Failed(requests[s]))

ArchiverStep(s) ==
  /\ requests[s].stage = "archiver"
  /\ LET step == requests[s].todo[1] IN
     \/ step[1] = "version" /\ WriteVersion(s, step[2]) /\ UNCHANGED faults
     \/ step[1] = "latest" /\ WriteLatest(s, step[2]) /\ UNCHANGED faults
     \/ WriteFails(s, step[2])
  /\ UNCHANGED <<setup, version, left, vendor, awaited, connected, handled, refusals, overlapped>>

\* The application: it takes the document and answers, with a registration
\* number an invoice's Ack can carry, or one no XML can; it may speak a control
\* code; or it fails.
AppStep(s) ==
  /\ requests[s].stage = "app"
  /\ \/ \E registration \in {"none"} \cup (IF kind = "invoice" THEN {"number"} ELSE {}) :
          /\ Put(s, Answered(requests[s], AckOf("none", registration)))
          /\ handled' = handled \cup {requests[s].version}
          /\ UNCHANGED <<faults, refusals>>
     \/ /\ kind = "invoice" /\ Fault
        /\ Put(s, Answered(requests[s], AckOf("none", "forbidden")))
        /\ handled' = handled \cup {requests[s].version}
        /\ UNCHANGED refusals
     \/ /\ Fault
        /\ Put(s, Failed(requests[s]))
        /\ UNCHANGED <<handled, refusals>>
     \/ \E code \in Codes :
          /\ Fault
          /\ Put(s, Answered(requests[s], AckOf(code, "none")))
          /\ refusals' = refusals \cup {<<code, requests[s].version>>}
          /\ UNCHANGED handled
  /\ UNCHANGED <<setup, version, left, vendor, awaited, connected, latest, kept, sequence,
                 overlapped>>

-----------------------------------------------------------------------------
(* Merging and answering *)

escalate(current, next) ==
  IF "KEY_DEL" \in {current, next} THEN "KEY_DEL"
  ELSE IF "KEY_ERR" \in {current, next} THEN "KEY_ERR" ELSE "none"

\* merge_invoice_acks, merge_acks, the body of the loop: the strongest code, and
\* the first registration.
Joined(ack, next) ==
  AckOf(escalate(ack.control, next.control),
        IF ack.registration = "none" THEN next.registration ELSE ack.registration)

\* The loop, over the answers of at most two members.
Merged(acks) ==
  LET none == AckOf("none", "none")
      one == Joined(none, acks[1])
  IN IF acks = <<>> THEN none ELSE IF Len(acks) = 1 THEN one ELSE Joined(one, acks[2])

\* require_handler, the outcome of dispatch, and the Ack's rendering, whose
\* registration number may not be an XML text.
Rendered(r) ==
  LET ack == Merged(r.acks) IN
  IF members = <<>> \/ r.failures > 0 THEN "refused"
  ELSE IF ack.control # "none" THEN ack.control
  ELSE IF ack.registration = "forbidden" THEN "refused" ELSE "accepted"

Merge(s) ==
  /\ requests[s].stage = "merge"
  /\ Put(s, Answer(requests[s], Rendered(requests[s])))
  /\ UNCHANGED <<setup, version, left, vendor, awaited, connected, store, faults, refusals,
                 overlapped>>

-----------------------------------------------------------------------------
Step(s) == Resolve(s) \/ ArchiverStep(s) \/ AppStep(s) \/ Merge(s)

Next ==
  \/ GiveUp \/ Change \/ Abandon \/ Crash \/ Disconnect
  \/ \E s \in Slots : Push(s) \/ Arrive(s) \/ Damaged(s) \/ Step(s)

Spec == Init /\ [][Next]_vars

\* szamlazz.hu goes on pushing within its window, requests run, and answers
\* arrive; nothing obliges an invoice to change or a fault to happen.
Fairness ==
  /\ WF_vars(GiveUp)
  /\ \A s \in Slots : WF_vars(Push(s)) /\ WF_vars(Arrive(s)) /\ WF_vars(Step(s))

FairSpec == Spec /\ Fairness

-----------------------------------------------------------------------------
(* Properties *)

Answers == {"none", "accepted", "refused"} \cup Codes
Acks == [control : Codes \cup {"none"}, registration : Registrations]
Objects == {"version", "latest"} \X Names

Request ==
  [stage : {"free", "received", "archiver", "app", "merge", "answered"}, version : 0..MaxVersion,
   todo : Seq(Objects), queue : Seq(Members), failures : Nat,
   acks : Seq(Acks), answer : Answers]

\* Types of the record's life, the requests and the store.
TypeOK ==
  /\ version \in 1..MaxVersion /\ left \in 0..Attempts /\ faults \in 0..MaxFaults
  /\ vendor \in {"pushing", "accepted", "stopped", "severed", "dropped"}
  /\ awaited \in 0..2 /\ (awaited # 0 => requests[awaited].stage # "free")
  /\ requests \in [Slots -> Request] /\ connected \in BOOLEAN /\ overlapped \in BOOLEAN
  /\ latest \in [Places -> 0..MaxVersion] /\ sequence \in Nat

\* A record szamlazz.hu stops resending because it was accepted has been taken
\* by every member, in this version, and under a redelivery policy that keeps
\* versions every artifact of it is in the store for good, whatever failed,
\* crashed or overlapped on the way.
AcceptedIsKept ==
  vendor = "accepted" =>
    /\ members # <<>>
    /\ "app" \in ToSet(members) => version \in handled
    /\ "archiver" \in ToSet(members) /\ redelivery # "overwrite" =>
         \A a \in ToSet(Artifacts(version)) :
           \E k \in kept : k.artifact = a /\ k.version = version

\* While deliveries did not overlap, the unversioned names hold the accepted
\* version, every artifact it has.  An object it does not have is not removed: an
\* earlier version's PDF stays under its name when this one comes without, and
\* all its objects when this one is of another month.
LatestWins ==
  vendor = "accepted" /\ ~overlapped /\ redelivery # "timestamped"
  /\ "archiver" \in ToSet(members) =>
       \A a \in ToSet(Artifacts(version)) : latest[Unversioned(version, a)] = version

\* szamlazz.hu is told to stop only by a lookup that completed and found no
\* connection, or by a member's own words; never by an outage, damage or a
\* failing member.
StoppedByAVerdict ==
  /\ vendor = "stopped" =>
       <<"unknown", version>> \in refusals \/ <<"KEY_ERR", version>> \in refusals
  /\ vendor = "severed" => <<"KEY_DEL", version>> \in refusals

\* A member's control code is not lost in a merge, and no other is spoken.
CodesSurvive ==
  \A s \in Slots :
    LET r == requests[s]
        codes == {r.acks[i].control : i \in 1..Len(r.acks)} IN
    r.stage = "answered" /\ r.acks # <<>> /\ r.failures = 0 =>
      /\ "KEY_DEL" \in codes <=> r.answer = "KEY_DEL"
      /\ "KEY_ERR" \in codes /\ "KEY_DEL" \notin codes <=> r.answer = "KEY_ERR"

\* A member that fails stops nobody: when a request's members are through, each
\* has been called once and has answered or failed, in whichever order they are
\* registered, so one broken member never costs another its delivery.
FailureStopsNobody ==
  \A s \in Slots :
    requests[s].stage = "merge" =>
      Len(requests[s].acks) + requests[s].failures = Len(members)

\* With fewer faults than attempts no record is dropped.
NeverDropped == MaxFaults < Attempts /\ members # <<>> => vendor # "dropped"

\* What was accepted is archived, and what is answered is so.
ArchiveIsComplete == AcceptedIsKept /\ LatestWins
AcknowledgementsAreTrue ==
  StoppedByAVerdict /\ CodesSurvive /\ FailureStopsNobody /\ NeverDropped

\* The latest version is settled in the end, if the invoice stops changing.
Settles == <>[](vendor # "pushing")
=============================================================================
