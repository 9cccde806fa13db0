------------------------- MODULE AgentStorno_proofs -------------------------
(***************************************************************************)
(* Proofs about AgentStorno, for any calls, any account and any policy.    *)
(*                                                                         *)
(* The argument follows one call.  Until its first send nothing of it is   *)
(* about: no late request and no storno.  Its only send is refused while   *)
(* it is still the only one.  A run that is about to send has one more     *)
(* execution granted than it has sent.  What it verified of its original,  *)
(* that no order manages it, stays true, and stornos are beside their      *)
(* reversed originals, so whatever storno is found proves the reversal.    *)
(***************************************************************************)
EXTENDS AgentStorno, Szamlazz_proofs

-----------------------------------------------------------------------------
(* The inductive invariant.                                                *)

\* Nothing of i has been executed or can still be.
Clean(i) == late[i] = 0 /\ Issued(i) = {}

\* n is a document of d that no order manages.
Unmanaged(d, n) == n \in DOMAIN d /\ ~d[n].order

\* Nothing was sent before the write step, and before the end nothing is said.
BeforeTheWrite(i) ==
  /\ calls[i].phase \in {"idle"} \cup Reading \/ calls[i].result \in Untouched => calls[i].sends = 0
  /\ calls[i].phase # "done" => calls[i].result = "none"
  /\ calls[i].phase = "sent" => calls[i].sends > 0

\* Nothing sent is nothing about; the only request is on the wire, or refused.
OnlySend(i) ==
  \/ calls[i].sends = 0
  \/ calls[i].sends = 1 /\ (calls[i].phase = "sent" \/ calls[i].result \in Refused)
  => Clean(i)

\* A run that may still send has an execution to pay for it.
Paid(i) ==
  /\ calls[i].sends <= calls[i].runs + calls[i].attempts
  /\ calls[i].phase \in {"idle", "leading", "cleared"} \cup Reading =>
       calls[i].sends < calls[i].runs + calls[i].attempts

\* What was verified of the original, and what was answered.
Verified(i) ==
  /\ \/ calls[i].phase \in Writing \cup {"name", "lookup"}
     \/ calls[i].sends > 0 \/ calls[i].result = "reversed"
     => Unmanaged(docs, calls[i].target)
  /\ calls[i].phase = "name" \/ calls[i].result = "reversed" => docs[calls[i].target].reversed
  /\ calls[i].result = "reversed" /\ calls[i].number # 0 => StornoOf(calls[i].target, calls[i].number)

\* What i issued reverses documents that no order manages.
LeavesOrders(i) == \A c \in Issued(i) : Unmanaged(docs, docs[c].of)

Sound(i) == BeforeTheWrite(i) /\ OnlySend(i) /\ Paid(i) /\ Verified(i) /\ LeavesOrders(i)

IInv == TypeOK /\ Books(docs) /\ \A i \in Invocation : Sound(i)

-----------------------------------------------------------------------------
(* One call's steps.                                                       *)

\* The fields of a call.
LEMMA CallType ==
  ASSUME StornoBounds, TypeOK, NEW i \in Invocation
  PROVE  /\ calls[i] \in Call /\ late[i] \in Nat
         /\ calls[i].phase \in {"idle", "done"} \cup Reading \cup Writing
         /\ calls[i].target \in {0} \cup Targets /\ calls[i].result \in Result
         /\ calls[i].number \in 0..MaxDocs /\ calls[i].runs \in 0..MaxRuns
         /\ calls[i].attempts \in 1..MaxAttempts /\ calls[i].sends \in Nat
         /\ calls[i].runs \in Nat /\ calls[i].attempts \in Nat \ {0}
         /\ MaxRuns \in Nat \ {0} /\ MaxAttempts \in Nat \ {0} /\ MaxDocs \in Nat \ {0}
<1>1. calls[i] \in Call /\ late[i] \in Nat
  BY DEF TypeOK
<1>2. MaxRuns \in Nat \ {0} /\ MaxAttempts \in Nat \ {0} /\ MaxDocs \in Nat \ {0}
  BY DEF StornoBounds
<1> QED BY <1>1, <1>2 DEF Call

\* i is now in a phase with these results, and every other call is what it was.
Turned(i, phase, result, number, runs, attempts, sends) ==
  /\ calls' \in [Invocation -> Call]
  /\ calls'[i].phase = phase /\ calls'[i].target = calls[i].target
  /\ calls'[i].result = result /\ calls'[i].number = number
  /\ calls'[i].runs = runs /\ calls'[i].attempts = attempts /\ calls'[i].sends = sends
  /\ \A j \in Invocation : j # i => calls'[j] = calls[j]

LEMMA Went ==
  ASSUME StornoBounds, TypeOK, NEW i \in Invocation, NEW phase \in {"idle", "done"} \cup Reading \cup Writing,
         Go(i, phase)
  PROVE  Turned(i, phase, calls[i].result, calls[i].number, calls[i].runs, calls[i].attempts,
                calls[i].sends)
<1> DEFINE c == [calls[i] EXCEPT !.phase = phase]
<1>1. /\ c \in Call /\ c.phase = phase /\ c.target = calls[i].target /\ c.result = calls[i].result
      /\ c.number = calls[i].number /\ c.runs = calls[i].runs /\ c.attempts = calls[i].attempts
      /\ c.sends = calls[i].sends
  BY CallType DEF Call
<1>2. calls' = [calls EXCEPT ![i] = c]
  BY DEF Go
<1> HIDE DEF c
<1> QED BY <1>1, <1>2 DEF TypeOK, Turned

LEMMA Ended ==
  ASSUME StornoBounds, TypeOK, NEW i \in Invocation, NEW result \in Result, NEW number \in 0..MaxDocs,
         End(i, result, number)
  PROVE  Turned(i, "done", result, number, calls[i].runs, calls[i].attempts, calls[i].sends)
<1> DEFINE c == [calls[i] EXCEPT !.phase = "done", !.result = result, !.number = number]
<1>1. /\ c \in Call /\ c.phase = "done" /\ c.target = calls[i].target /\ c.result = result
      /\ c.number = number /\ c.runs = calls[i].runs /\ c.attempts = calls[i].attempts
      /\ c.sends = calls[i].sends
  BY CallType DEF Call
<1>2. calls' = [calls EXCEPT ![i] = c]
  BY DEF End
<1> HIDE DEF c
<1> QED BY <1>1, <1>2 DEF TypeOK, Turned

-----------------------------------------------------------------------------
(* What becomes of the documents.                                          *)

(***************************************************************************)
(* Documents are only added by who: each one a storno of a document that   *)
(* no order manages, if who is a call.                                     *)
(***************************************************************************)
Carried(who) ==
  /\ docs' \in Seq(Document(Invocation \cup {"outside"})) /\ Len(docs') <= MaxDocs /\ Books(docs)'
  /\ DOMAIN docs \subseteq DOMAIN docs' /\ Kept(docs, docs')
  /\ \A c \in DOMAIN docs' \ DOMAIN docs :
       docs'[c].by = who /\ (who \in Invocation => Unmanaged(docs', docs'[c].of))

LEMMA NothingCarried ==
  ASSUME IInv, UNCHANGED docs, NEW who
  PROVE  Carried(who)
<1>1. docs \in Seq(Document(Invocation \cup {"outside"})) /\ Len(docs) <= MaxDocs /\ Books(docs)
  BY DEF IInv, TypeOK
<1>2. Books(docs)'
  BY <1>1 DEF Books
<1>3. Kept(docs, docs')
  <2>1. Len(docs) \in Nat
    BY <1>1, Numbers
  <2> QED BY <2>1 DEF Kept
<1> QED BY <1>1, <1>2, <1>3 DEF Carried

\* Reversing a document, by a call or by a user.
LEMMA ReversalCarried ==
  ASSUME StornoBounds, IInv, NEW who \in Invocation \cup {"outside"}, NEW n, NEW ext \in BOOLEAN,
         Reversible(n), Len(docs) < MaxDocs, docs' = Reverse(docs, n, ext, who),
         who \in Invocation => Unmanaged(docs, n)
  PROVE  Carried(who) /\ docs'[n].reversed
<1> DEFINE All == Invocation \cup {"outside"}
           N == Len(docs) + 1
<1>1. docs \in Seq(Document(All)) /\ Len(docs) \in Nat /\ Books(docs) /\ MaxDocs \in Nat
  BY Numbers DEF IInv, TypeOK, StornoBounds
<1>2. n \in DOMAIN docs /\ Stornoable(docs, n) /\ who \in All /\ ~docs[n].gone
  BY DEF Reversible, Visible, Stornoable
<1>3. docs' \in Seq(Document(All)) /\ Reversal(docs, docs', n, ext, who) /\ Kept(docs, docs')
  BY <1>1, <1>2, ReverseKeeps
<1>4. /\ Len(docs') = N /\ DOMAIN docs' = DOMAIN docs \cup {N} /\ N \notin DOMAIN docs
      /\ docs'[n].reversed /\ docs'[N].kind = "storno" /\ docs'[N].of = n /\ docs'[N].by = who
      /\ ~docs'[N].gone /\ \A m \in DOMAIN docs : m # n => docs'[m] = docs[m]
  BY <1>3 DEF Reversal
<1> HIDE DEF N
<1>5. Len(docs') <= MaxDocs
  BY <1>1, <1>4 DEF N
<1>6. \A m \in DOMAIN docs : /\ docs'[m].kind = docs[m].kind /\ docs'[m].of = docs[m].of
                             /\ docs'[m].order = docs[m].order
                             /\ docs[m].reversed => docs'[m].reversed
                             /\ docs'[m].gone => docs[m].gone \/ docs[m].kind = "proforma"
  BY <1>3 DEF Kept
<1>7. Books(docs')
  <2>1. ASSUME NEW c \in DOMAIN docs, docs'[c].kind = "storno"
        PROVE  ~docs'[c].gone /\ docs'[c].of \in DOMAIN docs' /\ docs'[docs'[c].of].reversed
    <3>1. docs[c].kind = "storno" /\ ~docs[c].gone /\ docs[c].of \in DOMAIN docs
          /\ docs[docs[c].of].reversed
      BY <1>1, <1>6, <2>1 DEF Books
    <3> QED BY <1>4, <1>6, <3>1
  <2>2. ~docs'[N].gone /\ docs'[N].of \in DOMAIN docs' /\ docs'[docs'[N].of].reversed
    BY <1>2, <1>4
  <2> QED BY <1>4, <2>1, <2>2 DEF Books
<1>8. Books(docs)'
  BY <1>7 DEF Books
<1>9. who \in Invocation => Unmanaged(docs', docs'[N].of)
  BY <1>2, <1>4, <1>6 DEF Unmanaged
<1> QED BY <1>3, <1>4, <1>5, <1>8, <1>9 DEF Carried

\* A request of i takes effect, or does not.
LEMMA Taken ==
  ASSUME StornoBounds, IInv, NEW i \in Invocation, Takes(i), Unmanaged(docs, calls[i].target)
  PROVE  /\ Carried(i) /\ stray' \subseteq stray
         /\ Reversible(calls[i].target) => docs'[calls[i].target].reversed
         /\ ~Reversible(calls[i].target) => UNCHANGED docs
<1>1. CASE Reversible(calls[i].target) /\ ~docs[calls[i].target].reversed
  <2>1. /\ Len(docs) < MaxDocs /\ docs' = Reverse(docs, calls[i].target, TRUE, i)
        /\ stray' = stray \ {calls[i].target}
    BY <1>1 DEF Takes
  <2> QED BY <1>1, <2>1, ReversalCarried
<1>2. CASE ~(Reversible(calls[i].target) /\ ~docs[calls[i].target].reversed)
  <2>1. UNCHANGED <<docs, stray>>
    BY <1>2 DEF Takes
  <2> QED BY <1>2, <2>1, NothingCarried
<1> QED BY <1>1, <1>2

\* What was true of the documents is still, and only who has issued more.
LEMMA CarriedKeeps ==
  ASSUME NEW who, Carried(who), TypeOK
  PROVE  /\ \A n : Unmanaged(docs, n) => Unmanaged(docs', n)
         /\ \A n \in DOMAIN docs : docs[n].reversed => docs'[n].reversed
         /\ \A n, c : StornoOf(n, c) => StornoOf(n, c)'
         /\ \A j \in Invocation : Issued(j) \subseteq Issued(j)'
         /\ \A j \in Invocation : j # who => Issued(j)' = Issued(j)
         /\ \A j \in Invocation : LeavesOrders(j) => LeavesOrders(j)'
<1>1. /\ DOMAIN docs \subseteq DOMAIN docs'
      /\ \A n \in DOMAIN docs :
           /\ docs'[n].kind = docs[n].kind /\ docs'[n].of = docs[n].of /\ docs'[n].by = docs[n].by
           /\ docs'[n].order = docs[n].order
           /\ docs[n].reversed => docs'[n].reversed
           /\ docs'[n].gone => docs[n].gone \/ docs[n].kind = "proforma"
      /\ \A c \in DOMAIN docs' \ DOMAIN docs :
           docs'[c].by = who /\ (who \in Invocation => Unmanaged(docs', docs'[c].of))
  BY DEF Carried, Kept
<1>2. \A n : Unmanaged(docs, n) => Unmanaged(docs', n)
  BY <1>1 DEF Unmanaged
<1>3. \A n, c : StornoOf(n, c) => StornoOf(n, c)'
  BY <1>1 DEF StornoOf, Visible
<1>4. \A j \in Invocation : Issued(j) \subseteq Issued(j)'
  BY <1>1 DEF Issued
<1>5. \A j \in Invocation : j # who => Issued(j)' = Issued(j)
  BY <1>1 DEF Issued
<1>6. ASSUME NEW j \in Invocation, LeavesOrders(j), NEW c \in Issued(j)'
      PROVE  Unmanaged(docs', docs'[c].of)
  <2>1. c \in DOMAIN docs' /\ docs'[c].by = j /\ docs'[c].kind = "storno"
    BY <1>6 DEF Issued
  <2>2. CASE c \in DOMAIN docs
    <3>1. c \in Issued(j) /\ docs'[c].of = docs[c].of
      BY <1>1, <2>1, <2>2 DEF Issued
    <3>2. Unmanaged(docs, docs[c].of)
      BY <1>6, <3>1 DEF LeavesOrders
    <3> QED BY <1>1, <3>1, <3>2 DEF Unmanaged
  <2>3. CASE c \notin DOMAIN docs
    BY <1>1, <2>1, <2>3
  <2> QED BY <2>2, <2>3
<1>7. \A j \in Invocation : LeavesOrders(j) => LeavesOrders(j)'
  BY <1>6 DEF LeavesOrders
<1> QED BY <1>1, <1>2, <1>3, <1>4, <1>5, <1>7

-----------------------------------------------------------------------------
(* Keeping the invariant.                                                  *)

(***************************************************************************)
(* A call that stays as it is, of which nothing is added, is as sound as   *)
(* it was.                                                                 *)
(***************************************************************************)
LEMMA OtherKeeps ==
  ASSUME StornoBounds, IInv, NEW who, Carried(who), NEW j \in Invocation, calls'[j] = calls[j],
         \/ late'[j] = late[j] /\ Issued(j)' = Issued(j)
         \/ late[j] > 0
  PROVE  Sound(j)'
<1>0. TypeOK /\ Sound(j)
  BY DEF IInv
<1>1. BeforeTheWrite(j)' /\ Paid(j)'
  BY <1>0 DEF Sound, BeforeTheWrite, Paid
<1>2. OnlySend(j)'
  <2>1. CASE late'[j] = late[j] /\ Issued(j)' = Issued(j)
    BY <1>0, <2>1 DEF Sound, OnlySend, Clean
  <2>2. CASE late[j] > 0
    BY <1>0, <2>2 DEF Sound, OnlySend, Clean
  <2> QED BY <2>1, <2>2
<1>3. Verified(j)'
  <2>1. Unmanaged(docs, calls[j].target) => Unmanaged(docs', calls[j].target)
    BY <1>0, CarriedKeeps DEF Unmanaged
  <2>2. /\ calls[j].target \in DOMAIN docs /\ docs[calls[j].target].reversed =>
             docs'[calls[j].target].reversed
        /\ StornoOf(calls[j].target, calls[j].number) => StornoOf(calls[j].target, calls[j].number)'
    BY <1>0, CarriedKeeps DEF StornoOf
  <2>3. Verified(j)
    BY <1>0 DEF Sound
  <2> QED BY <2>1, <2>2, <2>3 DEF Verified, Unmanaged, Writing
<1>4. LeavesOrders(j)'
  BY <1>0, CarriedKeeps DEF Sound
<1> QED BY <1>1, <1>2, <1>3, <1>4 DEF Sound

(***************************************************************************)
(* A step of one call: the others are as sound as they were.               *)
(***************************************************************************)
LEMMA OneCallKeeps ==
  ASSUME StornoBounds, IInv, NEW i \in Invocation, Carried(i),
         calls' \in [Invocation -> Call], late' \in [Invocation -> Nat],
         \A j \in Invocation : j # i => calls'[j] = calls[j] /\ late'[j] = late[j],
         stray' \subseteq 1..MaxDocs, open' \subseteq Invocation,
         \A j \in Invocation : j # i => (j \in open' <=> j \in open),
         i \in open' <=> calls'[i].phase = "sent",
         Sound(i)'
  PROVE  IInv'
<1>1. TypeOK'
  <2>1. \A j \in Invocation : j \in open' <=> calls'[j].phase = "sent"
    BY DEF IInv, TypeOK
  <2> QED BY <2>1 DEF TypeOK, Carried
<1>2. ASSUME NEW j \in Invocation, j # i PROVE Sound(j)'
  <2>1. Issued(j)' = Issued(j)
    BY <1>2, CarriedKeeps DEF IInv
  <2> QED BY <1>2, <2>1, OtherKeeps
<1>3. Books(docs)'
  BY DEF Carried
<1> QED BY <1>1, <1>2, <1>3 DEF IInv

\* The call goes on: what its new phase asks for is what the step has shown.
LEMMA MoveKeeps ==
  ASSUME StornoBounds, IInv, NEW i \in Invocation, Carried(i),
         NEW phase \in {"idle"} \cup Reading \cup Writing, NEW number, NEW runs, NEW attempts, NEW sends,
         Turned(i, phase, "none", number, runs, attempts, sends),
         late' \in [Invocation -> Nat], \A j \in Invocation : j # i => late'[j] = late[j],
         stray' \subseteq stray, open' = IF phase = "sent" THEN open \cup {i} ELSE open \ {i},
         phase \in {"idle"} \cup Reading => sends = 0,
         phase = "sent" => sends > 0,
         sends = 0 \/ (sends = 1 /\ phase = "sent") => late'[i] = 0 /\ Issued(i)' = {},
         sends <= runs + attempts,
         phase \in {"idle", "leading", "cleared"} \cup Reading => sends < runs + attempts,
         phase \in Writing \cup {"name", "lookup"} \/ sends > 0 => Unmanaged(docs, calls[i].target),
         phase = "name" => docs[calls[i].target].reversed
  PROVE  IInv'
<1>0. TypeOK /\ Sound(i)
  BY DEF IInv
<1>1. /\ calls'[i].phase = phase /\ calls'[i].target = calls[i].target /\ calls'[i].result = "none"
      /\ calls'[i].runs = runs /\ calls'[i].attempts = attempts /\ calls'[i].sends = sends
      /\ calls' \in [Invocation -> Call] /\ \A j \in Invocation : j # i => calls'[j] = calls[j]
  BY DEF Turned
<1>2. BeforeTheWrite(i)' /\ OnlySend(i)' /\ Paid(i)'
  BY <1>1 DEF BeforeTheWrite, OnlySend, Paid, Clean, Untouched, Refused
<1>3. Verified(i)'
  <2>1. Unmanaged(docs, calls[i].target) => Unmanaged(docs', calls[i].target)
    BY <1>0, CarriedKeeps
  <2>2. Unmanaged(docs, calls[i].target) => calls[i].target \in DOMAIN docs
    BY DEF Unmanaged
  <2>3. phase = "name" => docs'[calls[i].target].reversed
    BY <1>0, <2>2, CarriedKeeps
  <2> QED BY <1>1, <2>1, <2>3 DEF Verified
<1>4. LeavesOrders(i)'
  BY <1>0, CarriedKeeps DEF Sound
<1>5. Sound(i)'
  BY <1>2, <1>3, <1>4 DEF Sound
<1>6. stray' \subseteq 1..MaxDocs /\ open' \subseteq Invocation /\ (i \in open' <=> phase = "sent")
  BY <1>0 DEF TypeOK
<1>7. \A j \in Invocation : j # i => (j \in open' <=> j \in open)
  OBVIOUS
<1> QED BY <1>1, <1>5, <1>6, <1>7, OneCallKeeps

\* The call ends: what it answers is what it has shown.
LEMMA EndKeeps ==
  ASSUME StornoBounds, IInv, NEW i \in Invocation, Carried(i),
         NEW result \in Result \ {"none"}, NEW number \in 0..MaxDocs, End(i, result, number),
         calls[i].phase \in Reading \cup Writing,
         late' \in [Invocation -> Nat], \A j \in Invocation : j # i => late'[j] = late[j],
         stray' \subseteq stray, open' = open \ {i},
         \/ late'[i] = late[i] /\ Issued(i)' = Issued(i)
         \/ calls[i].phase = "sent" /\ result \notin Untouched \cup Refused,
         result \in Untouched => calls[i].phase \in Reading,
         result \in Refused => calls[i].phase = "sent",
         result = "reversed" => /\ docs'[calls[i].target].reversed
                                /\ number # 0 => StornoOf(calls[i].target, number)'
                                /\ calls[i].phase # "verify"
  PROVE  IInv'
<1>0. TypeOK /\ Sound(i) /\ calls[i].sends \in Nat
  BY CallType DEF IInv
<1>1. /\ calls'[i].phase = "done" /\ calls'[i].target = calls[i].target /\ calls'[i].result = result
      /\ calls'[i].number = number /\ calls'[i].runs = calls[i].runs
      /\ calls'[i].attempts = calls[i].attempts /\ calls'[i].sends = calls[i].sends
      /\ calls' \in [Invocation -> Call] /\ \A j \in Invocation : j # i => calls'[j] = calls[j]
  BY <1>0, Ended DEF Turned
<1>2. /\ calls[i].phase \in Reading => calls[i].sends = 0
      /\ calls[i].phase = "sent" => calls[i].sends > 0
  BY <1>0 DEF Sound, BeforeTheWrite
<1>3. BeforeTheWrite(i)'
  BY <1>1, <1>2 DEF BeforeTheWrite, Reading
<1>4. OnlySend(i)'
  <2>1. /\ calls[i].sends = 0 => Clean(i)
        /\ calls[i].sends = 1 /\ calls[i].phase = "sent" => Clean(i)
    BY <1>0 DEF Sound, OnlySend
  <2>2. calls[i].sends = 0 \/ result \in Refused => late'[i] = late[i] /\ Issued(i)' = Issued(i)
    BY <1>0, <1>2
  <2> QED BY <1>1, <2>1, <2>2 DEF OnlySend, Clean
<1>5. Paid(i)'
  BY <1>0, <1>1 DEF Sound, Paid, Reading
<1>6. Verified(i)'
  <2>1. calls[i].phase \in Writing \cup {"name", "lookup"} \/ calls[i].sends > 0 =>
          Unmanaged(docs, calls[i].target)
    BY <1>0 DEF Sound, Verified
  <2>2. result = "reversed" => Unmanaged(docs, calls[i].target)
    BY <2>1 DEF Reading
  <2>3. Unmanaged(docs, calls[i].target) => Unmanaged(docs', calls[i].target)
    BY <1>0, CarriedKeeps
  <2> QED BY <1>1, <2>1, <2>2, <2>3 DEF Verified, StornoOf, Writing
<1>7. LeavesOrders(i)'
  BY <1>0, CarriedKeeps DEF Sound
<1>8. Sound(i)'
  BY <1>3, <1>4, <1>5, <1>6, <1>7 DEF Sound
<1>9. stray' \subseteq 1..MaxDocs /\ open' \subseteq Invocation /\ i \notin open'
  BY <1>0 DEF TypeOK
<1>10. \A j \in Invocation : j # i => (j \in open' <=> j \in open)
  OBVIOUS
<1> QED BY <1>1, <1>8, <1>9, <1>10, OneCallKeeps

-----------------------------------------------------------------------------
(* The reads, and the write step up to its send.                           *)

\* A storno on the books proves the reversal.
LEMMA BooksProve ==
  ASSUME StornoBounds, IInv, NEW c \in DOMAIN docs, docs[c].kind = "storno"
  PROVE  /\ StornoOf(docs[c].of, c) /\ docs[docs[c].of].reversed
         /\ c \in 0..MaxDocs /\ c # 0
<1>1. docs \in Seq(Document(Invocation \cup {"outside"})) /\ Len(docs) <= MaxDocs /\ Books(docs)
      /\ MaxDocs \in Nat
  BY DEF IInv, TypeOK, StornoBounds
<1>2. c \in 1..Len(docs) /\ Len(docs) \in Nat
  BY <1>1, Numbers
<1>3. ~docs[c].gone /\ docs[docs[c].of].reversed
  BY <1>1 DEF Books
<1>4. StornoOf(docs[c].of, c)
  BY <1>3 DEF StornoOf, Visible
<1> QED BY <1>1, <1>2, <1>3, <1>4

\* A storno found under the storno id of n proves the reversal of n.
LEMMA SeenIsTrue ==
  ASSUME StornoBounds, IInv, NEW n, NEW c \in DOMAIN docs, StornoSeen(n, c)
  PROVE  /\ StornoOf(n, c) /\ docs[n].reversed
         /\ c \in 0..MaxDocs /\ c # 0
<1>1. docs[c].kind = "storno" /\ docs[c].of = n
  BY DEF StornoSeen, ByExternalId, Newest, Holders
<1> QED BY <1>1, BooksProve

Quiet == UNCHANGED <<docs, stray, open, late>>

\* The call ends without having sent in this step.
LEMMA QuietEnd ==
  ASSUME StornoBounds, IInv, NEW i \in Invocation, Quiet,
         NEW result \in Result \ {"none"}, NEW number \in 0..MaxDocs, End(i, result, number),
         calls[i].phase \in (Reading \cup Writing) \ {"sent"},
         result \in Untouched => calls[i].phase \in Reading, result \notin Refused,
         result = "reversed" => /\ docs[calls[i].target].reversed
                                /\ number # 0 => StornoOf(calls[i].target, number)
                                /\ calls[i].phase # "verify"
  PROVE  IInv'
<1>1. docs' = docs /\ stray' = stray /\ open' = open /\ late' = late /\ TypeOK
  BY DEF Quiet, IInv
<1>2. i \notin open /\ late \in [Invocation -> Nat]
  BY <1>1 DEF TypeOK
<1>3. open' = open \ {i} /\ stray' \subseteq stray
  BY <1>1, <1>2
<1>4. Carried(i)
  BY <1>1, NothingCarried
<1>5. Issued(i)' = Issued(i)
  BY <1>1 DEF Issued
<1>6. result = "reversed" => /\ docs'[calls[i].target].reversed
                             /\ number # 0 => StornoOf(calls[i].target, number)'
                             /\ calls[i].phase # "verify"
  <2>1. ASSUME result = "reversed", number # 0 PROVE StornoOf(calls[i].target, number)'
    <3>1. StornoOf(calls[i].target, number)
      BY <2>1
    <3>2. calls'[i].target = calls[i].target
      BY <1>1, Ended DEF Turned
    <3> QED BY <1>1, <3>1, <3>2 DEF StornoOf, Visible
  <2> QED BY <1>1, <2>1
<1> QED BY <1>1, <1>2, <1>3, <1>4, <1>5, <1>6, EndKeeps

\* The call goes on without having sent in this step.
LEMMA QuietMove ==
  ASSUME StornoBounds, IInv, NEW i \in Invocation, Quiet,
         calls[i].phase \in (Reading \cup Writing) \ {"sent"},
         NEW phase \in (Reading \cup Writing) \ {"sent"}, NEW number, NEW runs,
         Turned(i, phase, "none", number, runs, calls[i].attempts, calls[i].sends),
         phase \in Reading => calls[i].phase \in Reading,
         \/ runs = calls[i].runs /\ (phase \in {"leading", "cleared"} =>
                                       calls[i].phase \in {"leading", "cleared"} \cup Reading)
         \/ runs = calls[i].runs + 1,
         calls[i].phase = "verify" => Unmanaged(docs, calls[i].target),
         phase = "name" => docs[calls[i].target].reversed
  PROVE  IInv'
<1>1. docs' = docs /\ stray' = stray /\ open' = open /\ late' = late /\ TypeOK /\ Sound(i)
  BY DEF Quiet, IInv
<1>2. /\ i \notin open /\ late \in [Invocation -> Nat] /\ calls[i].sends \in Nat
      /\ calls[i].runs \in Nat /\ calls[i].attempts \in Nat
  BY <1>1, CallType DEF TypeOK
<1>3. open' = open \ {i} /\ stray' \subseteq stray
  BY <1>1, <1>2
<1>4. Carried(i) /\ Issued(i)' = Issued(i)
  BY <1>1, NothingCarried DEF Issued
<1>5. /\ calls[i].sends = 0 => late'[i] = 0 /\ Issued(i)' = {}
      /\ phase \in Reading => calls[i].sends = 0
  BY <1>1, <1>4 DEF Sound, BeforeTheWrite, OnlySend, Clean
<1>6. /\ calls[i].sends <= runs + calls[i].attempts
      /\ phase \in {"idle", "leading", "cleared"} \cup Reading => calls[i].sends < runs + calls[i].attempts
  BY <1>1, <1>2 DEF Sound, Paid, Reading, Writing
<1>7. Unmanaged(docs, calls[i].target)
  BY <1>1 DEF Sound, Verified, Reading, Writing
<1>8. phase \in {"idle"} \cup Reading \cup Writing /\ phase # "sent" /\ phase # "idle"
  BY DEF Reading, Writing
<1> QED BY <1>1, <1>2, <1>3, <1>4, <1>5, <1>6, <1>7, <1>8, MoveKeeps

\* Nothing is said before the end.
LEMMA Silent ==
  ASSUME IInv, NEW i \in Invocation, calls[i].phase # "done"
  PROVE  calls[i].result = "none"
BY DEF IInv, Sound, BeforeTheWrite

\* Going on in the same execution.
LEMMA QuietGo ==
  ASSUME StornoBounds, IInv, NEW i \in Invocation, Quiet,
         calls[i].phase \in (Reading \cup Writing) \ {"sent"},
         NEW phase \in (Reading \cup Writing) \ {"sent"}, Go(i, phase),
         phase \in Reading => calls[i].phase \in Reading,
         phase \in {"leading", "cleared"} => calls[i].phase \in {"leading", "cleared"} \cup Reading,
         calls[i].phase = "verify" => Unmanaged(docs, calls[i].target),
         phase = "name" => docs[calls[i].target].reversed
  PROVE  IInv'
<1>1. calls[i].result = "none" /\ TypeOK
  BY Silent DEF IInv, Reading, Writing
<1>2. Turned(i, phase, "none", calls[i].number, calls[i].runs, calls[i].attempts, calls[i].sends)
  BY <1>1, Went
<1> QED BY <1>2, QuietMove

\* Running again, while the policy allows it.
LEMMA AgainKeeps ==
  ASSUME StornoBounds, IInv, NEW i \in Invocation, Quiet,
         calls[i].phase \in {"leading", "settle"}, Again(i)
  PROVE  IInv'
<1>1. /\ TypeOK /\ calls[i].result = "none" /\ calls[i] \in Call /\ calls[i].runs \in Nat
      /\ MaxRuns \in Nat
  BY Silent, CallType DEF IInv
<1>2. CASE calls[i].runs + 1 < MaxRuns
  <2> DEFINE c == [calls[i] EXCEPT !.phase = "leading", !.runs = @ + 1]
  <2>1. calls' = [calls EXCEPT ![i] = c]
    BY <1>2 DEF Again
  <2>2. calls[i].runs + 1 \in 0..MaxRuns
    BY <1>1, <1>2
  <2>3. /\ c \in Call /\ c.phase = "leading" /\ c.target = calls[i].target /\ c.result = "none"
        /\ c.number = calls[i].number /\ c.runs = calls[i].runs + 1
        /\ c.attempts = calls[i].attempts /\ c.sends = calls[i].sends
    BY <1>1, <2>2 DEF Call, Writing
  <2> HIDE DEF c
  <2>4. Turned(i, "leading", "none", calls[i].number, calls[i].runs + 1, calls[i].attempts, calls[i].sends)
    BY <1>1, <2>1, <2>3 DEF TypeOK, Turned
  <2>5. "leading" \in (Reading \cup Writing) \ {"sent"} /\ "leading" \notin Reading /\ "leading" # "name"
        /\ calls[i].phase \in (Reading \cup Writing) \ {"sent"} /\ calls[i].phase # "verify"
    BY DEF Reading, Writing
  <2> QED BY <2>4, <2>5, QuietMove
<1>3. CASE ~(calls[i].runs + 1 < MaxRuns)
  <2>1. End(i, "outcome_unknown", 0)
    BY <1>3 DEF Again
  <2>2. /\ "outcome_unknown" \in Result \ {"none"} /\ "outcome_unknown" \notin Untouched \cup Refused
        /\ calls[i].phase \in (Reading \cup Writing) \ {"sent"} /\ 0 \in 0..MaxDocs
    BY CallType, <1>1 DEF Result, Untouched, Refused, Open, Writing
  <2> QED BY <2>1, <2>2, QuietEnd
<1> QED BY <1>2, <1>3

\* Results that say neither that something was done nor that nothing was.
LEMMA Results ==
  ASSUME StornoBounds
  PROVE  /\ \A r \in Open : r \in Result \ {"none"} /\ r \notin Untouched \cup Refused /\ r # "reversed"
         /\ \A r \in Untouched : r \in Result \ {"none"} /\ r \notin Refused /\ r # "reversed"
         /\ \A r \in Refused : r \in Result \ {"none"} /\ r \notin Untouched /\ r # "reversed"
         /\ "reversed" \in Result \ {"none"} /\ "reversed" \notin Untouched \cup Refused
         /\ {"outcome_unknown", "unavailable", "credentials_rejected", "killed"} \subseteq Open
         /\ {"managed_by_order", "unsupported_order_number", "not_found", "cancelled",
             "invalid_input"} \subseteq Untouched
         /\ {"rejected", "not_stornoable"} \subseteq Refused
         /\ 0 \in 0..MaxDocs
BY DEF StornoBounds, Result, Untouched, Refused, Open

\* The call ends with nothing shown.
LEMMA FaultEnd ==
  ASSUME StornoBounds, IInv, NEW i \in Invocation, Quiet, NEW result,
         calls[i].phase \in (Reading \cup Writing) \ {"sent"},
         result \in Open \/ (result \in Untouched /\ calls[i].phase \in Reading), End(i, result, 0)
  PROVE  IInv'
<1>1. /\ result \in Result \ {"none"} /\ result \notin Refused /\ 0 \in 0..MaxDocs
      /\ result # "reversed" /\ (result \in Untouched => calls[i].phase \in Reading)
  BY Results
<1> QED BY <1>1, QuietEnd

\* The call ends with the storno it has found.
LEMMA FoundEnd ==
  ASSUME StornoBounds, IInv, NEW i \in Invocation, Quiet, NEW c \in DOMAIN docs,
         calls[i].phase \in (Reading \cup Writing) \ {"sent", "verify"},
         StornoSeen(calls[i].target, c), End(i, "reversed", c)
  PROVE  IInv'
<1>1. /\ StornoOf(calls[i].target, c) /\ docs[calls[i].target].reversed /\ c \in 0..MaxDocs
  BY SeenIsTrue
<1>2. "reversed" \in Result \ {"none"} /\ "reversed" \notin Untouched \cup Refused
  BY Results
<1> QED BY <1>1, <1>2, QuietEnd

LEMMA StartKeeps ==
  ASSUME StornoBounds, IInv, NEW i \in Invocation, NEW n \in Targets, Start(i, n)
  PROVE  IInv'
<1>0. /\ TypeOK /\ Sound(i) /\ calls[i].phase = "idle" /\ calls[i] \in Call /\ calls[i].result = "none"
      /\ docs' = docs /\ stray' = stray /\ open' = open /\ late' = late
  BY CallType, Silent DEF IInv, Start
<1> DEFINE c == [calls[i] EXCEPT !.phase = "verify", !.target = n]
<1>1. /\ c \in Call /\ c.phase = "verify" /\ c.result = "none"
      /\ c.runs = calls[i].runs /\ c.attempts = calls[i].attempts /\ c.sends = calls[i].sends
  BY <1>0 DEF Call, Reading
<1>2. calls' = [calls EXCEPT ![i] = c]
  BY DEF Start
<1> HIDE DEF c
<1>3. calls' \in [Invocation -> Call] /\ calls'[i] = c /\ \A j \in Invocation : j # i => calls'[j] = calls[j]
  BY <1>0, <1>1, <1>2 DEF TypeOK
<1>4. Carried(i) /\ Issued(i)' = Issued(i)
  BY <1>0, NothingCarried DEF Issued
<1>5. BeforeTheWrite(i)' /\ OnlySend(i)' /\ Paid(i)'
  <2>1. calls[i].sends = 0 /\ Clean(i) /\ calls[i].sends < calls[i].runs + calls[i].attempts
    BY <1>0 DEF Sound, BeforeTheWrite, OnlySend, Paid
  <2>2. calls[i].runs \in Nat /\ calls[i].attempts \in Nat
    BY <1>0, CallType
  <2> QED BY <1>0, <1>1, <1>3, <1>4, <2>1, <2>2
          DEF BeforeTheWrite, OnlySend, Paid, Clean, Untouched, Refused
<1>6. Verified(i)'
  <2>1. calls[i].sends = 0
    BY <1>0 DEF Sound, BeforeTheWrite
  <2> QED BY <1>1, <1>3, <2>1 DEF Verified, Writing
<1>7. LeavesOrders(i)'
  BY <1>0, <1>4, CarriedKeeps DEF Sound
<1>8. Sound(i)'
  BY <1>5, <1>6, <1>7 DEF Sound
<1>9. late' \in [Invocation -> Nat] /\ stray' \subseteq 1..MaxDocs /\ open' \subseteq Invocation
      /\ i \notin open'
  BY <1>0 DEF TypeOK
<1> QED BY <1>0, <1>1, <1>3, <1>4, <1>8, <1>9, OneCallKeeps

LEMMA VerifyKeeps ==
  ASSUME StornoBounds, IInv, NEW i \in Invocation, Verify(i)
  PROVE  IInv'
<1> DEFINE n == calls[i].target
<1>1. /\ calls[i].phase = "verify" /\ Quiet /\ calls[i].phase \in Reading
      /\ calls[i].phase \in (Reading \cup Writing) \ {"sent"}
  BY DEF Verify, Quiet, Reading
<1>2. \/ End(i, "not_found", 0) \/ End(i, "managed_by_order", 0)
      \/ End(i, "unsupported_order_number", 0) \/ End(i, "unavailable", 0)
      \/ End(i, "invalid_input", 0)
      \/ n \in Visible(docs) /\ ~docs[n].order /\ docs[n].reversed /\ Go(i, "name")
      \/ n \in Visible(docs) /\ ~docs[n].order /\ Go(i, "lookup")
  BY DEF Verify
<1>3. CASE \/ End(i, "not_found", 0) \/ End(i, "managed_by_order", 0)
           \/ End(i, "unsupported_order_number", 0) \/ End(i, "unavailable", 0)
           \/ End(i, "invalid_input", 0)
  BY <1>1, <1>3, Results, FaultEnd
<1>4. CASE n \in Visible(docs) /\ ~docs[n].order /\ docs[n].reversed /\ Go(i, "name")
  <2>1. Unmanaged(docs, n)
    BY <1>4 DEF Unmanaged, Visible
  <2>2. "name" \in (Reading \cup Writing) \ {"sent"}
    BY DEF Reading
  <2> QED BY <1>1, <1>4, <2>1, <2>2, QuietGo
<1>5. CASE n \in Visible(docs) /\ ~docs[n].order /\ Go(i, "lookup")
  <2>1. Unmanaged(docs, n)
    BY <1>5 DEF Unmanaged, Visible
  <2>2. "lookup" \in (Reading \cup Writing) \ {"sent"}
    BY DEF Reading
  <2> QED BY <1>1, <1>5, <2>1, <2>2, QuietGo
<1> QED BY <1>2, <1>3, <1>4, <1>5

LEMMA NameKeeps ==
  ASSUME StornoBounds, IInv, NEW i \in Invocation, Name(i)
  PROVE  IInv'
<1>1. /\ calls[i].phase = "name" /\ Quiet /\ calls[i].phase \in (Reading \cup Writing) \ {"sent", "verify"}
  BY DEF Name, Quiet, Reading
<1>2. CASE \E c \in DOMAIN docs : StornoSeen(calls[i].target, c) /\ End(i, "reversed", c)
  BY <1>1, <1>2, FoundEnd
<1>3. CASE End(i, "reversed", 0)
  <2>1. docs[calls[i].target].reversed
    BY <1>1 DEF IInv, Sound, Verified
  <2>2. "reversed" \in Result \ {"none"} /\ "reversed" \notin Untouched \cup Refused /\ 0 \in 0..MaxDocs
    BY Results
  <2> QED BY <1>1, <1>3, <2>1, <2>2, QuietEnd
<1>4. CASE End(i, "credentials_rejected", 0)
  BY <1>1, <1>4, Results, FaultEnd
<1> QED BY <1>2, <1>3, <1>4 DEF Name

LEMMA LookupKeeps ==
  ASSUME StornoBounds, IInv, NEW i \in Invocation, Lookup(i)
  PROVE  IInv'
<1>1. /\ calls[i].phase = "lookup" /\ Quiet /\ calls[i].phase \in (Reading \cup Writing) \ {"sent", "verify"}
      /\ calls[i].phase \in Reading
  BY DEF Lookup, Quiet, Reading
<1>2. CASE \E c \in DOMAIN docs : StornoSeen(calls[i].target, c) /\ End(i, "reversed", c)
  BY <1>1, <1>2, FoundEnd
<1>3. CASE Go(i, "leading")
  <2>1. "leading" \in (Reading \cup Writing) \ {"sent"} /\ "leading" \notin Reading
    BY DEF Reading, Writing
  <2> QED BY <1>1, <1>3, <2>1, QuietGo
<1> QED BY <1>2, <1>3 DEF Lookup

LEMMA ReadFailsKeeps ==
  ASSUME StornoBounds, IInv, NEW i \in Invocation, ReadFails(i)
  PROVE  IInv'
<1>1. Quiet /\ calls[i].phase \in (Reading \cup Writing) \ {"sent"}
  BY DEF ReadFails, Quiet, Reading
<1>2. PICK r \in {"unavailable", "credentials_rejected"} : End(i, r, 0)
  BY DEF ReadFails
<1> QED BY <1>1, <1>2, Results, FaultEnd

LEMMA LeadingKeeps ==
  ASSUME StornoBounds, IInv, NEW i \in Invocation, Leading(i)
  PROVE  IInv'
<1>1. /\ calls[i].phase = "leading" /\ Quiet
      /\ calls[i].phase \in (Reading \cup Writing) \ {"sent", "verify"}
  BY DEF Leading, Quiet, Writing
<1>2. CASE \E c \in DOMAIN docs : StornoSeen(calls[i].target, c) /\ End(i, "reversed", c)
  BY <1>1, <1>2, FoundEnd
<1>3. CASE Go(i, "cleared")
  <2>1. "cleared" \in (Reading \cup Writing) \ {"sent"} /\ "cleared" \notin Reading
    BY DEF Reading, Writing
  <2> QED BY <1>1, <1>3, <2>1, QuietGo
<1>4. CASE \E r \in {"unavailable", "credentials_rejected"} : End(i, r, 0)
  BY <1>1, <1>4, Results, FaultEnd
<1>5. CASE Again(i)
  BY <1>1, <1>5, AgainKeeps
<1> QED BY <1>2, <1>3, <1>4, <1>5 DEF Leading

LEMMA SendKeeps ==
  ASSUME StornoBounds, IInv, NEW i \in Invocation, Send(i)
  PROVE  IInv'
<1>0. /\ TypeOK /\ Sound(i) /\ calls[i].phase = "cleared" /\ calls[i] \in Call /\ calls[i].result = "none"
      /\ docs' = docs /\ stray' = stray /\ late' = late /\ open' = open \cup {i}
      /\ calls[i].sends \in Nat /\ calls[i].runs \in Nat /\ calls[i].attempts \in Nat
  BY CallType, Silent DEF IInv, Send
<1>s. calls[i].sends + 1 \in Nat /\ "sent" \in {"idle", "done"} \cup Reading \cup Writing
  BY <1>0 DEF Writing
<1> DEFINE c == [calls[i] EXCEPT !.phase = "sent", !.sends = @ + 1]
<1>1. /\ c \in Call /\ c.phase = "sent" /\ c.target = calls[i].target /\ c.result = "none"
      /\ c.number = calls[i].number /\ c.runs = calls[i].runs
      /\ c.attempts = calls[i].attempts /\ c.sends = calls[i].sends + 1
  BY <1>0, <1>s DEF Call
<1>2. calls' = [calls EXCEPT ![i] = c]
  BY DEF Send
<1> HIDE DEF c
<1>3. Turned(i, "sent", "none", calls[i].number, calls[i].runs, calls[i].attempts, calls[i].sends + 1)
  BY <1>0, <1>1, <1>2 DEF TypeOK, Turned
<1>4. Carried(i) /\ Issued(i)' = Issued(i)
  BY <1>0, NothingCarried DEF Issued
<1>5. /\ calls[i].sends = 0 => late'[i] = 0 /\ Issued(i)' = {}
      /\ calls[i].sends < calls[i].runs + calls[i].attempts /\ Unmanaged(docs, calls[i].target)
  BY <1>0, <1>4 DEF Sound, OnlySend, Clean, Paid, Verified, Writing
<1>6. /\ calls[i].sends + 1 > 0 /\ calls[i].sends + 1 <= calls[i].runs + calls[i].attempts
      /\ calls[i].sends + 1 = 1 => calls[i].sends = 0
  BY <1>0, <1>5
<1>7. "sent" \in {"idle"} \cup Reading \cup Writing /\ "sent" \notin {"idle", "leading", "cleared"} \cup Reading
      /\ late' \in [Invocation -> Nat]
  BY <1>0 DEF Reading, Writing, TypeOK
<1> QED BY <1>0, <1>3, <1>4, <1>5, <1>6, <1>7, MoveKeeps

LEMMA VerifyReplyKeeps ==
  ASSUME StornoBounds, IInv, NEW i \in Invocation, VerifyReply(i)
  PROVE  IInv'
<1>1. /\ calls[i].phase = "verify_reply" /\ Quiet /\ TypeOK /\ calls[i].result = "none"
      /\ calls[i].phase \in (Reading \cup Writing) \ {"sent", "verify"} /\ calls[i] \in Call
      /\ calls[i].number \in 0..MaxDocs
  BY CallType, Silent DEF IInv, VerifyReply, Quiet, Writing
<1>2. CASE StornoOf(calls[i].target, calls[i].number) /\ End(i, "reversed", calls[i].number)
  <2>1. calls[i].number \in DOMAIN docs /\ docs[calls[i].number].kind = "storno"
        /\ docs[calls[i].number].of = calls[i].target
    BY <1>2 DEF StornoOf, Visible
  <2>2. docs[calls[i].target].reversed
    BY <2>1, BooksProve
  <2>3. "reversed" \in Result \ {"none"} /\ "reversed" \notin Untouched \cup Refused
    BY Results
  <2> QED BY <1>1, <1>2, <2>2, <2>3, QuietEnd
<1>3. CASE calls' = [calls EXCEPT ![i].phase = "settle", ![i].number = 0]
  <2> DEFINE c == [calls[i] EXCEPT !.phase = "settle", !.number = 0]
  <2>1. 0 \in 0..MaxDocs
    BY Results
  <2>2. /\ c \in Call /\ c.phase = "settle" /\ c.target = calls[i].target /\ c.result = "none"
        /\ c.number = 0 /\ c.runs = calls[i].runs
        /\ c.attempts = calls[i].attempts /\ c.sends = calls[i].sends
    BY <1>1, <2>1 DEF Call, Writing
  <2>3. calls' = [calls EXCEPT ![i] = c]
    BY <1>3
  <2> HIDE DEF c
  <2>4. Turned(i, "settle", "none", 0, calls[i].runs, calls[i].attempts, calls[i].sends)
    BY <1>1, <2>2, <2>3 DEF TypeOK, Turned
  <2>5. "settle" \in (Reading \cup Writing) \ {"sent"} /\ "settle" \notin Reading \cup {"leading", "cleared"}
    BY DEF Reading, Writing
  <2> QED BY <1>1, <2>4, <2>5, QuietMove
<1> QED BY <1>2, <1>3 DEF VerifyReply

LEMMA SettleKeeps ==
  ASSUME StornoBounds, IInv, NEW i \in Invocation, Settle(i) \/ SettleOnce(i)
  PROVE  IInv'
<1>1. /\ calls[i].phase \in {"settle", "settle_once"} /\ Quiet
      /\ calls[i].phase \in (Reading \cup Writing) \ {"sent", "verify"}
  BY DEF Settle, SettleOnce, Quiet, Writing
<1>2. CASE \E c \in DOMAIN docs : StornoSeen(calls[i].target, c) /\ End(i, "reversed", c)
  BY <1>1, <1>2, FoundEnd
<1>3. CASE calls[i].phase = "settle" /\ Again(i)
  BY <1>1, <1>3, AgainKeeps
<1>4. CASE End(i, "outcome_unknown", 0)
  BY <1>1, <1>4, Results, FaultEnd
<1> QED BY <1>2, <1>3, <1>4 DEF Settle, SettleOnce

-----------------------------------------------------------------------------
(* Replies and interruptions.                                              *)

\* What a reply may conclude is what the exchange has shown.
LEMMA ReplyKeeps ==
  ASSUME StornoBounds, IInv, NEW i \in Invocation, i \in open, Abandon(i), Carried(i),
         NEW shape \in {"reversal", "ambiguous", "echo", "refused", "credentials", "unnumbered",
                        "open", "lost"},
         NEW c \in 0..MaxDocs, Reply(i, shape, c),
         late' \in [Invocation -> Nat], \A j \in Invocation : j # i => late'[j] = late[j],
         stray' \subseteq stray,
         shape \in {"echo", "refused"} => late'[i] = late[i] /\ Issued(i)' = Issued(i),
         shape = "reversal" => docs'[calls[i].target].reversed /\ StornoOf(calls[i].target, c)'
  PROVE  IInv'
<1>0. /\ TypeOK /\ Sound(i) /\ calls[i] \in Call /\ calls[i].phase = "sent" /\ calls[i].result = "none"
      /\ calls[i].sends \in Nat /\ calls[i].runs \in Nat /\ calls[i].attempts \in Nat
      /\ open' = open \ {i}
  <2>1. TypeOK /\ Sound(i) /\ calls[i].phase = "sent" /\ open' = open \ {i}
    BY DEF IInv, TypeOK, Abandon
  <2> QED BY <2>1, CallType, Silent
<1>1. calls[i].phase \in Reading \cup Writing /\ calls[i].phase # "verify"
  BY <1>0 DEF Writing
<1>2. calls[i].sends > 0 /\ calls[i].sends <= calls[i].runs + calls[i].attempts
      /\ Unmanaged(docs, calls[i].target)
  BY <1>0 DEF Sound, BeforeTheWrite, Paid, Verified, Writing
<1>3. ASSUME NEW phase \in {"verify_reply", "settle", "settle_once"}, NEW number,
             Turned(i, phase, "none", number, calls[i].runs, calls[i].attempts, calls[i].sends)
      PROVE  IInv'
  <2>1. /\ phase \in {"idle"} \cup Reading \cup Writing /\ phase # "sent" /\ phase # "name"
        /\ phase \notin {"idle", "leading", "cleared"} \cup Reading
    BY DEF Reading, Writing
  <2> QED BY <1>0, <1>2, <1>3, <2>1, MoveKeeps
<1>4. CASE shape = "reversal"
  <2>1. End(i, "reversed", c)
    BY <1>4 DEF Reply
  <2>2. "reversed" \in Result \ {"none"} /\ "reversed" \notin Untouched \cup Refused
    BY Results
  <2> QED BY <1>0, <1>1, <1>4, <2>1, <2>2, EndKeeps
<1>5. CASE shape = "ambiguous"
  <2> DEFINE r == [calls[i] EXCEPT !.phase = "verify_reply", !.number = c]
  <2>1. /\ r \in Call /\ r.phase = "verify_reply" /\ r.target = calls[i].target /\ r.result = "none"
        /\ r.number = c /\ r.runs = calls[i].runs
        /\ r.attempts = calls[i].attempts /\ r.sends = calls[i].sends
    BY <1>0 DEF Call, Writing
  <2>2. calls' = [calls EXCEPT ![i] = r]
    BY <1>5 DEF Reply
  <2> HIDE DEF r
  <2>3. Turned(i, "verify_reply", "none", c, calls[i].runs, calls[i].attempts, calls[i].sends)
    BY <1>0, <2>1, <2>2 DEF TypeOK, Turned
  <2> QED BY <1>3, <2>3
<1>6. CASE shape \in {"echo", "refused"}
  <2>1. PICK r \in {"rejected", "not_stornoable"} : End(i, r, 0)
    BY <1>6 DEF Reply
  <2>2. r \in Result \ {"none"} /\ r \notin Untouched /\ r # "reversed" /\ 0 \in 0..MaxDocs
    BY Results
  <2> QED BY <1>0, <1>1, <1>6, <2>1, <2>2, EndKeeps
<1>7. CASE shape = "credentials"
  <2>1. End(i, "credentials_rejected", 0)
    BY <1>7 DEF Reply
  <2>2. "credentials_rejected" \in Result \ {"none"} /\ "credentials_rejected" \notin Untouched \cup Refused
        /\ 0 \in 0..MaxDocs
    BY Results
  <2> QED BY <1>0, <1>1, <2>1, <2>2, EndKeeps
<1>8. CASE shape \in {"unnumbered", "open", "lost"}
  <2>1. PICK phase \in {"settle", "settle_once"} : Go(i, phase)
    BY <1>8 DEF Reply
  <2>2. phase \in {"idle", "done"} \cup Reading \cup Writing
    BY DEF Writing
  <2>3. Turned(i, phase, "none", calls[i].number, calls[i].runs, calls[i].attempts, calls[i].sends)
    BY <1>0, <2>1, <2>2, Went
  <2> QED BY <1>3, <2>3
<1> QED BY <1>4, <1>5, <1>6, <1>7, <1>8

LEMMA AcknowledgeKeeps ==
  ASSUME StornoBounds, IInv, NEW i \in Invocation, Acknowledge(i)
  PROVE  IInv'
<1> DEFINE n == calls[i].target
<1>0. /\ TypeOK /\ Sound(i) /\ i \in open /\ calls[i].phase = "sent" /\ Takes(i) /\ Abandon(i)
      /\ late' = late /\ late \in [Invocation -> Nat]
  BY DEF IInv, TypeOK, Acknowledge
<1>1. Unmanaged(docs, n)
  BY <1>0 DEF Sound, Verified, Writing
<1>2. /\ Carried(i) /\ stray' \subseteq stray /\ (Reversible(n) => docs'[n].reversed)
      /\ (~Reversible(n) => UNCHANGED docs)
  BY <1>0, <1>1, Taken
<1>3. CASE Reversible(n)
  <2>1. PICK c \in DOMAIN docs', shape \in {"reversal", "ambiguous", "unnumbered", "open"} :
          docs'[c].kind = "storno" /\ docs'[c].of = n /\ Reply(i, shape, c)
    BY <1>3 DEF Acknowledge
  <2>2. docs' \in Seq(Document(Invocation \cup {"outside"})) /\ Len(docs') <= MaxDocs
        /\ Books(docs)' /\ MaxDocs \in Nat
    BY <1>2 DEF Carried, StornoBounds
  <2>3. c \in 1..Len(docs') /\ Len(docs') \in Nat
    BY <2>1, <2>2, Numbers
  <2>4. c \in 0..MaxDocs
    BY <2>2, <2>3
  <2>5. ~docs'[c].gone
    BY <2>1, <2>2 DEF Books
  <2>6. calls'[i].target = n
    <3>1. CASE shape = "reversal"
      BY <1>0, <2>1, <2>4, <3>1, Results, Ended DEF Reply, Turned
    <3>2. CASE shape = "ambiguous"
      BY <1>0, <2>1, <3>2, CallType DEF Reply, Call, TypeOK
    <3>3. CASE shape \in {"unnumbered", "open"}
      <4>1. PICK phase \in {"settle", "settle_once"} : Go(i, phase)
        BY <2>1, <3>3 DEF Reply
      <4>2. phase \in {"idle", "done"} \cup Reading \cup Writing
        BY DEF Writing
      <4> QED BY <1>0, <4>1, <4>2, Went DEF Turned
    <3> QED BY <3>1, <3>2, <3>3
  <2>7. StornoOf(calls[i].target, c)'
    BY <2>1, <2>5, <2>6 DEF StornoOf, Visible
  <2> QED BY <1>0, <1>2, <1>3, <2>1, <2>4, <2>7, ReplyKeeps
<1>4. CASE ~Reversible(n)
  <2>1. PICK shape \in {"echo", "unnumbered", "open"} : Reply(i, shape, 0)
    BY <1>4 DEF Acknowledge
  <2>2. Issued(i)' = Issued(i)
    BY <1>2, <1>4 DEF Issued
  <2>3. 0 \in 0..MaxDocs
    BY Results
  <2> QED BY <1>0, <1>2, <2>1, <2>2, <2>3, ReplyKeeps
<1> QED BY <1>3, <1>4

LEMMA DeclineKeeps ==
  ASSUME StornoBounds, IInv, NEW i \in Invocation, Decline(i)
  PROVE  IInv'
<1>0. /\ TypeOK /\ i \in open /\ Abandon(i) /\ docs' = docs /\ stray' = stray /\ late' = late
      /\ late \in [Invocation -> Nat]
  BY DEF IInv, TypeOK, Decline
<1>1. Carried(i) /\ Issued(i)' = Issued(i)
  BY <1>0, NothingCarried DEF Issued
<1>2. CASE \E shape \in {"refused", "credentials", "open"} : Reply(i, shape, 0)
  <2>1. 0 \in 0..MaxDocs
    BY Results
  <2> QED BY <1>0, <1>1, <1>2, <2>1, ReplyKeeps
<1>3. CASE \E c \in Visible(docs) : Reply(i, "ambiguous", c)
  <2>1. PICK c \in Visible(docs) : Reply(i, "ambiguous", c)
    BY <1>3
  <2>2. c \in 0..MaxDocs
    <3>1. docs \in Seq(Document(Invocation \cup {"outside"})) /\ Len(docs) <= MaxDocs /\ MaxDocs \in Nat
      BY <1>0 DEF TypeOK, StornoBounds
    <3>2. c \in 1..Len(docs) /\ Len(docs) \in Nat
      BY <2>1, <3>1, Numbers DEF Visible
    <3> QED BY <3>1, <3>2
  <2> QED BY <1>0, <1>1, <2>1, <2>2, ReplyKeeps
<1> QED BY <1>2, <1>3 DEF Decline

LEMMA LoseKeeps ==
  ASSUME StornoBounds, IInv, NEW i \in Invocation, Lose(i)
  PROVE  IInv'
<1>0. /\ TypeOK /\ i \in open /\ Abandon(i) /\ docs' = docs /\ stray' = stray
      /\ late \in [Invocation -> Nat] /\ Reply(i, "lost", 0)
      /\ late' \in {late, [late EXCEPT ![i] = @ + 1]}
  BY DEF IInv, TypeOK, Lose
<1>1. late' \in [Invocation -> Nat] /\ \A j \in Invocation : j # i => late'[j] = late[j]
  BY <1>0
<1>2. Carried(i) /\ 0 \in 0..MaxDocs
  BY <1>0, NothingCarried, Results
<1> QED BY <1>0, <1>1, <1>2, ReplyKeeps

\* The call ends while its request may be on the wire.
LEMMA StopKeeps ==
  ASSUME StornoBounds, IInv, NEW i \in Invocation, NEW result,
         calls[i].phase \in Reading \cup Writing, End(i, result, 0),
         result \in Open \/ (result \in Untouched /\ calls[i].phase \in Reading),
         late' = [late EXCEPT ![i] = @ + IF i \in open THEN 1 ELSE 0],
         Abandon(i), UNCHANGED <<docs, stray>>
  PROVE  IInv'
<1>0. /\ TypeOK /\ late \in [Invocation -> Nat] /\ docs' = docs /\ stray' = stray /\ open' = open \ {i}
      /\ (i \in open <=> calls[i].phase = "sent")
  BY DEF IInv, TypeOK, Abandon
<1>1. /\ late' \in [Invocation -> Nat] /\ \A j \in Invocation : j # i => late'[j] = late[j]
      /\ late'[i] = late[i] \/ calls[i].phase = "sent"
  BY <1>0
<1>2. Carried(i) /\ Issued(i)' = Issued(i)
  BY <1>0, NothingCarried DEF Issued
<1>3. /\ result \in Result \ {"none"} /\ result \notin Refused /\ 0 \in 0..MaxDocs
      /\ result # "reversed" /\ (result \in Untouched => calls[i].phase \in Reading)
  BY Results
<1>4. calls[i].phase = "sent" => calls[i].phase \notin Reading
  BY DEF Reading
<1> QED BY <1>0, <1>1, <1>2, <1>3, <1>4, EndKeeps

LEMMA CrashKeeps ==
  ASSUME StornoBounds, IInv, NEW i \in Invocation, Crash(i)
  PROVE  IInv'
<1>0. /\ TypeOK /\ Sound(i) /\ calls[i].phase \in Reading \cup Writing /\ calls[i].attempts < MaxAttempts
      /\ docs' = docs /\ stray' = stray /\ open' = open \ {i} /\ late \in [Invocation -> Nat]
  BY DEF IInv, TypeOK, Crash, Abandon
<1>1. /\ calls[i] \in Call /\ calls[i].sends \in Nat /\ calls[i].runs \in Nat /\ MaxAttempts \in Nat
      /\ calls[i].attempts \in Nat \ {0} /\ calls[i].result = "none" /\ 0 \in 0..MaxDocs /\ late[i] \in Nat
  BY <1>0, CallType, Silent, Results DEF Reading, Writing
<1> DEFINE phase == IF calls[i].phase \in Writing THEN "leading" ELSE calls[i].phase
<1>2. PICK orphan \in {0} \cup {k \in {1} : calls[i].phase \in {"cleared", "sent"}} :
        /\ calls' = [calls EXCEPT
             ![i].phase = phase, ![i].number = 0,
             ![i].sends = @ + IF calls[i].phase = "cleared" THEN orphan ELSE 0,
             ![i].attempts = @ + 1]
        /\ late' = [late EXCEPT ![i] = @ + orphan]
  BY DEF Crash
<1> DEFINE sends == calls[i].sends + IF calls[i].phase = "cleared" THEN orphan ELSE 0
           c == [calls[i] EXCEPT !.phase = phase, !.number = 0, !.sends = sends,
                                 !.attempts = calls[i].attempts + 1]
<1>3. /\ orphan \in {0, 1} /\ (orphan = 1 => calls[i].phase \in {"cleared", "sent"})
      /\ sends \in Nat /\ calls[i].attempts + 1 \in 1..MaxAttempts
      /\ sends = calls[i].sends \/ (calls[i].phase = "cleared" /\ orphan = 1 /\ sends = calls[i].sends + 1)
      /\ calls[i].phase = "cleared" /\ orphan = 1 => sends = calls[i].sends + 1
      /\ phase \in Reading \/ phase = "leading"
      /\ phase \in Reading => calls[i].phase \in Reading /\ phase = calls[i].phase
      /\ phase \in {"idle", "done"} \cup Reading \cup Writing
  BY <1>0, <1>1 DEF Reading, Writing
<1>4. calls' = [calls EXCEPT ![i] = c]
  BY <1>2
<1> HIDE DEF phase, sends
<1>5. /\ c \in Call /\ c.phase = phase /\ c.target = calls[i].target /\ c.result = "none"
      /\ c.number = 0 /\ c.runs = calls[i].runs /\ c.attempts = calls[i].attempts + 1 /\ c.sends = sends
  BY <1>1, <1>3 DEF Call
<1> HIDE DEF c
<1>6. Turned(i, phase, "none", 0, calls[i].runs, calls[i].attempts + 1, sends)
  BY <1>0, <1>4, <1>5 DEF TypeOK, Turned
<1>7. /\ late' \in [Invocation -> Nat] /\ \A j \in Invocation : j # i => late'[j] = late[j]
      /\ late'[i] = late[i] + orphan
  BY <1>0, <1>1, <1>2, <1>3
<1>8. Carried(i) /\ Issued(i)' = Issued(i)
  BY <1>0, NothingCarried DEF Issued
<1>9. /\ calls[i].phase \in Reading => calls[i].sends = 0
      /\ calls[i].phase = "sent" => calls[i].sends > 0
      /\ calls[i].sends = 0 => late[i] = 0 /\ Issued(i) = {}
      /\ calls[i].sends <= calls[i].runs + calls[i].attempts
      /\ calls[i].phase = "cleared" => calls[i].sends < calls[i].runs + calls[i].attempts
  BY <1>0 DEF Sound, BeforeTheWrite, OnlySend, Clean, Paid
<1>10. sends = 0 => late'[i] = 0 /\ Issued(i)' = {}
  BY <1>1, <1>3, <1>7, <1>8, <1>9
<1>11. sends < calls[i].runs + (calls[i].attempts + 1) /\ sends <= calls[i].runs + (calls[i].attempts + 1)
  BY <1>1, <1>3, <1>9
<1>12. phase \in Reading => sends = 0
  BY <1>3, <1>9 DEF Reading
<1>13. /\ phase \in Writing \cup {"name", "lookup"} \/ sends > 0 => Unmanaged(docs, calls[i].target)
       /\ phase = "name" => docs[calls[i].target].reversed
  BY <1>0, <1>1, <1>3, <1>12 DEF Sound, Verified, Reading, Writing, phase
<1>14. phase # "sent" /\ phase # "idle" /\ phase \in {"idle"} \cup Reading \cup Writing
  BY <1>3 DEF Reading, Writing
<1> QED BY <1>0, <1>6, <1>7, <1>8, <1>10, <1>11, <1>12, <1>13, <1>14, MoveKeeps

-----------------------------------------------------------------------------
(* What nobody waits for, and what others do.                              *)

LEMMA ExecuteLateKeeps ==
  ASSUME StornoBounds, IInv, NEW i \in Invocation, ExecuteLate(i)
  PROVE  IInv'
<1>0. /\ TypeOK /\ Sound(i) /\ late[i] > 0 /\ Takes(i) /\ late' = [late EXCEPT ![i] = @ - 1]
      /\ calls' = calls /\ open' = open /\ late \in [Invocation -> Nat]
      /\ calls \in [Invocation -> Call]
  BY DEF IInv, TypeOK, ExecuteLate
<1>1. Unmanaged(docs, calls[i].target)
  <2>1. calls[i].sends # 0 /\ calls[i].sends \in Nat
    BY <1>0, CallType DEF Sound, OnlySend, Clean
  <2> QED BY <1>0, <2>1 DEF Sound, Verified
<1>2. Carried(i) /\ stray' \subseteq stray
  BY <1>0, <1>1, Taken
<1>3. late' \in [Invocation -> Nat] /\ \A j \in Invocation : j # i => late'[j] = late[j]
  BY <1>0
<1>4. Sound(i)'
  BY <1>0, <1>2, OtherKeeps
<1>5. stray' \subseteq 1..MaxDocs /\ open' \subseteq Invocation /\ (i \in open' <=> calls'[i].phase = "sent")
  BY <1>0, <1>2 DEF TypeOK
<1> QED BY <1>0, <1>2, <1>3, <1>4, <1>5, OneCallKeeps

LEMMA DiscardKeeps ==
  ASSUME StornoBounds, IInv, NEW i \in Invocation, Discard(i)
  PROVE  IInv'
<1>0. /\ TypeOK /\ late[i] > 0 /\ late' = [late EXCEPT ![i] = @ - 1]
      /\ docs' = docs /\ stray' = stray /\ calls' = calls /\ open' = open
      /\ late \in [Invocation -> Nat] /\ calls \in [Invocation -> Call]
  BY DEF IInv, TypeOK, Discard
<1>1. Carried(i)
  BY <1>0, NothingCarried
<1>2. late' \in [Invocation -> Nat] /\ \A j \in Invocation : j # i => late'[j] = late[j]
  BY <1>0
<1>3. Sound(i)'
  BY <1>0, <1>1, OtherKeeps
<1>4. stray' \subseteq 1..MaxDocs /\ open' \subseteq Invocation /\ (i \in open' <=> calls'[i].phase = "sent")
  BY <1>0 DEF TypeOK
<1> QED BY <1>0, <1>1, <1>2, <1>3, <1>4, OneCallKeeps

\* A step of others: no call and no request of one is touched.
LEMMA OthersKeep ==
  ASSUME StornoBounds, StornoAccount, IInv, Carried("outside"), UNCHANGED <<calls, open, late>>,
         stray' \subseteq 1..MaxDocs
  PROVE  IInv'
<1>0. TypeOK /\ calls' = calls /\ open' = open /\ late' = late /\ Books(docs)'
  BY DEF IInv, Carried
<1>1. TypeOK'
  BY <1>0 DEF TypeOK, Carried
<1>2. ASSUME NEW j \in Invocation PROVE Sound(j)'
  <2>1. j # "outside"
    BY DEF StornoAccount
  <2>2. Issued(j)' = Issued(j)
    BY <1>0, <2>1, CarriedKeeps
  <2> QED BY <1>0, <2>2, OtherKeeps
<1> QED BY <1>0, <1>1, <1>2 DEF IInv

LEMMA OutsideStornoKeeps ==
  ASSUME StornoBounds, StornoAccount, IInv, NEW n \in Targets, OutsideStorno(n)
  PROVE  IInv'
<1>1. /\ Reversible(n) /\ Len(docs) < MaxDocs /\ docs' = Reverse(docs, n, FALSE, "outside")
      /\ UNCHANGED <<calls, open, late>> /\ stray' = stray
  BY DEF OutsideStorno
<1>2. "outside" \in Invocation \cup {"outside"} /\ "outside" \notin Invocation /\ FALSE \in BOOLEAN
  BY DEF StornoAccount
<1>3. Carried("outside")
  BY <1>1, <1>2, ReversalCarried
<1>4. stray' \subseteq 1..MaxDocs
  BY <1>1 DEF IInv, TypeOK
<1> QED BY <1>1, <1>3, <1>4, OthersKeep

LEMMA CollideKeeps ==
  ASSUME StornoBounds, StornoAccount, IInv, NEW n \in Targets, Collide(n)
  PROVE  IInv'
<1>1. docs' = docs /\ UNCHANGED <<calls, open, late>> /\ stray' = stray \cup {n}
  BY DEF Collide
<1>2. stray' \subseteq 1..MaxDocs
  BY <1>1 DEF IInv, TypeOK, StornoBounds
<1> QED BY <1>1, <1>2, NothingCarried, OthersKeep

-----------------------------------------------------------------------------
(* The theorems.                                                           *)

LEMMA StornoInit ==
  ASSUME StornoBounds, StornoAccount, Init
  PROVE  IInv
<1> DEFINE c == [phase |-> "idle", target |-> 0, result |-> "none", number |-> 0,
                 runs |-> 0, attempts |-> 1, sends |-> 0]
<1>1. docs \in Holdings /\ stray = {} /\ calls = [i \in Invocation |-> c] /\ open = {}
      /\ late = [i \in Invocation |-> 0]
  BY DEF Init
<1>2. MaxDocs \in Nat /\ MaxRuns \in Nat /\ MaxAttempts \in Nat \ {0}
  BY DEF StornoBounds
<1>3. /\ c \in Call /\ c.phase = "idle" /\ c.target = 0 /\ c.result = "none" /\ c.number = 0
      /\ c.runs = 0 /\ c.attempts = 1 /\ c.sends = 0
  BY <1>2 DEF Call, Result
<1> HIDE DEF c
<1>4. /\ docs \in Seq(Document({"outside"})) /\ Len(docs) \in Nat /\ Len(docs) <= MaxDocs
      /\ \A n \in DOMAIN docs : docs[n] \in Document({"outside"})
  BY <1>1, Numbers DEF StornoAccount
<1>5. \A n \in DOMAIN docs : docs[n].by = "outside" /\ docs[n] \in Document(Invocation \cup {"outside"})
  BY <1>4 DEF Document
<1>6. docs \in Seq(Document(Invocation \cup {"outside"}))
  <2> DEFINE All == Document(Invocation \cup {"outside"})
  <2>1. DOMAIN docs = 1..Len(docs)
    BY <1>4
  <2>2. \A n \in 1..Len(docs) : docs[n] \in All
    BY <1>5, <2>1
  <2> HIDE DEF All
  <2>3. docs \in Seq(All)
    BY <1>4, <2>1, <2>2
  <2> QED BY <1>1, <2>3 DEF All
<1>7. TypeOK
  BY <1>1, <1>3, <1>4, <1>6 DEF TypeOK
<1>8. Books(docs)
  BY <1>1 DEF StornoAccount
<1>9. ASSUME NEW i \in Invocation PROVE Sound(i)
  <2>1. calls[i] = c /\ late[i] = 0
    BY <1>1
  <2>2. Issued(i) = {}
    BY <1>1, <1>5 DEF Issued, StornoAccount
  <2>3. BeforeTheWrite(i) /\ OnlySend(i) /\ Paid(i)
    BY <1>3, <2>1, <2>2 DEF BeforeTheWrite, OnlySend, Paid, Clean
  <2>4. Verified(i) /\ LeavesOrders(i)
    BY <1>3, <2>1, <2>2 DEF Verified, LeavesOrders, Writing
  <2> QED BY <2>3, <2>4 DEF Sound
<1> QED BY <1>7, <1>8, <1>9 DEF IInv

LEMMA StornoNext ==
  ASSUME StornoBounds, StornoAccount, IInv, [Next]_vars
  PROVE  IInv'
<1>1. CASE UNCHANGED vars
  <2>1. docs' = docs /\ UNCHANGED <<calls, open, late>> /\ stray' = stray
    BY <1>1 DEF vars
  <2>2. stray' \subseteq 1..MaxDocs
    BY <2>1 DEF IInv, TypeOK
  <2> QED BY <2>1, <2>2, NothingCarried, OthersKeep
<1>2. CASE \E n \in Targets : OutsideStorno(n) \/ Collide(n)
  BY <1>2, OutsideStornoKeeps, CollideKeeps
<1>3. ASSUME NEW i \in Invocation, (\E n \in Targets : Start(i, n)) PROVE IInv'
  BY <1>3, StartKeeps
<1>4. ASSUME NEW i \in Invocation, Step(i) PROVE IInv'
  BY <1>4, VerifyKeeps, NameKeeps, LookupKeeps, ReadFailsKeeps, LeadingKeeps, SendKeeps,
     VerifyReplyKeeps, SettleKeeps, AcknowledgeKeeps, DeclineKeeps, LoseKeeps DEF Step
<1>5. ASSUME NEW i \in Invocation, Crash(i) \/ ExecuteLate(i) \/ Discard(i) PROVE IInv'
  BY <1>5, CrashKeeps, ExecuteLateKeeps, DiscardKeeps
<1>6. ASSUME NEW i \in Invocation, Kill(i) PROVE IInv'
  <2>1. /\ calls[i].phase \in Reading \cup Writing /\ End(i, "killed", 0)
        /\ late' = [late EXCEPT ![i] = @ + IF i \in open THEN 1 ELSE 0]
        /\ Abandon(i) /\ UNCHANGED <<docs, stray>>
    BY <1>6 DEF Kill
  <2>2. "killed" \in Open
    BY Results
  <2> QED BY <2>1, <2>2, StopKeeps
<1>7. ASSUME NEW i \in Invocation, Cancel(i) PROVE IInv'
  <2> DEFINE result == IF calls[i].phase \in Reading THEN "cancelled" ELSE "outcome_unknown"
  <2>1. /\ calls[i].phase \in Reading \cup Writing /\ End(i, result, 0)
        /\ late' = [late EXCEPT ![i] = @ + IF i \in open THEN 1 ELSE 0]
        /\ Abandon(i) /\ UNCHANGED <<docs, stray>>
    BY <1>7 DEF Cancel
  <2>2. result \in Open \/ (result \in Untouched /\ calls[i].phase \in Reading)
    BY Results
  <2> HIDE DEF result
  <2> QED BY <2>1, <2>2, StopKeeps
<1> QED BY <1>1, <1>2, <1>3, <1>4, <1>5, <1>6, <1>7 DEF Next

LEMMA StornoSound ==
  ASSUME StornoBounds, IInv
  PROVE  StornoIsAccountedFor
<1>1. \A i \in Invocation : Sound(i)
  BY DEF IInv
<1>2. ReversedIsTrue
  BY <1>1 DEF ReversedIsTrue, Sound, Verified
<1>3. UntouchedSentNothing
  BY <1>1 DEF UntouchedSentNothing, Sound, BeforeTheWrite, OnlySend, Clean
<1>4. RefusalOfOneSendIsFinal
  BY <1>1 DEF RefusalOfOneSendIsFinal, Sound, OnlySend, Clean
<1>5. SendsArePaidFor
  BY <1>1 DEF SendsArePaidFor, Sound, Paid
<1>6. OrdersAreLeft
  BY <1>1 DEF OrdersAreLeft, Sound, LeavesOrders, Unmanaged
<1> QED BY <1>2, <1>3, <1>4, <1>5, <1>6 DEF StornoIsAccountedFor

(***************************************************************************)
(* The inductive invariant holds in every behaviour of the by-number       *)
(* storno, for any account in order and any bounds of its retry policies.  *)
(***************************************************************************)
THEOREM StornoInvariance ==
  ASSUME StornoBounds, StornoAccount
  PROVE  Spec => []IInv
<1>1. Init => IInv
  BY StornoInit
<1>2. IInv /\ [Next]_vars => IInv'
  BY StornoNext
<1> QED BY <1>1, <1>2, PTL DEF Spec

(***************************************************************************)
(* The state of the handler, of its requests and of the account stays      *)
(* within its types; a request is awaited exactly while its call waits.    *)
(***************************************************************************)
THEOREM StornoTypeCorrect ==
  ASSUME StornoBounds, StornoAccount
  PROVE  Spec => []TypeOK
<1>1. IInv => TypeOK
  BY DEF IInv
<1> QED BY <1>1, StornoInvariance, PTL

(***************************************************************************)
(* What a caller of Szamlazz.Agent.storno is told is true of the account,  *)
(* however its runs are interrupted, repeated and overtaken by their own   *)
(* late requests: reversed is reversed, untouched and refused leave        *)
(* nothing behind, sends are bounded by the executions granted, and no     *)
(* document of an order is ever reversed.                                  *)
(***************************************************************************)
THEOREM StornoAlwaysAccountedFor ==
  ASSUME StornoBounds, StornoAccount
  PROVE  Spec => []StornoIsAccountedFor
<1>1. IInv => StornoIsAccountedFor
  BY StornoSound
<1> QED BY <1>1, StornoInvariance, PTL
=============================================================================
