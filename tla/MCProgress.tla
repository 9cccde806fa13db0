----------------------------- MODULE MCProgress -----------------------------
(***************************************************************************)
(* What eventually happens, side by side for TLC and without symmetry: a   *)
(* behaviour is one component's, chosen at the start, under that           *)
(* component's own fairness, and leaves the variables of the others alone. *)
(***************************************************************************)
EXTENDS Integers, Sequences

CONSTANTS Components,                               \* the components a run checks
          i1, NoInv, Operator, Outsider,            \* actors
          Gone, None                                \* no credentials, nothing

VARIABLES component,
  link, seen, result, status, history,                                        \* status
  calls, open, late,                                                          \* storno
  handler, deployed, store, changes, phase, cell, fetches, attempts,
  outcome, sent, held,                                                        \* prologue
  kind, contents, redelivery, members, version, left, vendor, awaited, connected,
  requests, latest, kept, sequence, handled, faults, refusals,                \* receiver
  order, intent, exec, attached,                                              \* replay
  request, local, permit, recovery, sends, executed,                          \* write
  docs, tries, journal, overlapped, lock, marker, answer, stray, net          \* of several

-----------------------------------------------------------------------------
(* One order's get, while its documents are written, reversed and deleted *)

Status == INSTANCE OrderStatus WITH MaxDocs <- 2, MaxAttempts <- 2

(* One caller of Szamlazz.Agent.storno: an unmanaged invoice, an unmanaged   *)
(* proforma and an invoice of an order                                       *)

Doc(type, managed) ==
  [kind |-> type, of |-> 0, ext |-> FALSE, order |-> managed, reversed |-> FALSE, gone |-> FALSE,
   by |-> "outside"]

Storno == INSTANCE AgentStorno
            WITH Invocation <- {i1}, Targets <- {1, 2, 3}, MaxDocs <- 4, MaxRuns <- 3,
                 MaxAttempts <- 2,
                 Holdings <- {<<Doc("invoice", FALSE), Doc("proforma", FALSE), Doc("invoice", TRUE)>>}

(* Every handler's prologue, with an account and a key that are not valid *)

MCHandlers == {[retains |-> TRUE, body |-> <<"prerequisite", "hint">>],
               [retains |-> TRUE, body |-> <<"verification", "prerequisite">>],
               [retains |-> FALSE, body |-> <<"prerequisite", "write">>],
               [retains |-> FALSE, body |-> <<"prerequisite", "hint">>]}

Call == INSTANCE Prologue
          WITH Namespaces <- {"n"}, Accounts <- {"a", "b"}, Keys <- {"k1", "k2"},
               Invalid <- {"b"}, BadKeys <- {"k2"}, Handlers <- MCHandlers,
               MaxTries <- 3, MaxChanges <- 1, MaxAttempts <- 2

(* One version of a record, pushed to both orders of two members *)

Receiver == INSTANCE PushReceiver
              WITH Kinds <- {"invoice", "transaction"}, Redeliveries <- {"both"},
                   Orders <- {<<"archiver", "app">>, <<"app", "archiver">>},
                   MaxVersion <- 1, Contents <- {<<[pdf |-> TRUE, folder |-> "one"]>>},
                   Attempts <- 3, MaxFaults <- 2

(* One mutation, executed at most twice, under replay and under the permit *)

Replay == INSTANCE ReplayWrite
            WITH Inv <- {i1}, MaxExec <- 2,
                 Orders <- {[kinds |-> {"invoice", "proforma"}, docs |-> 2]}

Write == INSTANCE OrderWrite WITH Inv <- {i1}, CreateKind <- {"invoice"}, MaxDocs <- 3

ASSUME Bounds ==
  /\ Status!StatusBounds /\ Storno!StornoBounds /\ Storno!StornoAccount
  /\ Call!PrologueAssumption
  /\ Receiver!BoundsAssumption /\ Receiver!ContentsAssumption

-----------------------------------------------------------------------------
(* Composition *)

forStatus == <<link, seen, result, status, history>>
forStorno == <<calls, open, late>>
forCall == <<handler, deployed, store, changes, phase, cell, fetches, attempts, outcome, sent,
             held>>
forReceiver == <<kind, contents, redelivery, members, version, left, vendor, awaited, connected,
                 requests, latest, kept, sequence, handled, faults, refusals>>
forReplay == <<order, intent, exec, attached>>
forWrite == <<request, local, permit, recovery, sends, executed>>
forWrites == <<lock, marker, answer, net>>

vars == <<component, forStatus, forStorno, forCall, forReceiver, forReplay, forWrite, forWrites,
          docs, tries, journal, overlapped, stray>>

Idle == "idle"
IdleStatus == link = Idle /\ seen = Idle /\ result = Idle /\ status = Idle /\ history = Idle
IdleStorno == calls = Idle /\ open = Idle /\ late = Idle
IdleCall ==
  /\ handler = Idle /\ deployed = Idle /\ store = Idle /\ changes = Idle /\ phase = Idle
  /\ cell = Idle /\ fetches = Idle /\ attempts = Idle /\ outcome = Idle /\ sent = Idle
  /\ held = Idle
IdleReceiver ==
  /\ kind = Idle /\ contents = Idle /\ redelivery = Idle /\ members = Idle /\ version = Idle /\ left = Idle
  /\ vendor = Idle /\ awaited = Idle /\ connected = Idle /\ requests = Idle /\ latest = Idle
  /\ kept = Idle /\ sequence = Idle /\ handled = Idle /\ faults = Idle /\ refusals = Idle
IdleReplay == order = Idle /\ intent = Idle /\ exec = Idle /\ attached = Idle
IdleWrite ==
  /\ request = Idle /\ local = Idle /\ permit = Idle /\ recovery = Idle /\ sends = Idle
  /\ executed = Idle
IdleWrites == lock = Idle /\ marker = Idle /\ answer = Idle /\ net = Idle

Init ==
  /\ component \in Components
  /\ \/ /\ component = "status" /\ Status!Init
        /\ IdleStorno /\ IdleCall /\ IdleReceiver /\ IdleReplay /\ IdleWrite /\ IdleWrites
        /\ journal = Idle /\ overlapped = Idle /\ stray = Idle
     \/ /\ component = "storno" /\ Storno!Init
        /\ IdleStatus /\ IdleCall /\ IdleReceiver /\ IdleReplay /\ IdleWrite /\ IdleWrites
        /\ tries = Idle /\ journal = Idle /\ overlapped = Idle
     \/ /\ component = "prologue" /\ Call!Init
        /\ IdleStatus /\ IdleStorno /\ IdleReceiver /\ IdleReplay /\ IdleWrite /\ IdleWrites
        /\ docs = Idle /\ overlapped = Idle /\ stray = Idle
     \/ /\ component = "receiver" /\ Receiver!Init
        /\ IdleStatus /\ IdleStorno /\ IdleCall /\ IdleReplay /\ IdleWrite /\ IdleWrites
        /\ docs = Idle /\ tries = Idle /\ journal = Idle /\ stray = Idle
     \/ /\ component = "replay" /\ Replay!Init
        /\ IdleStatus /\ IdleStorno /\ IdleCall /\ IdleReceiver /\ IdleWrite /\ tries = Idle
        /\ stray = Idle
     \/ /\ component = "write" /\ Write!Init
        /\ IdleStatus /\ IdleStorno /\ IdleCall /\ IdleReceiver /\ IdleReplay /\ tries = Idle
        /\ overlapped = Idle

StatusStep ==
  /\ component = "status" /\ Status!Next
  /\ UNCHANGED <<component, forStorno, forCall, forReceiver, forReplay, forWrite, forWrites,
                 journal, overlapped, stray>>

StornoStep ==
  /\ component = "storno" /\ Storno!Next
  /\ UNCHANGED <<component, forStatus, forCall, forReceiver, forReplay, forWrite, forWrites,
                 tries, journal, overlapped>>

CallStep ==
  /\ component = "prologue" /\ Call!Next
  /\ UNCHANGED <<component, forStatus, forStorno, forReceiver, forReplay, forWrite, forWrites,
                 docs, overlapped, stray>>

ReceiverStep ==
  /\ component = "receiver" /\ Receiver!Next
  /\ UNCHANGED <<component, forStatus, forStorno, forCall, forReplay, forWrite, forWrites, docs,
                 tries, journal, stray>>

ReplayStep ==
  /\ component = "replay" /\ Replay!Next
  /\ UNCHANGED <<component, order, forStatus, forStorno, forCall, forReceiver, forWrite, tries,
                 stray>>

WriteStep ==
  /\ component = "write" /\ Write!Next
  /\ UNCHANGED <<component, forStatus, forStorno, forCall, forReceiver, forReplay, tries,
                 overlapped>>

Next == StatusStep \/ StornoStep \/ CallStep \/ ReceiverStep \/ ReplayStep \/ WriteStep

(***************************************************************************)
(* The fairness of each component, as its module gives it.                 *)
(***************************************************************************)
statusVars == Status!vars
stornoVars == Storno!vars
callVars == Call!vars
receiverVars == Receiver!vars
replayVars == Replay!vars
writeVars == Write!vars

StatusFairness == WF_statusVars(component = "status" /\ Status!Handler)

StornoFairness == WF_stornoVars(component = "storno" /\ Storno!Step(i1))

CallFairness == WF_callVars(component = "prologue" /\ Call!System)

ReceiverFairness ==
  /\ WF_receiverVars(component = "receiver" /\ Receiver!GiveUp)
  /\ \A s \in Receiver!Slots :
       /\ WF_receiverVars(component = "receiver" /\ Receiver!Push(s))
       /\ WF_receiverVars(component = "receiver" /\ Receiver!Arrive(s))
       /\ WF_receiverVars(component = "receiver" /\ Receiver!Step(s))

ReplayFairness ==
  /\ WF_replayVars(component = "replay" /\ Replay!Mark(i1))
  /\ WF_replayVars(component = "replay" /\ Replay!Commit(i1))
  /\ WF_replayVars(component = "replay" /\ Replay!Open(i1))
  /\ WF_replayVars(component = "replay" /\ Replay!Reconcile(i1))
  /\ WF_replayVars(component = "replay" /\ Replay!Clear(i1))
  /\ \A a \in 1..2 :
       /\ WF_replayVars(component = "replay" /\ a \in DOMAIN exec[i1] /\ Replay!Run(i1, a))
       /\ WF_replayVars(component = "replay" /\ a \in DOMAIN exec[i1] /\ Replay!Service(i1, a))

\* Landed issuances settle without recover's part of OrderWrite's fairness.
WriteFairness ==
  /\ <>[][component = "write" => ~Write!Interrupt(i1)]_writeVars
  /\ WF_writeVars(component = "write" /\ Write!Resume(i1))
  /\ WF_writeVars(component = "write" /\ Write!Attempt(i1))
  /\ WF_writeVars(component = "write" /\ Write!StrayEnds(i1))
  /\ WF_writeVars(component = "write"
                  /\ (Write!Guard(i1) \/ Write!LookupAnswers(i1) \/ Write!ProtectedWrite(i1)))
  /\ WF_writeVars(component = "write" /\ Write!Service)

Spec ==
  /\ Init /\ [][Next]_vars
  /\ StatusFairness /\ StornoFairness /\ CallFairness
  /\ ReceiverFairness /\ ReplayFairness /\ WriteFairness

-----------------------------------------------------------------------------
(* Properties: each component's own, of its behaviours *)

\* get and the by-number storno: every call ends, even if szamlazz.hu never answers again and
\* through lost replies and interruptions; so does a handler that retains nothing, and recorded
\* work is answered although every service is down (service/status.rs, service/storno.rs,
\* service/prologue.rs, service/support.rs).
CallsEnd ==
  /\ (component = "status" /\ result = "none") ~> result # "none"
  /\ (component = "storno" /\ calls[i1].phase \notin {"idle", "done"})
       ~> (component = "storno" => calls[i1].phase = "done")
  /\ (component = "prologue" /\ ~handler.retains) ~> phase = "done"
  /\ (component = "prologue" /\ Len(journal.runs) = Len(handler.body))
       ~> phase \in {"done", "paused"}

\* Receiver: the latest version is settled in the end (axum.rs, fanout.rs).
PushesSettle == Receiver!Settles

\* Write: under replay an admitted write comes to a recorded result or is stopped, and an
\* issuance that landed is settled by its own invocation (service/recovery.rs).
WritesSettle ==
  /\ (component = "replay" /\ journal[i1] = "committed")
       ~> (component = "replay" => journal[i1] \in {"wrote", "ended"})
  /\ (component = "write" /\ i1 \in executed /\ request[i1].op = "create" /\ marker = i1)
       ~> (component = "write" => \/ marker # i1 \/ journal[i1] = "ended"
                                  \/ Write!Collided(request[i1].kind))

=============================================================================
