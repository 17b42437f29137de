------------------------------ MODULE Dispatch ------------------------------
(***************************************************************************)
(* The daemon's main loop as its clients see it (core/src/engine/mod.rs    *)
(* and dispatch.rs).  Clipboard events and connections come through one    *)
(* queue; the loop reads the request of a connection itself, answers the   *)
(* quick ones, and leaves WatchHistory, Show and ModulesInstall to worker  *)
(* threads.  History is reduced to the number of mutations it went         *)
(* through, `version`; a snapshot is the version it was read at.           *)
(***************************************************************************)
EXTENDS Integers, Sequences, FiniteSets

CONSTANTS
  Clients,      \* connections, each used once
  Asks,         \* the requests each of them may write
  Silent,       \* those that may connect and never write a line
  Stalled,      \* those that may stop reading what they are sent
  PickerEdits,  \* whether a frontend may answer Show with Delete or Clear
  None,
  MaxVersion,   \* bound: mutations
  MaxCopies     \* bound: clipboard events

Requests == {"list", "edit", "watch", "show", "stop"}

ASSUME ClientAssumption ==
  /\ Silent \subseteq Clients /\ Stalled \subseteq Clients
  /\ Asks \in [Clients -> SUBSET Requests]
  /\ None \notin Clients \cup Requests
ASSUME BoundAssumption ==
  PickerEdits \in BOOLEAN /\ MaxVersion \in Nat /\ MaxCopies \in Nat

VARIABLES
  version,   \* mutations of the stored history so far
  copies,    \* clipboard events so far
  queue,     \* app_rx
  loop,      \* the main loop: [at, client]
  line,      \* the request line a client wrote, or None
  phase,     \* client: away, connected, answered, gone
  worker,    \* the thread serving a client, and where it is
  registry,  \* history_watchers: clients whose Sender is listed
  signals,   \* () messages waiting in a subscription's channel
  read,      \* the version of the snapshot a subscription worker holds
  shown      \* the version a subscriber last received, 0 before the first

vars == <<version, copies, queue, loop, line, phase, worker, registry,
          signals, read, shown>>
subscription == <<registry, signals, read, shown>>

Events   == [kind : {"copy", "conn", "shutdown"}, client : Clients \cup {None}]
Event(kind, c) == [kind |-> kind, client |-> c]

TypeOK ==
  /\ version \in Nat /\ copies \in 0..MaxCopies
  /\ queue \in Seq(Events)
  /\ loop \in [at : {"recv", "read", "prune", "notify", "done"}, client : Clients \cup {None}]
  /\ line \in [Clients -> Requests \cup {None}]
  /\ phase \in [Clients -> {"away", "connected", "answered", "gone"}]
  /\ worker \in [Clients -> {"none", "picking", "register", "wake", "recv", "push", "over"}]
  /\ registry \subseteq Clients
  /\ signals \in [Clients -> Nat]
  /\ read \in [Clients -> Nat]
  /\ shown \in [Clients -> Nat]

Init ==
  /\ version = 1 /\ copies = 0 /\ queue = <<>>
  /\ loop = [at |-> "recv", client |-> None]
  /\ line = [c \in Clients |-> None]
  /\ phase = [c \in Clients |-> "away"]
  /\ worker = [c \in Clients |-> "none"]
  /\ registry = {}
  /\ signals = [c \in Clients |-> 0]
  /\ read = [c \in Clients |-> 0]
  /\ shown = [c \in Clients |-> 0]

Up     == loop.at # "done"
Goto(at, c)    == loop' = [at |-> at, client |-> c]
Answer(c)      == phase' = [phase EXCEPT ![c] = IF @ = "gone" THEN @ ELSE "answered"]
Work(c, label) == worker' = [worker EXCEPT ![c] = label]

-----------------------------------------------------------------------------
(* Clients.                                                                *)

\* The accept thread hands the connection to the main loop at once.
Connect(c) ==
  /\ Up /\ phase[c] = "away"
  /\ phase' = [phase EXCEPT ![c] = "connected"]
  /\ queue' = Append(queue, Event("conn", c))
  /\ UNCHANGED <<version, copies, loop, line, worker, subscription>>

Ask(c, request) ==
  /\ Up /\ phase[c] = "connected" /\ line[c] = None /\ request \in Asks[c]
  /\ line' = [line EXCEPT ![c] = request]
  /\ UNCHANGED <<version, copies, queue, loop, phase, worker, subscription>>

\* The client closes its connection, answered or not.
Leave(c) ==
  /\ Up /\ phase[c] \in {"connected", "answered"}
  /\ phase' = [phase EXCEPT ![c] = "gone"]
  /\ UNCHANGED <<version, copies, queue, loop, line, worker, subscription>>

\* The clipboard module reports a copy.
Copy ==
  /\ Up /\ copies < MaxCopies
  /\ copies' = copies + 1
  /\ queue' = Append(queue, Event("copy", None))
  /\ UNCHANGED <<version, loop, line, phase, worker, subscription>>

-----------------------------------------------------------------------------
(* The main loop.                                                          *)

Take(kind) ==
  loop.at = "recv" /\ queue # <<>> /\ Head(queue).kind = kind /\ queue' = Tail(queue)

\* One more mutation of the stored history.
Mutate == version < MaxVersion /\ version' = version + 1

\* handle_clipboard_event: an insertion, which a prune follows; a promotion;
\* or a payload too large, and nothing changes.
HandleCopy ==
  /\ Take("copy")
  /\ \/ Mutate /\ (Goto("prune", None) \/ Goto("notify", None))
     \/ UNCHANGED <<version, loop>>
  /\ UNCHANGED <<copies, line, phase, worker, subscription>>

\* Watchers may read the history before the prune and after it.
Prune ==
  /\ loop.at = "prune"
  /\ Mutate \/ UNCHANGED version
  /\ Goto("notify", None)
  /\ UNCHANGED <<queue, copies, line, phase, worker, subscription>>

\* handle_conn blocks in read_line.
HandleConn ==
  /\ Take("conn")
  /\ Goto("read", Head(queue).client)
  /\ UNCHANGED <<version, copies, line, phase, worker, subscription>>

\* read_line has returned a line of client c.
Read(c, requests) ==
  loop = [at |-> "read", client |-> c] /\ line[c] \in requests

ServeList(c) ==
  /\ Read(c, {"list"})
  /\ Answer(c) /\ Goto("recv", None)
  /\ UNCHANGED <<version, copies, queue, line, worker, subscription>>

\* delete, set_pinned or clear: done, or refused.
ServeEdit(c) ==
  /\ Read(c, {"edit"})
  /\ \/ Mutate /\ Goto("notify", c) /\ UNCHANGED phase
     \/ Answer(c) /\ Goto("recv", None) /\ UNCHANGED version
  /\ UNCHANGED <<copies, queue, line, worker, subscription>>

ServeStop(c) ==
  /\ Read(c, {"stop"})
  /\ queue' = Append(queue, Event("shutdown", None))
  /\ Answer(c) /\ Goto("recv", None)
  /\ UNCHANGED <<version, copies, line, worker, subscription>>

\* A thread of its own serves the connection from here on.
ServeSlowly(c) ==
  /\ Read(c, {"show", "watch"})
  /\ Work(c, IF line[c] = "show" THEN "picking" ELSE "register")
  /\ Goto("recv", None)
  /\ UNCHANGED <<version, copies, queue, line, phase, subscription>>

\* The client hung up without a word.
ReadNothing(c) ==
  /\ loop = [at |-> "read", client |-> c] /\ line[c] = None /\ phase[c] = "gone"
  /\ Goto("recv", None)
  /\ UNCHANGED <<version, copies, queue, line, phase, worker, subscription>>

Live == {c \in registry : worker[c] # "over"}

AfterNotify ==
  /\ IF loop.client = None THEN UNCHANGED phase ELSE Answer(loop.client)
  /\ Goto("recv", None)

NotifyIdleOnly ==
  /\ loop.at = "notify" /\ AfterNotify
  /\ registry' = Live
  /\ signals' = [c \in Clients |->
                   IF c \in Live /\ worker[c] = "recv" THEN 1 ELSE signals[c]]
  /\ UNCHANGED <<version, copies, queue, line, worker, read, shown>>

NotifyBounded ==
  /\ loop.at = "notify" /\ AfterNotify
  /\ \A c \in Live : signals[c] = 0
  /\ registry' = Live
  /\ signals' = [c \in Clients |-> signals[c] + IF c \in Live THEN 1 ELSE 0]
  /\ UNCHANGED <<version, copies, queue, line, worker, read, shown>>

\* notify_history_changed, which never waits for a subscriber; then the
\* answer of the edit that caused it.
Notify ==
  /\ loop.at = "notify" /\ AfterNotify
  /\ registry' = Live
  /\ signals' = [c \in Clients |-> signals[c] + IF c \in Live THEN 1 ELSE 0]
  /\ UNCHANGED <<version, copies, queue, line, worker, read, shown>>

\* The process ends with its threads and connections.
HandleShutdown ==
  /\ Take("shutdown")
  /\ Goto("done", None)
  /\ phase' = [c \in Clients |-> IF phase[c] = "connected" THEN "gone" ELSE phase[c]]
  /\ UNCHANGED <<version, copies, line, worker, subscription>>

-----------------------------------------------------------------------------
(* slow: a picker runs, and its answer is acted on.                        *)

\* Selected (which mutates nothing a snapshot shows) or Dismissed; or, with
\* PickerEdits, Delete or Clear.
Picked(c) ==
  /\ Up /\ worker[c] = "picking"
  /\ UNCHANGED version \/ (PickerEdits /\ Mutate)
  /\ Answer(c) /\ Work(c, "over")
  /\ UNCHANGED <<copies, queue, loop, line, subscription>>

-----------------------------------------------------------------------------
(* serve_history_watch.                                                    *)

Register(c) ==
  /\ Up /\ worker[c] = "register"
  /\ registry' = registry \cup {c}
  /\ Work(c, "wake")
  /\ UNCHANGED <<version, copies, queue, loop, line, phase, signals, read, shown>>

\* The worker's own signal asks for the first snapshot.
WakeSelf(c) ==
  /\ Up /\ worker[c] = "wake"
  /\ signals' = [signals EXCEPT ![c] = @ + 1]
  /\ Work(c, "recv")
  /\ UNCHANGED <<version, copies, queue, loop, line, phase, registry, read, shown>>

\* recv, then history_items.
ReadSnapshot(c) ==
  /\ Up /\ worker[c] = "recv" /\ signals[c] > 0
  /\ signals' = [signals EXCEPT ![c] = @ - 1]
  /\ read' = [read EXCEPT ![c] = version]
  /\ Work(c, "push")
  /\ UNCHANGED <<version, copies, queue, loop, line, phase, registry, shown>>

PushDroppingSignals(c) ==
  /\ Up /\ worker[c] = "push" /\ phase[c] = "connected"
  /\ shown' = [shown EXCEPT ![c] = read[c]]
  /\ read' = [read EXCEPT ![c] = 0]
  /\ signals' = [signals EXCEPT ![c] = 0]
  /\ Work(c, "recv")
  /\ UNCHANGED <<version, copies, queue, loop, line, phase, registry>>

\* The snapshot is written, and the worker waits for the next signal.
Push(c) ==
  /\ Up /\ worker[c] = "push" /\ phase[c] = "connected"
  /\ shown' = [shown EXCEPT ![c] = read[c]]
  /\ read' = [read EXCEPT ![c] = 0]
  /\ Work(c, "recv")
  /\ UNCHANGED <<version, copies, queue, loop, line, phase, registry, signals>>

\* The client is gone: the worker ends, and its receiver with it.  Its
\* Sender stays in the registry until the next notification.
Hangup(c) ==
  /\ Up /\ worker[c] = "push" /\ phase[c] = "gone"
  /\ Work(c, "over")
  /\ read' = [read EXCEPT ![c] = 0]
  /\ signals' = [signals EXCEPT ![c] = 0]
  /\ UNCHANGED <<version, copies, queue, loop, line, phase, registry, shown>>

-----------------------------------------------------------------------------
MainLoop ==
  \/ HandleCopy \/ Prune \/ HandleConn \/ Notify \/ HandleShutdown
  \/ \E c \in Clients :
       \/ ServeList(c) \/ ServeEdit(c) \/ ServeStop(c) \/ ServeSlowly(c)
       \/ ReadNothing(c)

Prepare(c) == Register(c) \/ WakeSelf(c) \/ ReadSnapshot(c) \/ Hangup(c)
Serve(c)   == Prepare(c) \/ Push(c)

Next ==
  \/ MainLoop
  \/ Copy
  \/ \E c \in Clients :
       \/ Connect(c) \/ Leave(c) \/ \E r \in Requests : Ask(c, r)
       \/ Picked(c)
       \/ Serve(c)

\* A client ends the loop's wait for its request, by a line or by leaving.
Speak(c) == line[c] = None /\ ((\E r \in Requests : Ask(c, r)) \/ Leave(c))

Spec == Init /\ [][Next]_vars

\* The daemon's threads are scheduled.  A client that is not silent writes
\* its request, or goes away; one that has stalled may leave the thread that
\* writes to it waiting; people need not answer a picker.
FairSpec ==
  /\ Spec
  /\ WF_vars(MainLoop)
  /\ \A c \in Clients : WF_vars(Prepare(c))
  /\ \A c \in Clients \ Stalled : WF_vars(Push(c))
  /\ \A c \in Clients \ Silent : WF_vars(Speak(c))

-----------------------------------------------------------------------------
(* Properties                                                              *)

Subscribed(c) == c \in registry /\ phase[c] = "connected"
\* The snapshot a subscriber has, or is about to get.
Latest(c) == IF worker[c] = "push" THEN read[c] ELSE shown[c]

\* No wake-up is lost between a mutation, its notification, a subscription
\* being set up and a worker writing an older snapshot: whoever does not have
\* the present history is going to be sent it.
NoLostWakeup ==
  Up => \A c \in Clients :
    Subscribed(c) /\ Latest(c) < version =>
      \/ signals[c] > 0 \/ worker[c] = "wake"
      \/ loop.at \in {"prune", "notify"}

\* Every subscriber that reads sees every change, or a later one, while it
\* stays connected and the daemon runs, whatever the other clients do.
SubscribersCatchUp ==
  \A c \in {s \in Clients \ Stalled : "watch" \in Asks[s]}, v \in 1..MaxVersion :
    (line[c] = "watch" /\ version >= v) ~> (shown[c] >= v \/ phase[c] = "gone" \/ ~Up)

\* By the time an edit is answered, no subscriber is left unaware of it: it
\* has the result or a signal is in its channel.
AnsweredEditsAreAnnounced ==
  [][\A e, c \in Clients :
       /\ line[e] = "edit" /\ phase[e] = "connected" /\ phase'[e] = "answered"
       /\ (Subscribed(c) /\ Latest(c) < version)'
       => (signals[c] > 0 \/ worker[c] = "wake")']_vars

\* A quick request that was written is answered unless its client leaves or
\* the daemon ends: no client, by what it does not read or does not ask,
\* keeps another one waiting for ever.
EveryRequestAnswered ==
  \A c \in {q \in Clients : Asks[q] # {"watch"}} :
    line[c] \in {"list", "edit", "stop"} ~> phase[c] \in {"answered", "gone"} \/ ~Up
=============================================================================
