------------------------------- MODULE Reader -------------------------------
(***************************************************************************)
(* A clipboard module (modules/module-common/src/reader.rs with the        *)
(* Wayland and X11 backends): a watcher thread turns the platform's change *)
(* notifications into wake-ups, a stdin thread the host's frames, and one  *)
(* loop samples the clipboard and reports what is new.                     *)
(*                                                                         *)
(* A sample is two round trips, the offered flavours and then the payload, *)
(* and the selection may change hands before, between and after them.      *)
(***************************************************************************)
EXTENDS Integers, Sequences, SequencesExt

CONSTANTS
  Contents,    \* what a selection may hold
  Kind,        \* its best flavour: "text", "image" or "other"
  None,
  MaxChanges,  \* bound: changes by applications
  MaxSets      \* bound: SetClipboard frames

ASSUME KindAssumption ==
  Kind \in [Contents -> {"text", "image", "other"}] /\ None \notin Contents
ASSUME BoundAssumption == MaxChanges \in Nat /\ MaxSets \in Nat

VARIABLES
  platform,   \* the backend, "wayland" or "x11"
  selection,  \* what CLIPBOARD holds, None if nobody owns it
  seen,       \* the platform has announced the present selection to the watcher
  notices,    \* platform events the watcher has not read yet
  watcher,    \* its thread: off, on, dead
  stdin,      \* the stdin thread has not met EOF
  host,       \* the daemon that started the module still runs
  wakes,      \* the loop's channel
  loop,       \* [at, flavour]: start, recv, read, over
  lastHash,   \* the payload last_hash stands for, None if cleared
  failed,     \* a read of the last sample failed, reported or not
  claims,     \* claim_async threads that do not own the selection yet
  told,       \* the payload of the last Event frame
  changes,    \* changes by applications so far
  sets        \* SetClipboard frames so far

clipboard == <<selection, seen, notices>>
ends      == <<stdin, host>>
counters  == <<changes, sets>>
vars      == <<platform, clipboard, watcher, ends, wakes, loop, lastHash,
               failed, claims, told, counters>>

Selections == Contents \cup {None}
Changed == [kind |-> "changed", content |-> None]
Stop    == [kind |-> "stop", content |-> None]
Set(c)  == [kind |-> "set", content |-> c]
Wakes   == {Changed, Stop} \cup {Set(c) : c \in Contents}

TypeOK ==
  /\ platform \in {"wayland", "x11"}
  /\ selection \in Selections /\ seen \in BOOLEAN /\ notices \in Nat
  /\ watcher \in {"off", "on", "dead"}
  /\ stdin \in BOOLEAN /\ host \in BOOLEAN
  /\ wakes \in Seq(Wakes)
  /\ loop \in [at : {"start", "recv", "read", "over"}, flavour : {"text", "image", "none"}]
  /\ lastHash \in Selections /\ failed \in BOOLEAN
  /\ claims \in Seq(Contents)
  /\ told \in Selections
  /\ changes \in Nat /\ sets \in Nat

Init ==
  /\ platform \in {"wayland", "x11"}
  /\ selection \in Selections /\ seen = FALSE /\ notices = 0
  /\ watcher = "off" /\ stdin = TRUE /\ host = TRUE
  /\ wakes = <<>> /\ loop = [at |-> "start", flavour |-> "none"]
  /\ lastHash = None /\ failed = FALSE /\ claims = <<>> /\ told = None
  /\ changes = 0 /\ sets = 0

Up == loop.at # "over"
Goto(at, flavour) == loop' = [at |-> at, flavour |-> flavour]

-----------------------------------------------------------------------------
(* The platform and the other applications.                                *)

\* The selection has a new owner, and whoever watches it is told.
Own(c) ==
  /\ selection' = c
  /\ IF watcher = "on" THEN notices' = notices + 1 /\ seen' = TRUE
                       ELSE UNCHANGED notices /\ seen' = FALSE

AppCopies(c) ==
  /\ Up /\ changes < MaxChanges /\ changes' = changes + 1
  /\ Own(c)
  /\ UNCHANGED <<platform, watcher, ends, wakes, loop, lastHash, failed, claims, told, sets>>

\* An owner clears the selection.  An X11 owner that exits does so without
\* the SET_SELECTION_OWNER event the watcher asked for.
AppClears ==
  /\ Up /\ changes < MaxChanges /\ changes' = changes + 1
  /\ selection # None
  /\ \/ Own(None)
     \/ /\ platform = "x11"
        /\ selection' = None /\ seen' = FALSE /\ UNCHANGED notices
  /\ UNCHANGED <<platform, watcher, ends, wakes, loop, lastHash, failed, claims, told, sets>>

\* Wayland devices report the primary selection too.
PrimaryChanges ==
  /\ Up /\ platform = "wayland" /\ watcher = "on"
  /\ changes < MaxChanges /\ changes' = changes + 1
  /\ notices' = notices + 1
  /\ UNCHANGED <<platform, selection, seen, watcher, ends, wakes, loop, lastHash, failed,
                 claims, told, sets>>

-----------------------------------------------------------------------------
(* The watcher thread.                                                     *)

\* X11 passes every event on; Wayland sets a flag once for all the events of
\* a dispatch.
WatcherWakes ==
  /\ Up /\ watcher = "on"
  /\ \E n \in 1..notices :
       /\ platform = "x11" => n = 1
       /\ notices' = notices - n
  /\ wakes' = Append(wakes, Changed)
  /\ UNCHANGED <<platform, selection, seen, watcher, ends, loop, lastHash, failed, claims,
                 told, counters>>

\* The compositor or X server connection is lost.
WatcherDies ==
  /\ Up /\ watcher = "on"
  /\ watcher' = "dead"
  /\ UNCHANGED <<platform, clipboard, ends, wakes, loop, lastHash, failed, claims, told,
                 counters>>

-----------------------------------------------------------------------------
(* The host and the stdin thread.                                          *)

\* CopyEntry reaches the module.
HostSets(c) ==
  /\ Up /\ host /\ sets < MaxSets /\ sets' = sets + 1
  /\ wakes' = Append(wakes, Set(c))
  /\ UNCHANGED <<platform, clipboard, watcher, ends, loop, lastHash, failed, claims, told,
                 changes>>

\* The daemon shuts down: Stop, and it is gone; or it dies without a word.
HostEnds ==
  /\ Up /\ host /\ host' = FALSE
  /\ wakes' \in {wakes, Append(wakes, Stop)}
  /\ UNCHANGED <<platform, clipboard, watcher, stdin, loop, lastHash, failed, claims, told,
                 counters>>

\* EOF: the thread ends, and drops its sender.
StdinCloses ==
  /\ Up /\ ~host /\ stdin /\ stdin' = FALSE
  /\ UNCHANGED <<platform, clipboard, watcher, host, wakes, loop, lastHash, failed, claims,
                 told, counters>>

-----------------------------------------------------------------------------
(* run_event_loop.                                                         *)

\* A probe may fail; the watcher may find no change events to wait for.
\* Wayland's first roundtrip announces the present selection.
Start ==
  /\ loop.at = "start"
  /\ \/ Goto("over", "none") /\ UNCHANGED <<seen, notices, watcher>>
     \/ Goto("recv", "none") /\ UNCHANGED <<seen, notices, watcher>>
     \/ /\ Goto("recv", "none") /\ watcher' = "on"
        /\ IF platform = "wayland" THEN seen' = TRUE /\ notices' = 1
                                   ELSE UNCHANGED <<seen, notices>>
  /\ UNCHANGED <<platform, selection, ends, wakes, lastHash, failed, claims, told, counters>>

Recv(kind) ==
  loop.at = "recv" /\ wakes # <<>> /\ Head(wakes).kind = kind /\ wakes' = Tail(wakes)

\* A thread of its own takes the selection, some time.
HandleSet ==
  /\ Recv("set")
  /\ claims' = Append(claims, Head(wakes).content)
  /\ UNCHANGED <<platform, clipboard, watcher, ends, loop, lastHash, failed, told, counters>>

HandleStop ==
  /\ Recv("stop")
  /\ Goto("over", "none")
  /\ UNCHANGED <<platform, clipboard, watcher, ends, lastHash, failed, claims, told, counters>>

\* recv() fails once both senders are dropped.
SourcesGone ==
  /\ loop.at = "recv" /\ wakes = <<>> /\ ~stdin /\ watcher # "on"
  /\ Goto("over", "none")
  /\ UNCHANGED <<platform, clipboard, watcher, ends, wakes, lastHash, failed, claims, told,
                 counters>>

\* What a sample came to.
Forget  == lastHash' = None /\ UNCHANGED told /\ Goto("recv", "none")
Err     == failed' = TRUE /\ UNCHANGED <<lastHash, told>> /\ Goto("recv", "none")

NewsByKind(c) == lastHash = None \/ Kind[lastHash] # Kind[c]

\* The hash differs from the last one reported.
News(c) == c # lastHash

ReportToNobody(c) ==
  /\ lastHash' = IF News(c) THEN c ELSE lastHash
  /\ told' = IF News(c) /\ host THEN c ELSE told
  /\ Goto("recv", "none")

\* An Event frame, if it is news; it cannot be written to a host that is gone.
Report(c) ==
  /\ lastHash' = IF News(c) THEN c ELSE lastHash
  /\ told' = IF News(c) /\ host THEN c ELSE told
  /\ Goto(IF News(c) /\ ~host THEN "over" ELSE "recv", "none")

\* The flavour a sample reads: image before text; X11 tries the text anyway.
Flavour(c) ==
  IF c # None /\ Kind[c] # "other" THEN Kind[c]
  ELSE IF platform = "x11" THEN "text" ELSE "none"

\* Changed: the offered flavours are asked for.  No owner is an error on
\* Wayland, and so is a question that fails; X11 takes either for an empty
\* list.
Sample ==
  /\ Recv("changed")
  /\ \/ /\ selection # None \/ platform = "x11"
        /\ failed' = FALSE
        /\ IF Flavour(selection) = "none"
             THEN Forget
             ELSE Goto("read", Flavour(selection)) /\ UNCHANGED <<lastHash, told>>
     \/ platform = "wayland" /\ Err
     \/ /\ platform = "x11" /\ failed' = TRUE
        /\ Goto("read", "text") /\ UNCHANGED <<lastHash, told>>
  /\ UNCHANGED <<platform, clipboard, watcher, ends, claims, counters>>

Holds(flavour) == selection # None /\ Kind[selection] = flavour

ReadPayloadDraining ==
  /\ loop.at = "read"
  /\ \/ Holds(loop.flavour) /\ Report(selection) /\ UNCHANGED failed
     \/ ~Holds(loop.flavour) /\ platform = "x11" /\ Forget /\ UNCHANGED failed
     \/ Err
  /\ wakes' = SelectSeq(wakes, LAMBDA w : w # Changed)
  /\ UNCHANGED <<platform, clipboard, watcher, ends, claims, counters>>

\* The payload of that flavour is read from whoever owns the selection now.
\* A flavour that has gone is an error on Wayland; on X11 it passes for an
\* empty clipboard, and so does an xclip that fails.
ReadPayload ==
  /\ loop.at = "read"
  /\ \/ Holds(loop.flavour) /\ Report(selection) /\ UNCHANGED failed
     \/ ~Holds(loop.flavour) /\ platform = "x11" /\ Forget /\ UNCHANGED failed
     \/ platform = "x11" /\ Forget /\ failed' = TRUE
     \/ Err
  /\ UNCHANGED <<platform, clipboard, watcher, ends, wakes, claims, counters>>

\* A claim_async thread becomes the owner, in no particular order, or fails.
Claim ==
  /\ Up
  /\ \E i \in DOMAIN claims :
       /\ claims' = RemoveAt(claims, i)
       /\ Own(claims[i]) \/ UNCHANGED clipboard
  /\ UNCHANGED <<platform, watcher, ends, wakes, loop, lastHash, failed, told, counters>>

-----------------------------------------------------------------------------
EventLoop == Start \/ HandleSet \/ HandleStop \/ SourcesGone \/ Sample \/ ReadPayload

\* The process has ended.
Ended == ~Up /\ UNCHANGED vars

Next ==
  \/ EventLoop
  \/ \E c \in Contents : AppCopies(c) \/ HostSets(c)
  \/ AppClears \/ PrimaryChanges
  \/ WatcherWakes \/ WatcherDies
  \/ HostEnds \/ StdinCloses
  \/ Claim
  \/ Ended

Spec == Init /\ [][Next]_vars

\* The module's threads are scheduled, and selection owners answer reads
\* (the code sets no timeout).  Claims may take as long as they like.
FairSpec ==
  Spec /\ WF_vars(EventLoop) /\ WF_vars(WatcherWakes) /\ WF_vars(StdinCloses)

-----------------------------------------------------------------------------
(* Properties                                                              *)

Pending == notices > 0 \/ \E i \in DOMAIN wakes : wakes[i] = Changed
\* What a reader can make of a selection.
Known(c) == IF c # None /\ Kind[c] # "other" THEN c ELSE None

\* When the loop sleeps with no wake-up on its way and its last reads worked,
\* the host knows what is on the clipboard, although the selection may have
\* changed between the two halves of a sample and wakes are merged.
NothingMissed ==
  loop.at = "recv" /\ watcher = "on" /\ seen /\ ~Pending /\ ~failed =>
    /\ lastHash = Known(selection)
    /\ Known(selection) # None => told = selection

\* A copy that stays on the clipboard, an application's or the daemon's own,
\* is reported, unless a read fails or the watcher is lost.
SettledIsReported ==
  \A c \in {x \in Contents : Kind[x] # "other"} :
    selection = c /\ seen ~>
      told = c \/ selection # c \/ ~seen \/ failed \/ watcher # "on" \/ ~Up

\* A module whose daemon died lives no longer than the next copy it sees.
OrphanEndsAtNextCopy ==
  \A c \in {x \in Contents : Kind[x] # "other"} :
    ~host /\ selection = c /\ seen /\ lastHash # c ~>
      ~Up \/ selection # c \/ ~seen \/ failed \/ watcher # "on"
=============================================================================
