------------------------------- MODULE Picker -------------------------------
(***************************************************************************)
(* The picker window (modules/frontend-generic: gui/app.rs, render.rs,     *)
(* sync.rs, ipc.rs) against the daemon's history.  It changes its own list *)
(* at once, sends each edit on a connection and a thread of its own, and   *)
(* is sent snapshots over a subscription.  Every frame takes in the latest *)
(* snapshot before it obeys a key, so the row a key acts on is not always  *)
(* the one that was on the screen.  Mouse input, which acts on row indices *)
(* of the frame it was drawn in, is left out; so is what happens once the  *)
(* window has closed, when edits still on their way are lost or not.       *)
(***************************************************************************)
EXTENDS Integers, SequencesExt

CONSTANTS
  MaxId,       \* bound: ids 1 .. MaxId are given out
  Filters,     \* what may be typed: the labels and the row numbers it matches
  MaxEdits,    \* bound: edits made in the window
  MaxOthers,   \* bound: copies, and edits by other clients
  MaxOutages,  \* bound: times the daemon stops
  MaxPushed    \* bound: snapshots the socket holds

Ids == 1 .. MaxId
NoId == 0

\* Two ids have been given out at first.
ASSUME BoundsAssumption ==
  MaxId \in Nat \ {0, 1} /\ MaxPushed \in Nat \ {0} /\ {MaxEdits, MaxOthers, MaxOutages} \subseteq Nat
ASSUME FiltersAssumption == Filters \subseteq [labels : SUBSET Ids, places : SUBSET Nat]

Everything == [labels |-> Ids, places |-> {}]

VARIABLES
  copied,    \* the daemon: its entries, the latest copy first
  pins,      \* and the pinned ones, in the order they were pinned
  lastId,    \* the largest id ever given out
  up,        \* it is running
  sub,       \* the subscription: "off", "on", or "dead" (its daemon is gone)
  wake,      \* the subscription's thread has been told of a change
  pushed,    \* snapshots written and not yet read
  last,      \* the fingerprint the sync thread compares with
  pending,   \* the latest snapshot in the channel to the window
  flight,    \* edits on their way to the daemon, each in a thread of its own
  rows,      \* the list in the window
  selected,  \* the index of the focused row
  focus,     \* which part of it: the row, or one of its buttons
  filter,
  open,
  picked,    \* the id the user chose
  edited,    \* history: the list was edited since the last snapshot it took
  edits, others, outages

daemon  == <<copied, pins, lastId, up>>
channel == <<sub, wake, pushed, last, pending>>
window  == <<rows, selected, focus, filter, open, picked, edited>>
counts  == <<edits, others, outages>>
vars    == <<daemon, channel, flight, window, counts>>

NoList == [pins |-> <<NoId>>, rest |-> <<>>]

Edit == [op : {"delete", "pin", "unpin", "clear"}, id : Ids \cup {NoId}, n : 0 .. MaxEdits]

List(l) == l.pins \o l.rest

IsList(l) == l \in [pins : Seq(Ids), rest : Seq(Ids)] /\ IsInjective(List(l))

TypeOK ==
  /\ lastId \in Ids
  /\ copied \in Seq(Ids) /\ IsInjective(copied) /\ Range(copied) \subseteq 1 .. lastId
  /\ pins \in Seq(Ids) /\ IsInjective(pins) /\ Range(pins) \subseteq Range(copied)
  /\ {up, wake, open, edited} \subseteq BOOLEAN /\ sub \in {"off", "on", "dead"}
  /\ pushed \in Seq([pins : Seq(Ids), rest : Seq(Ids)]) /\ Len(pushed) <= MaxPushed
  /\ \A i \in DOMAIN pushed : IsList(pushed[i])
  /\ pending = NoList \/ IsList(pending)
  /\ flight \subseteq Edit
  /\ IsList(rows) /\ selected \in Nat \ {0} /\ focus \in {"row", "button"}
  /\ filter \in Filters \cup {Everything} /\ picked \in Ids \cup {NoId}
  /\ edits \in 0 .. MaxEdits /\ others \in 0 .. MaxOthers /\ outages \in 0 .. MaxOutages

\* The members of a list that are in `keep`, in its order.
Only(list, keep) ==
  LET kept[i \in 0 .. Len(list)] ==
        IF i = 0 THEN <<>>
        ELSE IF list[i] \in keep THEN Append(kept[i - 1], list[i])
        ELSE kept[i - 1]
  IN  kept[Len(list)]

Without(list, id) == Only(list, Ids \ {id})

\* history_items: pinned first, by the time they were pinned; then the latest copy.
Snapshot == [pins |-> pins, rest |-> Only(copied, Ids \ Range(pins))]

FingerprintIds(l) == [pins |-> <<>>, rest |-> List(l)]

\* It covers the ids, the pins and the previews, in their order.
Fingerprint(l) == l

\* Two entries, the latest of them pinned; the window opens on what Show sent.
Init ==
  /\ copied = <<2, 1>> /\ pins = <<2>> /\ lastId = 2
  /\ up = TRUE
  /\ sub = "off" /\ wake = FALSE /\ pushed = <<>> /\ last = NoList /\ pending = NoList
  /\ flight = {}
  /\ rows = Snapshot /\ selected = 1 /\ focus = "row" /\ filter = Everything
  /\ open = TRUE /\ picked = NoId /\ edited = FALSE
  /\ edits = 0 /\ others = 0 /\ outages = 0

-----------------------------------------------------------------------------
(* The daemon.  Dispatch shows that no notification is lost.               *)

\* What changes the history wakes the subscriber.
Changed(entries, order) ==
  /\ copied' = entries /\ pins' = order
  /\ wake' = (wake \/ sub = "on")
  /\ UNCHANGED <<up, sub, pushed, last, pending>>

\* An edit of an entry that is gone is answered with an error.
Effect(e) ==
  CASE e.op = "clear" -> Changed(Only(copied, Range(pins)), pins)
    [] e.op # "clear" /\ e.id \notin Range(copied) -> UNCHANGED <<copied, pins, up, channel>>
    [] e.op = "delete" /\ e.id \in Range(copied) ->
         Changed(Without(copied, e.id), Without(pins, e.id))
    [] e.op = "pin" /\ e.id \in Range(copied) ->
         Changed(copied, Append(Without(pins, e.id), e.id))
    [] e.op = "unpin" /\ e.id \in Range(copied) -> Changed(copied, Without(pins, e.id))

\* A new payload, or one that is held already.
Copy(id) ==
  /\ up /\ open /\ others < MaxOthers
  /\ id \in Range(copied) \/ id = lastId + 1
  /\ lastId' = IF id > lastId THEN id ELSE lastId
  /\ Changed(<<id>> \o Without(copied, id), pins)
  /\ others' = others + 1
  /\ UNCHANGED <<flight, window, edits, outages>>

\* Another frontend or the CLI, by an id it was given.
EditElsewhere(e) ==
  /\ up /\ open /\ others < MaxOthers
  /\ e.id <= lastId
  /\ Effect(e)
  /\ others' = others + 1
  /\ UNCHANGED <<lastId, flight, window, edits, outages>>

Serve(e) ==
  /\ up /\ open
  /\ Effect(e)
  /\ flight' = flight \ {e}
  /\ UNCHANGED <<lastId, window, counts>>

\* No daemon to connect to: the failure is printed.
Lose(e) ==
  /\ ~up /\ open
  /\ flight' = flight \ {e}
  /\ UNCHANGED <<daemon, channel, window, counts>>

StopDaemon ==
  /\ up /\ open /\ outages < MaxOutages
  /\ up' = FALSE /\ wake' = FALSE
  /\ sub' = IF sub = "on" THEN "dead" ELSE sub
  /\ outages' = outages + 1
  /\ UNCHANGED <<copied, pins, lastId, pushed, last, pending, flight, window, edits, others>>

StartDaemon ==
  /\ ~up /\ open
  /\ up' = TRUE
  /\ UNCHANGED <<copied, pins, lastId, channel, flight, window, counts>>

Push ==
  /\ sub = "on" /\ open /\ wake /\ Len(pushed) < MaxPushed
  /\ pushed' = Append(pushed, Snapshot)
  /\ wake' = FALSE
  /\ UNCHANGED <<daemon, sub, last, pending, flight, window, counts>>

-----------------------------------------------------------------------------
(* The sync thread                                                         *)

SubscribeAgain ==
  /\ up /\ open /\ sub = "off"
  /\ sub' = "on" /\ wake' = TRUE
  /\ UNCHANGED <<daemon, pushed, last, pending, flight, window, counts>>

\* A subscription begins with the present history.
Subscribe ==
  /\ up /\ open /\ sub = "off"
  /\ sub' = "on" /\ wake' = TRUE /\ last' = NoList
  /\ UNCHANGED <<daemon, pushed, pending, flight, window, counts>>

\* The window takes the latest of what is in its channel, so that is all
\* there is to keep.
SyncReads ==
  /\ open /\ pushed # <<>>
  /\ LET fp == Fingerprint(Head(pushed))
     IN /\ pending' = IF last # fp THEN Head(pushed) ELSE pending
        /\ last' = fp
  /\ pushed' = Tail(pushed)
  /\ UNCHANGED <<daemon, sub, wake, flight, window, counts>>

SyncEnds ==
  /\ open /\ sub = "dead" /\ pushed = <<>>
  /\ sub' = "off"
  /\ UNCHANGED <<daemon, wake, pushed, last, pending, flight, window, counts>>

SyncThread == Subscribe \/ SyncReads \/ SyncEnds

-----------------------------------------------------------------------------
(* A frame: the snapshot is taken in, then one key is obeyed               *)

Shown == IF pending # NoList THEN pending ELSE rows

Focused == IF selected \in DOMAIN List(rows) THEN List(rows)[selected] ELSE NoId

KeptIndex == selected

\* apply_items: the selection follows its entry, or goes to the first row.
Kept ==
  IF pending # NoList
    THEN IF Focused \in Range(List(pending))
           THEN CHOOSE i \in DOMAIN List(pending) : List(pending)[i] = Focused
           ELSE 1
    ELSE selected

Visible(l) ==
  LET list == List(l)
  IN {i \in DOMAIN list : list[i] \in filter.labels \/ i \in filter.places}

\* Keys find a selection that is shown.
Current ==
  LET seen == Visible(Shown)
  IN IF Kept \in seen THEN Kept ELSE Min(seen)
Entry   == List(Shown)[Current]

Drain == pending' = NoList /\ UNCHANGED <<daemon, sub, wake, pushed, last, others, outages>>

\* What every key frame needs.
Frame == open /\ Visible(Shown) # {} /\ Drain

\* A frame that leaves the list as it was taken in.
Keeps == rows' = Shown /\ edited' = (edited /\ pending = NoList)

Asks(op, id) ==
  /\ edits < MaxEdits /\ edits' = edits + 1
  /\ flight' = flight \cup {[op |-> op, id |-> id, n |-> edits]}
  /\ edited' = TRUE

Draw ==
  /\ open /\ Drain /\ Keeps
  /\ selected' = IF Visible(Shown) # {} THEN Current ELSE Kept
  /\ UNCHANGED <<flight, focus, filter, open, picked, edits>>

Move ==
  /\ Frame /\ Keeps
  /\ LET at    == Current
         above == {i \in Visible(Shown) : i < at}
         below == {i \in Visible(Shown) : i > at}
     IN \/ selected' = IF above = {} THEN at ELSE Max(above)
        \/ selected' = IF below = {} THEN at ELSE Min(below)
  /\ focus' = "row"
  /\ UNCHANGED <<flight, filter, open, picked, edits>>

Turn ==
  /\ Frame /\ Keeps
  /\ selected' = Current
  /\ focus' \in {"row", "button"}
  /\ UNCHANGED <<flight, filter, open, picked, edits>>

\* The filter can be typed when it matches nothing, too.
Type(f) ==
  /\ open /\ Drain /\ Keeps
  /\ selected' = IF Visible(Shown) # {} THEN Current ELSE Kept
  /\ filter' = f
  /\ UNCHANGED <<flight, focus, open, picked, edits>>

\* pinned_first_order: the latest pin last; an unpinned entry is put before
\* the others, wherever its copy belongs.
Toggled(l, id) ==
  IF id \in Range(l.pins)
    THEN [pins |-> Without(l.pins, id), rest |-> <<id>> \o l.rest]
    ELSE [pins |-> Append(l.pins, id), rest |-> Without(l.rest, id)]

Toggle ==
  LET after == Toggled(Shown, Entry)
  IN /\ Frame
     /\ Asks(IF Entry \in Range(Shown.pins) THEN "unpin" ELSE "pin", Entry)
     /\ rows' = after
     /\ selected' = CHOOSE i \in DOMAIN List(after) : List(after)[i] = Entry
     /\ UNCHANGED <<focus, filter, open, picked>>

Delete ==
  LET length == Len(List(Shown)) - 1
  IN /\ Frame
     /\ Asks("delete", Entry)
     /\ rows' = [pins |-> Without(Shown.pins, Entry), rest |-> Without(Shown.rest, Entry)]
     /\ selected' = IF length = 0 THEN 1 ELSE Min({Current, length})
     /\ focus' = "row"
     /\ UNCHANGED <<filter, open, picked>>

\* clear_all asks twice; the first time leaves everything as it is.
Clear ==
  /\ Frame
  /\ Asks("clear", NoId)
  /\ rows' = [Shown EXCEPT !.rest = <<>>]
  /\ selected' = 1
  /\ UNCHANGED <<focus, filter, open, picked>>

\* dismiss leaves a button first.
Back ==
  /\ Frame /\ Keeps /\ focus = "button"
  /\ selected' = Current /\ focus' = "row"
  /\ UNCHANGED <<flight, filter, open, picked, edits>>

\* The process ends, and its threads and connections with it.
Close ==
  /\ open' = FALSE
  /\ sub' = "off" /\ wake' = FALSE /\ pushed' = <<>> /\ last' = NoList /\ pending' = NoList
  /\ flight' = {}
  /\ rows' = [pins |-> <<>>, rest |-> <<>>] /\ selected' = 1 /\ focus' = "row"
  /\ filter' = Everything /\ edited' = FALSE
  /\ UNCHANGED <<daemon, counts>>

\* confirm on the row itself; on a button it is Toggle or Delete.  It is
\* ignored if the list was empty before the frame.
Pick ==
  /\ open /\ focus = "row"
  /\ List(rows) # <<>> /\ Visible(Shown) # {}
  /\ picked' = Entry
  /\ Close

\* dismiss, or confirm with nothing to show, or the window manager's close.
Leave == open /\ Close /\ UNCHANGED picked

Key == \/ Move \/ Turn \/ Pick \/ Toggle \/ Delete \/ Clear \/ Back \/ Leave
       \/ \E f \in Filters \cup {Everything} : Type(f)

Next ==
  \/ \E id \in Ids : Copy(id)
  \/ \E op \in {"delete", "pin", "unpin"}, id \in Ids :
       EditElsewhere([op |-> op, id |-> id, n |-> 0])
  \/ EditElsewhere([op |-> "clear", id |-> NoId, n |-> 0])
  \/ \E e \in flight : Serve(e) \/ Lose(e)
  \/ StopDaemon \/ StartDaemon \/ Push \/ SyncThread
  \/ Draw \/ Key

Spec == Init /\ [][Next]_vars

\* A frame asks for the next one, except one that has no row to show.
Redraw == pending # NoList /\ Visible(rows) # {} /\ Draw

\* The threads on both sides are scheduled, and a window is redrawn.
FairSpec ==
  /\ Spec
  /\ WF_vars(Push) /\ WF_vars(SyncThread) /\ WF_vars(Redraw)

-----------------------------------------------------------------------------
(* Properties                                                              *)

\* A key acts on the entry that had the focus on the screen, although the
\* list may have been replaced between the two; only when that entry is gone,
\* or no longer matches the filter, on the first one that is shown.
ActsOnWhatWasShown ==
  [][LET acted == {e.id : e \in {x \in flight' \ flight : x.op # "clear"}}
                    \cup (IF picked' # picked THEN {picked'} ELSE {})
         still == \E i \in Visible(Shown) : List(Shown)[i] = Focused
         first == List(Shown)[Min(Visible(Shown))]
     IN \A id \in acted : id = IF still THEN Focused ELSE first]_vars

\* Between edits of its own the window shows the history: when nothing is on
\* its way, no difference has been swallowed by merged wake-ups, drained
\* snapshots or fingerprints.
UneditedIsCurrent ==
  sub = "on" /\ ~wake /\ pushed = <<>> /\ pending = NoList /\ open /\ ~edited =>
    rows = Snapshot

\* After a reconnection what was edited in vain is put right, even when the
\* history is the one that was last received.
ReconnectionReconciles ==
  (sub = "off" /\ up /\ edited /\ flight = {}) ~>
    ~edited \/ ~up \/ ~open \/ flight # {} \/ Visible(rows) = {}
=============================================================================
