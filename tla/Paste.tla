------------------------------- MODULE Paste --------------------------------
(***************************************************************************)
(* From a selected entry to the key chord that pastes it: copy_entry of    *)
(* the daemon (core/src/engine/actions.rs), the clipboard module that      *)
(* claims the selections, the delay before the paste (core/src/paste.rs),  *)
(* and the paster that plays the chord (paster.rs, paster-uinput).         *)
(* Nothing tells the sleeping thread whether the claim has been made.      *)
(*                                                                         *)
(* Children of a slot are numbered in the order of their start; how the    *)
(* supervisor restarts them is module Supervisor, what a reader does with  *)
(* the selection besides claiming it is module Reader.  The channel of a   *)
(* child, its stdin thread and its pipe are one queue.                     *)
(***************************************************************************)
EXTENDS Integers, SequencesExt

CONSTANTS
  Copies,      \* calls of copy_entry; each copies an entry of its own
  Setups,      \* [platform, auto, override, tool, seen]: see SetupAssumption
  MaxMishaps   \* bound: exits of modules, failures, other applications' copies

\* override: paste_command is set; tool: find_tool finds one; seen: the
\* display server opens the paster's keyboard.
ASSUME SetupAssumption ==
  Setups \subseteq [platform : {"wayland", "x11"}, auto : BOOLEAN, override : BOOLEAN,
                    tool : BOOLEAN, seen : BOOLEAN]
ASSUME MishapsAssumption == MaxMishaps \in Nat

VARIABLES
  setup,    \* configuration and machine, fixed at start
  running,  \* the daemon has not been stopped
  call,     \* what copy_entry does next for each copy
  clip,     \* the clipboard slot
  frames,   \* SetClipboard and Stop on the way to its child
  claims,   \* [copy, at]: claim threads of the child, and xclip processes
  owner,    \* whose content each selection holds
  timers,   \* [copy, to]: auto-paste threads; to is a paster child or Command
  paster,   \* the paster slot
  jobs,     \* Paste and Stop on the way to its child
  step,     \* events of the present chord played so far
  held,     \* keys of the virtual keyboard that are down
  pastes,   \* what has been pasted, in order
  mishaps,
  rivals,   \* history: what raced with each copy, from its request to its paste
  missed,   \* history: copies whose claim was lost or failed
  asked,    \* history: the paster child that ran when the paste was asked for
  ended,    \* history: claims and chords that came to an end
  spoiled   \* history: chords begun with a key still down, or cut short

host == <<setup, running>>
clipboard == <<clip, frames, claims, owner>>
keyboard == <<paster, jobs, step, held>>
history == <<rivals, missed, asked, ended, spoiled>>
vars == <<host, call, clipboard, timers, keyboard, pastes, mishaps, history>>

Nobody == "nobody"
App == "application"
Stop == "stop"
Selections == {"clipboard", "primary"}

ASSUME CopiesAssumption == Stop \notin Copies

\* A paste by paste_command or an external tool; no paster at all.
Command == -1
NoChild == 0

\* tx: the child the slot's sender feeds; alive: the child that runs; last:
\* the latest child; crashed: children that ended by themselves.
Slot(at) == [tx |-> 1, alive |-> 1, last |-> 1, at |-> at, crashed |-> {}]

Init ==
  /\ setup \in Setups /\ running = TRUE
  /\ call = [c \in Copies |-> "load"]
  /\ clip = Slot("serving") /\ frames = <<>> /\ claims = {}
  /\ owner = [s \in Selections |-> Nobody]
  /\ timers = {}
  /\ paster = Slot("starting") /\ jobs = <<>> /\ step = 0 /\ held = {}
  /\ pastes = <<>> /\ mishaps = 0
  /\ rivals = [c \in Copies |-> {}] /\ missed = {}
  /\ asked = [c \in Copies |-> NoChild] /\ ended = {} /\ spoiled = {}

Mishap == mishaps < MaxMishaps /\ mishaps' = mishaps + 1

-----------------------------------------------------------------------------
(* copy_entry, in the main loop or in the thread of a picker               *)

Pasted(c) == \E i \in DOMAIN pastes : pastes[i].copy = c

\* The paste is still to come: to be timed, asleep, or queued.
Waiting ==
  {c \in Copies : \/ call[c] = "paste"
                  \/ \E t \in timers : t.copy = c
                  \/ c \in ToSet(jobs) /\ ~Pasted(c)}

\* Claims that have not been made yet.
InFlight == (ToSet(frames) \cap Copies) \cup {t.copy : t \in claims}

NextStepPasteFirst == [load |-> "paste", paste |-> "send", send |-> "done"]

\* Load the entry, hand it to the clipboard module, have it pasted.
NextStep == [load |-> "send", send |-> "paste", paste |-> "done"]

Advance(c, from) == running /\ call[c] = from /\ call' = [call EXCEPT ![c] = NextStep[from]]

Load(c) ==
  /\ Advance(c, "load")
  /\ UNCHANGED <<host, clipboard, timers, keyboard, pastes, mishaps, history>>

\* There is no such entry.
LoadNothing(c) ==
  /\ running /\ call[c] = "load"
  /\ call' = [call EXCEPT ![c] = "done"]
  /\ UNCHANGED <<host, clipboard, timers, keyboard, pastes, mishaps, history>>

\* Whoever waits for a paste may find x instead.
Raced(x) == [c \in Copies |-> IF c \in Waiting THEN rivals[c] \cup {x} ELSE rivals[c]]

\* Without a child the frame is lost, which is logged and no more.
SendToClipboard(c) ==
  /\ Advance(c, "send")
  /\ IF clip.tx # NoChild /\ clip.tx = clip.alive
       THEN /\ frames' = Append(frames, c)
            /\ rivals' = [Raced(c) EXCEPT ![c] = InFlight]
            /\ UNCHANGED missed
       ELSE missed' = missed \cup {c} /\ UNCHANGED <<frames, rivals>>
  /\ UNCHANGED <<host, clip, claims, owner, timers, keyboard, pastes, mishaps, asked, ended, spoiled>>

Route ==
  CASE setup.override -> {Command}
    [] ~setup.override /\ paster.tx # NoChild -> {paster.tx}
    [] OTHER -> IF setup.tool THEN {Command} ELSE {}

\* The paster's sender is cloned now, and used when the delay is over.
TriggerAutoPaste(c) ==
  /\ Advance(c, "paste")
  /\ timers' = timers \cup IF setup.auto THEN {[copy |-> c, to |-> r] : r \in Route} ELSE {}
  /\ asked' = [asked EXCEPT ![c] = paster.tx]
  /\ UNCHANGED <<host, clipboard, keyboard, pastes, mishaps, rivals, missed, ended, spoiled>>

-----------------------------------------------------------------------------
(* The clipboard module                                                    *)

\* The event loop starts a thread per SetClipboard.
HandleSet ==
  /\ frames # <<>> /\ Head(frames) # Stop
  /\ frames' = Tail(frames)
  /\ claims' = claims \cup {[copy |-> Head(frames), at |-> "thread"]}
  /\ UNCHANGED <<host, call, clip, owner, timers, keyboard, pastes, mishaps, history>>

Landed(t, ends) ==
  claims' = (claims \ {t}) \cup IF ends THEN {} ELSE {[t EXCEPT !.at = "primary"]}

\* Wayland: CLIPBOARD, then PRIMARY.
ClaimRegular(t) ==
  /\ setup.platform = "wayland" /\ t.at = "thread"
  /\ owner' = [owner EXCEPT !["clipboard"] = t.copy]
  /\ Landed(t, FALSE)
  /\ UNCHANGED <<host, call, clip, frames, timers, keyboard, pastes, mishaps, history>>

\* A failure to claim PRIMARY is only logged.
ClaimPrimary(t) ==
  /\ t.at = "primary"
  /\ Landed(t, TRUE)
  /\ ended' = ended \cup {<<"claim", t.copy>>}
  /\ \/ owner' = [owner EXCEPT !["primary"] = t.copy] /\ UNCHANGED <<mishaps, missed>>
     \/ Mishap /\ missed' = missed \cup {t.copy} /\ UNCHANGED owner
  /\ UNCHANGED <<host, call, clip, frames, timers, keyboard, pastes, rivals, asked, spoiled>>

\* X11: the thread starts xclip, which outlives the module.
StartXclip(t) ==
  /\ setup.platform = "x11" /\ t.at = "thread"
  /\ claims' = (claims \ {t}) \cup {[t EXCEPT !.at = "xclip"]}
  /\ UNCHANGED <<host, call, clip, frames, owner, timers, keyboard, pastes, mishaps, history>>

XclipOwns(t) ==
  /\ t.at = "xclip"
  /\ owner' = [owner EXCEPT !["clipboard"] = t.copy]
  /\ Landed(t, TRUE)
  /\ ended' = ended \cup {<<"claim", t.copy>>}
  /\ UNCHANGED <<host, call, clip, frames, timers, keyboard, pastes, mishaps>>
  /\ UNCHANGED <<rivals, missed, asked, spoiled>>

ClaimFails(t) ==
  /\ t.at \in {"thread", "xclip"}
  /\ Mishap
  /\ Landed(t, TRUE)
  /\ ended' = ended \cup {<<"claim", t.copy>>}
  /\ missed' = missed \cup {t.copy}
  /\ UNCHANGED <<host, call, clip, frames, owner, timers, keyboard, pastes, rivals, asked, spoiled>>

\* What dies with the process: its queue, its threads, and on Wayland the
\* selections it serves, which are then nobody's.
ClipGone ==
  /\ frames' = <<>>
  /\ claims' = {t \in claims : t.at = "xclip"}
  /\ owner' = [s \in Selections |->
                 IF setup.platform = "wayland" /\ owner[s] \in Copies THEN Nobody ELSE owner[s]]
  /\ missed' = missed \cup {c \in InFlight : [copy |-> c, at |-> "xclip"] \notin claims}
  /\ rivals' = IF setup.platform = "wayland" THEN Raced(Nobody) ELSE rivals

ClipStops ==
  /\ frames # <<>> /\ Head(frames) = Stop
  /\ clip' = [clip EXCEPT !.alive = NoChild]
  /\ ClipGone
  /\ UNCHANGED <<host, call, timers, keyboard, pastes, mishaps, asked, ended, spoiled>>

Crash(slot) == [slot EXCEPT !.alive = NoChild, !.crashed = @ \cup {slot.alive}]

ClipDies ==
  /\ clip.alive # NoChild /\ Mishap
  /\ clip' = Crash(clip)
  /\ ClipGone
  /\ UNCHANGED <<host, call, timers, keyboard, pastes, asked, ended, spoiled>>

AppCopies(s) ==
  /\ Mishap
  /\ owner' = [owner EXCEPT ![s] = App]
  /\ rivals' = Raced(App)
  /\ UNCHANGED <<host, call, clip, frames, claims, timers, keyboard, pastes>>
  /\ UNCHANGED <<missed, asked, ended, spoiled>>

-----------------------------------------------------------------------------
(* The timer                                                               *)

\* late: the claim is still on its way.
Paste(c, by) ==
  Append(pastes, [copy |-> c, by |-> by, got |-> owner, late |-> c \in InFlight])

FireAtSlot(t) ==
  /\ running /\ t.to # Command
  /\ timers' = timers \ {t}
  /\ jobs' = IF paster.tx # NoChild /\ paster.tx = paster.alive THEN Append(jobs, t.copy) ELSE jobs
  /\ UNCHANGED <<host, call, clipboard, paster, step, held, pastes, mishaps, history>>

\* The delay is over; how long the claim takes it does not know.  A child
\* that has ended since hears nothing, nor does its successor.
Fire(t) ==
  /\ running /\ t.to # Command
  /\ timers' = timers \ {t}
  /\ jobs' = IF t.to = paster.alive THEN Append(jobs, t.copy) ELSE jobs
  /\ UNCHANGED <<host, call, clipboard, paster, step, held, pastes, mishaps, history>>

\* The command injects a chord of its own, or fails.
RunCommand(t) ==
  /\ running /\ t.to = Command
  /\ timers' = timers \ {t}
  /\ \/ pastes' = Paste(t.copy, Command) /\ UNCHANGED mishaps
     \/ Mishap /\ UNCHANGED pastes
  /\ UNCHANGED <<host, call, clipboard, keyboard, history>>

-----------------------------------------------------------------------------
(* The paster                                                              *)

\* The device exists, and the display server has opened it or five seconds
\* have passed.  Requests wait in the pipe meanwhile.
PasterReady ==
  /\ paster.alive # NoChild /\ paster.at = "starting"
  /\ paster' = [paster EXCEPT !.at = "serving"]
  /\ UNCHANGED <<host, call, clipboard, timers, jobs, step, held, pastes, mishaps, history>>

Press(key) == [key |-> key, down |-> TRUE]
Release(key) == [key |-> key, down |-> FALSE]

EventsModifierUpFirst == <<Press("shift"), Press("insert"), Release("shift"), Release("insert")>>

Events == <<Press("shift"), Press("insert"), Release("insert"), Release("shift")>>

\* The kernel passes on only what changes the state of a key; the window
\* pastes when Insert goes down.
EmitEvent ==
  LET c == Head(jobs)
      e == Events[step + 1]
      last == step + 1 = Len(Events)
  IN /\ paster.at = "serving" /\ jobs # <<>> /\ c # Stop
     /\ held' = IF e.down THEN held \cup {e.key} ELSE held \ {e.key}
     /\ pastes' = IF e = Press("insert") /\ "insert" \notin held /\ setup.seen
                    THEN Paste(c, paster.alive) ELSE pastes
     /\ step' = IF last THEN 0 ELSE step + 1
     /\ jobs' = IF last THEN Tail(jobs) ELSE jobs
     /\ ended' = IF last THEN ended \cup {<<"chord", c>>} ELSE ended
     /\ spoiled' = IF step = 0 /\ held # {} THEN spoiled \cup {c} ELSE spoiled
     /\ UNCHANGED <<host, call, clipboard, timers, paster, mishaps, rivals, missed, asked>>

PasterGone == jobs' = <<>> /\ step' = 0 /\ held' = {}

EmitFailsForGood ==
  /\ paster.at = "serving" /\ jobs # <<>> /\ Head(jobs) # Stop
  /\ Mishap
  /\ paster' = [paster EXCEPT !.alive = NoChild, !.at = "ended"]
  /\ PasterGone
  /\ ended' = ended \cup {<<"chord", Head(jobs)>>}
  /\ spoiled' = spoiled \cup {Head(jobs)}
  /\ UNCHANGED <<host, call, clipboard, timers, pastes, rivals, missed, asked>>

\* A write that fails ends the chord where it is, and the loop goes on.
EmitFails ==
  /\ paster.at = "serving" /\ jobs # <<>> /\ Head(jobs) # Stop
  /\ Mishap
  /\ jobs' = Tail(jobs) /\ step' = 0
  /\ ended' = ended \cup {<<"chord", Head(jobs)>>}
  /\ spoiled' = spoiled \cup {Head(jobs)}
  /\ UNCHANGED <<host, call, clipboard, timers, paster, held, pastes, rivals, missed, asked>>

PasterStops ==
  /\ paster.at = "serving" /\ jobs # <<>> /\ Head(jobs) = Stop
  /\ paster' = [paster EXCEPT !.alive = NoChild, !.at = "ended"]
  /\ PasterGone
  /\ UNCHANGED <<host, call, clipboard, timers, pastes, mishaps, history>>

\* The device goes with the process, and its keys with the device.
PasterDies ==
  /\ paster.alive # NoChild /\ Mishap
  /\ paster' = [Crash(paster) EXCEPT !.at = "ended"]
  /\ PasterGone
  /\ UNCHANGED <<host, call, clipboard, timers, pastes, history>>

-----------------------------------------------------------------------------
(* The supervisor and the end of the daemon                                *)

Exited(slot) == running /\ slot.alive = NoChild /\ slot.tx # NoChild

Restarted(slot, at) ==
  [slot EXCEPT !.tx = slot.last + 1, !.alive = slot.last + 1, !.last = @ + 1, !.at = at]

ClipExited ==
  /\ Exited(clip)
  /\ clip' = [clip EXCEPT !.tx = NoChild]
  /\ UNCHANGED <<host, call, frames, claims, owner, timers, keyboard, pastes, mishaps, history>>

RestartClip ==
  /\ running /\ clip.tx = NoChild
  /\ clip' = Restarted(clip, "serving")
  /\ UNCHANGED <<host, call, frames, claims, owner, timers, keyboard, pastes, mishaps, history>>

PasterExited ==
  /\ Exited(paster)
  /\ paster' = [paster EXCEPT !.tx = NoChild]
  /\ UNCHANGED <<host, call, clipboard, timers, jobs, step, held, pastes, mishaps, history>>

RestartPaster ==
  /\ running /\ paster.tx = NoChild
  /\ paster' = Restarted(paster, "starting")
  /\ UNCHANGED <<host, call, clipboard, timers, jobs, step, held, pastes, mishaps, history>>

\* Stop follows what is queued; calls and timers end with the process.
Shutdown ==
  /\ running /\ running' = FALSE
  /\ frames' = IF clip.tx # NoChild /\ clip.tx = clip.alive THEN Append(frames, Stop) ELSE frames
  /\ jobs' = IF paster.tx # NoChild /\ paster.tx = paster.alive THEN Append(jobs, Stop) ELSE jobs
  /\ timers' = {}
  /\ UNCHANGED <<setup, call, clip, claims, owner, paster, step, held, pastes, mishaps, history>>

\* Nothing is left to do.
Ended ==
  /\ ~running /\ clip.alive = NoChild /\ paster.alive = NoChild /\ claims = {}
  /\ UNCHANGED vars

CopyEntry == \E c \in Copies : Load(c) \/ LoadNothing(c) \/ SendToClipboard(c) \/ TriggerAutoPaste(c)
Claiming == \E t \in claims : ClaimRegular(t) \/ ClaimPrimary(t) \/ StartXclip(t) \/ XclipOwns(t)
Timers == \E t \in timers : Fire(t) \/ RunCommand(t)
Playing == PasterReady \/ EmitEvent \/ PasterStops

Next ==
  \/ CopyEntry \/ HandleSet \/ ClipStops \/ Claiming \/ Timers \/ Playing
  \/ \E t \in claims : ClaimFails(t)
  \/ ClipDies \/ EmitFails \/ PasterDies
  \/ \E s \in Selections : AppCopies(s)
  \/ ClipExited \/ RestartClip \/ PasterExited \/ RestartPaster
  \/ Shutdown \/ Ended

Spec == Init /\ [][Next]_vars

\* Every thread and process is scheduled: the modules' loops, each claim
\* thread, each timer.
FairSpec ==
  /\ Spec
  /\ WF_vars(HandleSet) /\ WF_vars(Claiming) /\ WF_vars(Timers) /\ WF_vars(Playing)

-----------------------------------------------------------------------------
(* Properties                                                              *)

Children == 1 .. MaxMishaps + 1
Claims == [copy : Copies, at : {"thread", "primary", "xclip"}]
Owners == [Selections -> Copies \cup {Nobody, App}]

\* Sender and process are those of the latest child, if there are any.
SlotOK(slot, phases) ==
  /\ slot \in [tx : Nat, alive : Nat, last : Nat \ {0}, at : phases, crashed : SUBSET Nat]
  /\ slot.tx \in {NoChild, slot.last} /\ slot.alive \in {NoChild, slot.last}

\* Phases, queues and owners are what they claim to be.
TypeOK ==
  /\ setup \in Setups /\ running \in BOOLEAN
  /\ call \in [Copies -> {"load", "send", "paste", "done"}]
  /\ SlotOK(clip, {"serving"}) /\ SlotOK(paster, {"starting", "serving", "ended"})
  /\ frames \in Seq(Copies \cup {Stop}) /\ jobs \in Seq(Copies \cup {Stop})
  /\ claims \subseteq Claims /\ owner \in Owners
  /\ timers \subseteq [copy : Copies, to : Nat \cup {Command}]
  /\ step \in 0 .. Len(Events) - 1 /\ held \subseteq {"shift", "insert"}
  /\ pastes \in Seq([copy : Copies, by : Nat \cup {Command}, got : Owners, late : BOOLEAN])
  /\ mishaps \in 0 .. MaxMishaps
  /\ rivals \in [Copies -> SUBSET (Copies \cup {Nobody, App})]
  /\ missed \subseteq Copies /\ spoiled \subseteq Copies /\ asked \in [Copies -> Nat]

\* What a paste may find on the clipboard, and on Wayland in PRIMARY: the
\* entry it was asked for, or what raced with it between its request and the
\* chord, namely a claim under way or a later request, an application's
\* copy, or the end of the module.  Nothing that was there before the request
\* is pasted in its place, unless its own claim was lost or failed, or was
\* still under way when the chord struck: the delay runs from the request, and
\* neither it nor the chord waits for the claim.
NothingStaleIsPasted ==
  \A i \in DOMAIN pastes :
    LET p == pastes[i]
        recent == {p.copy} \cup rivals[p.copy]
    IN \/ p.late \/ p.copy \in missed
       \/ /\ p.got["clipboard"] \in recent
          /\ setup.platform = "wayland" => p.got["primary"] \in recent

\* A request pastes at most once and by one way, and through no other paster
\* child than the one that ran when it was made: no chord strikes after a
\* restart, in whatever window has the focus by then.
PastesAreAsked ==
  \A i \in DOMAIN pastes :
    /\ setup.auto
    /\ pastes[i].by = IF setup.override \/ asked[pastes[i].copy] = NoChild
                        THEN Command ELSE asked[pastes[i].copy]
    /\ \A j \in DOMAIN pastes : pastes[j].copy = pastes[i].copy => i = j

\* Wherever a chord is cut short, Insert is never down without Shift, and
\* between chords a key is down only if some chord was cut short before.  A
\* chord played out from released keys pastes, if anybody reads the keyboard.
KeysAreLetGo ==
  /\ "insert" \in held => "shift" \in held
  /\ step = 0 /\ held # {} => spoiled # {}
  /\ \A c \in Copies : <<"chord", c>> \in ended \ {<<"chord", s>> : s \in spoiled} /\ setup.seen
                         => Pasted(c)

\* A SetClipboard that reached the child is claimed or reported to have
\* failed, and a paste that was asked for is played or fails by itself, also
\* behind others that failed and when the paster was still starting; unless
\* the child crashes or the daemon stops.
CopiesComeThrough ==
  \A c \in Copies :
    /\ \A k \in Children :
         c \in InFlight /\ clip.alive = k
           ~> <<"claim", c>> \in ended \/ k \in clip.crashed \/ ~running
    /\ [copy |-> c, to |-> asked[c]] \in timers
         ~> <<"chord", c>> \in ended \/ asked[c] \in paster.crashed \/ ~running
=============================================================================
