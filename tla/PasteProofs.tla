----------------------------- MODULE PasteProofs -----------------------------
(***************************************************************************)
(* From the request to the paste for any number of copies, any setups and  *)
(* any number of mishaps: keys are let go of, a request pastes once and    *)
(* through the paster that ran when it was made, and once its claim has    *)
(* been made it pastes nothing from before the request.                    *)
(***************************************************************************)
EXTENDS Paste, TLAPS

Job(c)   == \E i \in DOMAIN jobs : jobs[i] = c
Timed(c) == \E t \in timers : t.copy = c

\* The one way a request may paste by.
Expected(c) == IF setup.override \/ asked[c] = NoChild THEN Command ELSE asked[c]

\* A paster that lives is the one that is fed; one that is gone left nothing.
Attached ==
  /\ paster.alive # NoChild => paster.tx = paster.alive
  /\ paster.alive = NoChild => jobs = <<>> /\ step = 0 /\ held = {}

\* A chord that has begun holds Shift; if it began from released keys, its
\* Insert goes down, and pastes.
Chord ==
  /\ step > 0 => jobs # <<>> /\ Head(jobs) # Stop /\ "shift" \in held
  /\ step = 2 => "insert" \in held
  /\ step = 3 => "insert" \notin held
  /\ step > 0 /\ Head(jobs) \notin spoiled =>
       /\ step = 1 => "insert" \notin held
       /\ step > 1 /\ setup.seen => Pasted(Head(jobs))

\* A request is in one place: its timer, a job of the paster it was meant
\* for, or what has been pasted; the job that is being played may be both.
TimersOnce ==
  \A t \in timers : /\ setup.auto /\ call[t.copy] = "done" /\ t.to = Expected(t.copy)
                    /\ ~Job(t.copy) /\ ~Pasted(t.copy)
JobsOnce ==
  \A i \in DOMAIN jobs : jobs[i] # Stop =>
    /\ setup.auto /\ call[jobs[i]] = "done" /\ Expected(jobs[i]) = paster.alive
    /\ Pasted(jobs[i]) => i = 1 /\ step > 1
    /\ \A j \in DOMAIN jobs : jobs[j] = jobs[i] => j = i
PastesOnce ==
  \A i \in DOMAIN pastes :
    /\ setup.auto /\ call[pastes[i].copy] = "done" /\ pastes[i].by = Expected(pastes[i].copy)
    /\ \A j \in DOMAIN pastes : pastes[j].copy = pastes[i].copy => j = i
Once == TimersOnce /\ JobsOnce /\ PastesOnce

\* Its paste is still to come.
Going(c) == call[c] = "paste" \/ Timed(c) \/ (Job(c) /\ ~Pasted(c))

\* A claim is under way only after its request.
Unsent == \A c \in Copies : call[c] \in {"load", "send"} => c \notin InFlight

\* What a selection may hold for a request that waits, now and later: itself
\* or what raced with it, and so is all that is still under way.
Recent(c) == {c} \cup rivals[c]
Fresh(c) ==
  /\ InFlight \subseteq Recent(c)
  /\ \A t \in claims : t.copy = c /\ t.at = "primary" => owner["clipboard"] \in Recent(c)
  /\ c \notin InFlight => /\ owner["clipboard"] \in Recent(c)
                          /\ setup.platform = "wayland" => owner["primary"] \in Recent(c)
OnX11 == \A t \in claims : t.at = "xclip" => setup.platform = "x11"
Owned == \A c \in Copies \ missed : Going(c) => Fresh(c)

-----------------------------------------------------------------------------
(* Types                                                                   *)

Phases == {"starting", "serving", "ended"}

\* What crashes, exits and restarts make of a slot.
Changed(slot, p) ==
  {[slot EXCEPT !.tx = NoChild], [slot EXCEPT !.alive = NoChild], [slot EXCEPT !.at = p],
   [slot EXCEPT !.alive = NoChild, !.at = p], Restarted(slot, p), Crash(slot),
   [Crash(slot) EXCEPT !.at = p]}

\* They keep its sender and its child in order.
LEMMA SlotSteps ==
  ASSUME NEW slot, NEW phases, NEW p \in phases, SlotOK(slot, phases), NEW new \in Changed(slot, p)
  PROVE  SlotOK(new, phases)
  <1> USE DEF SlotOK, NoChild
  <1>1. CASE new = [slot EXCEPT !.tx = NoChild]
    BY <1>1
  <1>2. CASE new = [slot EXCEPT !.alive = NoChild]
    BY <1>2
  <1>3. CASE new = [slot EXCEPT !.at = p]
    BY <1>3
  <1>4. CASE new = [slot EXCEPT !.alive = NoChild, !.at = p]
    BY <1>4
  <1>5. CASE new = Restarted(slot, p)
    <2>1. slot.last + 1 \in Nat \ {0}
      OBVIOUS
    <2>2. \A n \in Nat \ {0} :
            SlotOK([slot EXCEPT !.tx = n, !.alive = n, !.last = n, !.at = p], phases)
      OBVIOUS
    <2>3. new = [slot EXCEPT !.tx = slot.last + 1, !.alive = slot.last + 1,
                             !.last = slot.last + 1, !.at = p]
      BY <1>5 DEF Restarted
    <2> QED
      BY <2>1, <2>2, <2>3
  <1>6. CASE new = Crash(slot)
    BY <1>6 DEF Crash
  <1>7. CASE new = [Crash(slot) EXCEPT !.at = p]
    BY <1>7 DEF Crash
  <1> QED
    BY <1>1, <1>2, <1>3, <1>4, <1>5, <1>6, <1>7 DEF Changed

Slots == SlotOK(clip, {"serving"}) /\ SlotOK(paster, Phases)

\* The slots' actions; the others leave both alone.
LEMMA SlotsTyped == Slots /\ [Next]_vars => Slots'
  <1> SUFFICES ASSUME Slots, [Next]_vars PROVE Slots'
    OBVIOUS
  <1> USE DEF host, clipboard, keyboard, history
  <1>1. CASE UNCHANGED vars \/ Ended
    BY <1>1 DEF vars, Ended, Slots, SlotOK
  <1>2. CASE CopyEntry \/ HandleSet \/ Claiming \/ Timers \/ (\E t \in claims : ClaimFails(t))
             \/ (\E s \in Selections : AppCopies(s)) \/ EmitFails \/ EmitEvent \/ Shutdown
    <2>1. clip' = clip /\ paster' = paster
      BY <1>2 DEF CopyEntry, Load, LoadNothing, SendToClipboard, TriggerAutoPaste, HandleSet,
           Claiming, ClaimRegular, ClaimPrimary, StartXclip, XclipOwns, Timers, Fire,
           RunCommand, ClaimFails, AppCopies, EmitFails, EmitEvent, Shutdown
    <2> QED
      BY <2>1 DEF Slots, SlotOK
  <1>3. CASE ClipStops \/ ClipDies \/ ClipExited \/ RestartClip
    <2>1. paster' = paster /\ clip' \in Changed(clip, "serving")
      BY <1>3 DEF ClipStops, ClipDies, ClipExited, RestartClip, Changed
    <2>2. SlotOK(clip, {"serving"})
      BY DEF Slots
    <2>3. SlotOK(clip', {"serving"})
      BY <2>1, <2>2, SlotSteps
    <2>4. SlotOK(paster', Phases)
      BY <2>1 DEF Slots
    <2> QED
      BY <2>3, <2>4 DEF Slots, SlotOK
  <1>4. CASE PasterReady \/ PasterStops \/ PasterDies \/ PasterExited \/ RestartPaster
    <2>1. clip' = clip /\ \E p \in Phases : paster' \in Changed(paster, p)
      BY <1>4 DEF PasterReady, PasterStops, PasterDies, PasterExited, RestartPaster, Changed, Phases
    <2>2. SlotOK(paster, Phases)
      BY DEF Slots
    <2>4. SlotOK(paster', Phases)
      BY <2>1, <2>2, SlotSteps
    <2>5. SlotOK(clip', {"serving"})
      BY <2>1 DEF Slots
    <2> QED
      BY <2>4, <2>5 DEF Slots, SlotOK
  <1> QED
    BY <1>1, <1>2, <1>3, <1>4 DEF Next, Playing

\* The ends of a sequence, and one more element.
LEMMA Ends ==
  ASSUME NEW S, NEW s \in Seq(S)
  PROVE  /\ s # <<>> => Head(s) \in S /\ Tail(s) \in Seq(S)
         /\ \A e \in S : Append(s, e) \in Seq(S)
         /\ <<>> \in Seq(S)
  OBVIOUS

Outcomes == [copy : Copies, by : Nat \cup {Command}, got : Owners, late : BOOLEAN]

Requests ==
  /\ setup \in Setups /\ call \in [Copies -> {"load", "send", "paste", "done"}]
  /\ asked \in [Copies -> Nat] /\ mishaps \in 0 .. MaxMishaps
  /\ rivals \in [Copies -> SUBSET (Copies \cup {Nobody, App})]
  /\ missed \subseteq Copies /\ spoiled \subseteq Copies
Selected ==
  /\ frames \in Seq(Copies \cup {Stop}) /\ claims \subseteq Claims /\ owner \in Owners
Played ==
  /\ jobs \in Seq(Copies \cup {Stop}) /\ timers \subseteq [copy : Copies, to : Nat \cup {Command}]
  /\ step \in 0 .. 3 /\ held \subseteq {"shift", "insert"} /\ pastes \in Seq(Outcomes)

Typed == Slots /\ Requests /\ Selected /\ Played

\* The daemon runs or does not.
LEMMA RunningTyped == running \in BOOLEAN /\ [Next]_vars => running' \in BOOLEAN
  <1> SUFFICES ASSUME running \in BOOLEAN, [Next]_vars PROVE running' \in BOOLEAN
    OBVIOUS
  <1>1. running' = running \/ running' = FALSE
    BY Zenon DEF Next, vars, host, CopyEntry, Load, LoadNothing, SendToClipboard, TriggerAutoPaste,
       HandleSet, Claiming, ClaimRegular, ClaimPrimary, StartXclip, XclipOwns, Timers, Fire,
       RunCommand, ClaimFails, AppCopies, EmitFails, EmitEvent, Shutdown, ClipStops, ClipDies,
       ClipExited, RestartClip, PasterReady, PasterStops, PasterDies, PasterExited,
       RestartPaster, Ended, Playing
  <1> QED
    BY <1>1, Zenon

\* Requests, their histories and the mishaps.
LEMMA RequestsTyped ==
  ASSUME Typed, [Next]_vars PROVE Requests'
  <1> USE DEF host, clipboard, keyboard, history
  <1>0. /\ Requests /\ claims \subseteq Claims /\ InFlight \subseteq Copies
        /\ jobs # <<>> /\ Head(jobs) # Stop => Head(jobs) \in Copies
        /\ paster.tx \in Nat
    BY Ends DEF Typed, Selected, Played, Slots, SlotOK, InFlight, Claims
  <1>a. \A x \in Copies \cup {Nobody, App} :
          Raced(x) \in [Copies -> SUBSET (Copies \cup {Nobody, App})]
    BY <1>0 DEF Raced, Requests
  <1>1. CASE UNCHANGED vars \/ Ended
    BY <1>0, <1>1 DEF vars, Ended, Requests
  <1>2. ASSUME NEW c \in Copies, Load(c) \/ LoadNothing(c) PROVE Requests'
    BY <1>0, <1>2 DEF Load, LoadNothing, Advance, NextStep, Requests
  <1>3. ASSUME NEW c \in Copies, SendToClipboard(c) PROVE Requests'
    <2>1. rivals' \in [Copies -> SUBSET (Copies \cup {Nobody, App})]
      <3>1. Raced(c) \in [Copies -> SUBSET (Copies \cup {Nobody, App})]
        BY <1>a
      <3>2. InFlight \in SUBSET (Copies \cup {Nobody, App})
        BY <1>0
      <3>3. [Raced(c) EXCEPT ![c] = InFlight] \in [Copies -> SUBSET (Copies \cup {Nobody, App})]
        BY <3>1, <3>2
      <3>4. rivals' = rivals \/ rivals' = [Raced(c) EXCEPT ![c] = InFlight]
        BY <1>3 DEF SendToClipboard
      <3> QED
        BY <1>0, <3>3, <3>4 DEF Requests
    <2> QED
      BY <1>0, <1>3, <2>1 DEF SendToClipboard, Advance, NextStep, Requests
  <1>4. ASSUME NEW c \in Copies, TriggerAutoPaste(c) PROVE Requests'
    BY <1>0, <1>4 DEF TriggerAutoPaste, Advance, NextStep, Requests
  <1>5. CASE HandleSet \/ Timers \/ PasterReady \/ PasterStops \/ ClipExited \/ RestartClip
             \/ PasterExited \/ RestartPaster \/ Shutdown
    BY <1>0, <1>5, MishapsAssumption
       DEF HandleSet, Timers, Fire, RunCommand, PasterReady, PasterStops, ClipExited, RestartClip,
         PasterExited, RestartPaster, Shutdown, Mishap, Requests
  <1>6. ASSUME NEW t \in claims,
               ClaimRegular(t) \/ ClaimPrimary(t) \/ StartXclip(t) \/ XclipOwns(t) \/ ClaimFails(t)
        PROVE  Requests'
    <2>1. t.copy \in Copies
      BY <1>0 DEF Claims
    <2>2. /\ setup' = setup /\ call' = call /\ asked' = asked /\ spoiled' = spoiled
          /\ rivals' = rivals /\ missed' \in {missed, missed \cup {t.copy}}
          /\ mishaps' = mishaps \/ Mishap
      BY <1>6 DEF ClaimRegular, ClaimPrimary, StartXclip, XclipOwns, ClaimFails
    <2> QED
      BY <1>0, <2>1, <2>2, MishapsAssumption DEF Mishap, Requests
  <1>7. CASE ClipStops \/ ClipDies \/ \E s \in Selections : AppCopies(s)
    <2>1. /\ setup' = setup /\ call' = call /\ asked' = asked /\ spoiled' = spoiled
          /\ rivals' \in {rivals, Raced(Nobody), Raced(App)}
          /\ missed' \subseteq missed \cup InFlight
          /\ mishaps' = mishaps \/ Mishap
      BY <1>7 DEF ClipStops, ClipDies, ClipGone, AppCopies
    <2> QED
      BY <1>0, <1>a, <2>1, MishapsAssumption DEF Mishap, Requests
  <1>8. CASE EmitEvent \/ EmitFails \/ PasterDies
    BY <1>0, <1>8, MishapsAssumption DEF EmitEvent, EmitFails, PasterDies, Mishap, Requests
  <1> QED
    BY <1>1, <1>2, <1>3, <1>4, <1>5, <1>6, <1>7, <1>8
       DEF Next, CopyEntry, Claiming, Playing

\* The clipboard module's queue, threads and selections.
LEMMA SelectedTyped ==
  ASSUME Typed, [Next]_vars PROVE Selected'
  <1> USE DEF host, clipboard, keyboard, history
  <1>0. /\ Selected
        /\ \A e \in Copies \cup {Stop} : Append(frames, e) \in Seq(Copies \cup {Stop})
        /\ frames # <<>> => /\ Tail(frames) \in Seq(Copies \cup {Stop})
                            /\ Head(frames) # Stop => Head(frames) \in Copies
    BY Ends DEF Typed, Selected
  <1>1. CASE UNCHANGED vars \/ Ended
    BY <1>0, <1>1 DEF vars, Ended, Selected
  <1>2. ASSUME NEW c \in Copies, Load(c) \/ LoadNothing(c) \/ TriggerAutoPaste(c) PROVE Selected'
    BY <1>0, <1>2 DEF Load, LoadNothing, TriggerAutoPaste, Selected
  <1>3. ASSUME NEW c \in Copies, SendToClipboard(c) PROVE Selected'
    BY <1>0, <1>3 DEF SendToClipboard, Selected
  <1>4. CASE HandleSet
    BY <1>0, <1>4 DEF HandleSet, Selected, Claims
  <1>5. CASE Timers \/ Playing \/ EmitFails \/ PasterDies \/ ClipExited \/ RestartClip
             \/ PasterExited \/ RestartPaster
    BY <1>0, <1>5
       DEF Timers, Fire, RunCommand, Playing, PasterReady, EmitEvent, PasterStops, EmitFails,
         PasterDies, ClipExited, RestartClip, PasterExited, RestartPaster, Selected
  <1>6. ASSUME NEW t \in claims,
               ClaimRegular(t) \/ ClaimPrimary(t) \/ StartXclip(t) \/ XclipOwns(t) \/ ClaimFails(t)
        PROVE  Selected'
    <2>1. /\ t \in Claims /\ [t EXCEPT !.at = "primary"] \in Claims
          /\ [t EXCEPT !.at = "xclip"] \in Claims
          /\ \A s \in Selections : [owner EXCEPT ![s] = t.copy] \in Owners
      BY <1>0 DEF Selected, Claims, Owners, Selections
    <2>2. frames' = frames /\ claims' \subseteq Claims
      BY <1>0, <1>6, <2>1
         DEF ClaimRegular, ClaimPrimary, StartXclip, XclipOwns, ClaimFails, Landed, Selected
    <2>3. owner' = owner \/ \E s \in Selections : owner' = [owner EXCEPT ![s] = t.copy]
      BY <1>6
         DEF ClaimRegular, ClaimPrimary, StartXclip, XclipOwns, ClaimFails, Selections
    <2> QED
      BY <1>0, <2>1, <2>2, <2>3 DEF Selected
  <1>7. CASE ClipStops \/ ClipDies
    <2>1. frames' = <<>> /\ claims' \subseteq claims
      BY <1>7 DEF ClipStops, ClipDies, ClipGone
    <2>2. owner' \in Owners
      BY <1>0, <1>7 DEF ClipStops, ClipDies, ClipGone, Selected, Owners
    <2> QED
      BY <1>0, <2>1, <2>2, Ends DEF Selected
  <1>8. CASE Shutdown \/ \E s \in Selections : AppCopies(s)
    BY <1>0, <1>8 DEF Shutdown, AppCopies, Selected, Owners
  <1> QED
    BY <1>1, <1>2, <1>3, <1>4, <1>5, <1>6, <1>7, <1>8 DEF Next, CopyEntry, Claiming

\* Timers, the paster's jobs, and what it plays.
LEMMA PlayedTyped ==
  ASSUME Typed, [Next]_vars PROVE Played'
  <1> USE DEF host, clipboard, keyboard, history
  <1>a. /\ Played
        /\ \A e \in Copies \cup {Stop} : Append(jobs, e) \in Seq(Copies \cup {Stop})
        /\ jobs # <<>> => /\ Tail(jobs) \in Seq(Copies \cup {Stop})
                          /\ Head(jobs) # Stop => Head(jobs) \in Copies
        /\ paster.alive \in Nat /\ paster.tx \in Nat
    BY Ends DEF Typed, Played, Slots, SlotOK
  <1>b. \A c \in Copies, by \in Nat \cup {Command} : Paste(c, by) \in Seq(Outcomes)
    <2>1. owner \in Owners /\ pastes \in Seq(Outcomes)
      BY DEF Typed, Selected, Played
    <2>2. \A c \in Copies, by \in Nat \cup {Command} :
            [copy |-> c, by |-> by, got |-> owner, late |-> c \in InFlight] \in Outcomes
      BY <2>1 DEF Outcomes
    <2> QED
      BY <2>1, <2>2, Ends DEF Paste
  <1>0. Played /\ <<>> \in Seq(Copies \cup {Stop})
    BY <1>a, Ends
  <1>1. CASE UNCHANGED vars \/ Ended
    BY <1>0, <1>1 DEF vars, Ended, Played
  <1>2. ASSUME NEW c \in Copies, Load(c) \/ LoadNothing(c) \/ SendToClipboard(c) PROVE Played'
    BY <1>0, <1>2 DEF Load, LoadNothing, SendToClipboard, Played
  <1>3. ASSUME NEW c \in Copies, TriggerAutoPaste(c) PROVE Played'
    <2>1. Route \subseteq Nat \cup {Command}
      BY <1>a DEF Route
    <2>2. \A r \in Route : [copy |-> c, to |-> r] \in [copy : Copies, to : Nat \cup {Command}]
      BY <2>1
    <2>3. timers' \subseteq timers \cup {[copy |-> c, to |-> r] : r \in Route}
      BY <1>3 DEF TriggerAutoPaste
    <2>4. timers' \subseteq [copy : Copies, to : Nat \cup {Command}]
      BY <1>0, <2>2, <2>3 DEF Played
    <2> QED
      BY <1>0, <1>3, <2>4 DEF TriggerAutoPaste, Played
  <1>4. ASSUME NEW t \in timers, Fire(t) \/ RunCommand(t) PROVE Played'
    <2>1. t.copy \in Copies /\ Command \in Nat \cup {Command}
      BY <1>0 DEF Played
    <2>2. timers' \subseteq timers
      BY <1>4 DEF Fire, RunCommand
    <2>3. jobs' \in Seq(Copies \cup {Stop})
      BY <1>a, <1>4, <2>1 DEF Fire, RunCommand, Played
    <2>4. pastes' \in Seq(Outcomes)
      BY <1>b, <1>0, <1>4, <2>1 DEF Fire, RunCommand, Played
    <2> QED
      BY <1>0, <1>4, <2>2, <2>3, <2>4 DEF Fire, RunCommand, Played
  <1>5. CASE EmitEvent
    <2>1. \A n \in 1 .. 4 : Events[n].key \in {"shift", "insert"}
      BY DEF Events, Press, Release
    <2>2. Len(Events) = 4
      BY DEF Events
    <2>3. jobs # <<>> /\ Head(jobs) \in Copies /\ step \in 0 .. 3
      BY <1>a, <1>5 DEF EmitEvent, Played
    <2>4. step' \in 0 .. 3 /\ jobs' \in Seq(Copies \cup {Stop}) /\ timers' = timers
      BY <1>a, <1>5, <2>2, <2>3 DEF EmitEvent, Played
    <2>a. held' \subseteq held \cup {Events[step + 1].key}
      BY <1>5 DEF EmitEvent
    <2>5. held' \subseteq {"shift", "insert"}
      BY <1>0, <2>1, <2>3, <2>a DEF Played
    <2>6. pastes' = pastes \/ pastes' = Paste(Head(jobs), paster.alive)
      BY <1>5 DEF EmitEvent
    <2> QED
      BY <1>a, <1>b, <2>3, <2>4, <2>5, <2>6 DEF Played
  <1>6. CASE EmitFails \/ PasterDies \/ PasterStops \/ PasterReady \/ PasterExited \/ RestartPaster
    <2>1. /\ timers' = timers /\ pastes' = pastes
          /\ step' = 0 \/ step' = step
          /\ held' = {} \/ held' = held
          /\ jobs' = <<>> \/ jobs' = jobs \/ (jobs # <<>> /\ jobs' = Tail(jobs))
      BY <1>6 DEF EmitFails, PasterDies, PasterStops, PasterGone, PasterReady, PasterExited,
           RestartPaster
    <2>2. jobs' \in Seq(Copies \cup {Stop})
      BY <1>a, <1>0, <2>1 DEF Played
    <2>3. timers' \subseteq [copy : Copies, to : Nat \cup {Command}] /\ pastes' \in Seq(Outcomes)
      BY <1>0, <2>1 DEF Played
    <2>4. step' \in 0 .. 3 
      BY <1>0, <2>1 DEF Played
    <2>5. held' \subseteq {"shift", "insert"}
      BY <1>0, <2>1 DEF Played
    <2> QED
      BY <2>2, <2>3, <2>4, <2>5 DEF Played
  <1>7. CASE HandleSet \/ Claiming \/ (\E t \in claims : ClaimFails(t)) \/ ClipStops \/ ClipDies
             \/ (\E s \in Selections : AppCopies(s)) \/ ClipExited \/ RestartClip
    BY <1>0, <1>7
       DEF HandleSet, Claiming, ClaimRegular, ClaimPrimary, StartXclip, XclipOwns, ClaimFails,
         ClipStops, ClipDies, AppCopies, ClipExited, RestartClip, Played
  <1>8. CASE Shutdown
    BY <1>a, <1>0, <1>8 DEF Shutdown, Played
  <1> QED
    BY <1>1, <1>2, <1>3, <1>4, <1>5, <1>6, <1>7, <1>8 DEF Next, CopyEntry, Timers, Playing

\* Every step keeps the types.
LEMMA TypedStep == Typed /\ [Next]_vars => Typed'
  BY SlotsTyped, RequestsTyped, SelectedTyped, PlayedTyped DEF Typed

-----------------------------------------------------------------------------
(* The keyboard                                                            *)

Keyboard == Attached /\ Chord /\ KeysAreLetGo

\* What has been pasted stays so.
LEMMA PastedStays ==
  ASSUME Typed, pastes' = pastes \/ \E r \in Outcomes : pastes' = Append(pastes, r), NEW c
  PROVE  Pasted(c) => Pasted(c)'
  <1>1. pastes \in Seq(Outcomes)
    BY DEF Typed, Played
  <1>2. \A i \in DOMAIN pastes : i \in DOMAIN pastes' /\ pastes'[i] = pastes[i]
    BY <1>1
  <1> QED
    BY <1>2 DEF Pasted

\* A chord that was played out from released keys.
LEMMA PlayedOut ==
  ASSUME NEW c, NEW E, NEW S
  PROVE  <<"chord", c>> \in E \ {<<"chord", s>> : s \in S} <=> <<"chord", c>> \in E /\ c \notin S
  OBVIOUS

\* The four events of the chord.
LEMMA FourEvents ==
  /\ Len(Events) = 4
  /\ Events[1] = Press("shift") /\ Events[2] = Press("insert")
  /\ Events[3] = Release("insert") /\ Events[4] = Release("shift")
  /\ Press("shift") # Press("insert") /\ Release("insert") # Press("insert")
  /\ Release("shift") # Press("insert")
  BY DEF Events, Press, Release

\* One event of a chord.
LEMMA OneEvent ==
  ASSUME Typed, EmitEvent
  PROVE  /\ jobs # <<>> /\ Head(jobs) \in Copies /\ paster' = paster /\ setup' = setup
         /\ \/ /\ step = 0 /\ step' = 1 /\ held' = held \cup {"shift"} /\ jobs' = jobs
               /\ pastes' = pastes /\ ended' = ended
               /\ spoiled' = IF held # {} THEN spoiled \cup {Head(jobs)} ELSE spoiled
            \/ /\ step = 1 /\ step' = 2 /\ held' = held \cup {"insert"} /\ jobs' = jobs
               /\ pastes' = IF "insert" \notin held /\ setup.seen
                              THEN Paste(Head(jobs), paster.alive) ELSE pastes
               /\ ended' = ended /\ spoiled' = spoiled
            \/ /\ step = 2 /\ step' = 3 /\ held' = held \ {"insert"} /\ jobs' = jobs
               /\ pastes' = pastes /\ ended' = ended /\ spoiled' = spoiled
            \/ /\ step = 3 /\ step' = 0 /\ held' = held \ {"shift"} /\ jobs' = Tail(jobs)
               /\ pastes' = pastes /\ ended' = ended \cup {<<"chord", Head(jobs)>>}
               /\ spoiled' = spoiled
  <1>1. /\ step \in 0 .. 3 /\ jobs # <<>> /\ Head(jobs) \in Copies
        /\ paster' = paster /\ setup' = setup
    BY Ends DEF Typed, Played, EmitEvent, host
  <1>2. CASE step = 0
    BY <1>1, <1>2, FourEvents DEF EmitEvent, Press
  <1>3. CASE step = 1
    BY <1>1, <1>3, FourEvents DEF EmitEvent, Press
  <1>4. CASE step = 2
    BY <1>1, <1>4, FourEvents DEF EmitEvent, Release
  <1>5. CASE step = 3
    BY <1>1, <1>5, FourEvents DEF EmitEvent, Release
  <1> QED
    BY <1>1, <1>2, <1>3, <1>4, <1>5

\* A paste is put at the end.
LEMMA NewPaste ==
  ASSUME Typed, NEW c \in Copies, NEW by \in Nat \cup {Command}, pastes' = Paste(c, by)
  PROVE  /\ \E r \in Outcomes : pastes' = Append(pastes, r)
         /\ Len(pastes') = Len(pastes) + 1 /\ DOMAIN pastes' = 1 .. Len(pastes) + 1
         /\ \A i \in DOMAIN pastes : pastes'[i] = pastes[i]
         /\ pastes'[Len(pastes) + 1] = [copy |-> c, by |-> by, got |-> owner,
                                              late |-> c \in InFlight]
         /\ Pasted(c)' /\ \A d : Pasted(d)' <=> Pasted(d) \/ d = c
  <1>1. [copy |-> c, by |-> by, got |-> owner,
                                              late |-> c \in InFlight] \in Outcomes /\ pastes \in Seq(Outcomes)
    BY DEF Typed, Selected, Played, Outcomes
  <1>2. /\ \E r \in Outcomes : pastes' = Append(pastes, r)
        /\ Len(pastes') = Len(pastes) + 1 /\ DOMAIN pastes' = 1 .. Len(pastes) + 1
        /\ DOMAIN pastes = 1 .. Len(pastes) /\ Len(pastes) \in Nat
        /\ \A i \in DOMAIN pastes : pastes'[i] = pastes[i]
        /\ pastes'[Len(pastes) + 1] = [copy |-> c, by |-> by, got |-> owner,
                                              late |-> c \in InFlight]
    BY <1>1 DEF Paste
  <1>3. \A i \in DOMAIN pastes' : i \in DOMAIN pastes \/ i = Len(pastes) + 1
    BY <1>2
  <1>4. \A d : Pasted(d)' <=> Pasted(d) \/ d = c
    BY <1>2, <1>3 DEF Pasted
  <1> QED
    BY <1>2, <1>4

\* A job put at the end leaves the one that is being played alone.
LEMMA NewJob ==
  ASSUME Typed, NEW j \in Copies \cup {Stop}, jobs' = Append(jobs, j)
  PROVE  /\ jobs' # <<>> /\ DOMAIN jobs' = 1 .. Len(jobs) + 1 /\ DOMAIN jobs = 1 .. Len(jobs)
         /\ Len(jobs) \in Nat
         /\ jobs # <<>> => Head(jobs') = Head(jobs)
         /\ \A i \in DOMAIN jobs : jobs'[i] = jobs[i]
         /\ jobs'[Len(jobs) + 1] = j
         /\ \A d : Job(d)' <=> Job(d) \/ d = j
  <1>1. jobs \in Seq(Copies \cup {Stop})
    BY DEF Typed, Played
  <1>2. /\ jobs' # <<>> /\ DOMAIN jobs' = 1 .. Len(jobs) + 1 /\ DOMAIN jobs = 1 .. Len(jobs)
        /\ Len(jobs) \in Nat
        /\ jobs # <<>> => Head(jobs') = Head(jobs)
        /\ \A i \in DOMAIN jobs : jobs'[i] = jobs[i]
        /\ jobs'[Len(jobs) + 1] = j
    BY <1>1
  <1>3. \A i \in DOMAIN jobs' : i \in DOMAIN jobs \/ i = Len(jobs) + 1
    BY <1>2
  <1>4. \A d : Job(d)' <=> Job(d) \/ d = j
    BY <1>2, <1>3 DEF Job
  <1> QED
    BY <1>2, <1>4

\* Steps that touch no key and no chord.
LEMMA KeyboardKept ==
  ASSUME Typed, Keyboard, setup' = setup, step' = step, held' = held, spoiled' = spoiled,
         \/ jobs' = jobs
         \/ \E j \in Copies \cup {Stop} : jobs' = Append(jobs, j) /\ paster.alive # NoChild,
         pastes' = pastes \/ \E r \in Outcomes : pastes' = Append(pastes, r),
         \A c : <<"chord", c>> \in ended' <=> <<"chord", c>> \in ended,
         paster'.alive = paster.alive, paster'.tx = paster.tx \/ paster.alive = NoChild
  PROVE  Keyboard'
  <1>1. Attached'
    BY DEF Keyboard, Attached
  <1>2. /\ jobs # <<>> => jobs' # <<>> /\ Head(jobs') = Head(jobs)
        /\ \A c : Pasted(c) => Pasted(c)'
    BY NewJob, PastedStays
  <1>3. Chord'
    BY <1>2 DEF Keyboard, Chord
  <1>4. KeysAreLetGo'
    <2>1. /\ "insert" \in held => "shift" \in held
          /\ step = 0 /\ held # {} => spoiled # {}
          /\ \A c \in Copies : <<"chord", c>> \in ended /\ c \notin spoiled /\ setup.seen => Pasted(c)
      BY PlayedOut DEF Keyboard, KeysAreLetGo
    <2> QED
      BY <1>2, <2>1, PlayedOut DEF KeysAreLetGo
  <1> QED
    BY <1>1, <1>3, <1>4 DEF Keyboard

\* A timer that is to reach a child reaches one that lives, or nobody.
LEMMA TimersReachChildren ==
  ASSUME Typed, Once, NEW t \in timers
  PROVE  t.copy \in Copies /\ t.to \in Nat \cup {Command} /\ t.to # NoChild /\ t.copy # Stop
  <1>1. t.copy \in Copies /\ t.to \in Nat \cup {Command} /\ t.copy # Stop
    BY CopiesAssumption DEF Typed, Played
  <1>2. t.to = Expected(t.copy)
    BY DEF Once, TimersOnce
  <1> QED
    BY <1>1, <1>2 DEF Expected, Command, NoChild

\* An event of a chord.
LEMMA KeyboardEvent ==
  ASSUME Typed, Keyboard, EmitEvent PROVE Keyboard'
  <1>1. /\ jobs # <<>> /\ Head(jobs) \in Copies /\ paster' = paster /\ setup' = setup
        /\ Head(jobs) # Stop /\ paster.alive # NoChild /\ paster.alive \in Nat
        /\ held \subseteq {"shift", "insert"}
    BY OneEvent, CopiesAssumption DEF Keyboard, Attached, Typed, Slots, SlotOK, Played
  <1>2. /\ Attached /\ Chord
        /\ "insert" \in held => "shift" \in held
        /\ step = 0 /\ held # {} => spoiled # {}
        /\ \A c \in Copies : <<"chord", c>> \in ended /\ c \notin spoiled /\ setup.seen => Pasted(c)
    BY PlayedOut DEF Keyboard, KeysAreLetGo
  <1>3. Attached'
    BY <1>1, <1>2 DEF Attached
  <1>4. CASE step = 0
    <2>1. /\ step' = 1 /\ held' = held \cup {"shift"} /\ jobs' = jobs /\ pastes' = pastes
          /\ ended' = ended
          /\ spoiled' = IF held # {} THEN spoiled \cup {Head(jobs)} ELSE spoiled
      BY <1>4, OneEvent
    <2>2. \A c : Pasted(c)' <=> Pasted(c)
      BY <2>1 DEF Pasted
    <2>3. Chord'
      BY <1>1, <1>2, <2>1, <2>2 DEF Chord
    <2>4. KeysAreLetGo'
      BY <1>1, <1>2, <2>1, <2>2, PlayedOut DEF KeysAreLetGo
    <2> QED
      BY <1>3, <2>3, <2>4 DEF Keyboard
  <1>5. CASE step = 1
    <2>1. /\ step' = 2 /\ held' = held \cup {"insert"} /\ jobs' = jobs
          /\ pastes' = IF "insert" \notin held /\ setup.seen
                         THEN Paste(Head(jobs), paster.alive) ELSE pastes
          /\ ended' = ended /\ spoiled' = spoiled
      BY <1>5, OneEvent
    <2>2. \A c : Pasted(c) => Pasted(c)'
      BY <1>1, <2>1, NewPaste, PastedStays
    <2>3. "insert" \notin held /\ setup.seen => Pasted(Head(jobs))'
      BY <1>1, <2>1, NewPaste
    <2>4. Chord'
      BY <1>1, <1>2, <1>5, <2>1, <2>2, <2>3 DEF Chord
    <2>5. KeysAreLetGo'
      BY <1>1, <1>2, <1>5, <2>1, <2>2, PlayedOut DEF KeysAreLetGo, Chord
    <2> QED
      BY <1>3, <2>4, <2>5 DEF Keyboard
  <1>6. CASE step = 2
    <2>1. /\ step' = 3 /\ held' = held \ {"insert"} /\ jobs' = jobs /\ pastes' = pastes
          /\ ended' = ended /\ spoiled' = spoiled
      BY <1>6, OneEvent
    <2>2. \A c : Pasted(c)' <=> Pasted(c)
      BY <2>1 DEF Pasted
    <2>3. Chord'
      BY <1>1, <1>2, <1>6, <2>1, <2>2 DEF Chord
    <2>4. KeysAreLetGo'
      BY <1>1, <1>2, <2>1, <2>2, PlayedOut DEF KeysAreLetGo
    <2> QED
      BY <1>3, <2>3, <2>4 DEF Keyboard
  <1>7. CASE step = 3
    <2>1. /\ step' = 0 /\ held' = held \ {"shift"} /\ pastes' = pastes
          /\ ended' = ended \cup {<<"chord", Head(jobs)>>} /\ spoiled' = spoiled
      BY <1>7, OneEvent
    <2>2. \A c : Pasted(c)' <=> Pasted(c)
      BY <2>1 DEF Pasted
    <2>3. "insert" \notin held /\ held' = {}
      BY <1>1, <1>2, <1>7, <2>1 DEF Chord
    <2>4. Chord'
      BY <2>1 DEF Chord
    <2>5. \A c \in Copies : <<"chord", c>> \in ended' /\ c \notin spoiled' /\ setup'.seen
                              => Pasted(c)'
      BY <1>1, <1>2, <1>7, <2>1, <2>2 DEF Chord
    <2>6. KeysAreLetGo'
      BY <2>1, <2>3, <2>5, PlayedOut DEF KeysAreLetGo
    <2> QED
      BY <1>3, <2>4, <2>6 DEF Keyboard
  <1> QED
    BY <1>4, <1>5, <1>6, <1>7 DEF Typed, Played

\* Every step keeps what the paster has pressed and has left to do.
LEMMA KeyboardStep ==
  ASSUME Typed, Keyboard, Once, [Next]_vars PROVE Keyboard'
  <1> USE DEF host, clipboard, keyboard, history
  <1>0. /\ jobs # <<>> => paster.alive # NoChild
        /\ jobs # <<>> /\ Head(jobs) # Stop => Head(jobs) \in Copies
        /\ paster.alive \in Nat /\ paster.tx \in Nat
        /\ paster.alive # NoChild => paster.tx = paster.alive
        /\ paster = [tx |-> paster.tx, alive |-> paster.alive, last |-> paster.last,
                     at |-> paster.at, crashed |-> paster.crashed]
    BY Ends DEF Keyboard, Attached, Typed, Played, Slots, SlotOK
  <1>1. CASE UNCHANGED vars \/ Ended
    BY <1>0, <1>1, KeyboardKept DEF vars, Ended
  <1>2. CASE CopyEntry \/ HandleSet \/ ClipStops \/ ClipDies
             \/ (\E s \in Selections : AppCopies(s)) \/ ClipExited \/ RestartClip
    <2>1. UNCHANGED <<setup, paster, jobs, step, held, pastes, ended, spoiled>>
      BY <1>2
         DEF CopyEntry, Load, LoadNothing, SendToClipboard, TriggerAutoPaste, HandleSet,
           ClipStops, ClipDies, AppCopies, ClipExited, RestartClip
    <2> QED
      BY <1>0, <2>1, KeyboardKept
  <1>3. CASE Claiming \/ \E t \in claims : ClaimFails(t)
    <2>1. /\ UNCHANGED <<setup, paster, jobs, step, held, pastes, spoiled>>
          /\ ended' = ended \/ \E t : ended' = ended \cup {<<"claim", t.copy>>}
      BY <1>3 DEF Claiming, ClaimRegular, ClaimPrimary, StartXclip, XclipOwns, ClaimFails
    <2>2. \A c : <<"chord", c>> \in ended' <=> <<"chord", c>> \in ended
      BY <2>1
    <2> QED
      BY <1>0, <2>1, <2>2, KeyboardKept
  <1>4. ASSUME NEW t \in timers, Fire(t) PROVE Keyboard'
    <2>1. /\ UNCHANGED <<setup, paster, step, held, pastes, ended, spoiled>>
          /\ jobs' = IF t.to = paster.alive THEN Append(jobs, t.copy) ELSE jobs
      BY <1>4 DEF Fire
    <2>2. t.copy \in Copies \cup {Stop} /\ t.to # NoChild
      BY TimersReachChildren
    <2> QED
      BY <1>0, <2>1, <2>2, KeyboardKept
  <1>5. ASSUME NEW t \in timers, RunCommand(t) PROVE Keyboard'
    <2>1. /\ UNCHANGED <<setup, paster, jobs, step, held, ended, spoiled>>
          /\ pastes' = pastes \/ pastes' = Paste(t.copy, Command)
      BY <1>5 DEF RunCommand
    <2>2. t.copy \in Copies /\ Command \in Nat \cup {Command}
      BY TimersReachChildren
    <2>3. pastes' = pastes \/ \E r \in Outcomes : pastes' = Append(pastes, r)
      BY <2>1, <2>2, NewPaste
    <2> QED
      BY <1>0, <2>1, <2>3, KeyboardKept
  <1>6. CASE Shutdown
    <2>1. /\ UNCHANGED <<setup, paster, step, held, pastes, ended, spoiled>>
          /\ jobs' = IF paster.tx # NoChild /\ paster.tx = paster.alive
                       THEN Append(jobs, Stop) ELSE jobs
      BY <1>6 DEF Shutdown
    <2> QED
      BY <1>0, <2>1, KeyboardKept
  <1>7. CASE PasterReady \/ PasterExited
    <2>1. UNCHANGED <<setup, jobs, step, held, pastes, ended, spoiled>>
      BY <1>7 DEF PasterReady, PasterExited
    <2>2. paster'.alive = paster.alive /\ (paster'.tx = paster.tx \/ paster.alive = NoChild)
      BY <1>0, <1>7 DEF PasterReady, PasterExited, Exited
    <2> QED
      BY <1>0, <2>1, <2>2, KeyboardKept
  <1>8. CASE EmitEvent
    BY <1>8, KeyboardEvent
  <1>9. CASE EmitFails
    <2>1. /\ UNCHANGED <<setup, paster, held, pastes>> /\ step' = 0
          /\ ended' = ended \cup {<<"chord", Head(jobs)>>}
          /\ spoiled' = spoiled \cup {Head(jobs)} /\ jobs # <<>>
      BY <1>9 DEF EmitFails
    <2>a. Attached'
      BY <1>0, <2>1 DEF Attached
    <2>2. Chord'
      BY <2>1 DEF Chord
    <2>3. /\ "insert" \in held => "shift" \in held
          /\ \A c \in Copies : <<"chord", c>> \in ended /\ c \notin spoiled /\ setup.seen => Pasted(c)
      BY PlayedOut DEF Keyboard, KeysAreLetGo
    <2>4. KeysAreLetGo'
      BY <2>1, <2>3, PlayedOut DEF KeysAreLetGo, Pasted
    <2> QED
      BY <2>a, <2>2, <2>4 DEF Keyboard
  <1>10. CASE PasterStops \/ PasterDies \/ RestartPaster
    <2>1. /\ UNCHANGED <<setup, pastes, ended, spoiled>>
          /\ jobs' = <<>> /\ step' = 0 /\ held' = {}
      BY <1>0, <1>10
         DEF PasterStops, PasterDies, PasterGone, RestartPaster, Keyboard, Attached
    <2>2. paster'.alive # NoChild => paster'.tx = paster'.alive
      BY <1>0, <1>10 DEF PasterStops, PasterDies, Crash, RestartPaster, Restarted
    <2>3. Attached' /\ Chord'
      BY <2>1, <2>2 DEF Attached, Chord
    <2>4. \A c \in Copies : <<"chord", c>> \in ended /\ c \notin spoiled /\ setup.seen => Pasted(c)
      BY PlayedOut DEF Keyboard, KeysAreLetGo
    <2>5. KeysAreLetGo'
      BY <2>1, <2>4, PlayedOut DEF KeysAreLetGo, Pasted
    <2> QED
      BY <2>3, <2>5 DEF Keyboard
  <1> QED
    BY <1>1, <1>2, <1>3, <1>4, <1>5, <1>6, <1>7, <1>8, <1>9, <1>10 DEF Next, Timers, Playing

-----------------------------------------------------------------------------
(* One paste, by one way                                                   *)

\* The job that was played is gone.
LEMMA PlayedJob ==
  ASSUME Typed, jobs # <<>>, jobs' = Tail(jobs)
  PROVE  /\ \A i \in DOMAIN jobs' : /\ i + 1 \in DOMAIN jobs /\ i + 1 # 1 /\ i \in Nat
                                    /\ jobs'[i] = jobs[i + 1]
         /\ \A d : Job(d)' => Job(d)
  <1>1. jobs \in Seq(Copies \cup {Stop})
    BY DEF Typed, Played
  <1>2. \A i \in DOMAIN jobs' : /\ i + 1 \in DOMAIN jobs /\ i + 1 # 1 /\ i \in Nat
                                /\ jobs'[i] = jobs[i + 1]
    BY <1>1
  <1> QED
    BY <1>2 DEF Job

\* What is timed, queued or pasted is a copy.
LEMMA Elements ==
  ASSUME Typed
  PROVE  /\ \A t \in timers : t.copy \in Copies /\ t.copy # Stop
         /\ \A i \in DOMAIN pastes : pastes[i].copy \in Copies
         /\ \A i \in DOMAIN jobs : jobs[i] # Stop => jobs[i] \in Copies
  <1>1. pastes \in Seq(Outcomes) /\ jobs \in Seq(Copies \cup {Stop})
    BY DEF Typed, Played
  <1>2. /\ \A i \in DOMAIN pastes : pastes[i] \in Outcomes
        /\ \A i \in DOMAIN jobs : jobs[i] \in Copies \cup {Stop}
    BY <1>1
  <1>3. \A r \in Outcomes : r.copy \in Copies
    BY DEF Outcomes
  <1>4. \A t \in timers : t.copy \in Copies /\ t.copy # Stop
    BY CopiesAssumption DEF Typed, Played
  <1> QED
    BY <1>2, <1>3, <1>4

\* Steps that bring no request anywhere.
LEMMA OnceKept ==
  ASSUME Typed, Once, setup' = setup, pastes' = pastes, timers' \subseteq timers,
         \A c \in Copies : call[c] = "done" => call'[c] = "done" /\ asked'[c] = asked[c],
         \/ jobs' = jobs /\ paster'.alive = paster.alive /\ (step > 1 => step' > 1)
         \/ jobs' = Append(jobs, Stop) /\ paster'.alive = paster.alive /\ (step > 1 => step' > 1)
         \/ jobs' = <<>>
  PROVE  Once'
  <1>2. /\ \A i \in DOMAIN jobs' : (i \in DOMAIN jobs /\ jobs'[i] = jobs[i]) \/ jobs'[i] = Stop
        /\ \A d : d # Stop /\ Job(d)' => Job(d)
        /\ \A i \in DOMAIN jobs' : paster'.alive = paster.alive /\ (step > 1 => step' > 1)
    <2>1. CASE jobs' = jobs /\ paster'.alive = paster.alive /\ (step > 1 => step' > 1)
      BY <2>1 DEF Job
    <2>2. CASE jobs' = <<>>
      <3>1. DOMAIN jobs' = {}
        BY <2>2
      <3> QED
        BY <3>1 DEF Job
    <2>3. CASE jobs' = Append(jobs, Stop) /\ paster'.alive = paster.alive /\ (step > 1 => step' > 1)
      <3>1. \A i \in DOMAIN jobs' : i \in DOMAIN jobs \/ i = Len(jobs) + 1
        BY <2>3, NewJob
      <3> QED
        BY <2>3, <3>1, NewJob
    <2> QED
      BY <2>1, <2>2, <2>3
  <1>3. \A c : Pasted(c)' <=> Pasted(c)
    BY DEF Pasted
  <1>4. TimersOnce'
    BY Elements, <1>2, <1>3, CopiesAssumption DEF Once, TimersOnce, Expected
  <1>5. JobsOnce'
    <2> SUFFICES ASSUME NEW i \in DOMAIN jobs', jobs'[i] # Stop
                 PROVE  /\ setup'.auto /\ call'[jobs'[i]] = "done"
                        /\ Expected(jobs[i])' = paster'.alive
                        /\ Pasted(jobs[i])' => i = 1 /\ step' > 1
                        /\ \A j \in DOMAIN jobs' : jobs'[j] = jobs'[i] => j = i
      BY Zenon DEF JobsOnce
    <2>1. /\ i \in DOMAIN jobs /\ jobs'[i] = jobs[i] /\ jobs[i] \in Copies
          /\ paster'.alive = paster.alive /\ (step > 1 => step' > 1)
          /\ \A j \in DOMAIN jobs' : jobs'[j] = jobs'[i] => j \in DOMAIN jobs /\ jobs[j] = jobs[i]
      BY Elements, <1>2
    <2>2. /\ setup.auto /\ call[jobs[i]] = "done" /\ Expected(jobs[i]) = paster.alive
          /\ Pasted(jobs[i]) => i = 1 /\ step > 1
          /\ \A j \in DOMAIN jobs : jobs[j] = jobs[i] => j = i
      BY <2>1 DEF Once, JobsOnce
    <2>3. call'[jobs[i]] = "done" /\ Expected(jobs[i])' = Expected(jobs[i])
      BY <2>1, <2>2 DEF Expected
    <2>4. Pasted(jobs[i])' <=> Pasted(jobs[i])
      BY <2>1 DEF Pasted
    <2> QED
      BY <2>1, <2>2, <2>3, <2>4
  <1>6. PastesOnce'
    BY Elements DEF Once, PastesOnce, Expected
  <1> QED
    BY <1>4, <1>5, <1>6 DEF Once

\* The job at the head is over.
LEMMA OncePlayed ==
  ASSUME Typed, Once, UNCHANGED <<setup, call, timers, paster, pastes, asked>>,
         jobs # <<>>, jobs' = Tail(jobs)
  PROVE  Once'
  <1>1. TimersOnce'
    BY PlayedJob DEF Once, TimersOnce, Expected, Pasted
  <1>2. JobsOnce'
    <2> SUFFICES ASSUME NEW i \in DOMAIN jobs', jobs'[i] # Stop
                 PROVE  /\ setup'.auto /\ call'[jobs'[i]] = "done"
                        /\ Expected(jobs[i])' = paster'.alive
                        /\ Pasted(jobs[i])' => i = 1 /\ step' > 1
                        /\ \A j \in DOMAIN jobs' : jobs'[j] = jobs'[i] => j = i
      BY Zenon DEF JobsOnce
    <2>1. /\ i + 1 \in DOMAIN jobs /\ i + 1 # 1 /\ i \in Nat /\ jobs'[i] = jobs[i + 1]
          /\ \A j \in DOMAIN jobs' : j + 1 \in DOMAIN jobs /\ j \in Nat /\ jobs'[j] = jobs[j + 1]
      BY PlayedJob
    <2>2. /\ setup.auto /\ call[jobs[i + 1]] = "done" /\ Expected(jobs[i + 1]) = paster.alive
          /\ ~Pasted(jobs[i + 1])
          /\ \A j \in DOMAIN jobs : jobs[j] = jobs[i + 1] => j = i + 1
      BY <2>1 DEF Once, JobsOnce
    <2>3. Expected(jobs[i])' = Expected(jobs[i + 1]) /\ ~Pasted(jobs[i])'
      BY <2>1, <2>2 DEF Expected, Pasted
    <2>4. \A j \in DOMAIN jobs' : jobs'[j] = jobs'[i] => j = i
      BY <2>1, <2>2
    <2> QED
      BY <2>1, <2>2, <2>3, <2>4
  <1>3. PastesOnce'
    BY DEF Once, PastesOnce, Expected
  <1> QED
    BY <1>1, <1>2, <1>3 DEF Once

\* A timer is set.
LEMMA OnceAsked ==
  ASSUME Typed, Once, NEW c \in Copies, TriggerAutoPaste(c) PROVE Once'
  <1>1. /\ UNCHANGED <<setup, paster, jobs, step, pastes>>
        /\ call[c] = "paste" /\ call' = [call EXCEPT ![c] = "done"]
        /\ asked' = [asked EXCEPT ![c] = paster.tx]
        /\ call \in [Copies -> {"load", "send", "paste", "done"}] /\ asked \in [Copies -> Nat]
    BY DEF TriggerAutoPaste, Advance, NextStep, keyboard, host, Typed, Requests
  <1>2. /\ call'[c] = "done" /\ asked'[c] = paster.tx
        /\ \A d \in Copies : call[d] = "done" => /\ d # c /\ call'[d] = "done"
                                                 /\ Expected(d)' = Expected(d)
    BY <1>1 DEF Expected
  <1>3. ~Pasted(c) /\ ~Job(c)
    <2>1. \A i \in DOMAIN pastes : pastes[i].copy # c
      BY <1>1 DEF Once, PastesOnce
    <2>2. \A i \in DOMAIN jobs : jobs[i] # c
      BY <1>1, CopiesAssumption DEF Once, JobsOnce
    <2> QED
      BY <2>1, <2>2 DEF Pasted, Job
  <1>4. \A t \in timers' \ timers : t.copy = c /\ setup.auto /\ t.to = Expected(c)'
    <2>1. \A r \in Route : r = Expected(c)'
      BY <1>1, <1>2 DEF Route, Expected
    <2> QED
      BY <2>1 DEF TriggerAutoPaste
  <1>5. TimersOnce'
    <2> SUFFICES ASSUME NEW t \in timers'
                 PROVE  /\ setup'.auto /\ call'[t.copy] = "done" /\ t.to = Expected(t.copy)'
                        /\ ~Job(t.copy)' /\ ~Pasted(t.copy)'
      BY Zenon DEF TimersOnce
    <2>1. CASE t \in timers
      BY <1>1, <1>2, <2>1, Elements DEF Once, TimersOnce, Job, Pasted
    <2>2. CASE t \notin timers
      BY <1>1, <1>2, <1>3, <1>4, <2>2 DEF Job, Pasted
    <2> QED
      BY <2>1, <2>2
  <1>6. JobsOnce'
    BY <1>1, <1>2, Elements DEF Once, JobsOnce, Pasted
  <1>7. PastesOnce'
    BY <1>1, <1>2, Elements DEF Once, PastesOnce
  <1> QED
    BY <1>5, <1>6, <1>7 DEF Once

\* No second timer runs for the same copy.
LEMMA OneTimer ==
  ASSUME Typed, Once, NEW t \in timers, NEW u \in timers, u.copy = t.copy PROVE u = t
  <1>1. u.to = t.to
    BY DEF Once, TimersOnce
  <1> QED
    BY <1>1 DEF Typed, Played

\* A timer reaches the paster.
LEMMA OnceFired ==
  ASSUME Typed, Once, NEW t \in timers, Fire(t), t.to = paster.alive PROVE Once'
  <1>1. /\ UNCHANGED <<setup, call, paster, step, pastes, asked>>
        /\ timers' = timers \ {t} /\ jobs' = Append(jobs, t.copy)
    BY DEF Fire, host, history
  <1>2. /\ t.copy \in Copies /\ t.copy # Stop /\ setup.auto /\ call[t.copy] = "done"
        /\ Expected(t.copy) = paster.alive /\ ~Job(t.copy) /\ ~Pasted(t.copy)
    BY Elements DEF Once, TimersOnce
  <1>3. \A u \in timers' : u \in timers /\ u.copy # t.copy
    BY <1>1, OneTimer
  <1>4. TimersOnce'
    <2>1. \A d : Job(d)' <=> Job(d) \/ d = t.copy
      BY <1>1, <1>2, NewJob
    <2> QED
      BY <1>1, <1>3, <2>1 DEF Once, TimersOnce, Expected, Pasted
  <1>5. JobsOnce'
    <2>1. /\ DOMAIN jobs' = 1 .. Len(jobs) + 1 /\ DOMAIN jobs = 1 .. Len(jobs) /\ Len(jobs) \in Nat
          /\ \A i \in DOMAIN jobs : jobs'[i] = jobs[i] /\ jobs[i] # t.copy
          /\ jobs'[Len(jobs) + 1] = t.copy
      BY <1>1, <1>2, NewJob DEF Job
    <2>2. \A d : /\ Pasted(d)' <=> Pasted(d)
                 /\ Expected(d)' = Expected(d)
      BY <1>1 DEF Pasted, Expected
    <2> SUFFICES ASSUME NEW i \in DOMAIN jobs', jobs'[i] # Stop
                 PROVE  /\ setup'.auto /\ call'[jobs'[i]] = "done"
                        /\ Expected(jobs[i])' = paster'.alive
                        /\ Pasted(jobs[i])' => i = 1 /\ step' > 1
                        /\ \A j \in DOMAIN jobs' : jobs'[j] = jobs'[i] => j = i
      BY Zenon DEF JobsOnce
    <2>3. CASE i \in DOMAIN jobs
      <3>1. /\ setup.auto /\ call[jobs[i]] = "done" /\ Expected(jobs[i]) = paster.alive
            /\ Pasted(jobs[i]) => i = 1 /\ step > 1
            /\ \A j \in DOMAIN jobs : jobs[j] = jobs[i] => j = i
        BY <2>1, <2>3 DEF Once, JobsOnce
      <3>2. \A j \in DOMAIN jobs' : jobs'[j] = jobs'[i] => j = i
        BY <2>1, <2>3, <3>1
      <3>3. Expected(jobs[i])' = Expected(jobs[i]) /\ (Pasted(jobs[i])' <=> Pasted(jobs[i]))
        BY <1>1, <2>1, <2>3 DEF Expected, Pasted
      <3> QED
        BY <1>1, <2>1, <2>3, <3>1, <3>2, <3>3
    <2>4. CASE i = Len(jobs) + 1
      <3>1. \A j \in DOMAIN jobs' : jobs'[j] = jobs'[i] => j = i
        BY <2>1, <2>4
      <3>2. Expected(jobs[i])' = Expected(t.copy) /\ ~Pasted(jobs[i])'
        BY <1>1, <1>2, <2>1, <2>4 DEF Expected, Pasted
      <3> QED
        BY <1>1, <1>2, <2>1, <2>4, <3>1, <3>2
    <2> QED
      BY <2>1, <2>3, <2>4
  <1>6. PastesOnce'
    BY <1>1 DEF Once, PastesOnce, Expected
  <1> QED
    BY <1>4, <1>5, <1>6 DEF Once

\* A request that is not pasted yet pastes, by its way.
LEMMA OncePasted ==
  ASSUME Typed, Once, UNCHANGED <<setup, call, paster, jobs, asked>>, timers' \subseteq timers,
         NEW c \in Copies, setup.auto, call[c] = "done", ~Pasted(c),
         NEW by \in Nat \cup {Command}, by = Expected(c), pastes' = Paste(c, by),
         \A t \in timers' : t.copy # c,
         step > 1 => step' > 1,
         \A i \in DOMAIN jobs : jobs[i] = c => i = 1 /\ step' > 1
  PROVE  Once'
  <1>1. \A d : (Pasted(d)' <=> Pasted(d) \/ d = c) /\ Expected(d)' = Expected(d)
               /\ (Job(d)' <=> Job(d))
    BY NewPaste DEF Expected, Job
  <1>2. TimersOnce'
    BY <1>1 DEF Once, TimersOnce
  <1>3. JobsOnce'
    BY <1>1 DEF Once, JobsOnce
  <1>4. PastesOnce'
    <2>1. /\ DOMAIN pastes' = 1 .. Len(pastes) + 1 /\ DOMAIN pastes = 1 .. Len(pastes)
          /\ Len(pastes) \in Nat
          /\ \A i \in DOMAIN pastes : pastes'[i] = pastes[i] /\ pastes[i].copy # c
          /\ pastes'[Len(pastes) + 1].copy = c /\ pastes'[Len(pastes) + 1].by = Expected(c)
      <3>1. DOMAIN pastes = 1 .. Len(pastes) /\ Len(pastes) \in Nat
        BY DEF Typed, Played
      <3>2. \A i \in DOMAIN pastes : pastes[i].copy # c
        BY DEF Pasted
      <3>3. /\ DOMAIN pastes' = 1 .. Len(pastes) + 1
            /\ \A i \in DOMAIN pastes : pastes'[i] = pastes[i]
            /\ pastes'[Len(pastes) + 1] = [copy |-> c, by |-> by, got |-> owner,
                                              late |-> c \in InFlight]
        BY NewPaste
      <3> QED
        BY <3>1, <3>2, <3>3
    <2> SUFFICES ASSUME NEW i \in DOMAIN pastes'
                 PROVE  /\ setup'.auto /\ call'[pastes'[i].copy] = "done"
                        /\ pastes'[i].by = Expected(pastes[i].copy)'
                        /\ \A j \in DOMAIN pastes' : pastes'[j].copy = pastes'[i].copy => j = i
      BY Zenon DEF PastesOnce
    <2>2. CASE i \in DOMAIN pastes
      BY <1>1, <2>1, <2>2 DEF Once, PastesOnce, Expected
    <2>3. CASE i = Len(pastes) + 1
      <3>1. \A j \in DOMAIN pastes' : pastes'[j].copy = pastes'[i].copy => j = i
        BY <2>1, <2>3
      <3>2. pastes'[i].by = Expected(pastes[i].copy)'
        BY <2>1, <2>3 DEF Expected
      <3> QED
        BY <2>1, <2>3, <3>1, <3>2
    <2> QED
      BY <2>1, <2>2, <2>3
  <1> QED
    BY <1>2, <1>3, <1>4 DEF Once

\* Every step keeps each request in one place.
LEMMA OnceStep ==
  ASSUME Typed, Keyboard, Once, [Next]_vars PROVE Once'
  <1> USE DEF host, clipboard, keyboard, history
  <1>0. /\ call \in [Copies -> {"load", "send", "paste", "done"}]
        /\ paster.alive = NoChild => jobs = <<>>
        /\ step \in 0 .. 3
    BY DEF Typed, Requests, Played, Keyboard, Attached
  <1>1. CASE UNCHANGED vars \/ Ended
    BY <1>1, OnceKept DEF vars, Ended
  <1>2. ASSUME NEW c \in Copies, Load(c) \/ LoadNothing(c) \/ SendToClipboard(c) PROVE Once'
    <2>1. UNCHANGED <<setup, timers, paster, jobs, step, pastes, asked>>
      BY <1>2 DEF Load, LoadNothing, SendToClipboard
    <2>2. \A d \in Copies : call[d] = "done" => call'[d] = "done"
      BY <1>0, <1>2 DEF Load, LoadNothing, SendToClipboard, Advance
    <2> QED
      BY <2>1, <2>2, OnceKept
  <1>3. ASSUME NEW c \in Copies, TriggerAutoPaste(c) PROVE Once'
    BY <1>3, OnceAsked
  <1>4. CASE HandleSet \/ ClipStops \/ Claiming \/ (\E t \in claims : ClaimFails(t)) \/ ClipDies
             \/ (\E s \in Selections : AppCopies(s)) \/ ClipExited \/ RestartClip
    <2>1. UNCHANGED <<setup, call, timers, paster, jobs, step, pastes, asked>>
      BY <1>4
         DEF HandleSet, ClipStops, Claiming, ClaimRegular, ClaimPrimary, StartXclip, XclipOwns,
           ClaimFails, ClipDies, AppCopies, ClipExited, RestartClip
    <2> QED
      BY <2>1, OnceKept
  <1>5. ASSUME NEW t \in timers, Fire(t) PROVE Once'
    <2>1. CASE t.to = paster.alive
      BY <1>5, <2>1, OnceFired
    <2>2. CASE t.to # paster.alive
      <3>1. /\ UNCHANGED <<setup, call, paster, jobs, step, pastes, asked>>
            /\ timers' \subseteq timers
        BY <1>5, <2>2 DEF Fire
      <3> QED
        BY <3>1, OnceKept
    <2> QED
      BY <2>1, <2>2
  <1>6. ASSUME NEW t \in timers, RunCommand(t) PROVE Once'
    <2>1. /\ UNCHANGED <<setup, call, paster, jobs, step, asked>>
          /\ timers' = timers \ {t} /\ t.to = Command
          /\ pastes' = pastes \/ pastes' = Paste(t.copy, Command)
      BY <1>6 DEF RunCommand
    <2>2. /\ t.copy \in Copies /\ setup.auto /\ call[t.copy] = "done" /\ ~Pasted(t.copy)
          /\ Command = Expected(t.copy) /\ ~Job(t.copy) /\ Command \in Nat \cup {Command}
      BY <2>1, Elements DEF Once, TimersOnce
    <2>3. \A u \in timers' : u.copy # t.copy
      BY <2>1, OneTimer
    <2>4. \A i \in DOMAIN jobs : jobs[i] # t.copy
      BY <2>2 DEF Job
    <2>5. CASE pastes' = pastes
      BY <2>1, <2>5, OnceKept
    <2>6. CASE pastes' = Paste(t.copy, Command)
      BY <2>1, <2>2, <2>3, <2>4, <2>6, OncePasted
    <2> QED
      BY <2>1, <2>5, <2>6
  <1>7. CASE EmitEvent
    <2>1. /\ UNCHANGED <<setup, call, timers, paster, asked>>
          /\ jobs # <<>> /\ Head(jobs) \in Copies /\ Head(jobs) # Stop
      BY <1>7, OneEvent, CopiesAssumption DEF EmitEvent
    <2>2. CASE step \in {0, 2} \/ (step = 1 /\ pastes' = pastes)
      <3>1. jobs' = jobs /\ pastes' = pastes /\ (step > 1 => step' > 1)
        BY <1>7, <2>2, OneEvent
      <3> QED
        BY <2>1, <3>1, OnceKept
    <2>3. CASE step = 1 /\ pastes' # pastes
      <3>1. /\ jobs' = jobs /\ step' = 2 /\ pastes' = Paste(Head(jobs), paster.alive)
        BY <1>7, <2>3, OneEvent
      <3>2. /\ 1 \in DOMAIN jobs /\ jobs[1] = Head(jobs) /\ paster.alive \in Nat
        BY <2>1 DEF Typed, Played, Slots, SlotOK
      <3>3. /\ setup.auto /\ call[Head(jobs)] = "done" /\ Expected(Head(jobs)) = paster.alive
            /\ ~Pasted(Head(jobs))
            /\ \A j \in DOMAIN jobs : jobs[j] = Head(jobs) => j = 1
        BY <2>1, <2>3, <3>2 DEF Once, JobsOnce
      <3>4. \A t \in timers : t.copy # Head(jobs)
        BY <3>2 DEF Once, TimersOnce, Job
      <3> QED
        BY <2>1, <3>1, <3>2, <3>3, <3>4, OncePasted
    <2>4. CASE step = 3
      <3>1. jobs' = Tail(jobs) /\ pastes' = pastes
        BY <1>7, <2>4, OneEvent
      <3> QED
        BY <2>1, <3>1, OncePlayed
    <2> QED
      BY <1>0, <2>2, <2>3, <2>4
  <1>8. CASE EmitFails
    <2>1. /\ UNCHANGED <<setup, call, timers, paster, pastes, asked>>
          /\ jobs # <<>> /\ jobs' = Tail(jobs)
      BY <1>8 DEF EmitFails
    <2> QED
      BY <2>1, OncePlayed
  <1>9. CASE PasterReady \/ PasterExited
    <2>1. /\ UNCHANGED <<setup, call, timers, jobs, step, pastes, asked>>
          /\ paster'.alive = paster.alive
      BY <1>9 DEF PasterReady, PasterExited, Typed, Slots, SlotOK
    <2> QED
      BY <2>1, OnceKept
  <1>10. CASE PasterStops \/ PasterDies \/ RestartPaster
    <2>1. UNCHANGED <<setup, call, timers, pastes, asked>> /\ jobs' = <<>>
      BY <1>0, <1>10
         DEF PasterStops, PasterDies, PasterGone, RestartPaster, Keyboard, Attached
    <2> QED
      BY <2>1, OnceKept
  <1>11. CASE Shutdown
    <2>1. /\ UNCHANGED <<setup, call, paster, step, pastes, asked>> /\ timers' = {}
          /\ jobs' = jobs \/ jobs' = Append(jobs, Stop)
      BY <1>11 DEF Shutdown
    <2> QED
      BY <2>1, OnceKept
  <1> QED
    BY <1>1, <1>2, <1>3, <1>4, <1>5, <1>6, <1>7, <1>8, <1>9, <1>10, <1>11
       DEF Next, CopyEntry, Timers, Playing

-----------------------------------------------------------------------------
(* What is pasted                                                          *)

\* What takes a copy to its paste.
LEMMA GoingWaits ==
  ASSUME NEW c \in Copies, Going(c) PROVE c \in Waiting
  BY DEF Going, Timed, Job, Waiting, ToSet

\* Steps that ask for nothing.
LEMMA GoingKept ==
  ASSUME Typed, NEW c \in Copies, Going(c)', call'[c] = "paste" => call[c] = "paste",
         timers' \subseteq timers,
         \/ jobs' = jobs \/ jobs' = <<>> \/ (jobs # <<>> /\ jobs' = Tail(jobs))
         \/ jobs' = Append(jobs, Stop) \/ \E t \in timers : jobs' = Append(jobs, t.copy),
         pastes' = pastes \/ \E r \in Outcomes : pastes' = Append(pastes, r)
  PROVE  Going(c)
  <1>1. Timed(c)' => Timed(c)
    BY DEF Timed
  <1>2. Job(c)' => Job(c) \/ Timed(c)
    <2>1. CASE jobs' = jobs
      BY <2>1 DEF Job
    <2>2. CASE jobs' = <<>>
      <3>1. DOMAIN jobs' = {}
        BY <2>2
      <3> QED
        BY <3>1 DEF Job
    <2>3. CASE jobs # <<>> /\ jobs' = Tail(jobs)
      BY <2>3, PlayedJob
    <2>4. CASE jobs' = Append(jobs, Stop)
      BY <2>4, NewJob, CopiesAssumption
    <2>5. CASE \E t \in timers : jobs' = Append(jobs, t.copy)
      BY <2>5, NewJob, Elements DEF Timed
    <2> QED
      BY <2>1, <2>2, <2>3, <2>4, <2>5
  <1>3. Pasted(c) => Pasted(c)'
    BY PastedStays
  <1>4. Timed(c) /\ Job(c)' => Going(c)
    BY DEF Going
  <1> QED
    BY <1>1, <1>2, <1>3 DEF Going

\* Only the request makes a copy going.
LEMMA GoingStays ==
  ASSUME Typed, Once, [Next]_vars, NEW c \in Copies, Going(c)'
  PROVE  Going(c) \/ SendToClipboard(c)
  <1> USE DEF host, clipboard, keyboard, history
  <1>0. call \in [Copies -> {"load", "send", "paste", "done"}]
    BY DEF Typed, Requests
  <1>1. CASE UNCHANGED vars \/ Ended
    BY <1>1, GoingKept DEF vars, Ended
  <1>2. ASSUME NEW d \in Copies, Load(d) \/ LoadNothing(d) \/ (SendToClipboard(d) /\ d # c)
        PROVE  Going(c)
    <2>1. UNCHANGED <<timers, jobs, pastes>>
      BY <1>2 DEF Load, LoadNothing, SendToClipboard
    <2>2. call'[c] = "paste" => call[c] = "paste"
      BY <1>0, <1>2 DEF Load, LoadNothing, SendToClipboard, Advance, NextStep
    <2> QED
      BY <2>1, <2>2, GoingKept
  <1>3. ASSUME NEW d \in Copies, TriggerAutoPaste(d) PROVE Going(c)
    <2>1. /\ UNCHANGED <<jobs, pastes>> /\ call[d] = "paste" /\ call'[d] = "done"
          /\ \A e \in Copies \ {d} : call'[e] = call[e]
          /\ \A t \in timers' \ timers : t.copy = d
      BY <1>0, <1>3 DEF TriggerAutoPaste, Advance, NextStep
    <2>2. (Job(c)' <=> Job(c)) /\ (Pasted(c)' <=> Pasted(c))
      BY <2>1 DEF Job, Pasted
    <2>3. Timed(c)' => Timed(c) \/ c = d
      BY <2>1 DEF Timed
    <2> QED
      BY <2>1, <2>2, <2>3 DEF Going
  <1>4. CASE HandleSet \/ ClipStops \/ Claiming \/ (\E t \in claims : ClaimFails(t)) \/ ClipDies
             \/ (\E s \in Selections : AppCopies(s)) \/ ClipExited \/ RestartClip
             \/ PasterReady \/ PasterExited \/ RestartPaster
    <2>1. UNCHANGED <<call, timers, jobs, pastes>>
      BY <1>4
         DEF HandleSet, ClipStops, Claiming, ClaimRegular, ClaimPrimary, StartXclip, XclipOwns,
           ClaimFails, ClipDies, AppCopies, ClipExited, RestartClip, PasterReady, PasterExited,
           RestartPaster
    <2> QED
      BY <2>1, GoingKept
  <1>5. ASSUME NEW t \in timers, Fire(t) PROVE Going(c)
    <2>1. /\ UNCHANGED <<call, pastes>> /\ timers' \subseteq timers
          /\ jobs' = jobs \/ jobs' = Append(jobs, t.copy)
      BY <1>5 DEF Fire
    <2> QED
      BY <2>1, GoingKept
  <1>6. ASSUME NEW t \in timers, RunCommand(t) PROVE Going(c)
    <2>1. /\ UNCHANGED <<call, jobs>> /\ timers' \subseteq timers
          /\ pastes' = pastes \/ pastes' = Paste(t.copy, Command)
      BY <1>6 DEF RunCommand
    <2>2. t.copy \in Copies /\ Command \in Nat \cup {Command}
      BY Elements
    <2> QED
      BY <2>1, <2>2, NewPaste, GoingKept
  <1>7. CASE EmitEvent
    <2>1. /\ UNCHANGED <<call, timers>> /\ jobs # <<>> /\ Head(jobs) \in Copies
          /\ jobs' = jobs \/ jobs' = Tail(jobs)
          /\ pastes' = pastes \/ pastes' = Paste(Head(jobs), paster.alive)
      BY <1>7, OneEvent DEF EmitEvent
    <2>2. paster.alive \in Nat \cup {Command}
      BY DEF Typed, Slots, SlotOK
    <2> QED
      BY <2>1, <2>2, NewPaste, GoingKept
  <1>8. CASE EmitFails \/ PasterStops \/ PasterDies \/ Shutdown
    <2>1. /\ UNCHANGED <<call, pastes>> /\ timers' \subseteq timers
          /\ \/ jobs' = jobs \/ jobs' = <<>> \/ (jobs # <<>> /\ jobs' = Tail(jobs))
             \/ jobs' = Append(jobs, Stop)
      BY <1>8 DEF EmitFails, PasterStops, PasterDies, PasterGone, Shutdown
    <2> QED
      BY <2>1, GoingKept
  <1> QED
    BY <1>1, <1>2, <1>3, <1>4, <1>5, <1>6, <1>7, <1>8 DEF Next, CopyEntry, Timers, Playing

\* Copies on their way to a selection, one by one.
LEMMA Flying ==
  ASSUME Typed
  PROVE  \A c : c \in InFlight <=> \/ c \in Copies /\ \E i \in DOMAIN frames : frames[i] = c
                                   \/ \E t \in claims : t.copy = c
  BY DEF InFlight, ToSet

\* A claim is of a copy that is in flight.
LEMMA ClaimFlies ==
  ASSUME Typed, NEW t \in claims
  PROVE  /\ t.copy \in Copies /\ t.copy \in InFlight
         /\ t = [copy |-> t.copy, at |-> t.at]
  BY DEF Typed, Selected, Claims, InFlight

\* Sending, taking a frame, and stopping.
LEMMA FlyingFrames ==
  ASSUME Typed, Typed'
  PROVE  /\ \A c \in Copies : claims' = claims /\ frames' = Append(frames, c)
                                => InFlight' = InFlight \cup {c}
         /\ claims' = claims /\ frames' = Append(frames, Stop) => InFlight' = InFlight
         /\ HandleSet => InFlight' = InFlight
         /\ claims' \subseteq claims /\ (frames' = frames \/ frames' = <<>>)
              => InFlight' \subseteq InFlight
  <1>1. frames \in Seq(Copies \cup {Stop}) /\ claims \subseteq Claims
    BY DEF Typed, Selected
  <1>2. \A e \in Copies \cup {Stop} : frames' = Append(frames, e) =>
          \A c : (\E i \in DOMAIN frames' : frames'[i] = c)
                   <=> (\E i \in DOMAIN frames : frames[i] = c) \/ c = e
    <2> SUFFICES ASSUME NEW e \in Copies \cup {Stop}, frames' = Append(frames, e), NEW c
                 PROVE  (\E i \in DOMAIN frames' : frames'[i] = c)
                          <=> (\E i \in DOMAIN frames : frames[i] = c) \/ c = e
      OBVIOUS
    <2>1. /\ \A i \in DOMAIN frames : i \in DOMAIN frames' /\ frames'[i] = frames[i]
          /\ Len(frames) + 1 \in DOMAIN frames' /\ frames'[Len(frames) + 1] = e
          /\ \A i \in DOMAIN frames' : i \in DOMAIN frames \/ i = Len(frames) + 1
      BY <1>1
    <2> QED
      BY <2>1
  <1>3. ASSUME NEW c \in Copies, claims' = claims, frames' = Append(frames, c)
        PROVE  InFlight' = InFlight \cup {c}
    BY <1>2, <1>3, Flying DEF InFlight, ToSet
  <1>4. ASSUME claims' = claims, frames' = Append(frames, Stop) PROVE InFlight' = InFlight
    BY <1>2, <1>4, CopiesAssumption DEF InFlight, ToSet
  <1>5. ASSUME HandleSet PROVE InFlight' = InFlight
    <2>1. /\ frames # <<>> /\ Head(frames) \in Copies /\ frames' = Tail(frames)
          /\ claims' = claims \cup {[copy |-> Head(frames), at |-> "thread"]}
      BY <1>1, <1>5 DEF HandleSet
    <2>2. \A c : (\E i \in DOMAIN frames : frames[i] = c)
                   <=> (\E i \in DOMAIN frames' : frames'[i] = c) \/ c = Head(frames)
      <3>1. /\ 1 \in DOMAIN frames /\ frames[1] = Head(frames)
            /\ \A i \in DOMAIN frames' : i + 1 \in DOMAIN frames /\ frames'[i] = frames[i + 1]
            /\ \A i \in DOMAIN frames : i # 1 => i - 1 \in DOMAIN frames' /\ frames'[i - 1] = frames[i]
        BY <1>1, <2>1
      <3> QED
        BY <3>1
    <2>3. ToSet(frames) = ToSet(frames') \cup {Head(frames)}
      <3>1. \A c : /\ c \in ToSet(frames) <=> \E i \in DOMAIN frames : frames[i] = c
                   /\ c \in ToSet(frames') <=> \E i \in DOMAIN frames' : frames'[i] = c
        BY DEF ToSet
      <3>2. \A c : c \in ToSet(frames) <=> c \in ToSet(frames') \cup {Head(frames)}
        BY <2>2, <3>1
      <3> QED
        BY <3>2
    <2>4. \A c : (\E t \in claims' : t.copy = c) <=> (\E t \in claims : t.copy = c) \/ c = Head(frames)
      <3>1. PICK r : r = [copy |-> Head(frames), at |-> "thread"]
        OBVIOUS
      <3>2. r.copy = Head(frames) /\ claims' = claims \cup {r}
        BY <2>1, <3>1
      <3> QED
        BY <3>2
    <2>5. \A c : c \in InFlight' <=> c \in InFlight
      BY <2>1, <2>3, <2>4 DEF InFlight
    <2> QED
      BY <2>5 DEF InFlight
  <1>6. ASSUME claims' \subseteq claims, frames' = frames \/ frames' = <<>>
        PROVE  InFlight' \subseteq InFlight
    <2>1. ToSet(frames') \subseteq ToSet(frames)
      <3>1. DOMAIN <<>> = {}
        OBVIOUS
      <3> QED
        BY <1>6, <3>1 DEF ToSet
    <2> QED
      BY <1>6, <2>1 DEF InFlight
  <1> QED
    BY <1>3, <1>4, <1>5, <1>6

\* xclip runs on X11 only.
LEMMA OnX11Step == OnX11 /\ [Next]_vars => OnX11'
  <1> SUFFICES ASSUME OnX11, [Next]_vars PROVE OnX11'
    OBVIOUS
  <1> USE DEF host, clipboard, keyboard, history
  <1>1. setup' = setup
    BY DEF Next, vars, CopyEntry, Load, LoadNothing, SendToClipboard, TriggerAutoPaste,
       HandleSet, Claiming, ClaimRegular, ClaimPrimary, StartXclip, XclipOwns, Timers, Fire,
       RunCommand, ClaimFails, AppCopies, EmitFails, EmitEvent, Shutdown, ClipStops, ClipDies,
       ClipExited, RestartClip, PasterReady, PasterStops, PasterDies, PasterExited,
       RestartPaster, Ended, Playing
  <1>2. CASE HandleSet
    BY <1>1, <1>2 DEF HandleSet, OnX11
  <1>3. ASSUME NEW t \in claims,
               ClaimRegular(t) \/ ClaimPrimary(t) \/ StartXclip(t) \/ XclipOwns(t) \/ ClaimFails(t)
        PROVE  OnX11'
    <2>1. \A u \in claims' : u \in claims \/ u.at # "xclip" \/ setup.platform = "x11"
      <3>1. CASE StartXclip(t)
        BY <3>1 DEF StartXclip
      <3>2. CASE ClaimRegular(t)
        <4>1. claims' = (claims \ {t}) \cup {[t EXCEPT !.at = "primary"]} /\ t.at = "thread"
          BY <3>2 DEF ClaimRegular, Landed
        <4>2. \A u \in claims' : u \in claims \/ u = [t EXCEPT !.at = "primary"]
          BY <4>1
        <4>3. [t EXCEPT !.at = "primary"].at = t.at \/ [t EXCEPT !.at = "primary"].at = "primary"
          OBVIOUS
        <4> QED
          BY <4>1, <4>2, <4>3
      <3>3. CASE ClaimPrimary(t) \/ XclipOwns(t) \/ ClaimFails(t)
        BY <3>3 DEF ClaimPrimary, XclipOwns, ClaimFails, Landed
      <3> QED
        BY <1>3, <3>1, <3>2, <3>3
    <2> QED
      BY <1>1, <2>1 DEF OnX11
  <1>4. CASE ClipStops \/ ClipDies
    BY <1>1, <1>4 DEF ClipStops, ClipDies, ClipGone, OnX11
  <1>5. CASE CopyEntry \/ Timers \/ Playing \/ EmitFails \/ PasterDies \/ Shutdown \/ Ended
             \/ (\E s \in Selections : AppCopies(s)) \/ ClipExited \/ RestartClip
             \/ PasterExited \/ RestartPaster \/ UNCHANGED vars
    <2>1. claims' = claims
      BY <1>5
         DEF CopyEntry, Load, LoadNothing, SendToClipboard, TriggerAutoPaste, Timers, Fire,
           RunCommand, Playing, PasterReady, EmitEvent, PasterStops, EmitFails, PasterDies,
           Shutdown, Ended, AppCopies, ClipExited, RestartClip, PasterExited, RestartPaster, vars
    <2> QED
      BY <1>1, <2>1 DEF OnX11
  <1> QED
    BY <1>2, <1>3, <1>4, <1>5 DEF Next, Claiming

\* What a step does to the copies in flight.
LEMMA FlyingStep ==
  ASSUME Typed, Typed', [Next]_vars
  PROVE  \/ InFlight' \subseteq InFlight
         \/ \E c \in Copies : SendToClipboard(c) /\ InFlight' \subseteq InFlight \cup {c}
  <1> USE DEF host, clipboard, keyboard, history
  <1>1. ASSUME NEW c \in Copies, SendToClipboard(c) PROVE InFlight' \subseteq InFlight \cup {c}
    <2>1. claims' = claims /\ (frames' = frames \/ frames' = Append(frames, c))
      BY <1>1 DEF SendToClipboard
    <2> QED
      BY <2>1, FlyingFrames
  <1>2. CASE HandleSet
    BY <1>2, FlyingFrames
  <1>3. ASSUME NEW t \in claims,
               ClaimRegular(t) \/ ClaimPrimary(t) \/ StartXclip(t) \/ XclipOwns(t) \/ ClaimFails(t)
        PROVE  InFlight' \subseteq InFlight
    <2>1. /\ frames' = frames
          /\ \A u \in claims' : u \in claims \/ u = [t EXCEPT !.at = "primary"]
                                \/ u = [t EXCEPT !.at = "xclip"]
      BY <1>3 DEF ClaimRegular, ClaimPrimary, StartXclip, XclipOwns, ClaimFails, Landed
    <2>2. /\ [t EXCEPT !.at = "primary"].copy = t.copy
          /\ [t EXCEPT !.at = "xclip"].copy = t.copy
      BY ClaimFlies
    <2>3. \A u \in claims' : \E v \in claims : v.copy = u.copy
      BY <2>1, <2>2
    <2> QED
      BY <2>1, <2>3 DEF InFlight
  <1>4. CASE ClipStops \/ ClipDies
    <2>1. claims' \subseteq claims /\ frames' = <<>>
      BY <1>4 DEF ClipStops, ClipDies, ClipGone
    <2> QED
      BY <2>1, FlyingFrames
  <1>5. CASE Shutdown
    <2>1. claims' = claims /\ (frames' = frames \/ frames' = Append(frames, Stop))
      BY <1>5 DEF Shutdown
    <2> QED
      BY <2>1, FlyingFrames
  <1>6. CASE (\E c \in Copies : Load(c) \/ LoadNothing(c) \/ TriggerAutoPaste(c)) \/ Timers
             \/ Playing \/ EmitFails \/ PasterDies \/ Ended \/ (\E s \in Selections : AppCopies(s))
             \/ ClipExited \/ RestartClip \/ PasterExited \/ RestartPaster \/ UNCHANGED vars
    <2>1. claims' = claims /\ frames' = frames
      BY <1>6
         DEF Load, LoadNothing, TriggerAutoPaste, Timers, Fire, RunCommand, Playing, PasterReady,
           EmitEvent, PasterStops, EmitFails, PasterDies, Ended, AppCopies, ClipExited,
           RestartClip, PasterExited, RestartPaster, vars
    <2> QED
      BY <2>1 DEF InFlight
  <1> QED
    BY <1>1, <1>2, <1>3, <1>4, <1>5, <1>6 DEF Next, CopyEntry, Claiming

\* No claim is under way before it is asked for.
LEMMA UnsentStep ==
  ASSUME Typed, Typed', Unsent, [Next]_vars PROVE Unsent'
  <1> USE DEF host, clipboard, keyboard, history
  <1>0. call \in [Copies -> {"load", "send", "paste", "done"}]
    BY DEF Typed, Requests
  <1> SUFFICES ASSUME NEW c \in Copies, call'[c] \in {"load", "send"} PROVE c \notin InFlight'
    BY DEF Unsent
  <1>1. call[c] \in {"load", "send"}
    <2>1. CASE call' = call
      BY <2>1
    <2>2. ASSUME NEW d \in Copies,
                 Load(d) \/ LoadNothing(d) \/ SendToClipboard(d) \/ TriggerAutoPaste(d)
          PROVE  call[c] \in {"load", "send"}
      BY <1>0, <2>2
         DEF Load, LoadNothing, SendToClipboard, TriggerAutoPaste, Advance, NextStep
    <2>3. call' = call \/ CopyEntry
      BY DEF Next, vars, HandleSet, Claiming, ClaimRegular, ClaimPrimary, StartXclip, XclipOwns,
         Timers, Fire, RunCommand, ClaimFails, AppCopies, EmitFails, EmitEvent, Shutdown,
         ClipStops, ClipDies, ClipExited, RestartClip, PasterReady, PasterStops, PasterDies,
         PasterExited, RestartPaster, Ended, Playing
    <2> QED
      BY <2>1, <2>2, <2>3 DEF CopyEntry
  <1>2. ~SendToClipboard(c)
    BY <1>0 DEF SendToClipboard, Advance, NextStep
  <1>3. c \notin InFlight
    BY <1>1 DEF Unsent
  <1> QED
    BY <1>2, <1>3, FlyingStep

\* What is missed stays missed; what raced with a copy is not forgotten, but
\* for the moment of its request.
LEMMA HistoryGrows ==
  ASSUME Typed, [Next]_vars
  PROVE  /\ missed \subseteq missed'
         /\ \A c \in Copies : call[c] # "send" => rivals[c] \subseteq rivals'[c]
  <1> USE DEF host, clipboard, keyboard, history
  <1>0. rivals \in [Copies -> SUBSET (Copies \cup {Nobody, App})]
    BY DEF Typed, Requests
  <1>1. \A x : \A c \in Copies : rivals[c] \subseteq Raced(x)[c]
    BY DEF Raced
  <1>2. ASSUME NEW c \in Copies, SendToClipboard(c)
        PROVE  /\ missed \subseteq missed'
               /\ \A d \in Copies : d # c => rivals[d] \subseteq rivals'[d]
               /\ call[c] = "send"
    <2>1. \A d \in Copies : d # c => [Raced(c) EXCEPT ![c] = InFlight][d] = Raced(c)[d]
      BY DEF Raced
    <2>2. rivals' = rivals \/ rivals' = [Raced(c) EXCEPT ![c] = InFlight]
      BY <1>2 DEF SendToClipboard
    <2> QED
      BY <1>1, <1>2, <2>1, <2>2 DEF SendToClipboard, Advance
  <1>3. CASE ClipStops \/ ClipDies \/ \E s \in Selections : AppCopies(s)
    <2>1. /\ missed \subseteq missed' 
          /\ rivals' \in {rivals, Raced(Nobody), Raced(App)}
      BY <1>3 DEF ClipStops, ClipDies, ClipGone, AppCopies
    <2> QED
      BY <1>1, <2>1
  <1>4. CASE rivals' = rivals /\ missed \subseteq missed'
    BY <1>4
  <1>5. \/ rivals' = rivals /\ missed \subseteq missed'
        \/ \E c \in Copies : SendToClipboard(c)
        \/ ClipStops \/ ClipDies \/ \E s \in Selections : AppCopies(s)
    BY DEF Next, vars, CopyEntry, Load, LoadNothing, TriggerAutoPaste, HandleSet, Claiming,
       ClaimRegular, ClaimPrimary, StartXclip, XclipOwns, Timers, Fire, RunCommand, ClaimFails,
       EmitFails, EmitEvent, Shutdown, ClipExited, RestartClip, PasterReady, PasterStops,
       PasterDies, PasterExited, RestartPaster, Ended, Playing
  <1> QED
    BY <1>2, <1>3, <1>4, <1>5

\* The frame is sent: what is under way races with it.
LEMMA FreshSent ==
  ASSUME Typed, Typed', Unsent, NEW c \in Copies, SendToClipboard(c), c \notin missed'
  PROVE  Fresh(c)'
  <1>1. /\ frames' = Append(frames, c) /\ claims' = claims
        /\ rivals' = [Raced(c) EXCEPT ![c] = InFlight] /\ call[c] = "send"
    BY DEF SendToClipboard, Advance
  <1>2. InFlight' = InFlight \cup {c}
    BY <1>1, FlyingFrames
  <1>3. rivals'[c] = InFlight
    BY <1>1 DEF Raced
  <1>4. \A t \in claims' : t.copy # c
    BY <1>1, ClaimFlies DEF Unsent
  <1> QED
    BY <1>2, <1>3, <1>4 DEF Fresh, Recent

\* A claim thread moves on.
LEMMA FreshClaims ==
  ASSUME Typed, Typed', OnX11, NEW c \in Copies, Fresh(c), NEW t \in claims, c \notin missed',
         ClaimRegular(t) \/ ClaimPrimary(t) \/ StartXclip(t) \/ XclipOwns(t) \/ ClaimFails(t),
         InFlight' \subseteq InFlight
  PROVE  Fresh(c)'
  <1> USE DEF host, clipboard, keyboard, history
  <1>1. /\ t.copy \in Recent(c) /\ c \in Recent(c) /\ Recent(c)' = Recent(c)
        /\ InFlight' \subseteq Recent(c) /\ setup' = setup
        /\ \A u \in claims : u.copy = c /\ u.at = "primary" => owner["clipboard"] \in Recent(c)
        /\ owner \in [Selections -> Copies \cup {Nobody, App}]
        /\ "clipboard" \in Selections /\ "primary" \in Selections
        /\ "clipboard" # "primary"
    <2>1. owner \in [Selections -> Copies \cup {Nobody, App}]
      BY DEF Typed, Selected, Owners
    <2>2. setup' = setup /\ rivals' = rivals
      BY DEF ClaimRegular, ClaimPrimary, StartXclip, XclipOwns, ClaimFails
    <2> QED
      BY <2>1, <2>2, ClaimFlies DEF Fresh, Recent, Selections
  <1>2. t = [copy |-> t.copy, at |-> t.at]
    BY ClaimFlies
  <1>3. CASE t.copy # c
    <2>1. /\ [t EXCEPT !.at = "primary"].copy = t.copy /\ [t EXCEPT !.at = "xclip"].copy = t.copy
      BY <1>2
    <2>2. /\ \A u \in claims' : u.copy = c => u \in claims
          /\ \A u \in claims : u.copy = c => u \in claims'
          /\ frames' = frames
      BY <1>3, <2>1
         DEF ClaimRegular, ClaimPrimary, StartXclip, XclipOwns, ClaimFails, Landed
    <2>3. c \in InFlight' <=> c \in InFlight
      BY <2>2, Flying DEF InFlight
    <2>4. \A s \in Selections : owner'[s] = owner[s] \/ owner'[s] = t.copy
      BY <1>1 DEF ClaimRegular, ClaimPrimary, StartXclip, XclipOwns, ClaimFails
    <2> QED
      BY <1>1, <2>2, <2>3, <2>4 DEF Fresh
  <1>4. CASE t.copy = c
    <2>1. CASE ClaimRegular(t)
      <3>1. owner'["clipboard"] = c
        BY <1>1, <1>4, <2>1 DEF ClaimRegular
      <3>2. [t EXCEPT !.at = "primary"] \in claims' /\ [t EXCEPT !.at = "primary"].copy = c
        BY <1>2, <1>4, <2>1 DEF ClaimRegular, Landed
      <3>3. c \in InFlight'
        BY <3>2 DEF InFlight
      <3> QED
        BY <1>1, <3>1, <3>3 DEF Fresh
    <2>2. CASE StartXclip(t)
      <3>1. /\ owner' = owner /\ claims' = (claims \ {t}) \cup {[t EXCEPT !.at = "xclip"]}
            /\ [t EXCEPT !.at = "xclip"].copy = c /\ [t EXCEPT !.at = "xclip"].at = "xclip"
        BY <1>2, <1>4, <2>2 DEF StartXclip
      <3>2. c \in InFlight'
        BY <3>1 DEF InFlight
      <3>3. \A u \in claims' : u.at = "primary" => u \in claims
        BY <3>1
      <3> QED
        BY <1>1, <3>1, <3>2, <3>3 DEF Fresh
    <2>3. CASE ClaimPrimary(t)
      <3>1. /\ t.at = "primary" /\ owner["clipboard"] \in Recent(c)
            /\ owner' = [owner EXCEPT !["primary"] = c]
        BY <1>1, <1>4, <2>3 DEF ClaimPrimary
      <3>2. owner'["clipboard"] \in Recent(c) /\ owner'["primary"] = c
        BY <1>1, <3>1
      <3> QED
        BY <1>1, <3>2 DEF Fresh
    <2>4. CASE XclipOwns(t)
      <3>1. owner'["clipboard"] = c /\ setup.platform = "x11"
        BY <1>1, <1>4, <2>4 DEF XclipOwns, OnX11
      <3> QED
        BY <1>1, <3>1 DEF Fresh
    <2>5. ~ClaimFails(t)
      BY <1>4 DEF ClaimFails
    <2> QED
      BY <2>1, <2>2, <2>3, <2>4, <2>5
  <1> QED
    BY <1>3, <1>4

\* Steps that leave threads and selections alone.
LEMMA FreshKept ==
  ASSUME NEW c, Fresh(c), Recent(c) \subseteq Recent(c)', setup' = setup, owner' = owner,
         InFlight' \subseteq Recent(c)', c \in InFlight => c \in InFlight',
         \A t \in claims' : t \in claims \/ t.at # "primary"
  PROVE  Fresh(c)'
  BY DEF Fresh

\* The module ends: what it had not claimed is missed, and what it served is
\* nobody's.
LEMMA FreshGone ==
  ASSUME Typed, Typed', NEW c \in Copies, c \in Waiting, Fresh(c), c \notin missed', ClipGone,
         setup' = setup
  PROVE  Fresh(c)'
  <1>1. Recent(c) \subseteq Recent(c)' /\ (setup.platform = "wayland" => Nobody \in Recent(c)')
    <2>1. Raced(Nobody)[c] = rivals[c] \cup {Nobody}
      BY DEF Raced
    <2> QED
      BY <2>1 DEF ClipGone, Recent
  <1>2. InFlight' \subseteq Recent(c)'
    <2>1. claims' \subseteq claims /\ frames' = <<>>
      BY DEF ClipGone
    <2> QED
      BY <1>1, <2>1, FlyingFrames DEF Fresh
  <1>3. \A t \in claims' : t.at = "xclip"
    BY DEF ClipGone
  <1>4. c \in InFlight => c \in InFlight'
    <2> SUFFICES ASSUME c \in InFlight PROVE c \in InFlight'
      OBVIOUS
    <2>1. PICK t : t = [copy |-> c, at |-> "xclip"]
      OBVIOUS
    <2>2. t \in claims /\ t.copy = c /\ t.at = "xclip"
      BY <2>1 DEF ClipGone
    <2>3. t \in claims'
      BY <2>2 DEF ClipGone
    <2> QED
      BY <2>2, <2>3 DEF InFlight
  <1>5. \A s \in Selections : owner'[s] = owner[s] \/ (setup.platform = "wayland" /\ owner'[s] = Nobody)
    BY DEF ClipGone
  <1>6. "clipboard" \in Selections /\ "primary" \in Selections
    BY DEF Selections
  <1> QED
    BY <1>1, <1>2, <1>3, <1>4, <1>5, <1>6 DEF Fresh

\* Every step keeps selections and claims of the time of those that wait.
LEMMA OwnedStep ==
  ASSUME Typed, Typed', Once, OnX11, Unsent, Owned, [Next]_vars PROVE Owned'
  <1> SUFFICES ASSUME NEW c \in Copies, c \notin missed', Going(c)' PROVE Fresh(c)'
    BY DEF Owned
  <1> USE DEF host, clipboard, keyboard, history
  <1>1. CASE SendToClipboard(c)
    BY <1>1, FreshSent
  <1>2. CASE ~SendToClipboard(c)
    <2>1. c \in Waiting /\ Fresh(c) /\ Recent(c) \subseteq Recent(c)'
      <3>1. Going(c) /\ c \notin missed
        BY <1>2, GoingStays, HistoryGrows
      <3>2. call[c] # "send"
        BY <3>1, CopiesAssumption DEF Going, Timed, Job, Once, TimersOnce, JobsOnce
      <3> QED
        BY <3>1, <3>2, GoingWaits, HistoryGrows DEF Owned, Recent
    <2>2. ASSUME NEW d \in Copies, SendToClipboard(d) PROVE Fresh(c)'
      <3>1. UNCHANGED <<setup, owner, claims>> /\ d # c
        BY <1>2, <2>2 DEF SendToClipboard
      <3>2. CASE frames' = frames
        <4>1. InFlight' = InFlight
          BY <3>1, <3>2 DEF InFlight
        <4> QED
          BY <2>1, <3>1, <4>1, FreshKept DEF Fresh
      <3>3. CASE frames' = Append(frames, d) /\ rivals' = [Raced(d) EXCEPT ![d] = InFlight]
        <4>1. InFlight' = InFlight \cup {d}
          BY <3>1, <3>3, FlyingFrames
        <4>2. d \in Recent(c)'
          BY <2>1, <3>1, <3>3 DEF Recent, Raced
        <4>3. InFlight' \subseteq Recent(c)'
          BY <2>1, <4>1, <4>2 DEF Fresh
        <4> QED
          BY <2>1, <3>1, <4>1, <4>3, FreshKept
      <3> QED
        BY <2>2, <3>2, <3>3 DEF SendToClipboard
    <2>3. CASE ClipStops \/ ClipDies
      <3>1. ClipGone /\ setup' = setup
        BY <2>3 DEF ClipStops, ClipDies
      <3> QED
        BY <2>1, <3>1, FreshGone
    <2>4. ASSUME NEW s \in Selections, AppCopies(s) PROVE Fresh(c)'
      <3>1. /\ UNCHANGED <<setup, claims, frames>> /\ rivals' = Raced(App)
            /\ owner' = [owner EXCEPT ![s] = App] /\ owner \in Owners
        BY <2>4 DEF AppCopies, Typed, Selected
      <3>2. App \in Recent(c)'
        BY <2>1, <3>1 DEF Recent, Raced
      <3>3. InFlight' = InFlight
        BY <3>1 DEF InFlight
      <3>4. \A u \in Selections : owner'[u] = owner[u] \/ owner'[u] = App
        BY <3>1 DEF Owners
      <3>5. "clipboard" \in Selections /\ "primary" \in Selections
        BY DEF Selections
      <3> QED
        BY <2>1, <3>1, <3>2, <3>3, <3>4, <3>5 DEF Fresh
    <2>5. ASSUME NEW t \in claims,
                 ClaimRegular(t) \/ ClaimPrimary(t) \/ StartXclip(t) \/ XclipOwns(t) \/ ClaimFails(t)
          PROVE  Fresh(c)'
      <3>1. ~\E d \in Copies : SendToClipboard(d)
        <4>1. call' = call
          BY <2>5 DEF ClaimRegular, ClaimPrimary, StartXclip, XclipOwns, ClaimFails
        <4> QED
          BY <4>1 DEF SendToClipboard, Advance, NextStep, Typed, Requests
      <3>2. InFlight' \subseteq InFlight
        BY <3>1, FlyingStep
      <3> QED
        BY <2>1, <2>5, <3>2, FreshClaims
    <2>6. CASE HandleSet
      <3>1. /\ setup' = setup /\ owner' = owner
            /\ \A t \in claims' : t \in claims \/ t.at = "thread"
        BY <2>6 DEF HandleSet
      <3>2. InFlight' = InFlight
        BY <2>6, FlyingFrames
      <3> QED
        BY <2>1, <3>1, <3>2, FreshKept DEF Fresh
    <2>7. CASE Shutdown
      <3>1. /\ setup' = setup /\ owner' = owner /\ claims' = claims
            /\ frames' = frames \/ frames' = Append(frames, Stop)
        BY <2>7 DEF Shutdown
      <3>2. InFlight' = InFlight
        BY <3>1, FlyingFrames DEF InFlight
      <3> QED
        BY <2>1, <3>1, <3>2, FreshKept DEF Fresh
    <2>8. CASE (\E d \in Copies : Load(d) \/ LoadNothing(d) \/ TriggerAutoPaste(d)) \/ Timers
               \/ Playing \/ EmitFails \/ PasterDies \/ Ended
               \/ ClipExited \/ RestartClip \/ PasterExited \/ RestartPaster \/ UNCHANGED vars
      <3>1. UNCHANGED <<setup, owner, claims, frames>>
        BY <2>8
           DEF Load, LoadNothing, TriggerAutoPaste, Timers, Fire, RunCommand, Playing,
             PasterReady, EmitEvent, PasterStops, EmitFails, PasterDies, Ended, ClipExited,
             RestartClip, PasterExited, RestartPaster, vars
      <3>2. InFlight' = InFlight
        BY <3>1 DEF InFlight
      <3> QED
        BY <2>1, <3>1, <3>2, FreshKept DEF Fresh
    <2> QED
      BY <2>2, <2>3, <2>4, <2>5, <2>6, <2>7, <2>8 DEF Next, CopyEntry, Claiming
  <1> QED
    BY <1>1, <1>2

\* Whatever pastes has waited until then, with selections of its time.
LEMMA TimelyStep ==
  ASSUME Typed, Once, Keyboard, Owned, NothingStaleIsPasted, [Next]_vars
  PROVE  NothingStaleIsPasted'
  <1> USE DEF host, clipboard, keyboard, history
  <1>1. /\ setup' = setup /\ missed \subseteq missed'
        /\ \A c \in Copies : call[c] # "send" => Recent(c) \subseteq Recent(c)'
    <2>1. setup' = setup
      BY DEF Next, vars, CopyEntry, Load, LoadNothing, SendToClipboard, TriggerAutoPaste,
         HandleSet, Claiming, ClaimRegular, ClaimPrimary, StartXclip, XclipOwns, Timers, Fire,
         RunCommand, ClaimFails, AppCopies, EmitFails, EmitEvent, Shutdown, ClipStops, ClipDies,
         ClipExited, RestartClip, PasterReady, PasterStops, PasterDies, PasterExited,
         RestartPaster, Ended, Playing
    <2> QED
      BY <2>1, HistoryGrows DEF Recent
  <1> DEFINE After(p) == \/ p.late \/ p.copy \in missed'
                         \/ /\ p.got["clipboard"] \in {p.copy} \cup rivals'[p.copy]
                            /\ setup'.platform = "wayland"
                                 => p.got["primary"] \in {p.copy} \cup rivals'[p.copy]
  <1>2. ASSUME NEW i \in DOMAIN pastes PROVE After(pastes[i])
    <2>1. \/ pastes[i].late \/ pastes[i].copy \in missed
          \/ /\ pastes[i].got["clipboard"] \in Recent(pastes[i].copy)
             /\ setup.platform = "wayland"
                  => pastes[i].got["primary"] \in Recent(pastes[i].copy)
      BY Zenon DEF NothingStaleIsPasted, Recent
    <2>2. pastes[i].copy \in Copies /\ call[pastes[i].copy] = "done"
      BY Elements DEF Once, PastesOnce
    <2>3. Recent(pastes[i].copy) \subseteq {pastes[i].copy} \cup rivals'[pastes[i].copy]
      BY <1>1, <2>2 DEF Recent
    <2> QED
      BY <1>1, <2>1, <2>3
  <1>3. (\A i \in DOMAIN pastes' : After(pastes'[i])) => NothingStaleIsPasted'
    BY Zenon DEF NothingStaleIsPasted
  <1> HIDE DEF After
  <1>4. CASE pastes' = pastes
    BY <1>2, <1>3, <1>4
  <1>5. ASSUME NEW c \in Copies, NEW by \in Nat \cup {Command}, pastes' = Paste(c, by),
               Going(c), call[c] = "done"
        PROVE  NothingStaleIsPasted'
    <2>1. \/ c \in InFlight \/ c \in missed
          \/ /\ owner["clipboard"] \in Recent(c)
             /\ setup.platform = "wayland" => owner["primary"] \in Recent(c)
      BY <1>5 DEF Owned, Fresh
    <2>2. /\ DOMAIN pastes' = 1 .. Len(pastes) + 1 /\ DOMAIN pastes = 1 .. Len(pastes)
          /\ Len(pastes) \in Nat
          /\ \A i \in DOMAIN pastes : pastes'[i] = pastes[i]
          /\ pastes'[Len(pastes) + 1] = [copy |-> c, by |-> by, got |-> owner,
                                         late |-> c \in InFlight]
      <3>1. DOMAIN pastes = 1 .. Len(pastes) /\ Len(pastes) \in Nat
        BY DEF Typed, Played
      <3> QED
        BY <1>5, <3>1, NewPaste
    <2>3. \A p : p = pastes'[Len(pastes) + 1] => After(p)
      <3> SUFFICES ASSUME NEW p, p = pastes'[Len(pastes) + 1] PROVE After(p)
        OBVIOUS
      <3>1. p = [copy |-> c, by |-> by, got |-> owner, late |-> c \in InFlight]
        BY <2>2
      <3>2. p.copy = c /\ p.got = owner
        BY <3>1
      <3>3. Recent(c) \subseteq {c} \cup rivals'[c]
        BY <1>1, <1>5 DEF Recent
      <3>4. CASE c \in InFlight
        <4>1. p.late = (c \in InFlight)
          BY <3>1
        <4>2. p.late
          BY Zenon, <3>4, <4>1
        <4> QED
          BY Zenon, <4>2 DEF After
      <3>5. CASE c \notin InFlight
        <4>1. c \in missed \/ (owner["clipboard"] \in Recent(c)
                                 /\ (setup.platform = "wayland" => owner["primary"] \in Recent(c)))
          BY Zenon, <2>1, <3>5
        <4> QED
          BY <1>1, <3>2, <3>3, <4>1 DEF After
      <3> QED
        BY <3>4, <3>5
    <2>4. \A i \in DOMAIN pastes' : i \in DOMAIN pastes \/ i = Len(pastes) + 1
      BY <2>2
    <2>5. \A i \in DOMAIN pastes' : After(pastes'[i])
      BY Zenon, <1>2, <2>2, <2>3, <2>4
    <2> QED
      BY Zenon, <1>3, <2>5
  <1>6. CASE EmitEvent /\ pastes' # pastes
    <2>1. /\ Head(jobs) \in Copies /\ step = 1 /\ jobs # <<>>
          /\ pastes' = Paste(Head(jobs), paster.alive)
      BY <1>6, OneEvent
    <2>2. 1 \in DOMAIN jobs /\ jobs[1] = Head(jobs) /\ paster.alive \in Nat \cup {Command}
      BY <2>1 DEF Typed, Played, Slots, SlotOK
    <2>3. Job(Head(jobs)) /\ ~Pasted(Head(jobs)) /\ call[Head(jobs)] = "done"
      BY <2>1, <2>2, CopiesAssumption DEF Job, Once, JobsOnce
    <2> QED
      BY <1>5, <2>1, <2>2, <2>3 DEF Going
  <1>7. ASSUME NEW t \in timers, RunCommand(t), pastes' # pastes PROVE NothingStaleIsPasted'
    <2>1. /\ pastes' = Paste(t.copy, Command) /\ call[t.copy] = "done"
          /\ t.copy \in Copies /\ Command \in Nat \cup {Command} /\ Going(t.copy)
      BY <1>7, Elements DEF RunCommand, Going, Timed, Once, TimersOnce
    <2> QED
      BY <1>5, <2>1
  <1>8. pastes' = pastes \/ EmitEvent \/ \E t \in timers : RunCommand(t)
    BY DEF Next, vars, CopyEntry, Load, LoadNothing, SendToClipboard, TriggerAutoPaste,
       HandleSet, Claiming, ClaimRegular, ClaimPrimary, StartXclip, XclipOwns, Timers, Fire,
       ClaimFails, AppCopies, EmitFails, Shutdown, ClipStops, ClipDies, ClipExited, RestartClip,
       PasterReady, PasterStops, PasterDies, PasterExited, RestartPaster, Ended, Playing
  <1> QED
    BY <1>4, <1>6, <1>7, <1>8

-----------------------------------------------------------------------------
(* The invariant                                                           *)

IInv == /\ running \in BOOLEAN /\ Typed /\ Keyboard /\ Once
        /\ OnX11 /\ Unsent /\ Owned /\ NothingStaleIsPasted

\* The invariant holds at first.
LEMMA InitIInv == Init => IInv
  <1> SUFFICES ASSUME Init PROVE IInv
    OBVIOUS
  <1>1. running \in BOOLEAN /\ Slots /\ Selected
    BY DEF Init, Slots, SlotOK, Slot, Phases, Selected, Owners, Claims
  <1>2. Requests
    BY MishapsAssumption DEF Init, Requests, NoChild
  <1>3. Played
    BY DEF Init, Played
  <1>4. /\ DOMAIN jobs = {} /\ DOMAIN pastes = {} /\ timers = {} /\ frames = <<>> /\ claims = {}
        /\ \A c \in Copies : call[c] = "load"
    BY DEF Init
  <1>5. Keyboard
    <2>1. Attached /\ Chord
      BY DEF Init, Attached, Chord, Slot, NoChild
    <2>2. KeysAreLetGo
      BY DEF Init, KeysAreLetGo
    <2> QED
      BY <2>1, <2>2 DEF Keyboard
  <1>6. Once /\ OnX11 /\ Unsent
    BY <1>4 DEF Once, TimersOnce, JobsOnce, PastesOnce, OnX11, Unsent, InFlight, ToSet
  <1>7. Owned /\ NothingStaleIsPasted
    BY <1>4 DEF Owned, Going, Timed, Job, NothingStaleIsPasted
  <1> QED
    BY <1>1, <1>2, <1>3, <1>5, <1>6, <1>7 DEF IInv, Typed

\* Whatever copies are made and whatever mishaps befall, the invariant holds:
\* types, the keyboard, one way to one paste, and what the selections hold.
THEOREM Invariance == Spec => []IInv
  <1>1. IInv /\ [Next]_vars => IInv'
    <2> SUFFICES ASSUME IInv, [Next]_vars PROVE IInv'
      OBVIOUS
    <2>1. (running \in BOOLEAN)'
      BY Zenon, RunningTyped DEF IInv
    <2>2. Typed /\ Typed' /\ Keyboard /\ Once /\ OnX11 /\ Unsent /\ Owned /\ NothingStaleIsPasted
      BY TypedStep DEF IInv
    <2> QED
      BY <2>1, <2>2, KeyboardStep, OnceStep, OnX11Step, UnsentStep, OwnedStep, TimelyStep
         DEF IInv
  <1> QED
    BY <1>1, InitIInv, PTL DEF Spec

\* Slots, queues, selections and keys are what they claim to be, for any
\* copies, setups and number of mishaps.
THEOREM PasteTypeCorrect == Spec => []TypeOK
  <1>1. IInv => TypeOK
    <2>1. Len(Events) - 1 = 3
      BY FourEvents
    <2> QED
      BY <2>1 DEF IInv, Typed, Slots, Requests, Selected, Played, TypeOK, Phases, Outcomes
  <1> QED
    BY <1>1, Invariance, PTL

\* Whatever overlaps, dies or fails, a chord that finds its claim made finds
\* its own entry or what raced with it since the request, and nothing older:
\* copy_entry, the claim threads and the delay.  Of a chord that strikes
\* before the claim is made, or whose claim was lost or failed, it says
\* nothing: these are the runs paste_early and paste_unwritten.
THEOREM NothingOldIsPasted == Spec => []NothingStaleIsPasted
  <1>1. IInv => NothingStaleIsPasted
    BY DEF IInv
  <1> QED
    BY <1>1, Invariance, PTL

\* A request is pasted at most once, by the way it was routed, and through no
\* other paster child than the one that ran when it was made.
THEOREM RequestsPasteOnce == Spec => []PastesAreAsked
  <1>1. IInv => PastesAreAsked
    BY Zenon DEF IInv, Once, PastesOnce, PastesAreAsked, Expected
  <1> QED
    BY <1>1, Invariance, PTL

\* However chords are cut short, Insert is never down without Shift, between
\* chords a key is down only if one was cut short before, and a chord played
\* out from released keys has pasted.
THEOREM ChordsEnd == Spec => []KeysAreLetGo
  <1>1. IInv => KeysAreLetGo
    BY DEF IInv, Keyboard
  <1> QED
    BY <1>1, Invariance, PTL
=============================================================================
