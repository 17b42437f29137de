-------------------------- MODULE SupervisorProofs --------------------------
(***************************************************************************)
(* A slot for any limits: one child at a time, the one that is fed; a      *)
(* disabled slot that is really off, an enabled one that is never          *)
(* forgotten; and a crash loop that is cut.                                *)
(*                                                                         *)
(* The slot has one token: a start that is going on or on its way, or a    *)
(* child that lives or whose exit has not been handled.                    *)
(***************************************************************************)
EXTENDS Supervisor, TLAPS

Signalled(i) == queue[i].kind \in {"exited", "restart"}

\* An exit or a restart is in the queue, and no second one.
NoSignal  == ~Queued("exited") /\ ~Queued("restart")
OneSignal == \A i, j \in DOMAIN queue : Signalled(i) /\ Signalled(j) => i = j

\* A child lives, or its exit is on its way to the main loop.
Lives == watched # {} \/ Queued("exited")

OneToken ==
  /\ OneSignal
  /\ timers \in {0, 1} /\ watched \in {{}, {spawned}}
  /\ Running /\ loop \in {"boot", "spawn"} => timers = 0 /\ watched = {} /\ NoSignal
  /\ Running /\ timers # 0 => watched = {} /\ NoSignal
  /\ Running /\ watched # {} => NoSignal

\* Every start but the first was paid for with a death that was counted, and
\* every death that was answered is one.
Paid ==
  /\ spawned <= MaxRestarts + 1
  /\ Running /\ Pending => tx = 0 /\ spawned = restarts /\ restarts <= MaxRestarts
  /\ Running /\ Lives => spawned = restarts + 1 /\ restarts <= MaxRestarts

\* The running child is watched, and it is the one that is fed.
Followed == Running => alive \subseteq watched /\ \A c \in watched : tx = c

\* An enabled slot has a child, or a start or an exit on its way.
EnabledIsAttended == Running /\ enabled => Pending \/ Lives

Retried == loop = "spawn" => attempts < MaxAttempts

Slot == OneToken /\ Paid /\ Followed /\ DisabledIsOff /\ EnabledIsAttended
IInv == TypeOK /\ Retried /\ Slot

-----------------------------------------------------------------------------
(* The queue                                                               *)

\* Taking the head of the queue brings no event into it.
LEMMA TakeQueue ==
  ASSUME queue \in Seq(Events), NEW kind, Take(kind)
  PROVE  /\ queue' \in Seq(Events) /\ Queued(kind) /\ Head(queue) \in Events
         /\ Head(queue).kind = kind
         /\ \A k : Queued(k)' => Queued(k)
         /\ \A k : k # kind /\ Queued(k) => Queued(k)'
         /\ OneSignal => OneSignal'
         /\ OneSignal /\ kind \in {"exited", "restart"} => NoSignal'
  <1>1. /\ queue # <<>> /\ queue' = Tail(queue) /\ queue' \in Seq(Events)
        /\ 1 \in DOMAIN queue /\ queue[1] = Head(queue) /\ Head(queue).kind = kind
        /\ Head(queue) \in Events
    BY DEF Take
  <1>2. \A i \in DOMAIN queue' : /\ i + 1 \in DOMAIN queue /\ i + 1 # 1
                                 /\ queue'[i] = queue[i + 1]
    BY <1>1
  <1>3. \A i \in DOMAIN queue : i # 1 => i - 1 \in DOMAIN queue' /\ queue'[i - 1] = queue[i]
    BY <1>1
  <1>4. \A i, j \in DOMAIN queue' : i + 1 = j + 1 => i = j
    BY <1>1
  <1>5. ASSUME OneSignal PROVE OneSignal'
    BY <1>2, <1>4, <1>5 DEF OneSignal, Signalled
  <1>6. ASSUME OneSignal, kind \in {"exited", "restart"} PROVE NoSignal'
    BY <1>1, <1>2, <1>6 DEF OneSignal, Signalled, NoSignal, Queued
  <1>7. Queued(kind) /\ \A k : Queued(k)' => Queued(k)
    BY <1>1, <1>2 DEF Queued
  <1>8. \A k : k # kind /\ Queued(k) => Queued(k)'
    BY <1>1, <1>3 DEF Queued
  <1> QED
    BY <1>1, <1>5, <1>6, <1>7, <1>8

\* Appending an event adds it alone.
LEMMA AppendQueue ==
  ASSUME queue \in Seq(Events), NEW e \in Events, queue' = Append(queue, e)
  PROVE  /\ queue' \in Seq(Events)
         /\ \A k : Queued(k)' <=> Queued(k) \/ k = e.kind
         /\ OneSignal /\ (e.kind \in {"exited", "restart"} => NoSignal) => OneSignal'
  <1>1. queue' \in Seq(Events)
    OBVIOUS
  <1>2. \A i \in DOMAIN queue' :
          \/ i \in DOMAIN queue /\ queue'[i] = queue[i]
          \/ i = Len(queue) + 1 /\ queue'[i] = e
    OBVIOUS
  <1>3. \A i \in DOMAIN queue : i \in DOMAIN queue' /\ queue'[i] = queue[i]
    OBVIOUS
  <1>4. Len(queue) + 1 \in DOMAIN queue' /\ queue'[Len(queue) + 1] = e
    OBVIOUS
  <1>5. \A k : Queued(k)' <=> Queued(k) \/ k = e.kind
    BY <1>2, <1>3, <1>4 DEF Queued
  <1>6. ASSUME OneSignal, e.kind \in {"exited", "restart"} => NoSignal PROVE OneSignal'
    BY <1>2, <1>6 DEF OneSignal, Signalled, NoSignal, Queued
  <1> QED
    BY <1>1, <1>5, <1>6

\* The end of a sequence has its elements.
LEMMA HeadTail ==
  ASSUME NEW S, NEW s \in Seq(S), s # <<>>
  PROVE  Head(s) \in S /\ Tail(s) \in Seq(S)
  OBVIOUS

\* What the threads send the main loop are events.
LEMMA SignalIsEvent ==
  /\ \A kind \in {"exited", "restart", "shutdown"} :
       Signal(kind) \in Events /\ Signal(kind).kind = kind
  BY DEF Signal, Events

\* A frame that is forwarded is an event.
LEMMA ForwardedIsEvent ==
  ASSUME TypeOK, Paid, NEW c \in 1..spawned, Forward(c)
  PROVE  [kind |-> "frame", from |-> [child |-> c, frame |-> Head(pipe[c])]] \in Events
  <1>1. c \in Children
    BY LimitAssumption DEF Paid, TypeOK, Children
  <1>2. Head(pipe[c]) \in 1..MaxFrames
    BY <1>1, HeadTail DEF Forward, TypeOK
  <1>3. [child |-> c, frame |-> Head(pipe[c])] \in Sent
    BY <1>1, <1>2 DEF Sent
  <1> QED
    BY <1>3 DEF Events

-----------------------------------------------------------------------------
(* Types and retries                                                       *)

\* The invariant holds at first.
LEMMA InitIInv == Init => IInv
  <1> SUFFICES ASSUME Init PROVE IInv
    OBVIOUS
  <1>1. TypeOK
    BY LimitAssumption DEF Init, TypeOK, Children
  <1>2. \A k : ~Queued(k)
    BY DEF Init, Queued
  <1>3. Retried /\ OneToken
    BY <1>2 DEF Init, Retried, OneToken, OneSignal, NoSignal
  <1>4. Paid /\ Followed /\ DisabledIsOff /\ EnabledIsAttended
    BY <1>2, LimitAssumption
       DEF Init, Paid, Followed, DisabledIsOff, EnabledIsAttended, Pending, Lives
  <1> QED
    BY <1>1, <1>3, <1>4 DEF IInv, Slot

\* The types of everything but the two flags.
Sized ==
  /\ tx \in 0..spawned /\ loop \in {"boot", "recv", "spawn", "done"}
  /\ attempts \in 0..MaxAttempts /\ restarts \in 0..(MaxRestarts + 1)
  /\ queue \in Seq(Events) /\ timers \in Nat /\ spawned \in Nat
  /\ alive \subseteq 1..spawned /\ watched \subseteq 1..spawned
  /\ printed \in 0..MaxFrames /\ pipe \in [Children -> Seq(1..MaxFrames)]
  /\ handled \in Seq(Sent)

\* The flags are set to FALSE, negated, or left alone.
LEMMA FlagStep ==
  ASSUME enabled \in BOOLEAN, installed \in BOOLEAN, [Next]_vars
  PROVE  enabled' \in BOOLEAN /\ installed' \in BOOLEAN
  <1> USE DEF slot
  <1>1. CASE UNCHANGED vars \/ Ended
    BY <1>1, Zenon DEF vars, Ended
  <1>2. CASE Boot \/ HandleRestart
    BY <1>2, Zenon DEF Boot, HandleRestart, StartImpl
  <1>3. CASE SpawnOk \/ SpawnFails \/ HandleExited \/ HandleFrame \/ HandleShutdown
    BY <1>3, Zenon DEF SpawnOk, SpawnFails, HandleExited, HandleFrame, HandleShutdown
  <1>4. CASE TimerFires \/ SetInstalled \/ AskShutdown
    BY <1>4, Zenon DEF TimerFires, SetInstalled, AskShutdown
  <1>5. ASSUME NEW c \in 1..spawned, ReportExit(c) \/ Forward(c) \/ ChildPrints(c) \/ ChildDies(c)
        PROVE  enabled' \in BOOLEAN /\ installed' \in BOOLEAN
    BY <1>5, Zenon DEF ReportExit, Forward, ChildPrints, ChildDies
  <1> QED
    BY <1>1, <1>2, <1>3, <1>4, <1>5 DEF Next, MainLoop

\* Counters stay in their ranges because the slot has one token: a child is
\* spawned, and a death counted, only where the limit still allows it.
LEMMA TypeStep == IInv /\ [Next]_vars => TypeOK' /\ Retried'
  <1> SUFFICES ASSUME Sized, Retried, Paid, [Next]_vars PROVE Sized' /\ Retried'
    BY FlagStep DEF IInv, Slot, TypeOK, Sized
  <1> USE LimitAssumption DEF Sized, Retried, slot, frames
  <1>1. CASE UNCHANGED vars \/ Ended
    BY <1>1 DEF vars, Ended
  <1>2. CASE Boot
    BY <1>2 DEF Boot, StartImpl
  <1>3. CASE SpawnOk
    BY <1>3 DEF SpawnOk
  <1>4. CASE SpawnFails
    BY <1>4 DEF SpawnFails
  <1>5. CASE HandleExited
    <2>1. queue' \in Seq(Events) /\ Queued("exited")
      BY <1>5, TakeQueue DEF HandleExited
    <2>2. loop = "recv"
      BY <1>5 DEF HandleExited, Take
    <2>3. restarts <= MaxRestarts
      BY <2>1, <2>2 DEF Paid, Lives, Running
    <2> QED
      BY <1>5, <2>1, <2>2, <2>3 DEF HandleExited
  <1>6. CASE HandleRestart
    <2>1. queue' \in Seq(Events)
      BY <1>6, TakeQueue DEF HandleRestart
    <2> QED
      BY <1>6, <2>1 DEF HandleRestart, StartImpl
  <1>7. CASE HandleFrame
    <2>1. queue' \in Seq(Events) /\ Head(queue) \in Events /\ Head(queue).kind = "frame"
      BY <1>7, TakeQueue DEF HandleFrame
    <2>2. Head(queue).from \in Sent
      BY <2>1 DEF Events
    <2>3. handled' \in Seq(Sent)
      BY <1>7, <2>2 DEF HandleFrame
    <2> QED
      BY <1>7, <2>1, <2>3 DEF HandleFrame
  <1>8. CASE HandleShutdown
    <2>1. queue' \in Seq(Events)
      BY <1>8, TakeQueue DEF HandleShutdown
    <2> QED
      BY <1>8, <2>1 DEF HandleShutdown
  <1>9. CASE TimerFires
    <2>1. queue' \in Seq(Events)
      BY <1>9, AppendQueue, SignalIsEvent DEF TimerFires
    <2> QED
      BY <1>9, <2>1 DEF TimerFires
  <1>10. ASSUME NEW c \in 1..spawned, ReportExit(c) PROVE Sized' /\ Retried'
    <2>1. queue' \in Seq(Events)
      BY <1>10, AppendQueue, SignalIsEvent DEF ReportExit
    <2> QED
      BY <1>10, <2>1 DEF ReportExit
  <1>11. ASSUME NEW c \in 1..spawned, Forward(c) \/ ChildPrints(c) \/ ChildDies(c)
         PROVE  Sized' /\ Retried'
    <2>1. c \in Children
      BY DEF Children, Paid
    <2>2. CASE Forward(c)
      <3> DEFINE e == [kind |-> "frame", from |-> [child |-> c, frame |-> Head(pipe[c])]]
      <3>1. pipe[c] \in Seq(1..MaxFrames) /\ pipe[c] # <<>>
        BY <2>1, <2>2 DEF Forward
      <3>2. Head(pipe[c]) \in 1..MaxFrames /\ Tail(pipe[c]) \in Seq(1..MaxFrames)
        BY <3>1, HeadTail
      <3>3. [child |-> c, frame |-> Head(pipe[c])] \in Sent
        BY <2>1, <3>2 DEF Sent
      <3>4. e \in Events
        BY <3>3 DEF Events
      <3>5. queue' \in Seq(Events)
        BY <2>2, <3>4, AppendQueue DEF Forward
      <3>6. pipe' \in [Children -> Seq(1..MaxFrames)]
        BY <2>1, <2>2, <3>2 DEF Forward
      <3> QED
        BY <2>2, <3>5, <3>6 DEF Forward
    <2>3. CASE ChildPrints(c)
      <3>1. pipe[c] \in Seq(1..MaxFrames) /\ printed' \in 1..MaxFrames
        BY <2>1, <2>3 DEF ChildPrints
      <3>2. Append(pipe[c], printed') \in Seq(1..MaxFrames)
        BY <3>1
      <3>3. pipe' \in [Children -> Seq(1..MaxFrames)]
        BY <2>1, <2>3, <3>2 DEF ChildPrints
      <3> QED
        BY <2>3, <3>1, <3>3 DEF ChildPrints
    <2>4. CASE ChildDies(c)
      BY <2>4 DEF ChildDies
    <2> QED
      BY <1>11, <2>2, <2>3, <2>4
  <1>12. CASE SetInstalled
    BY <1>12 DEF SetInstalled
  <1>13. CASE AskShutdown
    <2>1. queue' \in Seq(Events)
      BY <1>13, AppendQueue, SignalIsEvent DEF AskShutdown
    <2> QED
      BY <1>13, <2>1 DEF AskShutdown
  <1> QED
    BY <1>1, <1>2, <1>3, <1>4, <1>5, <1>6, <1>7, <1>8, <1>9, <1>10, <1>11, <1>12, <1>13
       DEF Next, MainLoop

-----------------------------------------------------------------------------
(* The token                                                               *)

\* A step that leaves queue, timers, children and the loop alone leaves the
\* token where it is.
LEMMA SlotUntouched ==
  ASSUME Slot, UNCHANGED <<enabled, tx, loop, restarts, queue, timers, spawned, alive, watched>>
  PROVE  Slot'
  BY DEF Slot, OneToken, OneSignal, Signalled, NoSignal, Paid, Pending, Lives, Followed,
         DisabledIsOff, EnabledIsAttended, Queued, Running

\* A start, at boot or when the timer has asked for it, turns into spawning
\* or disables the slot.
LEMMA StartStep ==
  ASSUME IInv, StartImpl, Running, Pending,
         timers = 0, watched = {}, ~Queued("exited")',
         ~Queued("restart")', OneSignal'
  PROVE  Slot'
  <1> USE DEF IInv, Slot, StartImpl, frames
  <1>1. alive = {} /\ tx = 0 /\ spawned = restarts /\ restarts <= MaxRestarts
    BY DEF Followed, Paid
  <1>2. OneToken'
    BY DEF OneToken, NoSignal, Running
  <1>3. Paid'
    BY <1>1 DEF Paid, Lives
  <1>4. Followed'
    BY <1>1 DEF Followed
  <1>5. ~enabled' => loop' # "spawn"
    BY DEF StartImpl
  <1>6. DisabledIsOff'
    BY <1>1, <1>5 DEF DisabledIsOff
  <1>7. enabled' => loop' = "spawn"
    BY DEF StartImpl
  <1>8. EnabledIsAttended'
    BY <1>7 DEF EnabledIsAttended, Pending
  <1> QED
    BY <1>2, <1>3, <1>4, <1>6, <1>8

\* Every step passes the token on, keeps it, or drops it with the slot.
LEMMA SlotStep == IInv /\ [Next]_vars => Slot'
  <1> SUFFICES ASSUME IInv, [Next]_vars PROVE Slot'
    OBVIOUS
  <1> USE LimitAssumption DEF slot, frames
  <1>t. /\ queue \in Seq(Events) /\ spawned \in Nat /\ restarts \in Nat /\ timers \in Nat
        /\ watched \subseteq 1..spawned /\ alive \subseteq 1..spawned
    BY DEF IInv, TypeOK
  <1>s. OneToken /\ Paid /\ Followed /\ DisabledIsOff /\ EnabledIsAttended
    BY DEF IInv, Slot
  <1>1. CASE UNCHANGED vars \/ Ended
    BY <1>1, <1>s, SlotUntouched DEF vars, Ended, Slot
  <1>2. CASE SetInstalled
    BY <1>2, <1>s, SlotUntouched DEF SetInstalled, Slot
  <1>3. ASSUME NEW c \in 1..spawned, ChildPrints(c) PROVE Slot'
    BY <1>3, <1>s, SlotUntouched DEF ChildPrints, Slot
  <1>4. CASE Boot
    <2>1. /\ Running /\ Pending /\ timers = 0 /\ watched = {}
          /\ ~Queued("exited")' /\ ~Queued("restart")' /\ OneSignal'
      BY <1>4, <1>s DEF Boot, Running, Pending, OneToken, NoSignal, Queued, OneSignal, Signalled
    <2> QED
      BY <1>4, <2>1, StartStep DEF Boot
  <1>5. CASE HandleRestart
    <2>1. Running /\ Queued("restart") /\ OneSignal' /\ NoSignal'
      BY <1>5, <1>s, <1>t, TakeQueue DEF HandleRestart, Take, Running, OneToken
    <2>2. timers = 0 /\ watched = {}
      BY <2>1, <1>s, <1>t DEF OneToken, NoSignal
    <2> QED
      BY <1>5, <2>1, <2>2, StartStep DEF HandleRestart, Pending, NoSignal
  <1>6. CASE SpawnOk
    <2>1. /\ Running /\ timers = 0 /\ watched = {} /\ NoSignal /\ alive = {}
          /\ tx = 0 /\ spawned = restarts /\ restarts <= MaxRestarts
      BY <1>6, <1>s DEF SpawnOk, Running, OneToken, Paid, Pending, Followed
    <2>2. (\A k : Queued(k)' <=> Queued(k)) /\ (OneSignal' <=> OneSignal)
      BY <1>6 DEF SpawnOk, Queued, OneSignal, Signalled
    <2>3. watched' = {spawned'} /\ alive' = {spawned'} /\ tx' = spawned' /\ spawned' = spawned + 1
      BY <1>6, <2>1 DEF SpawnOk
    <2>4. timers' = 0 /\ loop' = "recv" /\ restarts' = restarts /\ NoSignal'
      BY <1>6, <2>1, <2>2 DEF SpawnOk, NoSignal
    <2>5. OneToken'
      BY <1>s, <2>2, <2>3, <2>4 DEF OneToken
    <2>6. Paid'
      BY <1>t, <2>1, <2>3, <2>4 DEF Paid, Pending, NoSignal
    <2>7. Followed'
      BY <2>3 DEF Followed
    <2>8. enabled /\ enabled'
      BY <1>6, <2>1, <1>s, Zenon DEF SpawnOk, DisabledIsOff
    <2>9. DisabledIsOff' /\ EnabledIsAttended'
      BY <2>3, <2>8 DEF DisabledIsOff, EnabledIsAttended, Lives
    <2> QED
      BY <2>5, <2>6, <2>7, <2>9 DEF Slot
  <1>7. CASE SpawnFails
    <2>1. /\ Running /\ timers = 0 /\ watched = {} /\ NoSignal /\ alive = {}
          /\ tx = 0 /\ spawned = restarts /\ restarts <= MaxRestarts
      BY <1>7, <1>s DEF SpawnFails, Running, OneToken, Paid, Pending, Followed
    <2>2. (\A k : Queued(k)' <=> Queued(k)) /\ (OneSignal' <=> OneSignal)
      BY <1>7 DEF SpawnFails, Queued, OneSignal, Signalled
    <2>3. /\ watched' = {} /\ alive' = {} /\ tx' = 0 /\ spawned' = spawned
          /\ timers' = 0 /\ restarts' = restarts /\ NoSignal'
      BY <1>7, <2>1, <2>2 DEF SpawnFails, NoSignal
    <2>4. OneToken'
      BY <1>s, <2>2, <2>3 DEF OneToken
    <2>5. Paid' /\ Followed'
      BY <1>s, <2>1, <2>3 DEF Paid, Followed, Lives, NoSignal
    <2>6. \/ loop' = "spawn" /\ enabled' = enabled /\ loop = "spawn"
          \/ loop' = "recv" /\ ~enabled'
      BY <1>7, Zenon DEF SpawnFails
    <2>7. enabled
      BY <1>7, <2>1, <1>s, Zenon DEF SpawnFails, DisabledIsOff
    <2>8. DisabledIsOff' /\ EnabledIsAttended'
      BY <2>3, <2>6, <2>7 DEF DisabledIsOff, EnabledIsAttended, Pending, NoSignal
    <2> QED
      BY <2>4, <2>5, <2>8 DEF Slot
  <1>8. CASE HandleExited
    <2>1. Running /\ Queued("exited") /\ OneSignal' /\ NoSignal' /\ loop' = "recv" /\ loop = "recv"
      BY <1>8, <1>s, <1>t, TakeQueue DEF HandleExited, Take, Running, OneToken
    <2>2. /\ timers = 0 /\ watched = {} /\ alive = {}
          /\ spawned = restarts + 1 /\ restarts <= MaxRestarts
      BY <2>1, <1>s, <1>t DEF OneToken, NoSignal, Paid, Lives, Followed
    <2>3. /\ watched' = {} /\ alive' = {} /\ tx' = 0 /\ spawned' = spawned
          /\ restarts' = restarts + 1
      BY <1>8, <2>2 DEF HandleExited
    <2>4. \/ restarts' <= MaxRestarts /\ timers' = 1
          \/ restarts' > MaxRestarts /\ timers' = 0
      BY <1>t, <1>8, <2>2, <2>3 DEF HandleExited
    <2>5. OneToken'
      BY <2>1, <2>3, <2>4 DEF OneToken
    <2>6. Paid' /\ Followed'
      BY <1>s, <1>t, <2>1, <2>2, <2>3, <2>4 DEF Paid, Followed, Lives, Pending, NoSignal
    <2>7. enabled
      BY <2>1, <1>s, Zenon DEF DisabledIsOff
    <2>8. \/ enabled' /\ timers' = 1
          \/ ~enabled' /\ timers' = 0
      <3>1. restarts' > MaxRestarts \/ ~(restarts' > MaxRestarts)
        OBVIOUS
      <3>2. \/ ~enabled' /\ timers' = timers
            \/ enabled' /\ timers' = timers + 1
        BY <1>8, <2>7, <3>1, Zenon DEF HandleExited
      <3> QED
        BY <2>2, <3>2
    <2>9. DisabledIsOff' /\ EnabledIsAttended'
      BY <2>1, <2>3, <2>8 DEF DisabledIsOff, EnabledIsAttended, Pending, NoSignal
    <2> QED
      BY <2>5, <2>6, <2>9 DEF Slot
  <1>9. CASE HandleFrame
    <2>1. /\ loop = "recv" /\ OneSignal'
          /\ Queued("exited")' <=> Queued("exited")
          /\ Queued("restart")' <=> Queued("restart")
      BY <1>9, <1>s, <1>t, TakeQueue DEF HandleFrame, Take, OneToken
    <2>2. UNCHANGED <<enabled, tx, loop, restarts, timers, spawned, alive, watched>>
      BY <1>9 DEF HandleFrame
    <2> QED
      BY <1>s, <2>1, <2>2 DEF Slot, OneToken, NoSignal, Paid, Pending, Lives, Followed,
                              DisabledIsOff, EnabledIsAttended, Running
  <1>10. CASE HandleShutdown
    <2>1. OneSignal' /\ loop' = "done" /\ timers' = 0 /\ watched' = {} /\ spawned' = spawned
      BY <1>10, <1>s, <1>t, TakeQueue DEF HandleShutdown, OneToken
    <2> QED
      BY <1>s, <2>1 DEF Slot, OneToken, Paid, Followed, DisabledIsOff, EnabledIsAttended, Running
  <1>11. CASE TimerFires
    <2>1. Running /\ watched = {} /\ NoSignal /\ timers = 1 /\ loop \notin {"boot", "spawn"}
      BY <1>11, <1>s, <1>t DEF TimerFires, OneToken
    <2>2. OneSignal' /\ Queued("restart")' /\ ~Queued("exited")'
      BY <1>11, <1>s, <1>t, <2>1, AppendQueue, SignalIsEvent DEF TimerFires, OneToken, NoSignal
    <2>3. /\ timers' = 0 /\ watched' = {}
          /\ UNCHANGED <<enabled, tx, loop, restarts, spawned, alive>>
      BY <1>11, <2>1 DEF TimerFires
    <2>4. tx = 0 /\ spawned = restarts /\ restarts <= MaxRestarts /\ alive = {}
      BY <1>s, <2>1 DEF Paid, Pending, Followed
    <2>5. OneToken' /\ Paid' /\ Followed'
      BY <1>s, <2>1, <2>2, <2>3, <2>4 DEF OneToken, Paid, Lives, Followed, Running
    <2>6. enabled
      BY <1>s, <2>1 DEF DisabledIsOff
    <2>7. DisabledIsOff' /\ EnabledIsAttended'
      BY <2>2, <2>3, <2>6 DEF DisabledIsOff, EnabledIsAttended, Pending
    <2> QED
      BY <2>5, <2>7 DEF Slot
  <1>12. ASSUME NEW c \in 1..spawned, ReportExit(c) PROVE Slot'
    <2>1. /\ Running /\ watched = {spawned} /\ c = spawned /\ c \notin alive
          /\ NoSignal /\ timers = 0 /\ loop \notin {"boot", "spawn"}
      BY <1>12, <1>s, <1>t DEF ReportExit, OneToken
    <2>2. OneSignal' /\ Queued("exited")' /\ ~Queued("restart")'
      BY <1>12, <1>s, <1>t, <2>1, AppendQueue, SignalIsEvent DEF ReportExit, OneToken, NoSignal
    <2>3. watched' = {} /\ UNCHANGED <<enabled, tx, loop, restarts, timers, spawned, alive>>
      BY <1>12, <2>1 DEF ReportExit
    <2>4. alive = {} /\ spawned = restarts + 1 /\ restarts <= MaxRestarts
      BY <1>s, <2>1 DEF Paid, Lives, Followed
    <2>5. OneToken' /\ Paid' /\ Followed'
      BY <1>s, <2>1, <2>2, <2>3, <2>4 DEF OneToken, Paid, Pending, Followed, Running
    <2>6. enabled
      BY <1>s, <2>1 DEF DisabledIsOff
    <2>7. DisabledIsOff' /\ EnabledIsAttended'
      BY <2>2, <2>3, <2>6 DEF DisabledIsOff, EnabledIsAttended, Lives
    <2> QED
      BY <2>5, <2>7 DEF Slot
  <1>13. ASSUME NEW c \in 1..spawned, Forward(c) PROVE Slot'
    <2> DEFINE e == [kind |-> "frame", from |-> [child |-> c, frame |-> Head(pipe[c])]]
    <2>1. e \in Events
      BY <1>13, <1>s, ForwardedIsEvent DEF IInv
    <2>2. /\ OneSignal'
          /\ Queued("exited")' <=> Queued("exited")
          /\ Queued("restart")' <=> Queued("restart")
      BY <1>13, <1>s, <1>t, <2>1, AppendQueue DEF Forward, OneToken
    <2>3. UNCHANGED <<enabled, tx, loop, restarts, timers, spawned, alive, watched>>
      BY <1>13 DEF Forward
    <2> QED
      BY <1>s, <2>2, <2>3 DEF Slot, OneToken, NoSignal, Paid, Pending, Lives, Followed,
                              DisabledIsOff, EnabledIsAttended, Running
  <1>14. ASSUME NEW c \in 1..spawned, ChildDies(c) PROVE Slot'
    <2>1. /\ alive' \subseteq alive
          /\ UNCHANGED <<enabled, tx, loop, restarts, queue, timers, spawned, watched>>
      BY <1>14 DEF ChildDies
    <2> QED
      BY <1>s, <2>1 DEF Slot, OneToken, OneSignal, Signalled, NoSignal, Paid, Pending, Lives,
                        Followed, DisabledIsOff, EnabledIsAttended, Queued, Running
  <1>15. CASE AskShutdown
    <2>1. /\ OneSignal'
          /\ Queued("exited")' <=> Queued("exited")
          /\ Queued("restart")' <=> Queued("restart")
      BY <1>15, <1>s, <1>t, AppendQueue, SignalIsEvent DEF AskShutdown, OneToken
    <2>2. UNCHANGED <<enabled, tx, loop, restarts, timers, spawned, alive, watched>>
      BY <1>15 DEF AskShutdown
    <2> QED
      BY <1>s, <2>1, <2>2 DEF Slot, OneToken, NoSignal, Paid, Pending, Lives, Followed,
                              DisabledIsOff, EnabledIsAttended, Running
  <1> QED
    BY <1>1, <1>2, <1>3, <1>4, <1>5, <1>6, <1>7, <1>8, <1>9, <1>10, <1>11, <1>12, <1>13,
       <1>14, <1>15 DEF Next, MainLoop

-----------------------------------------------------------------------------
(* The phases                                                              *)

\* The phase is told by the loop, the flag, the children and what is pending.
LEMMA SamePhase ==
  ASSUME UNCHANGED <<loop, enabled, alive, spawned>>, Pending' <=> Pending
  PROVE  UNCHANGED <<Phase, spawned>>
  BY Zenon DEF Phase, Running

\* A step that moves the queue on, or adds to it, leaves the phase alone.
LEMMA QueueMoves ==
  ASSUME UNCHANGED <<loop, enabled, alive, spawned, timers>>,
         Queued("restart")' <=> Queued("restart")
  PROVE  UNCHANGED <<Phase, spawned>>
  <1>1. Pending' <=> Pending
    BY DEF Pending
  <1> QED
    BY <1>1, SamePhase

\* While a start is due there is no child.
LEMMA NobodyLives ==
  ASSUME IInv, Running, Pending
  PROVE  watched = {} /\ alive = {}
  BY DEF IInv, TypeOK, Slot, OneToken, Followed, Pending, NoSignal

\* A start that is due goes on, or gives the slot up.
LEMMA StartMoves ==
  ASSUME IInv, StartImpl, Running, Pending
  PROVE  Life!GiveUp \/ UNCHANGED <<Phase, spawned>>
  <1>1. spawned' = spawned
    BY DEF StartImpl
  <1>2. CASE ~enabled
    <2>1. loop' = "recv" /\ enabled' = enabled
      BY <1>2 DEF StartImpl
    <2>2. Phase = "off" /\ Phase' = "off"
      BY <1>2, <2>1 DEF Phase, Running
    <2> QED
      BY <1>1, <2>2
  <1>3. CASE enabled
    <2>1. Phase = "starting"
      BY <1>3 DEF Phase
    <2>2. (loop' = "recv" /\ ~enabled') \/ (loop' = "spawn" /\ enabled')
      BY <1>3, Zenon DEF StartImpl
    <2>3. Phase' \in {"off", "starting"}
      BY <2>2 DEF Phase, Running, Pending
    <2> QED
      BY <1>1, <2>1, <2>3 DEF Life!GiveUp
  <1> QED
    BY <1>2, <1>3

\* Every step of the loop, a thread or a child is one of the slot's life, or
\* none.
LEMMA StepIsLifeStep ==
  ASSUME IInv, [Next]_vars
  PROVE  [Life!Next]_(Life!lvars)
  <1> USE DEF slot, frames
  <1>t. /\ queue \in Seq(Events) /\ spawned \in Nat /\ restarts \in Nat /\ timers \in Nat
        /\ watched \subseteq 1..spawned /\ alive \subseteq 1..spawned
    BY DEF IInv, TypeOK
  <1>s. OneToken /\ Paid /\ Followed /\ DisabledIsOff /\ EnabledIsAttended
    BY DEF IInv, Slot
  <1> SUFFICES Life!Next \/ UNCHANGED <<Phase, spawned>>
    BY DEF Life!lvars
  <1>1. CASE UNCHANGED vars \/ Ended \/ SetInstalled
    <2>1. /\ UNCHANGED <<loop, enabled, alive, spawned, timers>>
          /\ Queued("restart")' <=> Queued("restart")
      BY <1>1 DEF vars, Ended, SetInstalled, Queued
    <2> QED
      BY <2>1, QueueMoves
  <1>2. CASE Boot
    <2>1. Running /\ Pending
      BY <1>2 DEF Boot, Running, Pending
    <2> QED
      BY <1>2, <2>1, StartMoves DEF Boot, Life!Next
  <1>3. CASE HandleRestart
    <2>1. Running /\ Pending
      BY <1>3, <1>t, TakeQueue DEF HandleRestart, Take, Running, Pending
    <2> QED
      BY <1>3, <2>1, StartMoves DEF HandleRestart, Life!Next
  <1>4. CASE SpawnOk
    <2>1. Running /\ Pending /\ timers = 0 /\ NoSignal
      BY <1>4, <1>s DEF SpawnOk, Running, Pending, OneToken
    <2>2. enabled
      BY <1>4, <2>1, <1>s, Zenon DEF SpawnOk, DisabledIsOff
    <2>3. /\ loop' = "recv" /\ timers' = 0 /\ enabled' = enabled /\ queue' = queue
          /\ spawned' = spawned + 1 /\ alive' # {}
      BY <1>4, <2>1 DEF SpawnOk
    <2>4. ~Pending'
      BY <2>1, <2>3 DEF Pending, NoSignal, Queued
    <2>5. Phase = "starting" /\ Phase' = "up"
      <3>1. Phase = "starting"
        BY <2>1, <2>2 DEF Phase
      <3>2. Running' /\ enabled'
        BY <2>2, <2>3 DEF Running
      <3> QED
        BY <2>3, <2>4, <3>1, <3>2 DEF Phase
    <2> QED
      BY <2>3, <2>5 DEF Life!Next, Life!Start
  <1>5. CASE SpawnFails
    <2>1. Running /\ Pending
      BY <1>5 DEF SpawnFails, Running, Pending
    <2>2. enabled
      BY <1>5, <2>1, <1>s, Zenon DEF SpawnFails, DisabledIsOff
    <2>3. /\ spawned' = spawned
          /\ \/ loop' = "spawn" /\ enabled' = enabled
             \/ loop' = "recv" /\ ~enabled'
      BY <1>5, Zenon DEF SpawnFails
    <2>4. Phase = "starting" /\ Phase' \in {"starting", "off"}
      BY <2>1, <2>2, <2>3 DEF Phase, Running, Pending
    <2> QED
      BY <2>3, <2>4 DEF Life!Next, Life!GiveUp
  <1>6. CASE HandleExited
    <2>1. /\ Running /\ Queued("exited") /\ OneSignal' /\ NoSignal'
          /\ loop' = "recv" /\ loop = "recv" /\ spawned' = spawned
      BY <1>6, <1>s, <1>t, TakeQueue DEF HandleExited, Take, Running, OneToken
    <2>2. /\ timers = 0 /\ watched = {} /\ alive = {} /\ restarts' = restarts + 1
          /\ spawned = restarts + 1
      BY <1>6, <2>1, <1>s, <1>t DEF HandleExited, OneToken, NoSignal, Paid, Lives, Followed
    <2>3. ~Queued("restart")
      BY <2>1, <1>s DEF OneToken, OneSignal, Signalled, Queued
    <2>4. enabled
      BY <2>1, <1>s, Zenon DEF DisabledIsOff
    <2>5. Phase = "down"
      BY <2>1, <2>2, <2>3, <2>4 DEF Phase, Pending
    <2>6. CASE restarts' > MaxRestarts
      <3>1. ~enabled'
        BY <1>6, <2>6, Zenon DEF HandleExited
      <3>2. Phase' = "off"
        BY <2>1, <3>1 DEF Phase, Running
      <3>3. ~(spawned <= MaxRestarts)
        BY <1>t, <2>2, <2>6, LimitAssumption
      <3> QED
        BY <2>1, <2>5, <3>2, <3>3 DEF Life!Next, Life!Answer
    <2>7. CASE ~(restarts' > MaxRestarts)
      <3>1. enabled' /\ timers' = timers + 1
        BY <1>6, <2>4, <2>7, Zenon DEF HandleExited
      <3>2. Pending'
        BY <2>2, <3>1 DEF Pending
      <3>3. Phase' = "starting"
        BY <2>1, <3>1, <3>2 DEF Phase, Running
      <3>4. spawned <= MaxRestarts
        BY <1>t, <2>2, <2>7, LimitAssumption
      <3> QED
        BY <2>1, <2>5, <3>3, <3>4 DEF Life!Next, Life!Answer
    <2> QED
      BY <2>6, <2>7
  <1>7. CASE HandleFrame
    <2>1. /\ UNCHANGED <<loop, enabled, alive, spawned, timers>>
          /\ Queued("restart")' <=> Queued("restart")
      BY <1>7, <1>t, TakeQueue DEF HandleFrame
    <2> QED
      BY <2>1, QueueMoves
  <1>8. CASE HandleShutdown
    <2>1. Phase # "over" /\ Phase' = "over" /\ spawned' = spawned
      BY <1>8 DEF HandleShutdown, Take, Phase, Running
    <2> QED
      BY <2>1 DEF Life!Next, Life!Shutdown
  <1>9. CASE TimerFires
    <2>1. Pending /\ UNCHANGED <<loop, enabled, alive, spawned>>
      BY <1>9, <1>t DEF TimerFires, Pending
    <2>2. Queued("restart")'
      BY <1>9, <1>t, AppendQueue, SignalIsEvent DEF TimerFires
    <2> QED
      BY <2>1, <2>2, SamePhase DEF Pending
  <1>10. ASSUME NEW c \in 1..spawned, ReportExit(c) \/ ChildPrints(c) \/ Forward(c)
         PROVE  UNCHANGED <<Phase, spawned>>
    <2>1. UNCHANGED <<loop, enabled, alive, spawned, timers>>
      BY <1>10 DEF ReportExit, ChildPrints, Forward
    <2>2. CASE ReportExit(c)
      <3>1. Queued("restart")' <=> Queued("restart")
        BY <2>2, <1>t, AppendQueue, SignalIsEvent DEF ReportExit
      <3> QED
        BY <2>1, <3>1, QueueMoves
    <2>3. CASE ChildPrints(c)
      <3>1. Queued("restart")' <=> Queued("restart")
        BY <2>3 DEF ChildPrints, Queued
      <3> QED
        BY <2>1, <3>1, QueueMoves
    <2>4. CASE Forward(c)
      <3> DEFINE e == [kind |-> "frame", from |-> [child |-> c, frame |-> Head(pipe[c])]]
      <3>1. e \in Events
        BY <2>4, <1>s, ForwardedIsEvent DEF IInv
      <3>2. Queued("restart")' <=> Queued("restart")
        BY <2>4, <1>t, <3>1, AppendQueue DEF Forward
      <3> QED
        BY <2>1, <3>2, QueueMoves
    <2> QED
      BY <1>10, <2>2, <2>3, <2>4
  <1>11. ASSUME NEW c \in 1..spawned, ChildDies(c)
         PROVE  Life!Next \/ UNCHANGED <<Phase, spawned>>
    <2>1. /\ UNCHANGED <<loop, enabled, spawned, timers, queue>>
          /\ c \in alive /\ alive' = alive \ {c}
      BY <1>11 DEF ChildDies
    <2>2. CASE ~Running
      <3>1. Phase = "over" /\ Phase' = "over"
        BY <2>1, <2>2 DEF Phase, Running
      <3> QED
        BY <2>1, <3>1
    <2>3. CASE Running
      <3>1. enabled
        BY <1>s, <2>1, <2>3, Zenon DEF DisabledIsOff
      <3>2. ~Pending
        BY <2>1, <2>3, NobodyLives
      <3>3. Phase = "up"
        BY <2>1, <2>3, <3>1, <3>2 DEF Phase
      <3>4. alive' = {}
        BY <1>s, <2>1, <2>3 DEF OneToken, Followed
      <3>5. Running' /\ enabled' /\ ~Pending'
        BY <2>1, <2>3, <3>1, <3>2 DEF Running, Pending, Queued
      <3>6. Phase' = "down"
        BY <3>4, <3>5 DEF Phase
      <3> QED
        BY <2>1, <3>3, <3>6 DEF Life!Next, Life!Die
    <2> QED
      BY <2>2, <2>3
  <1>12. CASE AskShutdown
    <2>1. /\ UNCHANGED <<loop, enabled, alive, spawned, timers>>
          /\ Queued("restart")' <=> Queued("restart")
      BY <1>12, <1>t, AppendQueue, SignalIsEvent DEF AskShutdown
    <2> QED
      BY <2>1, QueueMoves
  <1> QED
    BY <1>1, <1>2, <1>3, <1>4, <1>5, <1>6, <1>7, <1>8, <1>9, <1>10, <1>11, <1>12
       DEF Next, MainLoop

-----------------------------------------------------------------------------
(* Theorems                                                                *)

\* The invariant holds throughout, for any limits and any number of frames.
THEOREM Invariance == Spec => []IInv
  <1>1. IInv /\ [Next]_vars => IInv'
    BY TypeStep, SlotStep DEF IInv
  <1> QED
    BY InitIInv, <1>1, PTL DEF Spec

\* Flags, counters, queue and pipes of the slot (supervisor.rs) keep their
\* types; no counter leaves its range.
THEOREM SupervisorTypeCorrect == Spec => []TypeOK
  <1>1. IInv => TypeOK
    BY DEF IInv
  <1> QED
    BY Invariance, <1>1, PTL

\* However exits, timers and restarts interleave (supervise,
\* schedule_restart_impl, start_impl), a running child is the one that is fed.
THEOREM OneChildAndItIsFed == Spec => []ChildIsReachable
  <1>1. IInv => ChildIsReachable
    BY DEF IInv, Slot, Followed, ChildIsReachable
  <1> QED
    BY Invariance, <1>1, PTL

\* A slot that was given up (start_impl, schedule_restart_impl) has no child,
\* and nothing is left that could start one.
THEOREM DisabledStaysOff == Spec => []DisabledIsOff
  <1>1. IInv => DisabledIsOff
    BY DEF IInv, Slot
  <1> QED
    BY Invariance, <1>1, PTL

\* The restart counter of schedule_restart_impl bounds the children.
THEOREM CrashLoopIsCut == Spec => []CrashLoopBounded
  <1>1. IInv => CrashLoopBounded
    BY DEF IInv, Slot, Paid, CrashLoopBounded
  <1> QED
    BY Invariance, <1>1, PTL

\* A slot that is not given up is never forgotten: there is a child whose
\* exit will be reported, or an exit, a timer or a restart on its way to
\* start_impl (what Recovers needs besides fairness).
THEOREM EnabledSlotIsAttended == Spec => []EnabledIsAttended
  <1>1. IInv => EnabledIsAttended
    BY DEF IInv, Slot
  <1> QED
    BY Invariance, <1>1, PTL

\* The slot with its loop, threads, timers and queue is the simple one: it
\* starts anew after a death and for no other reason, MaxRestarts times and no
\* less unless a start fails, and off is for good.
THEOREM Refinement == Spec => IsLifecycle
  <1>1. Init => Life!Init
    <2> SUFFICES ASSUME Init PROVE Life!Init
      OBVIOUS
    <2>1. Running /\ Pending
      BY DEF Init, Running, Pending
    <2>2. Phase \in {"starting", "off"}
      BY <2>1 DEF Phase
    <2> QED
      BY <2>2 DEF Init, Life!Init
  <1> QED
    BY <1>1, StepIsLifeStep, Invariance, PTL DEF Spec, IsLifecycle, Life!Spec

=============================================================================
