----------------------------- MODULE Supervisor -----------------------------
(***************************************************************************)
(* The life of one module slot, clipboard or paster                        *)
(* (core/src/engine/supervisor.rs): the main loop spawns the child, a      *)
(* thread per child waits for its exit, a timer thread asks for the        *)
(* restart, and all of them speak to the main loop through one FIFO.       *)
(*                                                                         *)
(* Children are numbered in the order they are spawned.                    *)
(***************************************************************************)
EXTENDS Integers, Sequences, FiniteSets

CONSTANTS
  MaxAttempts,  \* CLIPBOARD_MAX_SPAWN_ATTEMPTS
  MaxRestarts,  \* CLIPBOARD_MAX_RUNTIME_RESTARTS
  MaxFrames     \* bound: frames the children print

ASSUME LimitAssumption ==
  MaxAttempts \in Nat \ {0} /\ MaxRestarts \in Nat /\ MaxFrames \in Nat

VARIABLES
  enabled,    \* the slot's id is not empty
  installed,  \* ModuleManager::resolve finds the module
  tx,         \* the child whose stdin the slot's sender feeds, 0 for None
  loop,       \* the main loop: starting, waiting, in start_impl, over
  attempts,   \* failed spawns in this start_impl
  restarts,   \* the slot's restart counter
  queue,      \* app_rx, as far as the slot is concerned
  timers,     \* restart-timer threads asleep
  spawned,    \* children spawned so far
  alive,      \* children running
  watched,    \* children whose supervisor thread has not reported an exit
  printed,    \* frames printed so far, numbered in that order
  pipe,       \* child -> frames printed and not yet forwarded to the loop
  handled     \* [child, frame] in the order the main loop handled them

slot   == <<enabled, installed, tx>>
frames == <<printed, pipe, handled>>
vars   == <<slot, loop, attempts, restarts, queue, timers, spawned, alive,
            watched, frames>>

Children == 1..(MaxRestarts + 2)
Sent     == [child : Children, frame : 1..MaxFrames]
NoFrame  == [child |-> 0, frame |-> 0]
Events   == [kind : {"exited", "restart", "shutdown"}, from : {NoFrame}]
            \cup [kind : {"frame"}, from : Sent]

Signal(kind)  == [kind |-> kind, from |-> NoFrame]
Queued(kind)  == \E i \in DOMAIN queue : queue[i].kind = kind

TypeOK ==
  /\ enabled \in BOOLEAN /\ installed \in BOOLEAN
  /\ tx \in 0..spawned
  /\ loop \in {"boot", "recv", "spawn", "done"}
  /\ attempts \in 0..MaxAttempts
  /\ restarts \in 0..(MaxRestarts + 1)
  /\ queue \in Seq(Events)
  /\ timers \in Nat
  /\ spawned \in Nat
  /\ alive \subseteq 1..spawned
  /\ watched \subseteq 1..spawned
  /\ printed \in 0..MaxFrames
  /\ pipe \in [Children -> Seq(1..MaxFrames)]
  /\ handled \in Seq(Sent)

Init ==
  /\ enabled \in BOOLEAN /\ installed \in BOOLEAN
  /\ tx = 0 /\ loop = "boot" /\ attempts = 0 /\ restarts = 0
  /\ queue = <<>> /\ timers = 0
  /\ spawned = 0 /\ alive = {} /\ watched = {}
  /\ printed = 0 /\ pipe = [c \in Children |-> <<>>] /\ handled = <<>>

-----------------------------------------------------------------------------
(* The main loop.                                                          *)

\* start_impl up to its loop: no id, nothing to do; a module that is gone
\* disables the slot.
StartImpl ==
  /\ \/ /\ ~enabled
        /\ loop' = "recv"
        /\ UNCHANGED <<enabled, attempts>>
     \/ /\ enabled /\ ~installed
        /\ enabled' = FALSE /\ loop' = "recv"
        /\ UNCHANGED attempts
     \/ /\ enabled /\ installed
        /\ loop' = "spawn" /\ attempts' = 0
        /\ UNCHANGED enabled
  /\ UNCHANGED <<installed, tx, restarts, timers, spawned, alive, watched, frames>>

\* run_inner starts the module once, then serves the queue.
Boot == loop = "boot" /\ StartImpl /\ UNCHANGED queue

SpawnOk ==
  /\ loop = "spawn"
  /\ spawned' = spawned + 1
  /\ tx' = spawned'
  /\ alive' = alive \cup {spawned'}
  /\ watched' = watched \cup {spawned'}
  /\ loop' = "recv"
  /\ UNCHANGED <<enabled, installed, attempts, restarts, queue, timers, frames>>

SpawnFailsForEver ==
  /\ loop = "spawn"
  /\ attempts' = IF attempts + 1 < MaxAttempts THEN attempts + 1 ELSE 0
  /\ UNCHANGED <<slot, loop, restarts, queue, timers, spawned, alive, watched, frames>>

\* A failed spawn is retried after a pause on the main loop itself, and
\* gives the slot up at the last attempt.
SpawnFails ==
  /\ loop = "spawn"
  /\ attempts' = attempts + 1
  /\ IF attempts' >= MaxAttempts
       THEN enabled' = FALSE /\ tx' = 0 /\ loop' = "recv"
       ELSE UNCHANGED <<enabled, tx, loop>>
  /\ UNCHANGED <<installed, restarts, queue, timers, spawned, alive, watched, frames>>

Take(kind) ==
  loop = "recv" /\ queue # <<>> /\ Head(queue).kind = kind /\ queue' = Tail(queue)

HandleExitedStillStarting ==
  /\ Take("exited")
  /\ tx' = 0
  /\ restarts' = restarts + 1
  /\ enabled' = (enabled /\ restarts' <= MaxRestarts)
  /\ timers' = timers + 1
  /\ UNCHANGED <<installed, loop, attempts, spawned, alive, watched, frames>>

HandleExitedOneEarly ==
  /\ Take("exited")
  /\ tx' = 0
  /\ restarts' = restarts + 1
  /\ IF restarts' >= MaxRestarts
       THEN enabled' = FALSE /\ UNCHANGED timers
       ELSE timers' = timers + 1 /\ UNCHANGED enabled
  /\ UNCHANGED <<installed, loop, attempts, spawned, alive, watched, frames>>

\* schedule_restart_impl: one more death, and past the limit no more.
HandleExited ==
  /\ Take("exited")
  /\ tx' = 0
  /\ restarts' = restarts + 1
  /\ IF restarts' > MaxRestarts
       THEN enabled' = FALSE /\ UNCHANGED timers
       ELSE timers' = timers + 1 /\ UNCHANGED enabled
  /\ UNCHANGED <<installed, loop, attempts, spawned, alive, watched, frames>>

HandleRestart == Take("restart") /\ StartImpl

\* A clipboard event is recorded in the history; a paster's frame is logged.
HandleFrame ==
  /\ Take("frame")
  /\ handled' = Append(handled, Head(queue).from)
  /\ UNCHANGED <<slot, loop, attempts, restarts, timers, spawned, alive, watched,
                 printed, pipe>>

\* shutdown: Stop is queued on the slot's channel, the process ends, and its
\* threads with it, whether or not the frame has been written.
HandleShutdown ==
  /\ Take("shutdown")
  /\ loop' = "done"
  /\ timers' = 0 /\ watched' = {}
  /\ UNCHANGED <<slot, attempts, restarts, spawned, alive, frames>>

-----------------------------------------------------------------------------
(* The other threads and processes.                                        *)

Running == loop # "done"

TimerDropsRestart ==
  /\ Running /\ timers > 0
  /\ timers' = timers - 1
  /\ UNCHANGED <<slot, loop, attempts, restarts, queue, spawned, alive, watched, frames>>

\* The restart timer has slept.
TimerFires ==
  /\ Running /\ timers > 0
  /\ timers' = timers - 1
  /\ queue' = Append(queue, Signal("restart"))
  /\ UNCHANGED <<slot, loop, attempts, restarts, spawned, alive, watched, frames>>

\* The end of a child's output is taken for its exit.
ReportEarly(c) ==
  /\ Running /\ c \in watched
  /\ watched' = watched \ {c}
  /\ queue' = Append(queue, Signal("exited"))
  /\ UNCHANGED <<slot, loop, attempts, restarts, timers, spawned, alive, frames>>

\* supervise: child.wait() returned.
ReportExit(c) ==
  /\ Running /\ c \in watched \ alive
  /\ watched' = watched \ {c}
  /\ queue' = Append(queue, Signal("exited"))
  /\ UNCHANGED <<slot, loop, attempts, restarts, timers, spawned, alive, frames>>

ForwardOfLiving(c) ==
  /\ Running /\ pipe[c] # <<>> /\ c \in alive
  /\ pipe' = [pipe EXCEPT ![c] = Tail(@)]
  /\ queue' = Append(queue, [kind |-> "frame",
                             from |-> [child |-> c, frame |-> Head(pipe[c])]])
  /\ UNCHANGED <<slot, loop, attempts, restarts, timers, spawned, alive, watched,
                 printed, handled>>

\* pump_output and the events thread: lines a child printed reach the main
\* loop in order, those of a child that has died too.
Forward(c) ==
  /\ Running /\ pipe[c] # <<>>
  /\ pipe' = [pipe EXCEPT ![c] = Tail(@)]
  /\ queue' = Append(queue, [kind |-> "frame",
                             from |-> [child |-> c, frame |-> Head(pipe[c])]])
  /\ UNCHANGED <<slot, loop, attempts, restarts, timers, spawned, alive, watched,
                 printed, handled>>

ChildPrints(c) ==
  /\ c \in alive /\ printed < MaxFrames /\ Running
  /\ printed' = printed + 1
  /\ pipe' = [pipe EXCEPT ![c] = Append(@, printed')]
  /\ UNCHANGED <<slot, loop, attempts, restarts, queue, timers, spawned, alive,
                 watched, handled>>

\* The child crashes, loses its display, or exits by itself.
ChildDies(c) ==
  /\ c \in alive
  /\ alive' = alive \ {c}
  /\ UNCHANGED <<slot, loop, attempts, restarts, queue, timers, spawned, watched, frames>>

\* The module is removed or installed while the daemon runs.
SetInstalled ==
  /\ Running
  /\ installed' = ~installed
  /\ UNCHANGED <<enabled, tx, loop, attempts, restarts, queue, timers, spawned,
                 alive, watched, frames>>

\* StopDaemon, dispatched by the main loop itself.
AskShutdown ==
  /\ loop = "recv" /\ ~Queued("shutdown")
  /\ queue' = Append(queue, Signal("shutdown"))
  /\ UNCHANGED <<slot, loop, attempts, restarts, timers, spawned, alive, watched, frames>>

MainLoop == \/ Boot \/ SpawnOk \/ SpawnFails
            \/ HandleExited \/ HandleRestart \/ HandleFrame \/ HandleShutdown

\* The daemon has ended: nothing but its orphaned child can still move.
Ended == ~Running /\ alive = {} /\ UNCHANGED vars

Next ==
  \/ MainLoop
  \/ TimerFires
  \/ \E c \in 1..spawned : ReportExit(c) \/ Forward(c) \/ ChildPrints(c) \/ ChildDies(c)
  \/ SetInstalled
  \/ AskShutdown
  \/ Ended

Spec == Init /\ [][Next]_vars

\* Threads the OS schedules and a sleep that ends.  Children are free to
\* live for ever, and nobody has to install, remove or stop anything.
FairSpec ==
  /\ Spec
  /\ WF_vars(MainLoop) /\ WF_vars(TimerFires)
  /\ \A c \in Children : WF_vars(ReportExit(c)) /\ WF_vars(Forward(c))

-----------------------------------------------------------------------------
(* Properties                                                              *)

\* A running child is the one the slot's sender feeds: there are never two
\* readers recording the clipboard, and CopyEntry never writes to a child
\* that has been replaced, however exits, timers and restarts interleave.
ChildIsReachable == Running => \A c \in alive : tx = c

\* A slot that lost its id has no child, and nothing on its way that would
\* start one: what `status` reports as disabled is really off.
DisabledIsOff ==
  ~enabled /\ Running =>
    /\ alive = {} /\ watched = {} /\ tx = 0 /\ loop # "spawn"
    /\ timers = 0 /\ ~Queued("exited") /\ ~Queued("restart")

\* However the children die, a crash loop is cut: one first start and at
\* most MaxRestarts replacements.
CrashLoopBounded == spawned <= MaxRestarts + 1

\* A start is going on, or a timer or the queue will ask for one.
Pending == loop \in {"boot", "spawn"} \/ timers > 0 \/ Queued("restart")

Phase ==
  CASE ~Running -> "over"
    [] Running /\ ~enabled -> "off"
    [] Running /\ enabled /\ Pending -> "starting"
    [] Running /\ enabled /\ ~Pending /\ alive # {} -> "up"
    [] OTHER -> "down"

Life == INSTANCE Lifecycle WITH phase <- Phase, children <- spawned

\* However the loop, its queue, the timers and the threads that wait for
\* exits interleave (start_impl, supervise, schedule_restart_impl), the slot
\* goes from phase to phase as it should: it starts anew after a death and
\* for no other reason, exactly MaxRestarts times, and off is for good.
IsLifecycle == Life!Spec

\* What a reader printed is recorded, even if it died right after.
LastWordsRecorded ==
  \A f \in 1..MaxFrames :
    printed >= f ~> (\E i \in DOMAIN handled : handled[i].frame = f) \/ ~Running

\* A death is answered: unless the daemon ends, a new child runs or the slot
\* is given up.
Recovers == spawned > 0 /\ alive = {} ~> alive # {} \/ ~enabled \/ ~Running

\* StopDaemon ends the main loop even while a module that cannot be spawned
\* is being retried on it.
StopIsHeard == Queued("shutdown") ~> ~Running
=============================================================================
