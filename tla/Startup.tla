------------------------------ MODULE Startup -------------------------------
(***************************************************************************)
(* Starting and stopping the daemon around its Unix socket                 *)
(* (core/src/engine/mod.rs run, run_inner and shutdown).  Every launch of  *)
(* `cliphistory serve` is a process of its own; the file at socket_path is *)
(* named by the process that bound it and outlives a crash.  Its names are *)
(* those of no other module of the start, so that they can be extended     *)
(* together.                                                               *)
(***************************************************************************)
EXTENDS Naturals, FiniteSets

CONSTANTS
  Procs,    \* launches
  NoSocket  \* no file at socket_path

ASSUME NoSocketAssumption == NoSocket \notin Procs

VARIABLES
  pc,         \* where each launch is
  path,       \* whose socket is at socket_path
  overlapped  \* history: a launch began while another was still starting

svars == <<pc, path, overlapped>>

Starting  == {"probe", "clean", "setup", "bind"}
GaveUp    == {"refused", "blocked", "failed"}
\* The accept thread outlives the main loop: it ends with the process.
Serving   == {"serve", "stopping"}

STypeOK ==
  /\ pc \in [Procs -> {"off", "leaving", "exited", "crashed"}
                        \cup Starting \cup GaveUp \cup Serving]
  /\ path # NoSocket => path \in Procs /\ pc[path] \notin {"off"} \cup Starting \cup GaveUp
  /\ overlapped \in BOOLEAN

SInit ==
  /\ pc = [p \in Procs |-> "off"]
  /\ path = NoSocket /\ overlapped = FALSE

Goto(p, label) == pc' = [pc EXCEPT ![p] = label]

ListensWhileLooping(p) == pc[p] = "serve"

\* connect to its socket succeeds.
Listens(p) == pc[p] \in Serving

Reachable == path # NoSocket /\ Listens(path)

-----------------------------------------------------------------------------
Serve(p) ==
  /\ pc[p] = "off"
  /\ Goto(p, "probe")
  /\ overlapped' = (overlapped \/ \E q \in Procs : pc[q] \in Starting)
  /\ UNCHANGED path

ProbeFileOnly(p) ==
  /\ pc[p] = "probe"
  /\ Goto(p, IF path = NoSocket THEN "clean" ELSE "refused")
  /\ UNCHANGED <<path, overlapped>>

ProbeNothing(p) ==
  /\ pc[p] = "probe"
  /\ Goto(p, "clean")
  /\ UNCHANGED <<path, overlapped>>

\* Refuse to start twice.
Probe(p) ==
  /\ pc[p] = "probe"
  /\ Goto(p, IF Reachable THEN "refused" ELSE "clean")
  /\ UNCHANGED <<path, overlapped>>

\* remove_file: whatever is at the path is taken for a stale socket.
Clean(p) ==
  /\ pc[p] = "clean"
  /\ path' = NoSocket
  /\ Goto(p, "setup")
  /\ UNCHANGED overlapped

\* run_inner up to the listener: the database, the first prune, the modules,
\* which may be downloaded.  Any of them may fail.
SetUp(p) ==
  /\ pc[p] = "setup"
  /\ Goto(p, "bind") \/ Goto(p, "failed")
  /\ UNCHANGED <<path, overlapped>>

\* bind refuses a path that exists, stale or not.
Bind(p) ==
  /\ pc[p] = "bind"
  /\ IF path = NoSocket THEN path' = p /\ Goto(p, "serve")
                    ELSE UNCHANGED path /\ Goto(p, "blocked")
  /\ UNCHANGED overlapped

\* `cliphistory stop` reaches whoever is at the path.
AskToStop(p) ==
  /\ path = p /\ pc[p] = "serve"
  /\ Goto(p, "stopping")
  /\ UNCHANGED <<path, overlapped>>

\* shutdown removes the path, not its own socket.
Unlink(p) ==
  /\ pc[p] = "stopping"
  /\ path' = NoSocket
  /\ Goto(p, "leaving")
  /\ UNCHANGED overlapped

Exit(p) ==
  /\ pc[p] = "leaving"
  /\ Goto(p, "exited")
  /\ UNCHANGED <<path, overlapped>>

\* A signal or a power cut: the socket file stays.
Crash(p) ==
  /\ pc[p] \in Starting \cup Serving \cup {"leaving"}
  /\ Goto(p, "crashed")
  /\ UNCHANGED <<path, overlapped>>

Run(p) == Probe(p) \/ Clean(p) \/ SetUp(p) \/ Bind(p) \/ Unlink(p) \/ Exit(p)

SNext == \E p \in Procs : Serve(p) \/ Run(p) \/ AskToStop(p) \/ Crash(p)

SSpec == SInit /\ [][SNext]_svars

FairSpec == SSpec /\ \A p \in Procs : WF_svars(Run(p))

-----------------------------------------------------------------------------
(* Properties                                                              *)

OneDaemon == \A p, q \in Procs : Listens(p) /\ Listens(q) => p = q

\* Launches that do not overlap never leave two daemons, each recording
\* every copy into the same database, whatever crashed or stopped before.
SerialStartsLeaveOne == ~overlapped => OneDaemon

\* A shutdown never removes its successor's socket, nor a launch its
\* predecessor's: the daemon that listens is the one clients and `stop` reach.
SerialStartsAreReachable ==
  ~overlapped => \A p \in Procs : Listens(p) => path = p

\* A launch that finds no daemon alive ends up serving, whatever socket a
\* crash left behind, unless its set-up fails, it is killed, or another
\* launch overlaps it.
StaleSocketIsNoObstacle ==
  \A p \in Procs :
    pc[p] = "probe" /\ ~Reachable
      ~> pc[p] \in Serving \cup {"leaving", "exited", "failed", "crashed"} \/ overlapped
=============================================================================
