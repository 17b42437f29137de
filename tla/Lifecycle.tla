----------------------------- MODULE Lifecycle ------------------------------
(***************************************************************************)
(* What the daemon promises of a module slot, with no threads, timers or   *)
(* queue: one child at a time; every death is answered, by a new start as  *)
(* long as the limit allows one, and by giving up after that; and a slot   *)
(* that was given up stays off.                                            *)
(***************************************************************************)
EXTENDS Naturals

CONSTANT MaxRestarts

VARIABLES
  phase,    \* starting, up (a child runs), down (it died), off, over
  children  \* children there have been

lvars == <<phase, children>>

\* No module was chosen for the slot, or it is started with the daemon.
Init == phase \in {"starting", "off"} /\ children = 0

Start == phase = "starting" /\ phase' = "up" /\ children' = children + 1

\* The module is gone, or cannot be spawned.
GiveUp == phase = "starting" /\ phase' = "off" /\ UNCHANGED children

Die == phase = "up" /\ phase' = "down" /\ UNCHANGED children

Answer ==
  /\ phase = "down"
  /\ phase' = IF children <= MaxRestarts THEN "starting" ELSE "off"
  /\ UNCHANGED children

\* The daemon ends; nobody follows what its child does then.
Shutdown == phase # "over" /\ phase' = "over" /\ UNCHANGED children

Next == Start \/ GiveUp \/ Die \/ Answer \/ Shutdown

Spec == Init /\ [][Next]_lvars
=============================================================================
