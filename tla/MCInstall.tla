----------------------------- MODULE MCInstall ------------------------------
(* Two operations at a time, in one process or in two, under the default   *)
(* configuration, auto_update, and a pin of the older release.             *)
EXTENDS Install, TLC

MCConfigs ==
  {[pin |-> NoRelease, auto |-> FALSE], [pin |-> NoRelease, auto |-> TRUE],
   [pin |-> 1, auto |-> FALSE]}

\* Jobs and processes differ in nothing but their names.
Symmetry == Permutations(Jobs) \cup Permutations(Procs)
=============================================================================
