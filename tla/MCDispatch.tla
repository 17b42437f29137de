----------------------------- MODULE MCDispatch -----------------------------
(* Dispatch for TLC: two subscribers and a third client that lists, edits, *)
(* opens the picker or stops the daemon.                                   *)
EXTENDS Dispatch, TLC

CONSTANTS a, b, c

MCClients == {a, b, c}
MCAsks == a :> {"watch"} @@ b :> {"watch"} @@ c :> {"list", "edit", "show", "stop"}
=============================================================================
