------------------------------- MODULE MCPaste ------------------------------
(* Two copies on both platforms: pasted by the module, by a command, by a  *)
(* module whose keyboard nobody opens or else a tool, and not at all.      *)
EXTENDS Paste

CONSTANTS one, two

Setup(platform, tool) ==
  [platform |-> platform, auto |-> TRUE, override |-> FALSE, tool |-> tool, seen |-> TRUE]

MCSetups ==
  {Setup("wayland", FALSE),
   [Setup("x11", FALSE) EXCEPT !.override = TRUE],
   [Setup("x11", TRUE) EXCEPT !.seen = FALSE],
   [Setup("wayland", FALSE) EXCEPT !.auto = FALSE]}
=============================================================================
