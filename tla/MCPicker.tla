------------------------------ MODULE MCPicker ------------------------------
(* Two entries at first, and a text that matches one label and the number  *)
(* of the second row.                                                      *)
EXTENDS Picker

MCFilters == {[labels |-> {1}, places |-> {2}]}
=============================================================================
