---------------------------- MODULE MCDiscovery -----------------------------
(* The four modules of the repository, the tool one of them needs, and the *)
(* configurations, sources and machines that differ for the ranking.       *)
EXTENDS Discovery

MCIds == <<"clipboard-wayland", "clipboard-x11", "frontend-generic", "paster-uinput">>

MCKindOf == [id \in ToSet(MCIds) |->
  CASE id \in {"clipboard-wayland", "clipboard-x11"} -> "clipboard"
    [] id = "frontend-generic" -> "frontend"
    [] OTHER -> "paster"]

MCRequires == [id \in ToSet(MCIds) |-> IF id = "clipboard-x11" THEN {"xclip"} ELSE {}]

\* A session of each type, and one that only its display gives away.
MCEnvs == {[type |-> t, wayland |-> FALSE, display |-> TRUE] : t \in {"wayland", "tty", "other"}}

Prefer(clipboard) == [clipboard |-> clipboard, frontend |-> None, paster |-> None]

\* No preference, the other session's module, a misspelt one, and one of
\* another kind; a musl build; a local_dir.
MCConfigs ==
  {[prefer |-> Prefer(c), local |-> FALSE, override |-> None] :
     c \in {None, "clipboard-x11", "clipboard-wl", "frontend-generic"}}
  \cup {[prefer |-> Prefer(None), local |-> l, override |-> "musl"] : l \in BOOLEAN}

Release(up, speaks, assets) == [up |-> up, speaks |-> speaks, assets |-> assets]

\* The musl build of the release lacks a module.
MCSources ==
  LET both == [t \in {"gnu", "musl"} |-> IF t = "gnu" THEN MCIds ELSE Tail(MCIds)]
  IN {Release(TRUE, TRUE, both), Release(FALSE, TRUE, both), Release(TRUE, FALSE, both),
      Release(TRUE, TRUE, [t \in {"musl"} |-> Tail(MCIds)])}

\* Any clipboard modules; the rest installed, missing, or broken by an update.
MCMachines ==
  {m \in [disk : [ToSet(MCIds) -> Disks], tools : SUBSET {"xclip"}] :
     m.disk["frontend-generic"] = m.disk["paster-uinput"]}
=============================================================================
