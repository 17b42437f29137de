----------------------------- MODULE Discovery ------------------------------
(***************************************************************************)
(* Which modules a daemon runs (core/src/discovery, engine/bootstrap.rs):  *)
(* the session, the ranking of what is installed, the ranking of what the  *)
(* source publishes on a fresh machine, and the download of what is        *)
(* missing, start after start, beside `modules install' of the CLI and a   *)
(* machine that changes.  How one version is installed is module Install.  *)
(***************************************************************************)
EXTENDS Integers, SequencesExt

CONSTANTS
  Ids,        \* the module ids there are, in the order of their names
  KindOf,     \* id -> the kind its manifest states
  Requires,   \* id -> the tools its manifest requires
  Envs,       \* the environments a start may find
  Configs,    \* the configurations considered
  Sources,    \* the states of the release source considered
  Machines,   \* [disk, tools] a behaviour may start from
  MaxChanges  \* bound: changes of the machine, failures and CLI installs

None == "none"
Kinds == <<"clipboard", "frontend", "paster">>
Modules == ToSet(Ids)
Disks == {"absent", "broken", "good"}
Tools == UNION {Requires[id] : id \in Modules}

ASSUME IdsAssumption == /\ Ids \in Seq(Modules) /\ None \notin Modules
                        /\ KindOf \in [Modules -> ToSet(Kinds)]
ASSUME MachinesAssumption ==
  Machines \subseteq [disk : [Modules -> Disks], tools : SUBSET Tools]
\* prefer may name what nobody publishes, or a module of another kind.
ASSUME ConfigsAssumption ==
  \A cfg \in Configs : DOMAIN cfg = {"prefer", "local", "override"} /\ cfg.local \in BOOLEAN
\* assets: for each target triple of the release, its modules in order.
ASSUME SourcesAssumption ==
  \A s \in Sources : s.up \in BOOLEAN /\ s.speaks \in BOOLEAN
                       /\ \A t \in DOMAIN s.assets : s.assets[t] \in Seq(Modules)

VARIABLES
  env,      \* XDG_SESSION_TYPE, and whether the display variables are set
  tools,    \* executables on PATH
  disk,     \* what each module's `current' (or its local_dir binary) is
  source,   \* the release source
  config,   \* config.toml
  daemon,   \* the daemon: where its start is, and what it knows
  cli,      \* a `modules install'
  changes,  \* changes so far
  calm,     \* history: nothing but this start has happened since it began, nor failed
  fetched,  \* history: this start asked the source
  before    \* history: the picks of the previous start, if nothing has changed since

world == <<env, tools, disk, source, config>>
history == <<calm, fetched, before>>
vars == <<world, daemon, cli, changes, history>>

NoPicks == [k \in ToSet(Kinds) |-> None]

Off == [phase |-> "off", session |-> "tty", cfg |-> None, infos |-> {}, todo |-> <<>>,
        desired |-> NoPicks, plan |-> <<>>, offer |-> <<>>]

Idle == [phase |-> "idle", cfg |-> None, plan |-> <<>>, offer |-> <<>>]

Init ==
  /\ env \in Envs /\ source \in Sources /\ config \in Configs
  /\ \E m \in Machines : disk = m.disk /\ tools = m.tools
  /\ daemon = Off /\ cli = Idle
  /\ changes = 0 /\ calm = FALSE /\ fetched = FALSE /\ before = NoPicks

-----------------------------------------------------------------------------
(* The session, and the ranking                                            *)

DetectSession(e) ==
  CASE e.type \in {"wayland", "x11", "tty"} -> e.type
    [] e.type = "other" /\ e.wayland -> "wayland"
    [] e.type = "other" /\ ~e.wayland /\ e.display -> "x11"
    [] OTHER -> "tty"

Candidates(session, kind) ==
  CASE kind = "frontend" -> <<"frontend-generic">>
    [] kind = "paster" -> <<"paster-uinput">>
    [] kind = "clipboard" /\ session = "wayland" -> <<"clipboard-wayland">>
    [] kind = "clipboard" /\ session = "x11" -> <<"clipboard-x11">>
    [] OTHER -> <<>>

InfosOf(ids) == {[id |-> id, met |-> Requires[id] \subseteq tools] : id \in ids}

OfKind(infos, kind) == {info \in infos : KindOf[info.id] = kind}

IdsOf(infos) == {info.id : info \in infos}

\* The first member of a set in a list that has some.
FirstIn(ids, S) ==
  ids[CHOOSE i \in DOMAIN ids : ids[i] \in S /\ \A j \in 1 .. i - 1 : ids[j] \notin S]

RankCandidatesByTools(candidates, found, infos, preferred, kind) ==
  LET there == OfKind(infos, kind)
      met == IdsOf({info \in there : info.met})
      Penalty(id) == (IF id = preferred THEN 0 ELSE 1) + (IF id \in met THEN 0 ELSE 2)
      best == {id \in IdsOf(there) : \A other \in IdsOf(there) : Penalty(id) <= Penalty(other)}
  IN IF there = {} THEN None ELSE FirstIn(found, best)

\* The first of the ranking, which is all of it that is ever used: of those
\* with the lowest score, the one a stable sort leaves in front, where the
\* candidates stand before the others in the order they were found in.
RankCandidates(candidates, found, infos, preferred, kind) ==
  LET there == OfKind(infos, kind)
      met == IdsOf({info \in there : info.met})
      Penalty(id) == (IF id = preferred THEN 0 ELSE 2) + (IF id \in met THEN 0 ELSE 1)
      best == {id \in IdsOf(there) : \A other \in IdsOf(there) : Penalty(id) <= Penalty(other)}
  IN IF there = {} THEN None ELSE FirstIn(candidates \o found, best)

\* The head of every ranking in the report of `discover'.
Discover(session, infos, cfg) ==
  [kind \in ToSet(Kinds) |->
     RankCandidates(Candidates(session, kind), Ids, infos, cfg.prefer[kind], kind)]

-----------------------------------------------------------------------------
(* The disk and the source                                                 *)

\* Neither an absent nor a broken binary answers --manifest.
Resolves(id) == id \in Modules /\ disk[id] = "good"

ListInstalledUnasked == {id \in Modules : disk[id] # "absent"}

\* It is sorted by name, which is the order of Ids.
ListInstalled == {id \in Modules : Resolves(id)}

SelectTarget(s, cfg) ==
  LET order == <<cfg.override, "gnu", "musl">>
      there == ToSet(order) \cap DOMAIN s.assets
  IN IF there = {} THEN <<>> ELSE s.assets[FirstIn(order, there)]

Answers(s) == s.up /\ s.speaks

\* None of the answers differ for what follows: no manifest, or no artifacts.
Offer(cfg) == IF Answers(source) THEN SelectTarget(source, cfg) ELSE <<>>

-----------------------------------------------------------------------------
(* The daemon starts                                                       *)

\* The configuration and the session are read once.
Launch ==
  /\ daemon.phase = "off"
  /\ daemon' = [Off EXCEPT !.phase = "list", !.session = DetectSession(env), !.cfg = config]
  /\ calm' = (cli.phase = "idle") /\ fetched' = FALSE
  /\ UNCHANGED <<world, cli, changes, before>>

List ==
  /\ daemon.phase = "list"
  /\ daemon' = [daemon EXCEPT !.phase = "pick", !.infos = InfosOf(ListInstalled), !.todo = Kinds]
  /\ UNCHANGED <<world, cli, changes, history>>

\* What the source publishes, ranked as if it were installed.
RemoteRank(candidates, preferred, kind, offer) ==
  CASE candidates = <<>> -> None
    [] candidates # <<>> /\ preferred # None -> preferred
    [] OTHER -> RankCandidates(candidates, offer, InfosOf(ToSet(offer)), None, kind)

Asks(candidates, preferred) == candidates # <<>> /\ preferred = None

\* The manifest is fetched anew for every kind; a fetch may fail by itself.
Pick ==
  /\ daemon.phase = "pick" /\ daemon.todo # <<>>
  /\ LET kind   == Head(daemon.todo)
         prefer == daemon.cfg.prefer[kind]
         candidates == Candidates(daemon.session, kind)
         top == RankCandidates(candidates, Ids, daemon.infos, prefer, kind)
         Chosen(id) == daemon' = [daemon EXCEPT !.todo = Tail(@), !.desired[kind] = id]
     IN \/ /\ top # None
           /\ Chosen(top)
           /\ UNCHANGED <<changes, calm, fetched>>
        \/ /\ top = None
           /\ Chosen(RemoteRank(candidates, prefer, kind, Offer(daemon.cfg)))
           /\ fetched' = (fetched \/ Asks(candidates, prefer))
           /\ UNCHANGED <<changes, calm>>
        \/ /\ top = None /\ Asks(candidates, prefer) /\ Offer(daemon.cfg) # <<>>
           /\ Chosen(None)
           /\ fetched' = TRUE /\ calm' = FALSE
           /\ changes < MaxChanges /\ changes' = changes + 1
  /\ UNCHANGED <<world, cli, before>>

\* What is picked for the kinds in their order, each module once, but for some.
WantedBut(skipped) ==
  LET Want(ids, kind) == IF daemon.desired[kind] \in ToSet(ids) \cup skipped
                           THEN ids ELSE Append(ids, daemon.desired[kind])
  IN Want(Want(Want(<<>>, Kinds[1]), Kinds[2]), Kinds[3])

MissingOrNot == WantedBut({None})

Missing == WantedBut({None} \cup ListInstalled)

\* Modules of a local_dir are never downloaded.
Plan ==
  /\ daemon.phase = "pick" /\ daemon.todo = <<>>
  /\ LET missing == IF daemon.cfg.local THEN <<>> ELSE Missing
     IN daemon' = [daemon EXCEPT !.phase = IF missing = <<>> THEN "on" ELSE "fetch",
                                 !.plan = missing]
  /\ UNCHANGED <<world, cli, changes, history>>

Served(k) == Resolves(daemon.desired[k]) /\ KindOf[daemon.desired[k]] = k

\* A TTY asks for no clipboard module.
Unasked(k) == daemon.desired[k] = None /\ Candidates(daemon.session, k) = <<>>

Stop ==
  /\ daemon.phase = "on"
  /\ daemon' = Off
  /\ before' = IF calm /\ \A k \in ToSet(Kinds) : Served(k) \/ Unasked(k)
                 THEN daemon.desired ELSE NoPicks
  /\ calm' = FALSE /\ fetched' = FALSE
  /\ UNCHANGED <<world, cli, changes>>

-----------------------------------------------------------------------------
(* ensure_available, in the daemon and in the CLI                          *)

\* One manifest for the whole batch; a source that does not answer fails it.
Fetch(who, offer, done) ==
  IF offer = <<>> THEN [who EXCEPT !.phase = done, !.plan = <<>>]
                  ELSE [who EXCEPT !.phase = "install", !.offer = offer]

Fails == changes < MaxChanges /\ changes' = changes + 1

DaemonFetch ==
  /\ daemon.phase = "fetch"
  /\ fetched' = TRUE
  /\ \/ /\ daemon' = Fetch(daemon, Offer(daemon.cfg), "on")
        /\ UNCHANGED <<changes, calm>>
     \/ /\ Offer(daemon.cfg) # <<>> /\ Fails
        /\ daemon' = Fetch(daemon, <<>>, "on")
        /\ calm' = FALSE
  /\ UNCHANGED <<world, cli, before>>

CliFetch ==
  /\ cli.phase = "fetch"
  /\ cli' = Fetch(cli, Offer(cli.cfg), "idle")
  /\ UNCHANGED <<world, daemon, changes, history>>

\* The next of the batch: already there, not published, or downloaded.
Installed(who) ==
  LET id == Head(who.plan)
  IN IF id \in ToSet(who.offer) THEN [disk EXCEPT ![id] = "good"] ELSE disk

Rest(who, done) ==
  [who EXCEPT !.plan = Tail(@), !.phase = IF Len(who.plan) = 1 THEN done ELSE @]

DaemonInstall ==
  /\ daemon.phase = "install"
  /\ daemon' = Rest(daemon, "on")
  /\ \/ /\ disk' = Installed(daemon)
        /\ UNCHANGED <<changes, calm>>
     \/ /\ Installed(daemon) # disk /\ Fails
        /\ calm' = FALSE /\ UNCHANGED disk
  /\ UNCHANGED <<env, tools, source, config, cli, fetched, before>>

CliInstall ==
  /\ cli.phase = "install"
  /\ cli' = Rest(cli, "idle")
  /\ disk' = Installed(cli)
  /\ UNCHANGED <<env, tools, source, config, daemon, changes, history>>

\* What discovery ranks first of what is installed; on an empty machine
\* every candidate.
ResolveTargetIds ==
  LET session == DetectSession(env)
      report  == Discover(session, InfosOf(ListInstalled), config)
      Target(kind) == IF report[kind] = None THEN <<>> ELSE <<report[kind]>>
      targets == Target(Kinds[1]) \o Target(Kinds[2]) \o Target(Kinds[3])
  IN IF targets # <<>> THEN targets
     ELSE Candidates(session, Kinds[1]) \o Candidates(session, Kinds[2])
            \o Candidates(session, Kinds[3])

Disturbed == /\ changes < MaxChanges /\ changes' = changes + 1
             /\ calm' = FALSE /\ before' = NoPicks /\ UNCHANGED fetched

\* With a local_dir `modules install' only reports.
CliStart ==
  /\ cli.phase = "idle" /\ ~config.local
  /\ cli' = [Idle EXCEPT !.phase = "fetch", !.cfg = config, !.plan = ResolveTargetIds]
  /\ Disturbed
  /\ UNCHANGED <<world, daemon>>

-----------------------------------------------------------------------------
(* The machine changes                                                     *)

\* The user logs in otherwise, installs or removes a tool, edits the
\* configuration, loses or regains the network; a module is removed, or an
\* update of the core leaves one that speaks another protocol.
Change ==
  /\ Disturbed
  /\ \/ env' \in Envs \ {env} /\ UNCHANGED <<tools, disk, source, config>>
     \/ \E t \in Tools : /\ tools' = IF t \in tools THEN tools \ {t} ELSE tools \cup {t}
                         /\ UNCHANGED <<env, disk, source, config>>
     \/ /\ config' \in {cfg \in Configs \ {config} : cfg.local = config.local}
        /\ UNCHANGED <<env, tools, disk, source>>
     \/ source' \in Sources \ {source} /\ UNCHANGED <<env, tools, disk, config>>
     \/ \E id \in Modules, d \in {"absent", "broken"} :
          /\ disk[id] # "absent" /\ disk' = [disk EXCEPT ![id] = d]
          /\ UNCHANGED <<env, tools, source, config>>
  /\ UNCHANGED <<daemon, cli>>

Next ==
  \/ Launch \/ List \/ Pick \/ Plan \/ Stop
  \/ DaemonFetch \/ DaemonInstall
  \/ CliStart \/ CliFetch \/ CliInstall
  \/ Change

Spec == Init /\ [][Next]_vars

-----------------------------------------------------------------------------
(* Properties                                                              *)

\* Phases, picks and plans are what they claim to be.
TypeOK ==
  /\ daemon.phase \in {"off", "list", "pick", "fetch", "install", "on"}
  /\ cli.phase \in {"idle", "fetch", "install"}
  /\ disk \in [Modules -> Disks] /\ tools \subseteq Tools
  /\ ToSet(daemon.plan) \subseteq {daemon.desired[k] : k \in ToSet(Kinds)}
  /\ before \in [ToSet(Kinds) -> Modules \cup {None}]

\* The ranking rules of docs/configuration.md, as an order on modules: the
\* preference, then the tools, then the list of candidates, then the order
\* they were found in.
Position(s, x) ==
  IF x \in ToSet(s) THEN CHOOSE i \in DOMAIN s : s[i] = x /\ \A j \in 1 .. i - 1 : s[j] # x
                    ELSE Len(s) + 1

Better(a, b, candidates, found, prefer, met) ==
  \/ a = prefer
  \/ b # prefer /\ a \in met /\ b \notin met
  \/ /\ b # prefer /\ (a \in met <=> b \in met)
     /\ \/ Position(candidates, a) < Position(candidates, b)
        \/ /\ Position(candidates, a) = Position(candidates, b)
           /\ Position(found, a) < Position(found, b)

\* What a pick is, if it is what those rules say.
PicksBest ==
  daemon.phase = "pick" /\ daemon.todo # <<>> /\ daemon' # daemon =>
    LET kind == Head(daemon.todo)
        pick == daemon'.desired[kind]
        prefer == daemon.cfg.prefer[kind]
        candidates == Candidates(daemon.session, kind)
        there == IdsOf(OfKind(daemon.infos, kind))
        metThere == IdsOf({info \in daemon.infos : info.met})
        published == Offer(daemon.cfg)
        offer == {id \in ToSet(published) : KindOf[id] = kind}
        metNow == {id \in Modules : Requires[id] \subseteq tools}
        BestOf(ids, found, wish, met) ==
          /\ pick \in ids
          /\ \A id \in ids \ {pick} : Better(pick, id, candidates, found, wish, met)
    IN CASE there # {} -> BestOf(there, Ids, prefer, metThere)
         [] there = {} /\ candidates # <<>> /\ prefer # None -> pick = prefer
         [] OTHER -> \/ BestOf(offer, published, None, metNow) /\ candidates # <<>>
                     \/ /\ pick = None
                        /\ candidates = <<>> \/ offer = {} \/ changes' # changes

\* Whatever the order in which modules were found, a pick is an installed
\* module of the kind that beats every other one, whatever is published.
\* Without one, it is the preference, or the published module that beats the
\* others: one the session's list does not name is downloaded only if those
\* it names lack a tool (rank_candidates, resolve_desired, remote_rank).
BestIsPicked == [][PicksBest]_vars

\* A start that nothing disturbs and no download fails ends with a module of
\* every kind that can run, also on a fresh machine and when an update broke
\* the old one; except where nothing can be had: a TTY asks for no clipboard
\* module, a preference for a module that is not there excludes all others,
\* or the source has none (resolve_desired, ensure_available).
CalmStartServes ==
  daemon.phase = "on" /\ calm /\ ~daemon.cfg.local =>
    \A kind \in ToSet(Kinds) :
      LET prefer == daemon.cfg.prefer[kind]
          Had(id) == id \in ToSet(Offer(daemon.cfg)) /\ KindOf[id] = kind
      IN Served(kind) <=>
           \/ OfKind(daemon.infos, kind) # {}
           \/ /\ Candidates(daemon.session, kind) # <<>>
              /\ IF prefer = None THEN \E id \in Modules : Had(id) ELSE Had(prefer)

\* Once a start has served every kind, the next one on the same machine
\* picks the same modules and needs no network, however the ranking of what
\* is published differs from that of what is installed.
RestartIsQuiet ==
  daemon.phase = "on" /\ before # NoPicks => daemon.desired = before /\ ~fetched

\* README.md:33-34: discovery "downloads exactly the ones it needs from
\* GitHub Releases - never a Wayland clipboard module on an X11 box".
NeverWrongSession ==
  [][daemon.session = "x11" /\ daemon.phase = "install"
       /\ daemon.cfg.prefer["clipboard"] = None
       /\ disk["clipboard-wayland"] = "absent"
       => disk'["clipboard-wayland"] = "absent" \/ daemon' = daemon]_vars

=============================================================================
