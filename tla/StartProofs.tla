---------------------------- MODULE StartProofs -----------------------------
(***************************************************************************)
(* Proofs about how the daemon starts: which process becomes the daemon    *)
(* (Startup, for any number of launches, stops and crashes), and which     *)
(* modules it runs (Discovery, for any modules, configurations, sources    *)
(* and machines, and any number of changes).                               *)
(*                                                                         *)
(* Of Discovery: first what the ranking returns, then the inductive        *)
(* invariant, whose parts say what a start that nothing disturbs knows of  *)
(* the world, and what the picks of the previous start still mean; then    *)
(* one lemma per action.                                                   *)
(***************************************************************************)
EXTENDS Startup, Discovery, FiniteSetTheorems, WellFoundedInduction, TLAPS

-----------------------------------------------------------------------------
(* Startup                                                                 *)

\* One launch starts at a time.
OneStarts == \A p, q \in Procs : pc[p] \in Starting /\ pc[q] \in Starting => p = q

\* A launch goes past its probe only where no daemon listens, and after it
\* removed the socket file no other appears.
StartsAlone ==
  \A p \in Procs :
    /\ pc[p] \in {"clean", "setup", "bind"} => \A q \in Procs : ~Listens(q)
    /\ pc[p] \in {"setup", "bind"} => path = NoSocket

ListenerOwnsPath == \A p \in Procs : Listens(p) => path = p

StartupInv == STypeOK /\ (~overlapped => OneStarts /\ StartsAlone /\ ListenerOwnsPath)

-----------------------------------------------------------------------------
\* Before any launch nothing listens and no file is at the path.
LEMMA StartupInit == SInit => StartupInv
  BY DEF SInit, StartupInv, STypeOK, OneStarts, StartsAlone, ListenerOwnsPath, Listens,
         Starting, GaveUp, Serving

\* Every step keeps the program counters and the owner of the path well typed.
LEMMA StartupTypeStep == STypeOK /\ [SNext]_svars => STypeOK'
  <1> SUFFICES ASSUME STypeOK, [SNext]_svars PROVE STypeOK'
    OBVIOUS
  <1> USE NoSocketAssumption DEF STypeOK, Goto, Starting, GaveUp, Serving
  <1>1. CASE UNCHANGED svars
    BY <1>1 DEF svars
  <1>2. ASSUME NEW p \in Procs, Serve(p) \/ Probe(p) \/ SetUp(p) PROVE STypeOK'
    BY <1>2 DEF Serve, Probe, SetUp, Reachable, Listens
  <1>3. ASSUME NEW p \in Procs, Clean(p) \/ Bind(p) \/ Unlink(p) PROVE STypeOK'
    BY <1>3 DEF Clean, Bind, Unlink
  <1>4. ASSUME NEW p \in Procs, AskToStop(p) \/ Exit(p) \/ Crash(p) PROVE STypeOK'
    BY <1>4 DEF AskToStop, Exit, Crash
  <1> QED
    BY <1>1, <1>2, <1>3, <1>4 DEF SNext, Run

\* While no two launches overlap, every step keeps the starting launch alone
\* and the listening daemon at the path.
LEMMA SerialStep ==
  ASSUME StartupInv, [SNext]_svars, ~overlapped'
  PROVE  OneStarts' /\ StartsAlone' /\ ListenerOwnsPath'
  <1> USE NoSocketAssumption DEF Goto, Starting, GaveUp, Serving, Listens
  <1>0. ~overlapped
    BY DEF svars, SNext, Serve, Run, Probe, Clean, SetUp, Bind, Unlink, Exit, AskToStop, Crash,
           StartupInv, STypeOK
  <1>1. STypeOK /\ OneStarts /\ StartsAlone /\ ListenerOwnsPath
    BY <1>0 DEF StartupInv
  <1> USE DEF STypeOK, OneStarts, StartsAlone, ListenerOwnsPath
  <1>2. CASE UNCHANGED svars
    BY <1>1, <1>2 DEF svars
  <1>3. ASSUME NEW p \in Procs, Serve(p)
        PROVE  OneStarts' /\ StartsAlone' /\ ListenerOwnsPath'
    <2>1. \A q \in Procs : pc[q] \notin Starting
      BY <1>3 DEF Serve
    <2> QED
      BY <1>1, <1>3, <2>1 DEF Serve
  <1>4. ASSUME NEW p \in Procs, Probe(p)
        PROVE  OneStarts' /\ StartsAlone' /\ ListenerOwnsPath'
    <2>1. pc'[p] = "clean" => \A q \in Procs : ~Listens(q)
      BY <1>1, <1>4 DEF Probe, Reachable
    <2> QED
      BY <1>1, <1>4, <2>1 DEF Probe
  <1>5. ASSUME NEW p \in Procs, Clean(p)
        PROVE  OneStarts' /\ StartsAlone' /\ ListenerOwnsPath'
    BY <1>1, <1>5 DEF Clean
  <1>6. ASSUME NEW p \in Procs, SetUp(p)
        PROVE  OneStarts' /\ StartsAlone' /\ ListenerOwnsPath'
    BY <1>1, <1>6 DEF SetUp
  <1>7. ASSUME NEW p \in Procs, Bind(p)
        PROVE  OneStarts' /\ StartsAlone' /\ ListenerOwnsPath'
    BY <1>1, <1>7 DEF Bind
  <1>8. ASSUME NEW p \in Procs, AskToStop(p) \/ Exit(p) \/ Crash(p)
        PROVE  OneStarts' /\ StartsAlone' /\ ListenerOwnsPath'
    BY <1>1, <1>8 DEF AskToStop, Exit, Crash
  <1>9. ASSUME NEW p \in Procs, Unlink(p)
        PROVE  OneStarts' /\ StartsAlone' /\ ListenerOwnsPath'
    BY <1>1, <1>9 DEF Unlink
  <1> QED
    BY <1>2, <1>3, <1>4, <1>5, <1>6, <1>7, <1>8, <1>9 DEF SNext, Run

\* Every state of every behaviour satisfies the inductive invariant.
THEOREM StartupInvariance == SSpec => []StartupInv
  <1>1. StartupInv /\ [SNext]_svars => StartupInv'
    BY StartupTypeStep, SerialStep DEF StartupInv
  <1> QED
    BY StartupInit, <1>1, PTL DEF SSpec

\* Program counters have their types, and the file at the path was put there
\* by a launch that got as far as binding it.
THEOREM StartupTypeCorrect == SSpec => []STypeOK
  <1>1. StartupInv => STypeOK
    BY DEF StartupInv
  <1> QED
    BY <1>1, StartupInvariance, PTL

\* However many launches, stops and crashes came before, launches that do not
\* overlap never leave two daemons.
THEOREM OneDaemonAfterSerialStarts == SSpec => []SerialStartsLeaveOne
  <1>1. StartupInv => SerialStartsLeaveOne
    BY DEF StartupInv, ListenerOwnsPath, SerialStartsLeaveOne, OneDaemon
  <1> QED
    BY <1>1, StartupInvariance, PTL

\* Under the same condition the daemon that listens is the one at the path.
THEOREM ReachableAfterSerialStarts == SSpec => []SerialStartsAreReachable
  <1>1. StartupInv => SerialStartsAreReachable
    BY DEF StartupInv, ListenerOwnsPath, SerialStartsAreReachable
  <1> QED
    BY <1>1, StartupInvariance, PTL

-----------------------------------------------------------------------------
(* The invariant of Discovery                                              *)

KindSet == ToSet(Kinds)

\* What a pick may be: a module, a preference, or a name the code knows.
Names ==
  Modules \cup {None}
    \cup {"clipboard-wayland", "clipboard-x11", "frontend-generic", "paster-uinput"}
    \cup {cfg.prefer[k] : cfg \in Configs, k \in KindSet}

Todos == {Kinds, <<"frontend", "paster">>, <<"paster">>, <<>>}

Infos == [id : Modules, met : BOOLEAN]

DaemonStates ==
  [phase : {"off", "list", "pick", "fetch", "install", "on"},
   session : {"wayland", "x11", "tty"}, cfg : {daemon.cfg}, infos : SUBSET Infos,
   todo : Todos, desired : [KindSet -> Names], plan : Seq(Names), offer : Seq(Modules)]

CliStates ==
  [phase : {"idle", "fetch", "install"}, cfg : {cli.cfg},
   plan : Seq(Names), offer : Seq(Modules)]

\* The types, and which parts of the daemon's state its phase gives a value.
Types ==
  /\ source \in Sources /\ config \in Configs /\ tools \subseteq Tools
  /\ disk \in [Modules -> Disks]
  /\ daemon \in DaemonStates /\ cli \in CliStates
  /\ daemon.phase # "off" => daemon.cfg \in Configs
  /\ daemon.phase # "pick" => daemon.todo = <<>>
  /\ daemon.plan # <<>> <=> daemon.phase \in {"fetch", "install"}
  /\ ToSet(daemon.plan) \subseteq {daemon.desired[k] : k \in KindSet}
  /\ cli.phase # "idle" => cli.cfg \in Configs /\ cli.plan # <<>>
  /\ changes \in Nat /\ calm \in BOOLEAN /\ fetched \in BOOLEAN
  /\ before \in [KindSet -> Modules \cup {None}]

\* What a start picks for a kind, from what it found and what is published.
PickFor(k, session, infos) ==
  LET candidates == Candidates(session, k)
  IN IF OfKind(infos, k) # {}
       THEN RankCandidates(candidates, Ids, infos, config.prefer[k], k)
       ELSE RemoteRank(candidates, config.prefer[k], k, Offer(config))

\* The picks a start downloads, if they are not there.
Due ==
  IF daemon.phase \in {"fetch", "install", "on"} /\ ~config.local
    THEN {daemon.desired[k] : k \in KindSet} \cap ToSet(Offer(config)) ELSE {}

\* While nothing disturbs a start, the world is the one it read, but for the
\* modules it has downloaded so far.
CalmInv ==
  calm =>
    /\ daemon.phase # "off" /\ cli.phase = "idle"
    /\ daemon.cfg = config /\ daemon.session = DetectSession(env)
    /\ daemon.plan # <<>> => ~config.local
    /\ daemon.phase = "install" => daemon.offer = Offer(config)
    /\ daemon.phase # "list" =>
         /\ daemon.infos = InfosOf(IdsOf(daemon.infos))
         /\ \A k \in KindSet \ ToSet(daemon.todo) :
              daemon.desired[k] = PickFor(k, daemon.session, daemon.infos)
         /\ IdsOf(daemon.infos) \cup (Due \ ToSet(daemon.plan)) \subseteq ListInstalled
         /\ ListInstalled \subseteq IdsOf(daemon.infos) \cup Due

\* Of this kind a start would pick the same again, without asking anybody.
SettledFor(k) ==
  LET session == DetectSession(env)
      infos == InfosOf(ListInstalled)
  IN /\ before[k] = PickFor(k, session, infos)
     /\ OfKind(infos, k) = {} => Candidates(session, k) = <<>>

\* After a start that served every kind, and until something changes.
BeforeInv ==
  before # NoPicks =>
    /\ cli.phase = "idle"
    /\ \A k \in KindSet : SettledFor(k)
    /\ daemon.phase # "off" =>
         /\ daemon.cfg = config /\ daemon.session = DetectSession(env)
         /\ daemon.phase \in {"list", "pick", "on"} /\ ~fetched
    /\ daemon.phase \in {"pick", "on"} =>
         \A k \in KindSet \ ToSet(daemon.todo) : daemon.desired[k] = before[k]
    /\ daemon.phase = "pick" => daemon.infos = InfosOf(ListInstalled)

DiscoveryInv == Types /\ CalmInv /\ BeforeInv

-----------------------------------------------------------------------------
(* Lists, and the first of their members                                   *)

\* A set of subsets of a finite set has a minimal member.
LEMMA Minimal ==
  ASSUME NEW S, IsFiniteSet(S), NEW B \in SUBSET (SUBSET S), B # {}
  PROVE  \E T \in B : \A U \in B : U \subseteq T => U = T
  <1>1. IsWellFoundedOn(StrictSubsetOrdering(S), SUBSET S)
    BY FS_StrictSubsetOrderingWellFounded, FS_FiniteSubsetsOfFinite
  <1>2. \E T \in B : \A U \in B : ~(<<U, T>> \in StrictSubsetOrdering(S))
    BY <1>1, WFMin
  <1> QED
    BY <1>2 DEF StrictSubsetOrdering

\* A nonempty set of naturals has a least element.
LEMMA Least ==
  ASSUME NEW N \in SUBSET Nat, N # {}
  PROVE  \E n \in N : \A m \in N : n <= m
  <1>1. PICK k \in N : TRUE
    OBVIOUS
  <1> DEFINE S == 0..k
             B == {0..m : m \in N \cap S}
  <1>2. IsFiniteSet(S)
    BY <1>1, FS_Interval
  <1>3. B \in SUBSET (SUBSET S) /\ B # {}
    <2>1. k \in N \cap S
      BY <1>1
    <2>2. \A m \in N \cap S : (0..m) \in SUBSET S
      BY <1>1
    <2> QED
      BY <2>1, <2>2
  <1>4. PICK T \in B : \A U \in B : U \subseteq T => U = T
    <2> HIDE DEF B, S
    <2> QED
      BY <1>2, <1>3, Minimal
  <1>5. PICK n \in N \cap S : T = 0..n
    BY <1>4
  <1>6. ASSUME NEW m \in N, ~(n <= m) PROVE FALSE
    <2>1. m \in N \cap S /\ m \in Nat /\ n \in Nat /\ m < n
      BY <1>1, <1>6
    <2>2. (0..m) \in B /\ (0..m) \subseteq (0..n)
      BY <2>1
    <2>3. (0..m) = (0..n)
      BY <2>2, <1>4, <1>5
    <2>4. n \in 0..n
      BY <2>1
    <2> HIDE DEF S, B
    <2> QED
      BY <2>1, <2>3, <2>4
  <1> QED
    BY <1>5, <1>6

\* In a list with a member of T, some index is the first one with such.
LEMMA FirstIndex ==
  ASSUME NEW U, NEW s \in Seq(U), NEW T, ToSet(s) \cap T # {}
  PROVE  \E i \in DOMAIN s : s[i] \in T /\ \A j \in 1 .. i - 1 : s[j] \notin T
  <1> DEFINE N == {i \in DOMAIN s : s[i] \in T}
  <1>1. DOMAIN s = 1 .. Len(s) /\ Len(s) \in Nat
    OBVIOUS
  <1>2. N \in SUBSET Nat /\ N # {}
    BY <1>1 DEF ToSet
  <1>3. PICK i \in N : \A j \in N : i <= j
    <2> HIDE DEF N
    <2> QED
      BY <1>2, Least
  <1>4. \A j \in 1 .. i - 1 : j \in DOMAIN s /\ ~(i <= j)
    BY <1>1, <1>3
  <1> QED
    BY <1>3, <1>4

\* What FirstIn returns: a member of the set, with none before it.
LEMMA FirstInList ==
  ASSUME NEW U, NEW s \in Seq(U), NEW T, ToSet(s) \cap T # {}
  PROVE  \E i \in DOMAIN s :
           /\ FirstIn(s, T) = s[i] /\ s[i] \in T
           /\ \A j \in 1 .. i - 1 : s[j] \notin T
  BY FirstIndex DEF FirstIn

\* In particular, a member of both.
LEMMA FirstInBoth ==
  ASSUME NEW U, NEW s \in Seq(U), NEW T, ToSet(s) \cap T # {}
  PROVE  FirstIn(s, T) \in ToSet(s) \cap T
  BY FirstInList DEF ToSet

\* The position of a member is the first index it is at.
LEMMA PositionOfMember ==
  ASSUME NEW U, NEW s \in Seq(U), NEW x \in ToSet(s)
  PROVE  /\ Position(s, x) \in DOMAIN s /\ s[Position(s, x)] = x
         /\ \A j \in 1 .. Position(s, x) - 1 : s[j] # x
  <1>1. \E i \in DOMAIN s : s[i] \in {x} /\ \A j \in 1 .. i - 1 : s[j] \notin {x}
    BY FirstIndex
  <1> QED
    BY <1>1 DEF Position

\* Of the members of a set, the first in a list and what follows it stands
\* before the others: in the list, or else in what follows.
LEMMA FirstStandsBefore ==
  ASSUME NEW U, NEW s \in Seq(U), NEW t \in Seq(U),
         NEW T, T \subseteq ToSet(t), T # {},
         NEW x \in T, x = FirstIn(s \o t, T), NEW y \in T \ {x}
  PROVE  \/ Position(s, x) < Position(s, y)
         \/ Position(s, x) = Position(s, y) /\ Position(t, x) < Position(t, y)
  <1>1. /\ Len(s) \in Nat /\ DOMAIN s = 1 .. Len(s)
        /\ Len(t) \in Nat /\ DOMAIN t = 1 .. Len(t)
    OBVIOUS
  <1>2. /\ Len(s \o t) = Len(s) + Len(t) /\ DOMAIN (s \o t) = 1 .. Len(s) + Len(t)
        /\ \A i \in 1 .. Len(s) : (s \o t)[i] = s[i]
        /\ \A i \in 1 .. Len(t) : (s \o t)[Len(s) + i] = t[i]
    OBVIOUS
  <1>3. s \o t \in Seq(U) /\ ToSet(s \o t) \cap T # {}
    <2>1. s \o t \in Seq(U)
      OBVIOUS
    <2>2. PICK k \in DOMAIN t : t[k] = x
      BY DEF ToSet
    <2>3. Len(s) + k \in DOMAIN (s \o t) /\ (s \o t)[Len(s) + k] = x
      BY <1>1, <1>2, <2>2
    <2> QED
      BY <2>1, <2>3 DEF ToSet
  <1>4. PICK i \in DOMAIN (s \o t) :
          (s \o t)[i] = x /\ \A j \in 1 .. i - 1 : (s \o t)[j] \notin T
    BY <1>3, FirstInList
  <1>5. /\ x \in ToSet(t) /\ y \in ToSet(t)
        /\ Position(t, x) \in DOMAIN t /\ t[Position(t, x)] = x
        /\ Position(t, y) \in DOMAIN t /\ t[Position(t, y)] = y
        /\ \A j \in 1 .. Position(t, x) - 1 : t[j] # x
    BY PositionOfMember
  <1>6. \A z \in ToSet(s) : /\ Position(s, z) \in DOMAIN s /\ s[Position(s, z)] = z
                            /\ \A j \in 1 .. Position(s, z) - 1 : s[j] # z
    BY PositionOfMember
  <1>7. \A z : z \notin ToSet(s) => Position(s, z) = Len(s) + 1
    BY DEF Position
  <1>8. CASE i <= Len(s)
    <2>1. i \in 1 .. Len(s) /\ s[i] = x /\ x \in ToSet(s)
      BY <1>1, <1>2, <1>4, <1>8 DEF ToSet
    <2>2. \A j \in 1 .. i - 1 : s[j] \notin T
      BY <1>1, <1>2, <1>4, <1>8
    <2>3. Position(s, x) = i
      BY <1>1, <1>6, <2>1, <2>2
    <2>4. CASE y \in ToSet(s)
      <3>1. Position(s, y) \in 1 .. Len(s) /\ s[Position(s, y)] = y
        BY <1>1, <1>6, <2>4
      <3>2. Position(s, y) # i /\ ~(Position(s, y) < i)
        BY <1>1, <2>1, <2>2, <3>1
      <3> QED
        BY <1>1, <2>1, <2>3, <3>1, <3>2
    <2>5. CASE y \notin ToSet(s)
      BY <1>1, <1>7, <2>1, <2>3, <2>5
    <2> QED
      BY <2>4, <2>5
  <1>9. CASE ~(i <= Len(s))
    <2>1. \A j \in 1 .. Len(s) : s[j] \notin T
      BY <1>1, <1>2, <1>4, <1>9
    <2>2. x \notin ToSet(s) /\ y \notin ToSet(s)
      BY <1>1, <2>1 DEF ToSet
    <2>3. PICK k \in 1 .. Len(t) : i = Len(s) + k
      <3>1. i - Len(s) \in 1 .. Len(t) /\ i = Len(s) + (i - Len(s))
        BY <1>1, <1>2, <1>9
      <3> QED
        BY <3>1
    <2>4. t[k] = x
      BY <1>2, <1>4, <2>3
    <2>5. \A j \in 1 .. k - 1 : t[j] \notin T
      <3> SUFFICES ASSUME NEW j \in 1 .. k - 1 PROVE t[j] \notin T
        OBVIOUS
      <3>1. Len(s) + j \in 1 .. i - 1 /\ j \in 1 .. Len(t)
        BY <1>1, <2>3
      <3> QED
        BY <1>2, <1>4, <3>1
    <2>6. Position(t, x) = k
      BY <1>1, <1>5, <2>4, <2>5
    <2>7. Position(t, y) # k /\ ~(Position(t, y) < k)
      BY <1>1, <1>5, <2>4, <2>5
    <2> QED
      BY <1>1, <1>5, <1>7, <2>2, <2>6, <2>7
  <1> QED
    BY <1>1, <1>4, <1>8, <1>9

-----------------------------------------------------------------------------
(* What the ranking returns                                                *)

\* An id is that of an info.
LEMMA IdsOfInfos ==
  ASSUME NEW infos \in SUBSET Infos, NEW kind
  PROVE  /\ IdsOf(infos) \subseteq Modules /\ IdsOf(OfKind(infos, kind)) \subseteq IdsOf(infos)
         /\ OfKind(infos, kind) = {} <=> IdsOf(OfKind(infos, kind)) = {}
         /\ IdsOf(OfKind(infos, kind)) = {id \in IdsOf(infos) : KindOf[id] = kind}
  BY DEF Infos, IdsOf, OfKind

\* Without a module of the kind nothing is ranked.  Otherwise a module of the
\* kind that beats the others comes first; met may be any set that tells
\* those whose tools are there.
LEMMA Ranked ==
  ASSUME NEW U, NEW candidates \in Seq(U), NEW found \in Seq(U),
         NEW infos \in SUBSET Infos, IdsOf(infos) \subseteq ToSet(found),
         NEW preferred, NEW kind, OfKind(infos, kind) # {}, NEW met,
         \A info \in OfKind(infos, kind) :
           info.id \in met <=> \E other \in OfKind(infos, kind) : other.id = info.id /\ other.met
  PROVE  LET top == RankCandidates(candidates, found, infos, preferred, kind)
         IN /\ top \in IdsOf(OfKind(infos, kind))
            /\ \A id \in IdsOf(OfKind(infos, kind)) \ {top} :
                 Better(top, id, candidates, found, preferred, met)
  <1> DEFINE there == OfKind(infos, kind)
             ids == IdsOf(there)
             able == IdsOf({info \in there : info.met})
             Penalty(id) == (IF id = preferred THEN 0 ELSE 2) + (IF id \in able THEN 0 ELSE 1)
             best == {id \in ids : \A other \in ids : Penalty(id) <= Penalty(other)}
             top == FirstIn(candidates \o found, best)
  <1>1. RankCandidates(candidates, found, infos, preferred, kind) = top
    BY DEF RankCandidates
  <1>2. ids # {} /\ ids \subseteq ToSet(found)
    BY IdsOfInfos
  <1>3. \A id \in ids : id \in met <=> id \in able
    BY DEF IdsOf
  <1> HIDE DEF able, there, ids
  <1>4. \A id : Penalty(id) \in 0 .. 3
    OBVIOUS
  <1>5. best # {}
    <2> DEFINE N == {Penalty(id) : id \in ids}
    <2>1. N \in SUBSET Nat /\ N # {}
      BY <1>2, <1>4
    <2>2. PICK n \in N : \A m \in N : n <= m
      <3> HIDE DEF N
      <3> QED
        BY <2>1, Least
    <2>3. PICK id \in ids : Penalty(id) = n
      OBVIOUS
    <2> QED
      BY <2>2, <2>3
  <1>6. best \subseteq ids /\ best \subseteq ToSet(found)
    BY <1>2
  <1>7. top \in best
    <2>1. candidates \o found \in Seq(U) /\ ToSet(found) \subseteq ToSet(candidates \o found)
      <3>1. /\ candidates \o found \in Seq(U)
            /\ DOMAIN (candidates \o found) = 1 .. Len(candidates) + Len(found)
            /\ \A i \in DOMAIN found : (candidates \o found)[Len(candidates) + i] = found[i]
        OBVIOUS
      <3>2. \A i \in DOMAIN found : Len(candidates) + i \in DOMAIN (candidates \o found)
        BY <3>1
      <3> QED
        BY <3>1, <3>2 DEF ToSet
    <2> HIDE DEF best
    <2> QED
      BY <1>5, <1>6, <2>1, FirstInBoth
  <1>8. ASSUME NEW id \in ids \ {top} PROVE Better(top, id, candidates, found, preferred, met)
    <2>1. top \in ids /\ Penalty(top) <= Penalty(id)
      BY <1>7
    <2>2. CASE id \in best
      <3>1. Penalty(top) = Penalty(id)
        BY <1>4, <1>7, <2>2
      <3>2. top = preferred \/ (id # preferred /\ (top \in able <=> id \in able))
        BY <3>1
      <3>3. \/ Position(candidates, top) < Position(candidates, id)
            \/ /\ Position(candidates, top) = Position(candidates, id)
               /\ Position(found, top) < Position(found, id)
        <4> HIDE DEF best
        <4> QED
          BY <1>6, <1>7, <2>2, FirstStandsBefore
      <3> QED
        BY <1>3, <2>1, <3>2, <3>3 DEF Better
    <2>3. CASE id \notin best
      <3>1. Penalty(top) < Penalty(id)
        BY <1>4, <1>7, <2>3
      <3>2. top = preferred \/ (id # preferred /\ top \in able /\ id \notin able)
        BY <3>1
      <3> QED
        BY <1>3, <2>1, <3>2 DEF Better
    <2> QED
      BY <2>2, <2>3
  <1>9. top \in ids
    BY <1>7
  <1> HIDE DEF top
  <1> QED
    BY <1>1, <1>8, <1>9 DEF there, ids

\* The candidates are names the code knows.
LEMMA CandidatesAreNames ==
  ASSUME NEW session, NEW kind
  PROVE  Candidates(session, kind) \in Seq(Names)
  <1>1. /\ <<"frontend-generic">> \in Seq(Names) /\ <<"paster-uinput">> \in Seq(Names)
        /\ <<"clipboard-wayland">> \in Seq(Names) /\ <<"clipboard-x11">> \in Seq(Names)
        /\ <<>> \in Seq(Names)
    BY DEF Names
  <1> HIDE DEF Names
  <1> QED
    BY <1>1 DEF Candidates

\* A list of modules is a list of names.
LEMMA ModulesAreNames ==
  /\ Modules \subseteq Names
  /\ \A s \in Seq(Modules) : s \in Seq(Names) /\ ToSet(s) \subseteq Modules
  <1>1. Modules \subseteq Names
    BY DEF Names
  <1> HIDE DEF Names, Modules
  <1> QED
    BY <1>1 DEF ToSet

\* None is a name, and the only one of no module that a ranking returns.
LEMMA NoneIsNoModule == None \in Names /\ None \notin Modules
  BY IdsAssumption DEF Names

\* What there is to know of some modules.
LEMMA InfosOfModules ==
  ASSUME NEW ids \in SUBSET Modules
  PROVE  /\ InfosOf(ids) \in SUBSET Infos /\ IdsOf(InfosOf(ids)) = ids
         /\ \A k : IdsOf(OfKind(InfosOf(ids), k)) = {id \in ids : KindOf[id] = k}
         /\ \A info \in InfosOf(ids) : info.met <=> Requires[info.id] \subseteq tools
  <1> DEFINE Info(id) == [id |-> id, met |-> Requires[id] \subseteq tools]
  <1>1. InfosOf(ids) = {Info(id) : id \in ids}
    BY DEF InfosOf
  <1>2. \A id \in ids : Info(id) \in Infos /\ Info(id).id = id
    BY DEF Infos
  <1>3. \A id \in ids : Info(id).met <=> Requires[id] \subseteq tools
    OBVIOUS
  <1> HIDE DEF Info
  <1>4. InfosOf(ids) \in SUBSET Infos /\ IdsOf(InfosOf(ids)) = ids
    BY <1>1, <1>2 DEF IdsOf
  <1>5. \A info \in InfosOf(ids) : info.met <=> Requires[info.id] \subseteq tools
    BY <1>1, <1>2, <1>3
  <1> QED
    BY <1>4, <1>5, IdsOfInfos

\* The ranking of what is installed.
LEMMA RankedInstalled ==
  ASSUME NEW infos \in SUBSET Infos, NEW session, NEW k, NEW preferred
  PROVE  LET candidates == Candidates(session, k)
             top == RankCandidates(candidates, Ids, infos, preferred, k)
             met == IdsOf({info \in infos : info.met})
         IN /\ OfKind(infos, k) = {} => top = None
            /\ OfKind(infos, k) # {} =>
                 /\ top \in IdsOf(OfKind(infos, k)) /\ top # None
                 /\ \A id \in IdsOf(OfKind(infos, k)) \ {top} :
                      Better(top, id, candidates, Ids, preferred, met)
  <1> DEFINE met == IdsOf({info \in infos : info.met})
  <1>1. OfKind(infos, k) = {} =>
          RankCandidates(Candidates(session, k), Ids, infos, preferred, k) = None
    BY DEF RankCandidates
  <1>2. Candidates(session, k) \in Seq(Names) /\ Ids \in Seq(Names)
    BY CandidatesAreNames, ModulesAreNames, IdsAssumption
  <1>3. IdsOf(infos) \subseteq ToSet(Ids)
    BY IdsOfInfos DEF Modules
  <1>4. \A info \in OfKind(infos, k) :
          info.id \in met <=> \E other \in OfKind(infos, k) : other.id = info.id /\ other.met
    BY DEF IdsOf, OfKind
  <1>5. IdsOf(OfKind(infos, k)) \subseteq Modules
    BY IdsOfInfos
  <1> HIDE DEF met
  <1>6. OfKind(infos, k) # {} =>
          LET top == RankCandidates(Candidates(session, k), Ids, infos, preferred, k)
          IN /\ top \in IdsOf(OfKind(infos, k))
             /\ \A id \in IdsOf(OfKind(infos, k)) \ {top} :
                  Better(top, id, Candidates(session, k), Ids, preferred, met)
    BY <1>2, <1>3, <1>4, Ranked
  <1> QED
    BY <1>1, <1>5, <1>6, NoneIsNoModule DEF met

\* The ranking of what is published.
LEMMA RankedOffer ==
  ASSUME NEW offer \in Seq(Modules), NEW session, NEW k
  PROVE  LET candidates == Candidates(session, k)
             top == RankCandidates(candidates, offer, InfosOf(ToSet(offer)), None, k)
             mine == {id \in ToSet(offer) : KindOf[id] = k}
         IN /\ mine = {} => top = None
            /\ mine # {} =>
                 /\ top \in mine /\ top # None
                 /\ \A id \in mine \ {top} :
                      Better(top, id, candidates, offer, None,
                             {m \in Modules : Requires[m] \subseteq tools})
  <1> DEFINE infos == InfosOf(ToSet(offer))
             met == {m \in Modules : Requires[m] \subseteq tools}
             mine == {id \in ToSet(offer) : KindOf[id] = k}
  <1>1. ToSet(offer) \in SUBSET Modules
    BY DEF ToSet
  <1>2. /\ infos \in SUBSET Infos /\ IdsOf(infos) = ToSet(offer)
        /\ IdsOf(OfKind(infos, k)) = mine
        /\ \A info \in infos : info.met <=> Requires[info.id] \subseteq tools
    BY <1>1, InfosOfModules
  <1>3. OfKind(infos, k) = {} <=> mine = {}
    BY <1>2, IdsOfInfos
  <1>4. Candidates(session, k) \in Seq(Names) /\ offer \in Seq(Names)
    BY CandidatesAreNames, ModulesAreNames
  <1>5. \A info \in OfKind(infos, k) :
          info.id \in met <=> \E other \in OfKind(infos, k) : other.id = info.id /\ other.met
    <2>1. OfKind(infos, k) \subseteq infos /\ \A info \in infos : info.id \in Modules
      BY <1>2 DEF OfKind, Infos
    <2> QED
      BY <1>2, <2>1
  <1>6. mine \subseteq Modules
    BY <1>1
  <1>7. OfKind(infos, k) = {} =>
          RankCandidates(Candidates(session, k), offer, infos, None, k) = None
    BY DEF RankCandidates
  <1> HIDE DEF infos, met, mine
  <1>8. OfKind(infos, k) # {} =>
          LET top == RankCandidates(Candidates(session, k), offer, infos, None, k)
          IN /\ top \in IdsOf(OfKind(infos, k))
             /\ \A id \in IdsOf(OfKind(infos, k)) \ {top} :
                  Better(top, id, Candidates(session, k), offer, None, met)
    BY <1>2, <1>4, <1>5, Ranked
  <1> QED
    BY <1>2, <1>3, <1>6, <1>7, <1>8, NoneIsNoModule DEF infos, met, mine

\* The source offers modules.
LEMMA OfferIsModules ==
  ASSUME source \in Sources, NEW cfg
  PROVE  Offer(cfg) \in Seq(Modules) /\ ToSet(Offer(cfg)) \subseteq Modules
  <1> DEFINE order == <<cfg.override, "gnu", "musl">>
             there == ToSet(order) \cap DOMAIN source.assets
  <1>1. order \in Seq(ToSet(order)) /\ ToSet(order) \cap there = there
    BY DEF ToSet
  <1>2. there # {} => FirstIn(order, there) \in DOMAIN source.assets
    <2> HIDE DEF order
    <2>1. there \subseteq DOMAIN source.assets
      OBVIOUS
    <2> HIDE DEF there
    <2> QED
      BY <1>1, <2>1, FirstInBoth
  <1>3. Offer(cfg) \in Seq(Modules)
    <2>1. \/ Offer(cfg) = <<>>
          \/ there # {} /\ Offer(cfg) = source.assets[FirstIn(order, there)]
      BY DEF Offer, SelectTarget
    <2> HIDE DEF order, there
    <2>2. \A t \in DOMAIN source.assets : source.assets[t] \in Seq(Modules)
      BY SourcesAssumption
    <2>3. <<>> \in Seq(Modules)
      OBVIOUS
    <2> HIDE DEF Modules
    <2> QED
      BY <1>2, <2>1, <2>2, <2>3
  <1> QED
    BY <1>3, ModulesAreNames

\* What is published is ranked for kinds that have candidates, and only where
\* nothing is preferred.
LEMMA RemotelyRanked ==
  ASSUME source \in Sources, NEW session, NEW k, NEW preferred, NEW cfg
  PROVE  LET candidates == Candidates(session, k)
             pick == RemoteRank(candidates, preferred, k, Offer(cfg))
             mine == {id \in ToSet(Offer(cfg)) : KindOf[id] = k}
         IN /\ candidates = <<>> => pick = None
            /\ candidates # <<>> /\ preferred # None => pick = preferred
            /\ candidates # <<>> /\ preferred = None =>
                 /\ mine = {} => pick = None
                 /\ mine # {} =>
                      /\ pick \in mine /\ pick # None
                      /\ \A id \in mine \ {pick} :
                           Better(pick, id, candidates, Offer(cfg), None,
                                  {m \in Modules : Requires[m] \subseteq tools})
  BY OfferIsModules, RankedOffer DEF RemoteRank

-----------------------------------------------------------------------------
(* Kinds, and what is missing                                              *)

\* There are three kinds, and the list of those to do loses one at a time.
LEMMA KindsToDo ==
  /\ KindSet = {"clipboard", "frontend", "paster"}
  /\ KindSet = {Kinds[1], Kinds[2], Kinds[3]}
  /\ Kinds # <<>> /\ ToSet(Kinds) = KindSet /\ ToSet(<<>>) = {}
  /\ \A todo \in Todos \ {<<>>} :
       /\ Head(todo) \in KindSet /\ Tail(todo) \in Todos
       /\ Head(todo) \notin ToSet(Tail(todo))
       /\ ToSet(todo) = ToSet(Tail(todo)) \cup {Head(todo)}
  <1>1. /\ ToSet(Kinds) = {"clipboard", "frontend", "paster"}
        /\ ToSet(<<"frontend", "paster">>) = {"frontend", "paster"}
        /\ ToSet(<<"paster">>) = {"paster"} /\ ToSet(<<>>) = {}
    BY DEF ToSet, Kinds
  <1>2. /\ Head(Kinds) = "clipboard" /\ Tail(Kinds) = <<"frontend", "paster">>
        /\ Head(<<"frontend", "paster">>) = "frontend"
        /\ Tail(<<"frontend", "paster">>) = <<"paster">>
        /\ Head(<<"paster">>) = "paster" /\ Tail(<<"paster">>) = <<>>
        /\ Kinds # <<>> /\ KindSet = {Kinds[1], Kinds[2], Kinds[3]}
    BY <1>1 DEF Kinds, KindSet
  <1>3. ASSUME NEW todo \in Todos \ {<<>>}
        PROVE  /\ Head(todo) \in KindSet /\ Tail(todo) \in Todos
               /\ Head(todo) \notin ToSet(Tail(todo))
               /\ ToSet(todo) = ToSet(Tail(todo)) \cup {Head(todo)}
    <2>1. CASE todo = Kinds
      BY <1>1, <1>2, <2>1 DEF KindSet, Todos
    <2>2. CASE todo = <<"frontend", "paster">>
      BY <1>1, <1>2, <2>2 DEF KindSet, Todos
    <2>3. CASE todo = <<"paster">>
      BY <1>1, <1>2, <2>3 DEF KindSet, Todos
    <2> QED
      BY <1>3, <2>1, <2>2, <2>3 DEF Todos
  <1> QED
    BY <1>1, <1>2, <1>3 DEF KindSet

\* The members of a list with one more at its end.
LEMMA MembersOfAppend ==
  ASSUME NEW U, NEW s \in Seq(U), NEW x \in U
  PROVE  Append(s, x) \in Seq(U) /\ ToSet(Append(s, x)) = ToSet(s) \cup {x}
  <1>1. /\ Append(s, x) \in Seq(U)
        /\ DOMAIN Append(s, x) = 1 .. Len(s) + 1 /\ DOMAIN s = 1 .. Len(s) /\ Len(s) \in Nat
        /\ \A i \in 1 .. Len(s) : Append(s, x)[i] = s[i]
        /\ Append(s, x)[Len(s) + 1] = x
    OBVIOUS
  <1>2. ToSet(Append(s, x)) \subseteq ToSet(s) \cup {x}
    BY <1>1 DEF ToSet
  <1>3. \A i \in 1 .. Len(s) : i \in 1 .. Len(s) + 1
    BY <1>1
  <1>4. Len(s) + 1 \in 1 .. Len(s) + 1
    BY <1>1
  <1>5. ToSet(s) \cup {x} \subseteq ToSet(Append(s, x))
    BY <1>1, <1>3, <1>4 DEF ToSet
  <1> QED
    BY <1>1, <1>2, <1>5

\* The members of a list that does not end with its head.
LEMMA MembersOfTail ==
  ASSUME NEW U, NEW s \in Seq(U), s # <<>>
  PROVE  /\ Head(s) \in ToSet(s) /\ Head(s) \in U /\ Tail(s) \in Seq(U)
         /\ ToSet(s) = ToSet(Tail(s)) \cup {Head(s)}
         /\ Len(s) = 1 <=> Tail(s) = <<>>
  <1>1. /\ Head(s) = s[1] /\ Len(s) \in Nat /\ Len(s) >= 1 /\ DOMAIN s = 1 .. Len(s)
        /\ Tail(s) \in Seq(U) /\ Len(Tail(s)) = Len(s) - 1 /\ DOMAIN Tail(s) = 1 .. Len(s) - 1
        /\ \A i \in 1 .. Len(s) - 1 : Tail(s)[i] = s[i + 1]
    OBVIOUS
  <1>2. ToSet(Tail(s)) \cup {Head(s)} \subseteq ToSet(s)
    BY <1>1 DEF ToSet
  <1>3. ASSUME NEW i \in DOMAIN s PROVE s[i] \in ToSet(Tail(s)) \cup {Head(s)}
    <2>1. CASE i = 1
      BY <1>1, <2>1
    <2>2. CASE i # 1
      <3>1. i - 1 \in 1 .. Len(s) - 1 /\ Tail(s)[i - 1] = s[i]
        BY <1>1, <2>2
      <3> QED
        BY <1>1, <3>1 DEF ToSet
    <2> QED
      BY <2>1, <2>2
  <1>4. ToSet(s) \subseteq ToSet(Tail(s)) \cup {Head(s)}
    BY <1>3 DEF ToSet
  <1>5. Len(s) = 1 <=> Tail(s) = <<>>
    <2>1. \A t \in Seq(U) : t = <<>> <=> Len(t) = 0
      OBVIOUS
    <2>2. Tail(s) = <<>> <=> Len(s) - 1 = 0
      BY <1>1, <2>1
    <2> QED
      BY <1>1, <2>2
  <1>6. Head(s) \in U /\ Head(s) \in ToSet(s)
    BY <1>1 DEF ToSet
  <1> QED
    BY <1>1, <1>2, <1>4, <1>5, <1>6

\* An empty list has no members, and the other way round.
LEMMA NoMembers ==
  ASSUME NEW U, NEW s \in Seq(U)
  PROVE  s = <<>> <=> ToSet(s) = {}
  <1>1. s = <<>> => ToSet(s) = {}
    BY DEF ToSet
  <1>2. s # <<>> => Head(s) \in ToSet(s)
    BY MembersOfTail
  <1> QED
    BY <1>1, <1>2

\* The list of what is wanted has every pick but those that are skipped.
LEMMA WantedButSome ==
  ASSUME daemon.desired \in [KindSet -> Names], NEW skipped
  PROVE  /\ WantedBut(skipped) \in Seq(Names)
         /\ ToSet(WantedBut(skipped)) = {daemon.desired[k] : k \in KindSet} \ skipped
  <1> DEFINE Want(ids, kind) == IF daemon.desired[kind] \in ToSet(ids) \cup skipped
                                  THEN ids ELSE Append(ids, daemon.desired[kind])
             w1 == Want(<<>>, Kinds[1])
             w2 == Want(w1, Kinds[2])
             w3 == Want(w2, Kinds[3])
  <1>1. WantedBut(skipped) = w3
    BY DEF WantedBut
  <1>2. ASSUME NEW ids \in Seq(Names), NEW kind \in KindSet
        PROVE  /\ Want(ids, kind) \in Seq(Names)
               /\ ToSet(Want(ids, kind)) = ToSet(ids) \cup ({daemon.desired[kind]} \ skipped)
    <2>1. daemon.desired[kind] \in Names
      OBVIOUS
    <2>2. CASE daemon.desired[kind] \in ToSet(ids) \cup skipped
      <3>1. Want(ids, kind) = ids
        BY <2>2
      <3> QED
        BY <2>2, <3>1
    <2>3. CASE daemon.desired[kind] \notin ToSet(ids) \cup skipped
      <3>1. Want(ids, kind) = Append(ids, daemon.desired[kind])
        BY <2>3
      <3> QED
        BY <2>1, <2>3, <3>1, MembersOfAppend
    <2> QED
      BY <2>2, <2>3
  <1>3. <<>> \in Seq(Names) /\ ToSet(<<>>) = {}
    BY KindsToDo
  <1>4. Kinds[1] \in KindSet /\ Kinds[2] \in KindSet /\ Kinds[3] \in KindSet
    BY KindsToDo
  <1> HIDE DEF Want
  <1>5. w1 \in Seq(Names) /\ ToSet(w1) = {daemon.desired[Kinds[1]]} \ skipped
    BY <1>2, <1>3, <1>4
  <1> HIDE DEF w1
  <1>6. w2 \in Seq(Names) /\ ToSet(w2) = ToSet(w1) \cup ({daemon.desired[Kinds[2]]} \ skipped)
    BY <1>2, <1>4, <1>5
  <1> HIDE DEF w2
  <1>7. w3 \in Seq(Names) /\ ToSet(w3) = ToSet(w2) \cup ({daemon.desired[Kinds[3]]} \ skipped)
    BY <1>2, <1>4, <1>6
  <1> HIDE DEF w3
  <1>8. {daemon.desired[k] : k \in KindSet}
          = {daemon.desired[Kinds[1]], daemon.desired[Kinds[2]], daemon.desired[Kinds[3]]}
    <2>1. \A k : k \in KindSet <=> k = Kinds[1] \/ k = Kinds[2] \/ k = Kinds[3]
      BY KindsToDo
    <2> QED
      BY <2>1
  <1> QED
    BY <1>1, <1>5, <1>6, <1>7, <1>8

-----------------------------------------------------------------------------
(* Types                                                                   *)

\* Lists of nothing, and no picks, are typed.
LEMMA EmptyStates ==
  /\ <<>> \in Seq(Names) /\ <<>> \in Seq(Modules) /\ <<>> \in Todos
  /\ NoPicks \in [KindSet -> Names] /\ NoPicks \in [KindSet -> Modules \cup {None}]
  <1>1. <<>> \in Seq(Names) /\ <<>> \in Seq(Modules) /\ <<>> \in Todos
    BY DEF Todos
  <1>2. NoPicks \in [KindSet -> Names] /\ NoPicks \in [KindSet -> Modules \cup {None}]
    BY NoneIsNoModule DEF NoPicks, KindSet
  <1> QED
    BY <1>1, <1>2

\* The first state is typed, and nothing has happened.
LEMMA DiscoveryInit == Init => DiscoveryInv
  <1> SUFFICES ASSUME Init PROVE DiscoveryInv
    OBVIOUS
  <1>1. source \in Sources /\ config \in Configs /\ daemon = Off /\ cli = Idle
        /\ changes = 0 /\ calm = FALSE /\ fetched = FALSE /\ before = NoPicks
    BY DEF Init
  <1>2. tools \subseteq Tools /\ disk \in [Modules -> Disks]
    BY MachinesAssumption DEF Init
  <1>3. daemon \in DaemonStates /\ cli \in CliStates
    BY <1>1, EmptyStates DEF DaemonStates, CliStates, Off, Idle
  <1>4. daemon.phase = "off" /\ daemon.todo = <<>> /\ daemon.plan = <<>> /\ cli.phase = "idle"
        /\ ToSet(daemon.plan) = {}
    BY <1>1, KindsToDo DEF Off, Idle
  <1>5. Types
    BY <1>1, <1>2, <1>3, <1>4, EmptyStates DEF Types
  <1>6. CalmInv /\ BeforeInv
    BY <1>1 DEF CalmInv, BeforeInv
  <1> QED
    BY <1>5, <1>6 DEF DiscoveryInv

\* A start reads the configuration, the session and what is installed.
LEMMA TypesLaunchList == Types /\ (Launch \/ List) => Types'
  <1> SUFFICES ASSUME Types, Launch \/ List PROVE Types'
    OBVIOUS
  <1> USE EmptyStates, KindsToDo
  <1>1. CASE Launch
    <2>1. /\ daemon' = [Off EXCEPT !.phase = "list", !.session = DetectSession(env), !.cfg = config]
          /\ UNCHANGED <<source, config, tools, disk, cli, changes, before>>
          /\ calm' \in BOOLEAN /\ fetched' = FALSE
      BY <1>1 DEF Launch, world
    <2>2. DetectSession(env) \in {"wayland", "x11", "tty"}
      BY DEF DetectSession
    <2>3. /\ daemon' \in DaemonStates' /\ daemon'.phase = "list" /\ daemon'.todo = <<>>
          /\ daemon'.plan = <<>> /\ daemon'.cfg = config
      BY <2>1, <2>2 DEF DaemonStates, Off
    <2> QED
      BY <2>1, <2>3 DEF Types, CliStates
  <1>2. CASE List
    <2>1. /\ daemon.phase = "list"
          /\ daemon' = [daemon EXCEPT !.phase = "pick", !.infos = InfosOf(ListInstalled),
                                      !.todo = Kinds]
          /\ UNCHANGED <<source, config, tools, disk, cli, changes, calm, fetched, before>>
      BY <1>2 DEF List, world, history
    <2>2. InfosOf(ListInstalled) \in SUBSET Infos
      BY InfosOfModules DEF ListInstalled
    <2>3. Kinds \in Todos
      BY DEF Todos
    <2>4. daemon \in DaemonStates /\ daemon.plan = <<>> /\ daemon.cfg \in Configs
      BY <2>1 DEF Types
    <2>5. /\ daemon' \in DaemonStates' /\ daemon'.phase = "pick"
          /\ daemon'.plan = <<>> /\ daemon'.cfg \in Configs
      BY <2>1, <2>2, <2>3, <2>4 DEF DaemonStates
    <2> QED
      BY <2>1, <2>5 DEF Types, CliStates
  <1> QED
    BY <1>1, <1>2

\* What a kind is decided to be, by a step of Pick.
LEMMA PickChooses ==
  ASSUME Types, Pick
  PROVE  LET kind == Head(daemon.todo)
             prefer == daemon.cfg.prefer[kind]
             candidates == Candidates(daemon.session, kind)
             top == RankCandidates(candidates, Ids, daemon.infos, prefer, kind)
             remote == RemoteRank(candidates, prefer, kind, Offer(daemon.cfg))
         IN \E id \in Names :
              /\ daemon.phase = "pick" /\ daemon.todo \in Todos \ {<<>>}
              /\ daemon' = [daemon EXCEPT !.todo = Tail(@), !.desired[kind] = id]
              /\ UNCHANGED <<world, cli, before>>
              /\ \/ /\ top # None /\ id = top
                    /\ UNCHANGED <<changes, calm, fetched>>
                 \/ /\ top = None /\ id = remote
                    /\ UNCHANGED <<changes, calm>>
                    /\ fetched' = (fetched \/ Asks(candidates, prefer))
                 \/ /\ top = None /\ id = None /\ Asks(candidates, prefer)
                    /\ fetched' = TRUE /\ calm' = FALSE /\ changes' = changes + 1
  <1> DEFINE kind == Head(daemon.todo)
             prefer == daemon.cfg.prefer[kind]
             candidates == Candidates(daemon.session, kind)
             top == RankCandidates(candidates, Ids, daemon.infos, prefer, kind)
             remote == RemoteRank(candidates, prefer, kind, Offer(daemon.cfg))
             Chosen(id) == daemon' = [daemon EXCEPT !.todo = Tail(@), !.desired[kind] = id]
  <1>1. /\ daemon.phase = "pick" /\ daemon.todo # <<>> /\ UNCHANGED <<world, cli, before>>
        /\ \/ top # None /\ Chosen(top) /\ UNCHANGED <<changes, calm, fetched>>
           \/ /\ top = None /\ Chosen(remote) /\ UNCHANGED <<changes, calm>>
              /\ fetched' = (fetched \/ Asks(candidates, prefer))
           \/ /\ top = None /\ Asks(candidates, prefer) /\ Chosen(None)
              /\ fetched' = TRUE /\ calm' = FALSE /\ changes' = changes + 1
    BY DEF Pick
  <1>2. daemon.todo \in Todos \ {<<>>} /\ daemon.infos \in SUBSET Infos
        /\ daemon.cfg \in Configs /\ source \in Sources
    BY <1>1 DEF Types, DaemonStates
  <1>3. kind \in KindSet
    BY <1>2, KindsToDo
  <1>4. prefer \in Names
    <2> HIDE DEF kind
    <2> QED
      BY <1>2, <1>3 DEF Names
  <1>5. top \in Names
    <2>1. IdsOf(OfKind(daemon.infos, kind)) \subseteq Names
      BY <1>2, IdsOfInfos, ModulesAreNames
    <2>2. top = None \/ top \in IdsOf(OfKind(daemon.infos, kind))
      BY <1>2, RankedInstalled
    <2> QED
      BY <2>1, <2>2, NoneIsNoModule
  <1>6. remote \in Names
    BY <1>2, <1>4, RemotelyRanked, OfferIsModules, NoneIsNoModule, ModulesAreNames
  <1> HIDE DEF top, remote, candidates, prefer, kind
  <1>7. \E id \in Names :
          /\ Chosen(id)
          /\ \/ /\ top # None /\ id = top
                /\ UNCHANGED <<changes, calm, fetched>>
             \/ /\ top = None /\ id = remote
                /\ UNCHANGED <<changes, calm>>
                /\ fetched' = (fetched \/ Asks(candidates, prefer))
             \/ /\ top = None /\ id = None /\ Asks(candidates, prefer)
                /\ fetched' = TRUE /\ calm' = FALSE /\ changes' = changes + 1
    BY <1>1, <1>5, <1>6, NoneIsNoModule
  <1> QED
    BY <1>1, <1>2, <1>7 DEF top, remote, candidates, prefer, kind

\* A pick is a name, and one kind less is to do.
LEMMA TypesPick == Types /\ Pick => Types'
  <1> SUFFICES ASSUME Types, Pick PROVE Types'
    OBVIOUS
  <1>1. PICK id \in Names :
          /\ daemon.phase = "pick" /\ daemon.todo \in Todos \ {<<>>}
          /\ daemon' = [daemon EXCEPT !.todo = Tail(@), !.desired[Head(daemon.todo)] = id]
          /\ UNCHANGED <<world, cli, before>>
          /\ changes' \in {changes, changes + 1} /\ calm' \in {calm, FALSE}
          /\ \/ fetched' = fetched
             \/ fetched' = TRUE
             \/ fetched' = (fetched \/ Asks(Candidates(daemon.session, Head(daemon.todo)),
                                            daemon.cfg.prefer[Head(daemon.todo)]))
    BY PickChooses
  <1>2. fetched' \in BOOLEAN /\ calm' \in BOOLEAN /\ changes' \in Nat
    <2>1. fetched \in BOOLEAN /\ calm \in BOOLEAN /\ changes \in Nat
      BY DEF Types
    <2>2. fetched' \in BOOLEAN
      BY <1>1, <2>1, Zenon
    <2>3. calm' \in BOOLEAN
      BY <1>1, <2>1, Zenon
    <2>4. changes' \in Nat
      BY <1>1, <2>1
    <2> QED
      BY <2>2, <2>3, <2>4
  <1>3. Head(daemon.todo) \in KindSet /\ Tail(daemon.todo) \in Todos
    BY <1>1, KindsToDo
  <1>4. daemon \in DaemonStates /\ daemon.plan = <<>> /\ daemon.cfg \in Configs
    BY <1>1 DEF Types
  <1>5. /\ daemon' \in DaemonStates' /\ daemon'.phase = "pick" /\ daemon'.plan = <<>>
        /\ daemon'.cfg \in Configs
    BY <1>1, <1>3, <1>4 DEF DaemonStates
  <1>6. ToSet(daemon'.plan) = {}
    BY <1>5, KindsToDo
  <1> QED
    BY <1>1, <1>2, <1>5, <1>6 DEF Types, CliStates, world

\* What is missing is downloaded unless it is built locally; or the start is
\* over.
LEMMA PlanChooses ==
  ASSUME Types, Plan
  PROVE  \E missing \in Seq(Names) :
           /\ daemon.phase = "pick" /\ daemon.todo = <<>>
           /\ UNCHANGED <<world, cli, changes, history>>
           /\ daemon.cfg.local => missing = <<>>
           /\ ~daemon.cfg.local =>
                ToSet(missing) = {daemon.desired[k] : k \in KindSet} \ ({None} \cup ListInstalled)
           /\ daemon' = [daemon EXCEPT !.phase = IF missing = <<>> THEN "on" ELSE "fetch",
                                       !.plan = missing]
  <1> DEFINE missing == IF daemon.cfg.local THEN <<>> ELSE Missing
  <1>1. /\ daemon.phase = "pick" /\ daemon.todo = <<>>
        /\ UNCHANGED <<world, cli, changes, history>>
        /\ daemon' = [daemon EXCEPT !.phase = IF missing = <<>> THEN "on" ELSE "fetch",
                                    !.plan = missing]
    BY DEF Plan
  <1>2. daemon.desired \in [KindSet -> Names]
    BY DEF Types, DaemonStates
  <1>3. /\ Missing \in Seq(Names)
        /\ ToSet(Missing) = {daemon.desired[k] : k \in KindSet} \ ({None} \cup ListInstalled)
    BY <1>2, WantedButSome DEF Missing
  <1>4. missing \in Seq(Names)
    BY <1>3, EmptyStates
  <1>5. /\ daemon.cfg.local => missing = <<>>
        /\ ~daemon.cfg.local => missing = Missing
    OBVIOUS
  <1> HIDE DEF missing
  <1> QED
    BY <1>1, <1>3, <1>4, <1>5

\* What is planned was picked.
LEMMA TypesPlan == Types /\ Plan => Types'
  <1> SUFFICES ASSUME Types, Plan PROVE Types'
    OBVIOUS
  <1>1. PICK missing \in Seq(Names) :
          /\ daemon.phase = "pick" /\ daemon.todo = <<>>
          /\ UNCHANGED <<world, cli, changes, history>>
          /\ daemon.cfg.local => missing = <<>>
          /\ ~daemon.cfg.local =>
               ToSet(missing) = {daemon.desired[k] : k \in KindSet} \ ({None} \cup ListInstalled)
          /\ daemon' = [daemon EXCEPT !.phase = IF missing = <<>> THEN "on" ELSE "fetch",
                                      !.plan = missing]
    BY PlanChooses
  <1>2. daemon \in DaemonStates /\ daemon.cfg \in Configs
    BY <1>1 DEF Types
  <1>3. daemon.cfg.local \in BOOLEAN
    BY <1>2, ConfigsAssumption
  <1>4. ToSet(missing) \subseteq {daemon.desired[k] : k \in KindSet}
    BY <1>1, <1>3, KindsToDo
  <1>5. /\ daemon' \in DaemonStates' /\ daemon'.todo = <<>> /\ daemon'.cfg \in Configs
        /\ daemon'.plan = missing /\ daemon'.desired = daemon.desired
        /\ daemon'.phase = IF missing = <<>> THEN "on" ELSE "fetch"
    BY <1>1, <1>2 DEF DaemonStates
  <1>6. /\ daemon'.phase \in {"on", "fetch"}
        /\ daemon'.plan # <<>> <=> daemon'.phase \in {"fetch", "install"}
    BY <1>5
  <1>7. /\ cli \in CliStates /\ cli' = cli
        /\ UNCHANGED <<source, config, tools, disk, changes, calm, fetched, before>>
    BY <1>1 DEF Types, world, history
  <1> QED
    BY <1>4, <1>5, <1>6, <1>7 DEF Types, CliStates

\* What is remembered of a start that served every kind is modules, or None.
LEMMA TypesStop == Types /\ Stop => Types'
  <1> SUFFICES ASSUME Types, Stop PROVE Types'
    OBVIOUS
  <1>1. /\ daemon' = Off /\ UNCHANGED <<source, config, tools, disk, cli, changes>>
        /\ calm' = FALSE /\ fetched' = FALSE
        /\ before' \in {daemon.desired, NoPicks}
        /\ before' # NoPicks =>
             before' = daemon.desired /\ \A k \in KindSet : Served(k) \/ Unasked(k)
    BY DEF Stop, world, KindSet
  <1>2. /\ daemon' \in DaemonStates' /\ daemon'.phase = "off" /\ daemon'.todo = <<>>
        /\ daemon'.plan = <<>>
    BY <1>1, EmptyStates DEF DaemonStates, Off
  <1>3. before' \in [KindSet -> Modules \cup {None}]
    <2>1. CASE before' = NoPicks
      BY <2>1, EmptyStates
    <2>2. CASE before' # NoPicks
      <3>1. daemon.desired \in [KindSet -> Names]
        BY DEF Types, DaemonStates
      <3>2. \A k \in KindSet : daemon.desired[k] \in Modules \cup {None}
        BY <1>1, <2>2 DEF Served, Resolves, Unasked
      <3> QED
        BY <1>1, <2>2, <3>1, <3>2
    <2> QED
      BY <2>1, <2>2
  <1>4. ToSet(daemon'.plan) = {}
    BY <1>2, KindsToDo
  <1> QED
    BY <1>1, <1>2, <1>3, <1>4 DEF Types, CliStates

\* A manifest that answers starts the installation, another ends the start.
LEMMA TypesDaemonFetch == Types /\ DaemonFetch => Types'
  <1> SUFFICES ASSUME Types, DaemonFetch PROVE Types'
    OBVIOUS
  <1>1. PICK offer \in {Offer(daemon.cfg), <<>>} :
          /\ daemon.phase = "fetch" /\ daemon' = Fetch(daemon, offer, "on")
          /\ UNCHANGED <<world, cli, before>> /\ fetched' = TRUE
          /\ changes' \in {changes, changes + 1} /\ calm' \in {calm, FALSE}
    BY DEF DaemonFetch, Fails
  <1>2. calm' \in BOOLEAN /\ changes' \in Nat
    <2>1. calm \in BOOLEAN /\ changes \in Nat
      BY DEF Types
    <2>2. calm' \in BOOLEAN
      BY <1>1, <2>1, Zenon
    <2> QED
      BY <1>1, <2>1, <2>2
  <1>3. offer \in Seq(Modules)
    BY <1>1, OfferIsModules, EmptyStates DEF Types
  <1>4. /\ daemon \in DaemonStates /\ daemon.cfg \in Configs /\ daemon.todo = <<>>
        /\ daemon.plan # <<>> /\ ToSet(daemon.plan) \subseteq {daemon.desired[k] : k \in KindSet}
    BY <1>1 DEF Types
  <1>5. /\ daemon' \in DaemonStates' /\ daemon'.cfg \in Configs /\ daemon'.todo = <<>>
        /\ daemon'.desired = daemon.desired
        /\ \/ daemon'.plan = <<>> /\ daemon'.phase = "on"
           \/ daemon'.plan = daemon.plan /\ daemon'.phase = "install"
    BY <1>1, <1>3, <1>4, EmptyStates DEF DaemonStates, Fetch
  <1>6. ToSet(daemon'.plan) \subseteq {daemon'.desired[k] : k \in KindSet}
    BY <1>4, <1>5, KindsToDo
  <1>7. /\ cli' = cli /\ fetched' \in BOOLEAN
        /\ UNCHANGED <<source, config, tools, disk, before>>
    BY <1>1 DEF world
  <1> QED
    BY <1>2, <1>4, <1>5, <1>6, <1>7 DEF Types, CliStates

\* What is left of a plan after its head, and what that leaves on the disk.
LEMMA InstalledTyped ==
  ASSUME disk \in [Modules -> Disks], NEW who, who.offer \in Seq(Modules)
  PROVE  /\ Installed(who) \in [Modules -> Disks]
         /\ Head(who.plan) \notin ToSet(who.offer) => Installed(who) = disk
         /\ Head(who.plan) \in ToSet(who.offer) =>
              /\ Head(who.plan) \in Modules
              /\ Installed(who) = [disk EXCEPT ![Head(who.plan)] = "good"]
  <1>1. ToSet(who.offer) \subseteq Modules
    BY ModulesAreNames
  <1>2. "good" \in Disks
    BY DEF Disks
  <1> QED
    BY <1>1, <1>2 DEF Installed

\* The daemon installs the next of its plan.
LEMMA TypesDaemonInstall == Types /\ DaemonInstall => Types'
  <1> SUFFICES ASSUME Types, DaemonInstall PROVE Types'
    OBVIOUS
  <1>1. /\ daemon.phase = "install" /\ daemon' = Rest(daemon, "on")
        /\ disk' \in {Installed(daemon), disk}
        /\ UNCHANGED <<source, config, tools, cli, fetched, before>>
        /\ changes' \in {changes, changes + 1} /\ calm' \in {calm, FALSE}
    BY DEF DaemonInstall, Fails
  <1>2. calm' \in BOOLEAN /\ changes' \in Nat
    <2>1. calm \in BOOLEAN /\ changes \in Nat
      BY DEF Types
    <2>2. calm' \in BOOLEAN
      BY <1>1, <2>1, Zenon
    <2> QED
      BY <1>1, <2>1, <2>2
  <1>3. /\ daemon \in DaemonStates /\ daemon.cfg \in Configs /\ daemon.todo = <<>>
        /\ daemon.plan \in Seq(Names) /\ daemon.plan # <<>> /\ daemon.offer \in Seq(Modules)
        /\ ToSet(daemon.plan) \subseteq {daemon.desired[k] : k \in KindSet}
    BY <1>1 DEF Types, DaemonStates
  <1>4. disk' \in [Modules -> Disks]
    BY <1>1, <1>3, InstalledTyped DEF Types
  <1>5. /\ Tail(daemon.plan) \in Seq(Names) /\ ToSet(Tail(daemon.plan)) \subseteq ToSet(daemon.plan)
        /\ Len(daemon.plan) = 1 <=> Tail(daemon.plan) = <<>>
    BY <1>3, MembersOfTail
  <1>6. /\ daemon' \in DaemonStates' /\ daemon'.cfg \in Configs /\ daemon'.todo = <<>>
        /\ daemon'.desired = daemon.desired /\ daemon'.plan = Tail(daemon.plan)
        /\ daemon'.phase = IF Len(daemon.plan) = 1 THEN "on" ELSE "install"
    BY <1>1, <1>3, <1>5 DEF DaemonStates, Rest
  <1>7. daemon'.plan # <<>> <=> daemon'.phase \in {"fetch", "install"}
    BY <1>5, <1>6
  <1>8. ToSet(daemon'.plan) \subseteq {daemon'.desired[k] : k \in KindSet}
    BY <1>3, <1>5, <1>6
  <1>9. daemon'.phase # "off" /\ daemon'.phase # "pick"
    BY <1>6
  <1> QED
    BY <1>1, <1>2, <1>4, <1>6, <1>7, <1>8, <1>9 DEF Types, CliStates

\* `modules install' always has something to install.
LEMMA TargetsAreNames ==
  ASSUME Types
  PROVE  ResolveTargetIds \in Seq(Names) /\ ResolveTargetIds # <<>>
  <1> DEFINE session == DetectSession(env)
             infos == InfosOf(ListInstalled)
             report == Discover(session, infos, config)
             Target(kind) == IF report[kind] = None THEN <<>> ELSE <<report[kind]>>
             targets == Target(Kinds[1]) \o Target(Kinds[2]) \o Target(Kinds[3])
             all == Candidates(session, Kinds[1]) \o Candidates(session, Kinds[2])
                      \o Candidates(session, Kinds[3])
  <1>1. ResolveTargetIds = IF targets # <<>> THEN targets ELSE all
    BY DEF ResolveTargetIds
  <1>2. infos \in SUBSET Infos
    BY InfosOfModules DEF ListInstalled
  <1>3. ASSUME NEW kind \in KindSet PROVE Target(kind) \in Seq(Names)
    <2>1. report[kind] = RankCandidates(Candidates(session, kind), Ids, infos,
                                        config.prefer[kind], kind)
      BY DEF Discover, KindSet
    <2>2. report[kind] = None \/ report[kind] \in IdsOf(OfKind(infos, kind))
      BY <1>2, <2>1, RankedInstalled
    <2>3. IdsOf(OfKind(infos, kind)) \subseteq Names
      BY <1>2, IdsOfInfos, ModulesAreNames
    <2> HIDE DEF report
    <2>4. report[kind] # None => <<report[kind]>> \in Seq(Names)
      BY <2>2, <2>3
    <2> QED
      BY <2>4, EmptyStates
  <1>4. targets \in Seq(Names)
    <2>1. \A kind \in KindSet : Target(kind) \in Seq(Names)
      BY <1>3
    <2> HIDE DEF Target
    <2>2. /\ Target(Kinds[1]) \in Seq(Names) /\ Target(Kinds[2]) \in Seq(Names)
          /\ Target(Kinds[3]) \in Seq(Names)
      BY <2>1, KindsToDo
    <2> QED
      BY <2>2
  <1>5. all \in Seq(Names) /\ all # <<>>
    <2>1. /\ Candidates(session, Kinds[1]) \in Seq(Names)
          /\ Candidates(session, Kinds[2]) \in Seq(Names)
          /\ Candidates(session, Kinds[3]) \in Seq(Names)
      BY CandidatesAreNames
    <2>2. Kinds[3] = "paster"
      BY DEF Kinds
    <2>3. Candidates(session, Kinds[3]) = <<"paster-uinput">>
      BY <2>2 DEF Candidates
    <2>4. Len(Candidates(session, Kinds[3])) = 1
      BY <2>3
    <2>5. ASSUME NEW a \in Seq(Names), NEW b \in Seq(Names), NEW c \in Seq(Names), Len(c) = 1
          PROVE  a \o b \o c \in Seq(Names) /\ a \o b \o c # <<>>
      <3>1. a \o b \o c \in Seq(Names) /\ Len(a \o b \o c) = Len(a) + Len(b) + Len(c)
        OBVIOUS
      <3>2. Len(a) \in Nat /\ Len(b) \in Nat
        OBVIOUS
      <3> QED
        BY <2>5, <3>1, <3>2
    <2> QED
      BY <2>1, <2>4, <2>5
  <1> HIDE DEF targets, all
  <1> QED
    BY <1>1, <1>4, <1>5

\* So has the CLI while it runs.
LEMMA TypesCli == Types /\ (CliStart \/ CliFetch \/ CliInstall) => Types'
  <1> SUFFICES ASSUME Types, CliStart \/ CliFetch \/ CliInstall PROVE Types'
    OBVIOUS
  <1>0. daemon \in DaemonStates /\ cli \in CliStates
    BY DEF Types
  <1>1. CASE CliStart
    <2>1. /\ cli' = [Idle EXCEPT !.phase = "fetch", !.cfg = config, !.plan = ResolveTargetIds]
          /\ UNCHANGED <<source, config, tools, disk, daemon, fetched>>
          /\ calm' = FALSE /\ before' = NoPicks /\ changes' = changes + 1
      BY <1>1 DEF CliStart, Disturbed, world
    <2>2. cli' \in CliStates' /\ cli'.cfg \in Configs /\ cli'.plan # <<>>
      BY <2>1, TargetsAreNames, EmptyStates DEF CliStates, Idle, Types
    <2>3. changes' \in Nat
      BY <2>1 DEF Types
    <2>4. calm' \in BOOLEAN /\ fetched' \in BOOLEAN
      BY <2>1, Zenon DEF Types
    <2>5. before' \in [KindSet -> Modules \cup {None}]
      BY <2>1, EmptyStates
    <2> QED
      BY <1>0, <2>1, <2>2, <2>3, <2>4, <2>5 DEF Types, DaemonStates
  <1>2. CASE CliFetch
    <2>1. /\ cli.phase = "fetch" /\ cli' = Fetch(cli, Offer(cli.cfg), "idle")
          /\ UNCHANGED <<source, config, tools, disk, daemon, changes, calm, fetched, before>>
      BY <1>2 DEF CliFetch, world, history
    <2>2. Offer(cli.cfg) \in Seq(Modules)
      BY OfferIsModules DEF Types
    <2>3. cli.cfg \in Configs /\ cli.plan # <<>>
      BY <2>1 DEF Types
    <2>4. cli' \in CliStates' /\ (cli'.phase # "idle" => cli'.cfg \in Configs /\ cli'.plan # <<>>)
      BY <1>0, <2>1, <2>2, <2>3, EmptyStates DEF CliStates, Fetch
    <2> QED
      BY <1>0, <2>1, <2>4 DEF Types, DaemonStates
  <1>3. CASE CliInstall
    <2>1. /\ cli.phase = "install" /\ cli' = Rest(cli, "idle") /\ disk' = Installed(cli)
          /\ UNCHANGED <<source, config, tools, daemon, changes, calm, fetched, before>>
      BY <1>3 DEF CliInstall, history
    <2>2. /\ cli.cfg \in Configs /\ cli.plan # <<>>
          /\ cli.plan \in Seq(Names) /\ cli.offer \in Seq(Modules)
      BY <1>0, <2>1 DEF Types, CliStates
    <2>3. Tail(cli.plan) \in Seq(Names) /\ (Len(cli.plan) = 1 <=> Tail(cli.plan) = <<>>)
      BY <2>2, MembersOfTail
    <2>4. cli' \in CliStates' /\ (cli'.phase # "idle" => cli'.cfg \in Configs /\ cli'.plan # <<>>)
      BY <1>0, <2>1, <2>2, <2>3 DEF CliStates, Rest
    <2>5. disk' \in [Modules -> Disks]
      BY <2>1, <2>2, InstalledTyped DEF Types
    <2> QED
      BY <1>0, <2>1, <2>4, <2>5 DEF Types, DaemonStates
  <1> QED
    BY <1>1, <1>2, <1>3

\* The machine changes to another machine.
LEMMA TypesChange == Types /\ Change => Types'
  <1> SUFFICES ASSUME Types, Change PROVE Types'
    OBVIOUS
  <1>1. /\ daemon' = daemon /\ cli' = cli /\ calm' = FALSE /\ before' = NoPicks
        /\ changes' = changes + 1 /\ fetched' = fetched
    BY DEF Change, Disturbed
  <1>2. daemon' \in DaemonStates' /\ cli' \in CliStates'
    BY <1>1 DEF Types, DaemonStates, CliStates
  <1>3. source' \in Sources /\ config' \in Configs
    BY DEF Change, Types
  <1>4. tools' \subseteq Tools
    BY DEF Change, Types
  <1>6. changes' \in Nat
    BY <1>1 DEF Types
  <1>7. calm' \in BOOLEAN /\ fetched' \in BOOLEAN
    BY <1>1, Zenon DEF Types
  <1>8. before' \in [KindSet -> Modules \cup {None}]
    BY <1>1, EmptyStates
  <1>9. /\ (daemon.phase # "off" => daemon.cfg \in Configs)'
        /\ (daemon.phase # "pick" => daemon.todo = <<>>)'
        /\ (daemon.plan # <<>> <=> daemon.phase \in {"fetch", "install"})'
        /\ (ToSet(daemon.plan) \subseteq {daemon.desired[k] : k \in KindSet})'
        /\ (cli.phase # "idle" => cli.cfg \in Configs /\ cli.plan # <<>>)'
    BY <1>1 DEF Types
  <1>5. disk' \in [Modules -> Disks]
    <2>1. "absent" \in Disks /\ "broken" \in Disks
      BY DEF Disks
    <2> QED
      BY <2>1 DEF Change, Types
  <1> QED
    BY <1>2, <1>3, <1>4, <1>5, <1>6, <1>7, <1>8, <1>9 DEF Types

\* Every step keeps the state typed.
LEMMA TypesStep == Types /\ [Next]_vars => Types'
  <1> SUFFICES ASSUME Types, [Next]_vars PROVE Types'
    OBVIOUS
  <1>1. CASE UNCHANGED vars
    BY <1>1 DEF vars, world, history, Types, DaemonStates, CliStates
  <1>2. CASE Next
    BY <1>2, TypesLaunchList, TypesPick, TypesPlan, TypesStop, TypesDaemonFetch,
       TypesDaemonInstall, TypesCli, TypesChange DEF Next
  <1> QED
    BY <1>1, <1>2

-----------------------------------------------------------------------------
(* A start that nothing disturbs                                           *)

\* In a world that does not change, the same is installed and published, and
\* the same would be picked.
LEMMA SameWorld ==
  ASSUME UNCHANGED <<tools, source, config>>
  PROVE  /\ Offer(config)' = Offer(config)
         /\ \A ids : InfosOf(ids)' = InfosOf(ids)
         /\ \A k, session, infos : PickFor(k, session, infos)' = PickFor(k, session, infos)
  <1>1. Offer(config)' = Offer(config)
    BY DEF Offer, Answers, SelectTarget
  <1>2. ASSUME NEW ids PROVE InfosOf(ids)' = InfosOf(ids)
    BY DEF InfosOf
  <1>3. InfosOf(ToSet(Offer(config)))' = InfosOf(ToSet(Offer(config)))
    BY <1>1 DEF InfosOf
  <1>4. ASSUME NEW k, NEW session, NEW infos
        PROVE  PickFor(k, session, infos)' = PickFor(k, session, infos)
    BY <1>1, <1>3 DEF PickFor, RemoteRank
  <1> QED
    BY <1>1, <1>2, <1>4

\* A launch is undisturbed so far, unless the CLI is at work.
LEMMA CalmLaunch == DiscoveryInv /\ Launch => CalmInv'
  <1> SUFFICES ASSUME Launch PROVE CalmInv'
    OBVIOUS
  <1>1. /\ daemon' = [Off EXCEPT !.phase = "list", !.session = DetectSession(env), !.cfg = config]
        /\ UNCHANGED <<env, config, cli>> /\ calm' = (cli.phase = "idle")
    BY DEF Launch, world
  <1>2. /\ daemon'.phase = "list" /\ daemon'.cfg = config' /\ daemon'.plan = <<>>
        /\ daemon'.session = DetectSession(env)'
    BY <1>1 DEF Off, DetectSession
  <1>3. calm' => cli'.phase = "idle"
    BY <1>1
  <1> QED
    BY <1>2, <1>3 DEF CalmInv

\* What is listed is what is installed.
LEMMA CalmList == DiscoveryInv /\ List => CalmInv'
  <1> SUFFICES ASSUME Types, CalmInv, List, calm' PROVE CalmInv'
    BY DEF DiscoveryInv, CalmInv
  <1>1. /\ daemon.phase = "list"
        /\ daemon' = [daemon EXCEPT !.phase = "pick", !.infos = InfosOf(ListInstalled),
                                    !.todo = Kinds]
        /\ UNCHANGED <<env, tools, disk, source, config, cli, calm>>
    BY DEF List, world, history
  <1>2. daemon \in DaemonStates /\ daemon.plan = <<>>
    BY <1>1 DEF Types
  <1>3. /\ cli.phase = "idle" /\ daemon.cfg = config /\ daemon.session = DetectSession(env)
    BY <1>1 DEF CalmInv
  <1>4. /\ daemon'.phase = "pick" /\ daemon'.infos = InfosOf(ListInstalled)
        /\ daemon'.todo = Kinds /\ daemon'.plan = <<>> /\ daemon'.cfg = config'
        /\ daemon'.session = DetectSession(env)'
    BY <1>1, <1>2, <1>3 DEF DaemonStates, DetectSession
  <1>5. ListInstalled' = ListInstalled
    BY <1>1 DEF ListInstalled, Resolves
  <1>6. IdsOf(InfosOf(ListInstalled)) = ListInstalled
    BY InfosOfModules DEF ListInstalled
  <1>7. (InfosOf(IdsOf(daemon.infos)))' = InfosOf(ListInstalled)
    BY <1>1, <1>4, <1>6 DEF InfosOf
  <1>8. Due' = {}
    BY <1>4 DEF Due
  <1>9. KindSet \ ToSet(daemon'.todo) = {}
    BY <1>4, KindsToDo
  <1> QED
    BY <1>1, <1>3, <1>4, <1>5, <1>6, <1>7, <1>8, <1>9 DEF CalmInv

\* A kind is picked as anybody would pick it who finds what the start found.
LEMMA CalmPick == DiscoveryInv /\ Pick => CalmInv'
  <1> SUFFICES ASSUME Types, CalmInv, Pick, calm' PROVE CalmInv'
    BY DEF DiscoveryInv, CalmInv
  <1> DEFINE kind == Head(daemon.todo)
             prefer == daemon.cfg.prefer[kind]
             candidates == Candidates(daemon.session, kind)
             top == RankCandidates(candidates, Ids, daemon.infos, prefer, kind)
             remote == RemoteRank(candidates, prefer, kind, Offer(daemon.cfg))
  <1>1. PICK id \in Names :
          /\ daemon.phase = "pick" /\ daemon.todo \in Todos \ {<<>>}
          /\ daemon' = [daemon EXCEPT !.todo = Tail(@), !.desired[kind] = id]
          /\ UNCHANGED <<world, cli>>
          /\ (top # None /\ id = top) \/ (top = None /\ id = remote)
          /\ calm' = calm
    <2> HIDE DEF kind, prefer, candidates, top, remote
    <2> QED
      BY PickChooses DEF kind, prefer, candidates, top, remote
  <1>2. daemon \in DaemonStates /\ daemon.plan = <<>> /\ daemon.infos \in SUBSET Infos
    BY <1>1 DEF Types, DaemonStates
  <1>3. /\ calm /\ cli.phase = "idle" /\ daemon.cfg = config
        /\ daemon.session = DetectSession(env)
        /\ daemon.infos = InfosOf(IdsOf(daemon.infos))
        /\ \A k \in KindSet \ ToSet(daemon.todo) :
             daemon.desired[k] = PickFor(k, daemon.session, daemon.infos)
        /\ IdsOf(daemon.infos) \cup (Due \ ToSet(daemon.plan)) \subseteq ListInstalled
        /\ ListInstalled \subseteq IdsOf(daemon.infos) \cup Due
    BY <1>1 DEF CalmInv
  <1>4. /\ kind \in KindSet /\ ToSet(daemon.todo) = ToSet(Tail(daemon.todo)) \cup {kind}
    BY <1>1, KindsToDo
  <1>5. id = PickFor(kind, daemon.session, daemon.infos)
    <2>1. OfKind(daemon.infos, kind) = {} <=> top = None
      BY <1>2, RankedInstalled
    <2> QED
      BY <1>1, <1>3, <2>1 DEF PickFor
  <1>6. /\ daemon'.phase = "pick" /\ daemon'.todo = Tail(daemon.todo)
        /\ daemon'.infos = daemon.infos /\ daemon'.session = daemon.session
        /\ daemon'.cfg = daemon.cfg /\ daemon'.plan = <<>>
        /\ daemon'.desired = [daemon.desired EXCEPT ![kind] = id]
    BY <1>1, <1>2 DEF DaemonStates
  <1> HIDE DEF kind, prefer, candidates, top, remote
  <1>7. UNCHANGED <<env, tools, disk, source, config, cli>>
    BY <1>1 DEF world
  <1>8. \A k \in KindSet \ ToSet(daemon'.todo) :
          daemon'.desired[k] = PickFor(k, daemon.session, daemon.infos)
    <2>1. daemon.desired \in [KindSet -> Names]
      BY <1>2 DEF DaemonStates
    <2> QED
      BY <1>3, <1>4, <1>5, <1>6, <2>1
  <1>9. \A k : PickFor(k, daemon.session, daemon.infos)' = PickFor(k, daemon.session, daemon.infos)
    <2>1. Offer(config)' = Offer(config)
      BY <1>7, SameWorld
    <2>2. InfosOf(ToSet(Offer(config)))' = InfosOf(ToSet(Offer(config)))
      BY <1>7, <2>1 DEF InfosOf
    <2> QED
      BY <1>6, <1>7, <2>1, <2>2 DEF PickFor, RemoteRank
  <1>10. ListInstalled' = ListInstalled /\ Due = {} /\ Due' = {}
    BY <1>1, <1>6, <1>7 DEF ListInstalled, Resolves, Due
  <1>11. DetectSession(env)' = DetectSession(env)
    BY <1>7 DEF DetectSession
  <1>12. (InfosOf(IdsOf(daemon.infos)))' = InfosOf(IdsOf(daemon.infos))
    BY <1>6, <1>7 DEF InfosOf
  <1> QED
    BY <1>2, <1>3, <1>6, <1>7, <1>8, <1>9, <1>10, <1>11, <1>12 DEF CalmInv

\* What stays the same in a calm start after its picks.
LEMMA CalmFrame ==
  ASSUME CalmInv, calm, daemon.phase \notin {"off", "list"}, KindSet \cap ToSet(daemon.todo) = {},
         UNCHANGED <<env, tools, source, config, cli>>,
         daemon'.phase \in {"fetch", "install", "on"},
         UNCHANGED <<daemon.session, daemon.cfg, daemon.infos, daemon.desired>>
  PROVE  /\ cli'.phase = "idle" /\ daemon'.cfg = config' /\ daemon'.session = DetectSession(env)'
         /\ daemon'.infos = (InfosOf(IdsOf(daemon.infos)))'
         /\ \A k \in KindSet :
              daemon'.desired[k] = PickFor(k, daemon.session, daemon.infos)'
  <1>1. /\ cli.phase = "idle" /\ daemon.cfg = config /\ daemon.session = DetectSession(env)
        /\ daemon.infos = InfosOf(IdsOf(daemon.infos))
        /\ \A k \in KindSet : daemon.desired[k] = PickFor(k, daemon.session, daemon.infos)
    BY DEF CalmInv
  <1>2. DetectSession(env)' = DetectSession(env)
    BY DEF DetectSession
  <1>3. (InfosOf(IdsOf(daemon.infos)))' = InfosOf(IdsOf(daemon.infos))
    BY DEF InfosOf
  <1>4. Offer(config)' = Offer(config)
    BY SameWorld
  <1>5. InfosOf(ToSet(Offer(config)))' = InfosOf(ToSet(Offer(config)))
    BY <1>4 DEF InfosOf
  <1>6. \A k : PickFor(k, daemon.session, daemon.infos)' = PickFor(k, daemon.session, daemon.infos)
    BY <1>4, <1>5 DEF PickFor, RemoteRank
  <1> QED
    BY <1>1, <1>2, <1>3, <1>6

\* What is missing of the picks is what was not found.
LEMMA CalmPlan == DiscoveryInv /\ Plan => CalmInv'
  <1> SUFFICES ASSUME Types, CalmInv, Plan, calm' PROVE CalmInv'
    BY DEF DiscoveryInv, CalmInv
  <1>1. PICK missing \in Seq(Names) :
          /\ daemon.phase = "pick" /\ daemon.todo = <<>>
          /\ UNCHANGED <<world, cli, changes, history>>
          /\ daemon.cfg.local => missing = <<>>
          /\ ~daemon.cfg.local =>
               ToSet(missing) = {daemon.desired[k] : k \in KindSet} \ ({None} \cup ListInstalled)
          /\ daemon' = [daemon EXCEPT !.phase = IF missing = <<>> THEN "on" ELSE "fetch",
                                      !.plan = missing]
    BY PlanChooses
  <1>2. daemon \in DaemonStates /\ daemon.plan = <<>> /\ source \in Sources
    BY <1>1 DEF Types
  <1>3. /\ daemon'.phase = (IF missing = <<>> THEN "on" ELSE "fetch") /\ daemon'.plan = missing
        /\ daemon'.todo = <<>>
        /\ UNCHANGED <<daemon.session, daemon.cfg, daemon.infos, daemon.desired>>
    BY <1>1, <1>2 DEF DaemonStates
  <1>4. UNCHANGED <<env, tools, disk, source, config, cli, calm>>
    BY <1>1 DEF world, history
  <1>5. /\ cli'.phase = "idle" /\ daemon'.cfg = config' /\ daemon'.session = DetectSession(env)'
        /\ daemon'.infos = (InfosOf(IdsOf(daemon.infos)))'
        /\ \A k \in KindSet : daemon'.desired[k] = PickFor(k, daemon.session, daemon.infos)'
    <2>1. KindSet \cap ToSet(daemon.todo) = {}
      BY <1>1, KindsToDo
    <2>2. daemon'.phase \in {"fetch", "install", "on"}
      BY <1>3
    <2> QED
      BY <1>1, <1>3, <1>4, <2>1, <2>2, CalmFrame
  <1>6. ListInstalled' = ListInstalled /\ Offer(config)' = Offer(config)
    BY <1>4, SameWorld DEF ListInstalled, Resolves
  <1>7. daemon.cfg = config /\ IdsOf(daemon.infos) = ListInstalled
    <2>1. Due = {}
      BY <1>1 DEF Due
    <2> QED
      BY <1>1, <1>4, <2>1 DEF CalmInv
  <1>8. Due' \subseteq ToSet(missing) \cup ListInstalled
    <2>1. CASE config.local
      BY <1>4, <2>1 DEF Due
    <2>2. CASE ~config.local
      <3>1. Due' = {daemon.desired[k] : k \in KindSet} \cap ToSet(Offer(config))
        BY <1>3, <1>4, <1>6, <2>2 DEF Due
      <3>2. None \notin ToSet(Offer(config))
        BY <1>2, OfferIsModules, NoneIsNoModule
      <3> QED
        BY <1>1, <1>7, <2>2, <3>1, <3>2
    <2> QED
      BY <2>1, <2>2
  <1>9. daemon'.plan # <<>> => ~config'.local
    BY <1>1, <1>3, <1>4, <1>7
  <1>10. daemon'.phase \notin {"off", "list", "install"}
    BY <1>3
  <1> QED
    BY <1>3, <1>5, <1>6, <1>7, <1>8, <1>9, <1>10 DEF CalmInv

\* The manifest is that of the source, or there is nothing to be had.
LEMMA CalmDaemonFetch == DiscoveryInv /\ DaemonFetch => CalmInv'
  <1> SUFFICES ASSUME Types, CalmInv, DaemonFetch, calm' PROVE CalmInv'
    BY DEF DiscoveryInv, CalmInv
  <1>1. /\ daemon.phase = "fetch" /\ daemon' = Fetch(daemon, Offer(daemon.cfg), "on")
        /\ UNCHANGED <<env, tools, disk, source, config, cli, calm>>
    BY DEF DaemonFetch, world
  <1>2. daemon \in DaemonStates /\ daemon.plan # <<>> /\ daemon.todo = <<>> /\ calm
    BY <1>1 DEF Types
  <1>3. daemon.cfg = config /\ ~config.local
        /\ IdsOf(daemon.infos) \cup (Due \ ToSet(daemon.plan)) \subseteq ListInstalled
        /\ ListInstalled \subseteq IdsOf(daemon.infos) \cup Due
    BY <1>1, <1>2 DEF CalmInv
  <1>4. /\ UNCHANGED <<daemon.session, daemon.cfg, daemon.infos, daemon.desired, daemon.todo>>
        /\ \/ /\ Offer(config) = <<>> /\ daemon'.phase = "on" /\ daemon'.plan = <<>>
           \/ /\ daemon'.phase = "install" /\ daemon'.plan = daemon.plan
              /\ daemon'.offer = Offer(config)
    BY <1>1, <1>2, <1>3 DEF DaemonStates, Fetch
  <1>5. /\ cli'.phase = "idle" /\ daemon'.cfg = config' /\ daemon'.session = DetectSession(env)'
        /\ daemon'.infos = (InfosOf(IdsOf(daemon.infos)))'
        /\ \A k \in KindSet : daemon'.desired[k] = PickFor(k, daemon.session, daemon.infos)'
    <2>1. KindSet \cap ToSet(daemon.todo) = {}
      BY <1>2, KindsToDo
    <2>2. daemon'.phase \in {"fetch", "install", "on"}
      BY <1>4
    <2> QED
      BY <1>1, <1>2, <1>4, <2>1, <2>2, CalmFrame
  <1>6. ListInstalled' = ListInstalled /\ Offer(config)' = Offer(config)
    BY <1>1, SameWorld DEF ListInstalled, Resolves
  <1>7. Due' = Due
    BY <1>1, <1>4, <1>6 DEF Due
  <1>8. /\ IdsOf(daemon.infos) \cup (Due' \ ToSet(daemon'.plan)) \subseteq ListInstalled
        /\ daemon'.phase = "install" => daemon'.offer = Offer(config)
    <2>1. CASE daemon'.phase = "install"
      BY <1>3, <1>4, <1>7, <2>1
    <2>2. CASE daemon'.phase # "install"
      <3>1. ToSet(Offer(config)) = {}
        BY <1>4, <2>2, KindsToDo
      <3>2. Due = {}
        BY <3>1 DEF Due
      <3> QED
        BY <1>3, <1>7, <2>2, <3>2
    <2> QED
      BY <2>1, <2>2
  <1>9. daemon'.phase \notin {"off", "list"} /\ ~config'.local
    BY <1>1, <1>3, <1>4
  <1> QED
    BY <1>3, <1>4, <1>5, <1>6, <1>7, <1>8, <1>9 DEF CalmInv

\* One module of the plan is there, if it is published.
LEMMA CalmDaemonInstall == DiscoveryInv /\ DaemonInstall => CalmInv'
  <1> SUFFICES ASSUME Types, CalmInv, DaemonInstall, calm' PROVE CalmInv'
    BY DEF DiscoveryInv, CalmInv
  <1> DEFINE id == Head(daemon.plan)
  <1>1. /\ daemon.phase = "install" /\ daemon' = Rest(daemon, "on") /\ disk' = Installed(daemon)
        /\ UNCHANGED <<env, tools, source, config, cli, calm>>
    BY DEF DaemonInstall
  <1>2. /\ daemon \in DaemonStates /\ daemon.plan \in Seq(Names) /\ daemon.plan # <<>>
        /\ daemon.todo = <<>> /\ calm /\ disk \in [Modules -> Disks]
        /\ daemon.offer \in Seq(Modules)
        /\ ToSet(daemon.plan) \subseteq {daemon.desired[k] : k \in KindSet}
    BY <1>1 DEF Types, DaemonStates
  <1>3. /\ ~config.local /\ daemon.offer = Offer(config)
        /\ IdsOf(daemon.infos) \cup (Due \ ToSet(daemon.plan)) \subseteq ListInstalled
        /\ ListInstalled \subseteq IdsOf(daemon.infos) \cup Due
    BY <1>1, <1>2 DEF CalmInv
  <1>4. /\ ToSet(daemon.plan) = ToSet(Tail(daemon.plan)) \cup {id} /\ id \in ToSet(daemon.plan)
    BY <1>2, MembersOfTail
  <1>5. /\ UNCHANGED <<daemon.session, daemon.cfg, daemon.infos, daemon.desired, daemon.todo,
                       daemon.offer>>
        /\ daemon'.plan = Tail(daemon.plan) /\ daemon'.phase \in {"install", "on"}
    BY <1>1, <1>2 DEF DaemonStates, Rest
  <1>6. /\ cli'.phase = "idle" /\ daemon'.cfg = config' /\ daemon'.session = DetectSession(env)'
        /\ daemon'.infos = (InfosOf(IdsOf(daemon.infos)))'
        /\ \A k \in KindSet : daemon'.desired[k] = PickFor(k, daemon.session, daemon.infos)'
    <2>1. KindSet \cap ToSet(daemon.todo) = {}
      BY <1>2, KindsToDo
    <2>2. daemon'.phase \in {"fetch", "install", "on"}
      BY <1>5
    <2> QED
      BY <1>1, <1>2, <1>5, <2>1, <2>2, CalmFrame
  <1>7. Offer(config)' = Offer(config)
    BY <1>1, SameWorld
  <1>8. Due' = Due /\ Due = {daemon.desired[k] : k \in KindSet} \cap ToSet(Offer(config))
    BY <1>1, <1>3, <1>5, <1>7 DEF Due
  <1>9. ListInstalled' = ListInstalled \cup ({id} \cap ToSet(Offer(config)))
    <2>1. CASE id \notin ToSet(Offer(config))
      <3>1. disk' = disk
        BY <1>1, <1>2, <1>3, <2>1, InstalledTyped
      <3> QED
        BY <2>1, <3>1 DEF ListInstalled, Resolves
    <2>2. CASE id \in ToSet(Offer(config))
      <3>1. id \in Modules /\ disk' = [disk EXCEPT ![id] = "good"]
        BY <1>1, <1>2, <1>3, <2>2, InstalledTyped
      <3> HIDE DEF id
      <3>2. \A m \in Modules : disk'[m] = "good" <=> disk[m] = "good" \/ m = id
        BY <1>2, <3>1
      <3> QED
        BY <2>2, <3>1, <3>2 DEF ListInstalled, Resolves
    <2> QED
      BY <2>1, <2>2
  <1> HIDE DEF id
  <1>10. IdsOf(daemon.infos) \cup (Due \ ToSet(Tail(daemon.plan))) \subseteq ListInstalled'
    BY <1>3, <1>4, <1>8, <1>9
  <1>11. ListInstalled' \subseteq IdsOf(daemon.infos) \cup Due
    BY <1>2, <1>3, <1>4, <1>8, <1>9
  <1> QED
    BY <1>1, <1>3, <1>5, <1>6, <1>7, <1>8, <1>10, <1>11 DEF CalmInv

\* Every step keeps what a start knows, or is a disturbance.
LEMMA CalmStep == DiscoveryInv /\ [Next]_vars => CalmInv'
  <1> SUFFICES ASSUME DiscoveryInv, [Next]_vars PROVE CalmInv'
    OBVIOUS
  <1>1. CASE UNCHANGED vars
    <2>1. UNCHANGED <<env, tools, disk, source, config, daemon, cli, calm>>
      BY <1>1 DEF vars, world, history
    <2>2. /\ Offer(config)' = Offer(config) /\ DetectSession(env)' = DetectSession(env)
          /\ ListInstalled' = ListInstalled
      BY <2>1, SameWorld DEF DetectSession, ListInstalled, Resolves
    <2>3. Due' = Due
      BY <2>1, <2>2 DEF Due
    <2>4. (InfosOf(IdsOf(daemon.infos)))' = InfosOf(IdsOf(daemon.infos))
      BY <2>1 DEF InfosOf
    <2>5. \A k : PickFor(k, daemon.session, daemon.infos)'
                   = PickFor(k, daemon.session, daemon.infos)
      <3>1. InfosOf(ToSet(Offer(config)))' = InfosOf(ToSet(Offer(config)))
        BY <2>1, <2>2 DEF InfosOf
      <3> QED
        BY <2>1, <2>2, <3>1 DEF PickFor, RemoteRank
    <2>6. CalmInv
      BY DEF DiscoveryInv
    <2> QED
      BY <2>1, <2>2, <2>3, <2>4, <2>5, <2>6 DEF CalmInv
  <1>2. CASE Stop \/ CliStart \/ Change
    BY <1>2 DEF Stop, CliStart, Change, Disturbed, CalmInv
  <1>3. CASE CliFetch \/ CliInstall
    <2>1. cli.phase # "idle" /\ calm' = calm
      BY <1>3 DEF CliFetch, CliInstall, history
    <2> QED
      BY <2>1 DEF DiscoveryInv, CalmInv
  <1> QED
    BY <1>1, <1>2, <1>3, CalmLaunch, CalmList, CalmPick, CalmPlan, CalmDaemonFetch,
       CalmDaemonInstall DEF Next

-----------------------------------------------------------------------------
(* The start after one that served every kind                              *)

\* While the world is the same, the picks mean the same.
LEMMA StaySettled ==
  ASSUME UNCHANGED <<env, tools, disk, source, config, before>>
  PROVE  \A k \in KindSet : SettledFor(k) => SettledFor(k)'
  <1>1. ListInstalled' = ListInstalled /\ DetectSession(env)' = DetectSession(env)
    BY DEF ListInstalled, Resolves, DetectSession
  <1>2. InfosOf(ListInstalled)' = InfosOf(ListInstalled)
    BY <1>1 DEF InfosOf
  <1>3. \A k, session, infos : PickFor(k, session, infos)' = PickFor(k, session, infos)
    BY SameWorld
  <1>4. Offer(config)' = Offer(config)
    BY SameWorld
  <1>5. InfosOf(ToSet(Offer(config)))' = InfosOf(ToSet(Offer(config)))
    BY <1>4 DEF InfosOf
  <1>6. \A k : PickFor(k, DetectSession(env), InfosOf(ListInstalled))'
                 = PickFor(k, DetectSession(env), InfosOf(ListInstalled))
    BY <1>1, <1>2, <1>4, <1>5 DEF PickFor, RemoteRank
  <1> QED
    BY <1>1, <1>2, <1>6 DEF SettledFor

\* A settled kind is picked from what is installed, or there is nothing.
LEMMA SettledPicks ==
  ASSUME NEW k \in KindSet, SettledFor(k)
  PROVE  /\ before[k] = PickFor(k, DetectSession(env), InfosOf(ListInstalled))
         /\ OfKind(InfosOf(ListInstalled), k) = {} =>
              Candidates(DetectSession(env), k) = <<>> /\ before[k] = None
         /\ before[k] \in {None} \cup ListInstalled
  <1>1. /\ before[k] = PickFor(k, DetectSession(env), InfosOf(ListInstalled))
        /\ OfKind(InfosOf(ListInstalled), k) = {} => Candidates(DetectSession(env), k) = <<>>
    BY DEF SettledFor
  <1>2. /\ InfosOf(ListInstalled) \in SUBSET Infos
        /\ IdsOf(OfKind(InfosOf(ListInstalled), k)) \subseteq ListInstalled
    BY InfosOfModules DEF ListInstalled
  <1>3. CASE OfKind(InfosOf(ListInstalled), k) = {}
    BY <1>1, <1>3 DEF PickFor, RemoteRank
  <1>4. CASE OfKind(InfosOf(ListInstalled), k) # {}
    <2>1. before[k] \in IdsOf(OfKind(InfosOf(ListInstalled), k))
      BY <1>1, <1>2, <1>4, RankedInstalled DEF PickFor
    <2> QED
      BY <1>1, <1>2, <1>4, <2>1
  <1> QED
    BY <1>1, <1>3, <1>4

\* It launches and lists in the world the previous one left.
LEMMA BeforeLaunchList == DiscoveryInv /\ (Launch \/ List) => BeforeInv'
  <1> SUFFICES ASSUME Types, BeforeInv, Launch \/ List, before' # NoPicks PROVE BeforeInv'
    BY DEF DiscoveryInv, BeforeInv
  <1>1. UNCHANGED <<env, tools, disk, source, config, before, cli>>
    BY DEF Launch, List, world, history
  <1>2. cli.phase = "idle" /\ \A k \in KindSet : SettledFor(k)
    BY <1>1 DEF BeforeInv
  <1>3. cli'.phase = "idle" /\ \A k \in KindSet : SettledFor(k)'
    BY <1>1, <1>2, StaySettled
  <1>4. ListInstalled' = ListInstalled /\ DetectSession(env)' = DetectSession(env)
    BY <1>1 DEF ListInstalled, Resolves, DetectSession
  <1>5. CASE Launch
    <2>1. /\ daemon' = [Off EXCEPT !.phase = "list", !.session = DetectSession(env), !.cfg = config]
          /\ fetched' = FALSE
      BY <1>5 DEF Launch
    <2>2. daemon'.phase = "list" /\ daemon'.cfg = config' /\ daemon'.session = DetectSession(env)'
      BY <1>1, <1>4, <2>1 DEF Off
    <2> QED
      BY <1>3, <2>1, <2>2 DEF BeforeInv
  <1>6. CASE List
    <2>1. /\ daemon.phase = "list" /\ fetched' = fetched
          /\ daemon' = [daemon EXCEPT !.phase = "pick", !.infos = InfosOf(ListInstalled),
                                      !.todo = Kinds]
      BY <1>6 DEF List, history
    <2>2. daemon \in DaemonStates
      BY DEF Types
    <2>3. /\ daemon'.phase = "pick" /\ daemon'.infos = InfosOf(ListInstalled)
          /\ daemon'.todo = Kinds /\ daemon'.cfg = daemon.cfg /\ daemon'.session = daemon.session
      BY <2>1, <2>2 DEF DaemonStates
    <2>4. daemon.cfg = config /\ daemon.session = DetectSession(env) /\ ~fetched
      BY <1>1, <2>1 DEF BeforeInv
    <2>5. InfosOf(ListInstalled)' = InfosOf(ListInstalled)
      BY <1>1, <1>4 DEF InfosOf
    <2>6. KindSet \ ToSet(daemon'.todo) = {}
      BY <2>3, KindsToDo
    <2> QED
      BY <1>1, <1>3, <1>4, <2>1, <2>3, <2>4, <2>5, <2>6 DEF BeforeInv
  <1> QED
    BY <1>5, <1>6

\* It picks what the previous one had, and asks nobody.
LEMMA BeforePick == DiscoveryInv /\ Pick => BeforeInv'
  <1> SUFFICES ASSUME Types, BeforeInv, Pick, before' # NoPicks PROVE BeforeInv'
    BY DEF DiscoveryInv, BeforeInv
  <1> DEFINE kind == Head(daemon.todo)
             prefer == daemon.cfg.prefer[kind]
             candidates == Candidates(daemon.session, kind)
             top == RankCandidates(candidates, Ids, daemon.infos, prefer, kind)
             remote == RemoteRank(candidates, prefer, kind, Offer(daemon.cfg))
  <1>1. PICK id \in Names :
          /\ daemon.phase = "pick" /\ daemon.todo \in Todos \ {<<>>}
          /\ daemon' = [daemon EXCEPT !.todo = Tail(@), !.desired[kind] = id]
          /\ UNCHANGED <<world, cli, before>>
          /\ \/ /\ top # None /\ id = top
                /\ UNCHANGED <<changes, calm, fetched>>
             \/ /\ top = None /\ id = remote
                /\ UNCHANGED <<changes, calm>>
                /\ fetched' = (fetched \/ Asks(candidates, prefer))
             \/ /\ top = None /\ id = None /\ Asks(candidates, prefer)
                /\ fetched' = TRUE /\ calm' = FALSE /\ changes' = changes + 1
    <2> HIDE DEF kind, prefer, candidates, top, remote
    <2> QED
      BY PickChooses DEF kind, prefer, candidates, top, remote
  <1>2. UNCHANGED <<env, tools, disk, source, config, cli, before>>
    BY <1>1 DEF world
  <1>3. /\ cli.phase = "idle" /\ \A k \in KindSet : SettledFor(k)
        /\ daemon.cfg = config /\ daemon.session = DetectSession(env) /\ ~fetched
        /\ \A k \in KindSet \ ToSet(daemon.todo) : daemon.desired[k] = before[k]
        /\ daemon.infos = InfosOf(ListInstalled)
    BY <1>1, <1>2 DEF BeforeInv
  <1>4. cli'.phase = "idle" /\ \A k \in KindSet : SettledFor(k)'
    BY <1>2, <1>3, StaySettled
  <1>5. ListInstalled' = ListInstalled /\ DetectSession(env)' = DetectSession(env)
    BY <1>2 DEF ListInstalled, Resolves, DetectSession
  <1>6. InfosOf(ListInstalled)' = InfosOf(ListInstalled)
    BY <1>2, <1>5 DEF InfosOf
  <1>7. kind \in KindSet /\ ToSet(daemon.todo) = ToSet(Tail(daemon.todo)) \cup {kind}
    BY <1>1, KindsToDo
  <1>8. /\ before[kind] = PickFor(kind, daemon.session, daemon.infos)
        /\ OfKind(daemon.infos, kind) = {} => candidates = <<>>
    BY <1>3, <1>7, SettledPicks
  <1>9. OfKind(daemon.infos, kind) = {} <=> top = None
    <2>1. daemon.infos \in SUBSET Infos
      BY DEF Types, DaemonStates
    <2> QED
      BY <2>1, RankedInstalled
  <1>10. top = None => ~Asks(candidates, prefer)
    BY <1>8, <1>9 DEF Asks
  <1>11. id = before[kind]
    BY <1>1, <1>3, <1>8, <1>9, <1>10 DEF PickFor
  <1>12. ~fetched'
    <2> HIDE DEF kind, prefer, candidates, top, remote
    <2> QED
      BY <1>1, <1>3, <1>10, Zenon
  <1> HIDE DEF kind, prefer, candidates, top, remote
  <1>13. /\ daemon \in DaemonStates /\ daemon.desired \in [KindSet -> Names]
    BY DEF Types, DaemonStates
  <1>14. /\ daemon'.phase = "pick" /\ daemon'.infos = daemon.infos
         /\ daemon'.todo = Tail(daemon.todo) /\ daemon'.cfg = daemon.cfg
         /\ daemon'.session = daemon.session
         /\ daemon'.desired = [daemon.desired EXCEPT ![kind] = id]
    BY <1>1, <1>13 DEF DaemonStates
  <1>15. \A k \in KindSet \ ToSet(daemon'.todo) : daemon'.desired[k] = before[k]
    BY <1>3, <1>7, <1>11, <1>13, <1>14
  <1> QED
    BY <1>2, <1>3, <1>4, <1>5, <1>6, <1>12, <1>14, <1>15 DEF BeforeInv

\* Nothing is missing then.
LEMMA BeforePlan == DiscoveryInv /\ Plan => BeforeInv'
  <1> SUFFICES ASSUME Types, BeforeInv, Plan, before' # NoPicks PROVE BeforeInv'
    BY DEF DiscoveryInv, BeforeInv
  <1>1. PICK missing \in Seq(Names) :
          /\ daemon.phase = "pick" /\ daemon.todo = <<>>
          /\ UNCHANGED <<world, cli, changes, history>>
          /\ daemon.cfg.local => missing = <<>>
          /\ ~daemon.cfg.local =>
               ToSet(missing) = {daemon.desired[k] : k \in KindSet} \ ({None} \cup ListInstalled)
          /\ daemon' = [daemon EXCEPT !.phase = IF missing = <<>> THEN "on" ELSE "fetch",
                                      !.plan = missing]
    BY PlanChooses
  <1>2. UNCHANGED <<env, tools, disk, source, config, cli, before, fetched>>
    BY <1>1 DEF world, history
  <1>3. /\ cli.phase = "idle" /\ \A k \in KindSet : SettledFor(k)
        /\ daemon.cfg = config /\ daemon.session = DetectSession(env) /\ ~fetched
        /\ \A k \in KindSet \ ToSet(daemon.todo) : daemon.desired[k] = before[k]
    BY <1>1, <1>2 DEF BeforeInv
  <1>4. \A k \in KindSet : daemon.desired[k] = before[k]
    BY <1>1, <1>3, KindsToDo
  <1>5. \A k \in KindSet : daemon.desired[k] \in {None} \cup ListInstalled
    BY <1>3, <1>4, SettledPicks
  <1>6. missing = <<>>
    <2>1. ~daemon.cfg.local => ToSet(missing) = {}
      BY <1>1, <1>5
    <2> QED
      BY <1>1, <2>1, NoMembers
  <1>7. daemon \in DaemonStates
    BY DEF Types
  <1>8. /\ daemon'.phase = "on" /\ daemon'.cfg = daemon.cfg /\ daemon'.session = daemon.session
        /\ daemon'.desired = daemon.desired
    BY <1>1, <1>6, <1>7 DEF DaemonStates
  <1>9. cli'.phase = "idle" /\ \A k \in KindSet : SettledFor(k)'
    BY <1>2, <1>3, StaySettled
  <1>10. DetectSession(env)' = DetectSession(env)
    BY <1>2 DEF DetectSession
  <1> QED
    BY <1>2, <1>3, <1>4, <1>8, <1>9, <1>10 DEF BeforeInv

\* When a calm start is over, its picks are those of what it found, and what
\* is there is that and the picks that are published.
LEMMA CalmOn ==
  ASSUME Types, CalmInv, calm, daemon.phase = "on"
  PROVE  /\ cli.phase = "idle" /\ daemon.cfg = config /\ daemon.session = DetectSession(env)
         /\ daemon.desired \in [KindSet -> Names]
         /\ daemon.infos \in SUBSET Infos /\ daemon.infos = InfosOf(IdsOf(daemon.infos))
         /\ ListInstalled = IdsOf(daemon.infos) \cup Due
         /\ Due = IF config.local THEN {}
                    ELSE {daemon.desired[k] : k \in KindSet} \cap ToSet(Offer(config))
         /\ \A k \in KindSet :
              daemon.desired[k] = PickFor(k, daemon.session, daemon.infos)
  <1>1. daemon \in DaemonStates /\ daemon.plan = <<>> /\ daemon.todo = <<>>
    BY DEF Types
  <1>2. ToSet(daemon.plan) = {} /\ ToSet(daemon.todo) = {}
    BY <1>1, KindsToDo
  <1> QED
    BY <1>1, <1>2 DEF CalmInv, Due, DaemonStates

\* If every kind is served or not asked for, a start that finds what is there
\* now would pick the same and ask nobody.
LEMMA ServedIsSettled ==
  ASSUME Types, CalmInv, calm, daemon.phase = "on",
         \A k \in KindSet : Served(k) \/ Unasked(k), NEW kind \in KindSet
  PROVE  LET session == DetectSession(env)
             infos == InfosOf(ListInstalled)
         IN /\ daemon.desired[kind] = PickFor(kind, session, infos)
            /\ OfKind(infos, kind) = {} => Candidates(session, kind) = <<>>
  <1> DEFINE session == DetectSession(env)
             infos == InfosOf(ListInstalled)
             found == daemon.infos
             pick == daemon.desired[kind]
  <1>1. /\ daemon.session = session /\ found \in SUBSET Infos
        /\ found = InfosOf(IdsOf(found))
        /\ ListInstalled = IdsOf(found) \cup Due
        /\ Due \subseteq {daemon.desired[k] : k \in KindSet}
        /\ pick = PickFor(kind, session, found)
    BY CalmOn
  <1>2. ListInstalled \in SUBSET Modules /\ Due \subseteq ListInstalled
    BY <1>1 DEF ListInstalled
  <1>3. /\ infos \in SUBSET Infos /\ IdsOf(infos) = ListInstalled
        /\ IdsOf(OfKind(infos, kind)) = {id \in ListInstalled : KindOf[id] = kind}
    BY <1>2, InfosOfModules
  <1>4. Served(kind) => pick \in ListInstalled /\ KindOf[pick] = kind
    BY DEF Served, ListInstalled, Resolves
  <1>5. \A id \in Due : KindOf[id] = kind => id = pick
    <2> SUFFICES ASSUME NEW id \in Due, KindOf[id] = kind PROVE id = pick
      OBVIOUS
    <2>1. PICK k \in KindSet : id = daemon.desired[k]
      BY <1>1
    <2>2. id # None
      BY <1>2, NoneIsNoModule
    <2> QED
      BY <2>1, <2>2 DEF Served, Unasked
  <1>6. CASE OfKind(found, kind) # {}
    <2>1. pick \in IdsOf(OfKind(found, kind))
      BY <1>1, <1>6, RankedInstalled DEF PickFor
    <2>2. IdsOf(OfKind(found, kind)) = {id \in IdsOf(found) : KindOf[id] = kind}
      BY <1>1, IdsOfInfos
    <2>3. \A id \in ListInstalled : KindOf[id] = kind => id \in IdsOf(found)
      BY <1>1, <1>5, <2>1, <2>2
    <2>4. OfKind(infos, kind) = OfKind(found, kind)
      <3> DEFINE Info(id) == [id |-> id, met |-> Requires[id] \subseteq tools]
      <3>1. infos = {Info(id) : id \in ListInstalled}
        BY DEF InfosOf
      <3>2. found = {Info(id) : id \in IdsOf(found)}
        BY <1>1 DEF InfosOf
      <3>3. \A id : Info(id).id = id
        OBVIOUS
      <3> HIDE DEF Info, infos, found
      <3>4. OfKind(infos, kind) = {Info(id) : id \in {i \in ListInstalled : KindOf[i] = kind}}
        BY <3>1, <3>3 DEF OfKind
      <3>5. OfKind(found, kind) = {Info(id) : id \in {i \in IdsOf(found) : KindOf[i] = kind}}
        BY <3>2, <3>3 DEF OfKind
      <3>6. {i \in ListInstalled : KindOf[i] = kind} = {i \in IdsOf(found) : KindOf[i] = kind}
        BY <1>1, <2>3
      <3> QED
        BY <3>4, <3>5, <3>6
    <2> HIDE DEF session, infos, found, pick
    <2>5. PickFor(kind, session, infos) = PickFor(kind, session, found)
      BY <1>6, <2>4 DEF PickFor, RankCandidates
    <2> QED
      BY <1>1, <1>6, <2>4, <2>5 DEF session, infos, found, pick
  <1>7. CASE OfKind(found, kind) = {} /\ Served(kind)
    <2>1. {id \in IdsOf(found) : KindOf[id] = kind} = {}
      BY <1>1, <1>7, IdsOfInfos
    <2>2. IdsOf(OfKind(infos, kind)) = {pick}
      <3> HIDE DEF infos, pick, found
      <3>1. \A id \in ListInstalled : KindOf[id] = kind => id = pick
        BY <1>1, <1>5, <2>1
      <3> QED
        BY <1>3, <1>4, <1>7, <3>1
    <2>3. OfKind(infos, kind) # {}
      BY <1>3, <2>2, IdsOfInfos
    <2>4. RankCandidates(Candidates(session, kind), Ids, infos, config.prefer[kind], kind)
            \in IdsOf(OfKind(infos, kind))
      BY <1>3, <2>3, RankedInstalled
    <2> QED
      BY <2>2, <2>3, <2>4 DEF PickFor
  <1>8. CASE OfKind(found, kind) = {} /\ Unasked(kind)
    <2>1. pick = None /\ Candidates(session, kind) = <<>>
      BY <1>1, <1>8 DEF Unasked
    <2>2. {id \in IdsOf(found) : KindOf[id] = kind} = {}
      BY <1>1, <1>8, IdsOfInfos
    <2>3. \A id \in ListInstalled : KindOf[id] # kind
      BY <1>1, <1>2, <1>5, <2>1, <2>2, NoneIsNoModule
    <2>4. OfKind(infos, kind) = {}
      <3>1. IdsOf(OfKind(infos, kind)) = {}
        BY <1>3, <2>3
      <3> QED
        BY <1>3, <3>1, IdsOfInfos
    <2> QED
      BY <2>1, <2>4 DEF PickFor, RemoteRank
  <1> QED
    BY <1>6, <1>7, <1>8

\* A start that served every kind leaves a world in which the next is quiet.
LEMMA BeforeStop == DiscoveryInv /\ Stop => BeforeInv'
  <1> SUFFICES ASSUME Types, CalmInv, Stop, before' # NoPicks PROVE BeforeInv'
    BY DEF DiscoveryInv, BeforeInv
  <1>1. /\ daemon.phase = "on" /\ daemon' = Off /\ UNCHANGED <<world, cli>>
        /\ calm /\ before' = daemon.desired
        /\ \A k \in KindSet : Served(k) \/ Unasked(k)
    BY DEF Stop, KindSet
  <1>2. UNCHANGED <<env, tools, disk, source, config, cli>>
    BY <1>1 DEF world
  <1>3. cli'.phase = "idle"
    BY <1>1, <1>2, CalmOn
  <1>4. daemon'.phase = "off"
    BY <1>1 DEF Off
  <1>5. \A k \in KindSet :
          /\ daemon.desired[k] = PickFor(k, DetectSession(env), InfosOf(ListInstalled))
          /\ OfKind(InfosOf(ListInstalled), k) = {} => Candidates(DetectSession(env), k) = <<>>
    BY <1>1, ServedIsSettled
  <1>6. ListInstalled' = ListInstalled /\ DetectSession(env)' = DetectSession(env)
    BY <1>2 DEF ListInstalled, Resolves, DetectSession
  <1>7. InfosOf(ListInstalled)' = InfosOf(ListInstalled)
    BY <1>2, <1>6 DEF InfosOf
  <1>8. Offer(config)' = Offer(config)
    BY <1>2, SameWorld
  <1>9. InfosOf(ToSet(Offer(config)))' = InfosOf(ToSet(Offer(config)))
    BY <1>2, <1>8 DEF InfosOf
  <1>10. \A k : PickFor(k, DetectSession(env), InfosOf(ListInstalled))'
                  = PickFor(k, DetectSession(env), InfosOf(ListInstalled))
    BY <1>2, <1>6, <1>7, <1>8, <1>9 DEF PickFor, RemoteRank
  <1>11. \A k \in KindSet : SettledFor(k)'
    BY <1>1, <1>5, <1>6, <1>7, <1>10 DEF SettledFor
  <1> QED
    BY <1>3, <1>4, <1>11 DEF BeforeInv

\* Nothing else happens in such a start, and what disturbs it forgets it.
LEMMA BeforeStep == DiscoveryInv /\ [Next]_vars => BeforeInv'
  <1> SUFFICES ASSUME DiscoveryInv, [Next]_vars, before' # NoPicks PROVE BeforeInv'
    BY DEF BeforeInv
  <1>1. CASE UNCHANGED vars
    <2>1. UNCHANGED <<env, tools, disk, source, config, before, daemon, cli, fetched>>
      BY <1>1 DEF vars, world, history
    <2>2. \A k \in KindSet : SettledFor(k) => SettledFor(k)'
      BY <2>1, StaySettled
    <2>3. ListInstalled' = ListInstalled /\ DetectSession(env)' = DetectSession(env)
      BY <2>1 DEF ListInstalled, Resolves, DetectSession
    <2>4. InfosOf(ListInstalled)' = InfosOf(ListInstalled)
      BY <2>1, <2>3 DEF InfosOf
    <2> QED
      BY <2>1, <2>2, <2>3, <2>4 DEF DiscoveryInv, BeforeInv
  <1>2. ~(DaemonFetch \/ DaemonInstall)
    <2> SUFFICES ASSUME DaemonFetch \/ DaemonInstall PROVE FALSE
      OBVIOUS
    <2>1. before' = before /\ daemon.phase \in {"fetch", "install"}
      BY DEF DaemonFetch, DaemonInstall
    <2> QED
      BY <2>1 DEF DiscoveryInv, BeforeInv
  <1>3. ~(CliFetch \/ CliInstall)
    <2> SUFFICES ASSUME CliFetch \/ CliInstall PROVE FALSE
      OBVIOUS
    <2>1. before' = before /\ cli.phase \in {"fetch", "install"}
      BY DEF CliFetch, CliInstall, history
    <2> QED
      BY <2>1 DEF DiscoveryInv, BeforeInv
  <1>4. ~(CliStart \/ Change)
    BY DEF CliStart, Change, Disturbed
  <1> QED
    BY <1>1, <1>2, <1>3, <1>4, BeforeLaunchList, BeforePick, BeforePlan, BeforeStop DEF Next

-----------------------------------------------------------------------------
(* The theorems of Discovery                                               *)

\* The invariant holds.
THEOREM DiscoveryInvariance == Spec => []DiscoveryInv
  <1>1. Init => DiscoveryInv
    BY DiscoveryInit
  <1>2. DiscoveryInv /\ [Next]_vars => DiscoveryInv'
    BY TypesStep, CalmStep, BeforeStep DEF DiscoveryInv
  <1> QED
    BY <1>1, <1>2, PTL DEF Spec

\* Phases, picks, plans and what the last start served are what they claim to be.
THEOREM DiscoveryTypeCorrect == Spec => []TypeOK
  <1>1. DiscoveryInv => TypeOK
    BY DEF DiscoveryInv, Types, TypeOK, DaemonStates, CliStates, KindSet
  <1> QED
    BY <1>1, DiscoveryInvariance, PTL

\* The start after one that served every kind, on the same machine, picks the
\* same modules and asks nobody.
THEOREM RestartsAreQuiet == Spec => []RestartIsQuiet
  <1>1. DiscoveryInv => RestartIsQuiet
    <2> SUFFICES ASSUME Types, BeforeInv, daemon.phase = "on", before # NoPicks
                 PROVE  daemon.desired = before /\ ~fetched
      BY DEF DiscoveryInv, RestartIsQuiet
    <2>1. daemon \in DaemonStates /\ ToSet(daemon.todo) = {}
      BY KindsToDo DEF Types
    <2>2. /\ daemon.desired \in [KindSet -> Names]
          /\ before \in [KindSet -> Modules \cup {None}]
      BY <2>1 DEF Types, DaemonStates
    <2>3. ~fetched /\ \A k \in KindSet : daemon.desired[k] = before[k]
      BY <2>1 DEF BeforeInv
    <2> QED
      BY <2>2, <2>3
  <1> QED
    BY <1>1, DiscoveryInvariance, PTL

\* A start that nothing disturbs and no download fails ends with a module of
\* every kind that can be had.
THEOREM CalmStartsServe == Spec => []CalmStartServes
  <1>1. DiscoveryInv => CalmStartServes
    <2> SUFFICES ASSUME Types, CalmInv, daemon.phase = "on", calm, ~daemon.cfg.local,
                        NEW kind \in KindSet
                 PROVE  LET prefer == daemon.cfg.prefer[kind]
                            Had(id) == id \in ToSet(Offer(daemon.cfg)) /\ KindOf[id] = kind
                        IN Served(kind) <=>
                             \/ OfKind(daemon.infos, kind) # {}
                             \/ /\ Candidates(daemon.session, kind) # <<>>
                                /\ IF prefer = None THEN \E id \in Modules : Had(id)
                                                    ELSE Had(prefer)
      BY DEF DiscoveryInv, CalmStartServes, KindSet
    <2> DEFINE prefer == config.prefer[kind]
               pick == daemon.desired[kind]
               found == daemon.infos
               candidates == Candidates(daemon.session, kind)
               offered == ToSet(Offer(config))
               mine == {id \in offered : KindOf[id] = kind}
    <2>1. /\ daemon.cfg = config /\ found \in SUBSET Infos
          /\ ListInstalled = IdsOf(found) \cup Due
          /\ Due = {daemon.desired[k] : k \in KindSet} \cap offered
          /\ pick = PickFor(kind, daemon.session, found)
      BY CalmOn
    <2>2. offered \subseteq Modules /\ IdsOf(found) \subseteq Modules /\ None \notin Modules
      BY <2>1, OfferIsModules, IdsOfInfos, NoneIsNoModule DEF Types
    <2>3. Served(kind) <=> pick \in IdsOf(found) \cup offered /\ KindOf[pick] = kind
      <3>1. Served(kind) <=> pick \in ListInstalled /\ KindOf[pick] = kind
        BY DEF Served, ListInstalled, Resolves
      <3>2. pick \in ListInstalled <=> pick \in IdsOf(found) \cup offered
        BY <2>1
      <3> QED
        BY <3>1, <3>2
    <2>4. CASE OfKind(found, kind) # {}
      <3>1. pick \in IdsOf(OfKind(found, kind))
        BY <2>1, <2>4, RankedInstalled DEF PickFor
      <3>2. IdsOf(OfKind(found, kind)) = {id \in IdsOf(found) : KindOf[id] = kind}
        BY <2>1, IdsOfInfos
      <3> QED
        BY <2>3, <2>4, <3>1, <3>2
    <2>5. CASE OfKind(found, kind) = {}
      <3>1. {id \in IdsOf(found) : KindOf[id] = kind} = {}
        BY <2>1, <2>5, IdsOfInfos
      <3>2. Served(kind) <=> pick \in mine
        BY <2>3, <3>1
      <3>3. pick = RemoteRank(candidates, prefer, kind, Offer(config))
        BY <2>1, <2>5 DEF PickFor
      <3>4. /\ candidates = <<>> => pick = None
            /\ candidates # <<>> /\ prefer # None => pick = prefer
            /\ candidates # <<>> /\ prefer = None =>
                 (mine = {} => pick = None) /\ (mine # {} => pick \in mine)
        BY <3>3, RemotelyRanked DEF Types
      <3>5. None \notin mine /\ mine \subseteq Modules
        BY <2>2
      <3> HIDE DEF candidates, prefer, pick, found
      <3>6. pick \in mine <=>
              candidates # <<>> /\ IF prefer = None THEN mine # {} ELSE prefer \in mine
        <4> HIDE DEF mine
        <4> QED
          BY <3>4, <3>5
      <3> QED
        BY <2>1, <2>5, <3>2, <3>5, <3>6 DEF candidates, prefer, found
    <2> QED
      BY <2>4, <2>5
  <1> QED
    BY <1>1, DiscoveryInvariance, PTL

\* A pick beats every other module of its kind: of those that were found or,
\* where nothing was found or preferred, of those published.
THEOREM BestModuleIsPicked == Spec => BestIsPicked
  <1> DEFINE kind == Head(daemon.todo)
             pick == daemon'.desired[kind]
             prefer == daemon.cfg.prefer[kind]
             candidates == Candidates(daemon.session, kind)
             there == IdsOf(OfKind(daemon.infos, kind))
             metThere == IdsOf({info \in daemon.infos : info.met})
             published == Offer(daemon.cfg)
             offer == {id \in ToSet(published) : KindOf[id] = kind}
             metNow == {id \in Modules : Requires[id] \subseteq tools}
             BestOf(ids, found, wish, met) ==
               /\ pick \in ids
               /\ \A id \in ids \ {pick} : Better(pick, id, candidates, found, wish, met)
             Best == CASE there # {} -> BestOf(there, Ids, prefer, metThere)
                       [] there = {} /\ candidates # <<>> /\ prefer # None -> pick = prefer
                       [] OTHER -> \/ BestOf(offer, published, None, metNow) /\ candidates # <<>>
                                   \/ /\ pick = None
                                      /\ candidates = <<>> \/ offer = {} \/ changes' # changes
  <1>1. DiscoveryInv /\ [Next]_vars => PicksBest
    <2> SUFFICES ASSUME Types, [Next]_vars,
                        daemon.phase = "pick", daemon.todo # <<>>, daemon' # daemon
                 PROVE  Best
      BY DEF DiscoveryInv, PicksBest
    <2>1. Pick
      BY DEF Next, vars, Launch, List, Plan, Stop, DaemonFetch, DaemonInstall, CliStart,
         CliFetch, CliInstall, Change
    <2> DEFINE top == RankCandidates(candidates, Ids, daemon.infos, prefer, kind)
               remote == RemoteRank(candidates, prefer, kind, Offer(daemon.cfg))
    <2>2. PICK id \in Names :
            /\ daemon' = [daemon EXCEPT !.todo = Tail(@), !.desired[kind] = id]
            /\ daemon.todo \in Todos \ {<<>>}
            /\ \/ top # None /\ id = top
               \/ top = None /\ id = remote
               \/ top = None /\ id = None /\ Asks(candidates, prefer) /\ changes' = changes + 1
      <3> HIDE DEF kind, prefer, candidates, top, remote
      <3> QED
        BY <2>1, PickChooses DEF kind, prefer, candidates, top, remote
    <2>3. /\ daemon.desired \in [KindSet -> Names] /\ daemon.infos \in SUBSET Infos
          /\ source \in Sources /\ changes \in Nat /\ daemon \in DaemonStates
      BY DEF Types, DaemonStates
    <2>4. pick = id
      <3>1. kind \in KindSet
        BY <2>2, KindsToDo
      <3> HIDE DEF kind
      <3> QED
        BY <2>2, <2>3, <3>1 DEF DaemonStates
    <2>5. there = {} <=> OfKind(daemon.infos, kind) = {}
      BY <2>3, IdsOfInfos
    <2>6. /\ there = {} <=> top = None
          /\ there # {} => /\ top \in there
                           /\ \A m \in there \ {top} :
                                Better(top, m, candidates, Ids, prefer, metThere)
      BY <2>3, <2>5, RankedInstalled
    <2>7. /\ candidates = <<>> => remote = None
          /\ candidates # <<>> /\ prefer # None => remote = prefer
          /\ candidates # <<>> /\ prefer = None =>
               /\ offer = {} => remote = None
               /\ offer # {} => /\ remote \in offer
                                /\ \A m \in offer \ {remote} :
                                     Better(remote, m, candidates, published, None, metNow)
      BY <2>3, RemotelyRanked
    <2>8. Asks(candidates, prefer) <=> candidates # <<>> /\ prefer = None
      BY DEF Asks
    <2>9. changes' = changes + 1 => changes' # changes
      BY <2>3
    <2> HIDE DEF kind, prefer, candidates, there, metThere, published, offer, metNow, pick,
                 top, remote
    <2>10. CASE there # {}
      BY <2>2, <2>4, <2>6, <2>10
    <2>11. CASE there = {} /\ candidates # <<>> /\ prefer # None
      <3>1. pick = prefer
        BY <2>2, <2>4, <2>6, <2>7, <2>8, <2>11
      <3> QED
        BY <2>11, <3>1
    <2>12. CASE there = {} /\ ~(candidates # <<>> /\ prefer # None)
      <3>1. \/ BestOf(offer, published, None, metNow) /\ candidates # <<>>
            \/ /\ pick = None
               /\ candidates = <<>> \/ offer = {} \/ changes' # changes
        BY <2>2, <2>4, <2>6, <2>7, <2>8, <2>9, <2>12
      <3> QED
        BY <2>12, <3>1
    <2> QED
      BY <2>10, <2>11, <2>12
  <1> QED
    BY <1>1, DiscoveryInvariance, PTL DEF Spec, BestIsPicked

=============================================================================
