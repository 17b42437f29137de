---------------------------- MODULE InstallProofs ----------------------------
(***************************************************************************)
(* What installations promise for any number of releases, processes and    *)
(* operations at a time, and any number of crashes and uninstalls: version *)
(* directories come into being whole, failures take nothing away, success  *)
(* means what it says, leftovers are no obstacle, and once overlapping     *)
(* installations have ended the module is usable.                          *)
(***************************************************************************)
EXTENDS Install, TLAPS

Staging == {"writeBin", "writeVersion", "exists", "open", "clear", "rename"}

Linking == {"dropTmp", "symlink", "swap"}

Installing == Staging \cup Linking \cup {"stage"}

\* Nothing that may fail half way has run beside it.
Clean(j) == job[j].beside # "damage"

\* Uninstalls are the jobs that remove; a job that runs belongs to a process,
\* and one that installs knows what; clean or damaged, it stages alone.
Place(j) ==
  /\ Active(j) => /\ job[j].kind = "remove" <=> pc[j] \in {"remove", "wipe"}
                  /\ job[j].proc \in Procs
  /\ job[j].kind \in {"install", "force"} =>
       /\ pc[j] \in {"resolve", "version", "decide"} => job[j].seen # NoRelease
       /\ pc[j] # "check"
  /\ pc[j] \in Installing => job[j].goal # NoRelease
  /\ pc[j] \notin Staging => disk[j] = Absent

Placed == \A j \in Jobs : Place(j)

\* Nothing names a release that is not out yet.
Released ==
  /\ link <= latest /\ \A p \in Procs : tmp[p] <= latest
  /\ \A j \in Jobs : /\ job[j].seen <= latest
                     /\ pc[j] \in Installing \ {"stage"} => job[j].goal <= latest

\* Everybody who runs beside an uninstall is damaged, damage spreads to
\* everybody who installs, and who runs beside anybody is not alone.
Spread ==
  \A j, k \in Jobs :
    j # k /\ Active(j) /\ Active(k) =>
      /\ job[j].kind = "remove" => ~Clean(k)
      /\ job[k].kind # "remove" /\ ~Clean(j) => ~Clean(k)
      /\ ~Serial(j)

\* What a clean job has staged so far.
Stages(j) ==
  Active(j) /\ Clean(j) =>
    /\ pc[j] = "writeBin" => disk[j] = {}
    /\ pc[j] = "writeVersion" => disk[j] = {"bin"}
    /\ pc[j] \in {"exists", "open", "clear", "rename"} => disk[j] = File

Staged == \A j \in Jobs : Stages(j)

\* Who clears a directory knows all the files in it, unless it has been
\* replaced: then it removes none.
List(j) ==
  pc[j] = "clear" => job[j].left = {} \/ disk[job[j].goal] \subseteq job[j].left
                                      \/ disk[job[j].goal] = Absent

Listed == \A j \in Jobs : List(j)

\* A job that is about to put release r in its place, and will not fail.
Replacing(j, r) ==
  /\ Active(j) /\ job[j].goal = r
  /\ \/ pc[j] = "clear" /\ (disk[r] \subseteq job[j].left \/ disk[r] = Absent)
     \/ pc[j] = "rename" /\ disk[r] \in {{}, Absent}

\* The release is there, or on its way.
Safe(r) == r # NoRelease /\ (Whole(r) \/ \E j \in Jobs : Replacing(j, r))

\* Nothing that runs may fail half way.
Calm == \A j \in Jobs : Active(j) => Clean(j) /\ job[j].kind # "remove"

\* What `current' names, what a clean job is about to make it name, and what
\* that job will find under its temporary name.
Links(j) ==
  Active(j) /\ Clean(j) /\ pc[j] \in Linking =>
    /\ Safe(job[j].goal)
    /\ pc[j] # "dropTmp" /\ tmp[job[j].proc] # NoRelease => Safe(tmp[job[j].proc])

Linked == (sound => Safe(link) /\ Calm) /\ \A j \in Jobs : Links(j)

\* A job that is alone finds everything as it left it: what it resolved ...
Found(j) ==
  /\ pc[j] = "version" => Has(link, "bin")
  /\ pc[j] \in {"decide", "check"} =>
       CASE job[j].found = NoRelease   -> ~Has(link, "bin")
         [] job[j].found = Unversioned -> ~Has(link, "VERSION")
         [] OTHER                      -> job[j].found = link /\ Usable
  /\ job[j].seen # NoRelease => link <= job[j].seen

\* ... what it set out for ...
Aimed(j) ==
  pc[j] \in Installing =>
    /\ IF config.pin # NoRelease THEN job[j].goal = config.pin ELSE link <= job[j].goal
    /\ pc[j] \notin Linking /\ job[j].kind # "force" => ~Usable \/ link # job[j].goal

\* ... and what it has done so far.
Done(j) ==
  LET goal == job[j].goal
  IN /\ pc[j] \in {"open", "clear"} => disk[goal] # Absent
     /\ pc[j] = "clear" => disk[goal] \subseteq job[j].left
     /\ pc[j] = "rename" => disk[goal] = Absent
     /\ pc[j] \in Linking => disk[goal] = File
     /\ pc[j] = "symlink" => tmp[job[j].proc] = NoRelease
     /\ pc[j] = "swap" => tmp[job[j].proc] = goal

Alone == \A j \in Jobs : Active(j) /\ Serial(j) => Found(j) /\ Aimed(j) /\ Done(j)

IInv == TypeOK /\ Placed /\ Released /\ Spread /\ Staged /\ Listed /\ Linked /\ Alone

-----------------------------------------------------------------------------
(* Types                                                                   *)

\* What a job knows.
Knowledge == [kind : Kinds, proc : Procs \cup {NoProc}, seen : Releases \cup {NoRelease},
              found : Releases \cup {NoRelease, Unversioned},
              goal : Releases \cup {NoRelease}, left : SUBSET File,
              beside : {"nothing", "installs", "damage"}]

\* The directories on disk, and how full one may be.
Dirs  == Releases \cup Jobs
Files == (SUBSET File) \cup {Absent}

\* A job that ends, well or not, leaves types as they are.
LEMMA EndTyped ==
  ASSUME TypeOK, NEW j \in Jobs, NEW outcome \in Ended, Finish(j, outcome)
  PROVE  pc' \in [Jobs -> Ended \cup Steps] /\ job' \in [Jobs -> Knowledge]
  <1>1. Blank \in Knowledge
    BY DEF Blank, Knowledge, Kinds
  <1>2. pc \in [Jobs -> Ended \cup Steps] /\ job \in [Jobs -> Knowledge]
    BY DEF TypeOK, Knowledge
  <1> QED
    BY <1>1, <1>2 DEF Finish, Goto

\* Giving up ends the install and may leave its staging directory.
LEMMA AbandonTyped ==
  ASSUME TypeOK, NEW j \in Jobs, NEW outcome \in Ended, Abandon(j, outcome)
  PROVE  TypeOK'
  <1>1. Finish(j, outcome) /\ disk' \in [Dirs -> Files]
    BY DEF TypeOK, Abandon, Dirs, Files
  <1>2. UNCHANGED <<config, latest, idDir, link, tmp, mishaps, sound>>
    BY DEF Abandon
  <1> QED
    BY <1>1, <1>2, EndTyped DEF TypeOK, Dirs, Files, Knowledge, Releases

\* The constituents, in the form in which the lemmas use them.
LEMMA Types ==
  ASSUME TypeOK
  PROVE  /\ latest \in Nat /\ link \in Nat
         /\ disk \in [Dirs -> Files] /\ tmp \in [Procs -> Releases \cup {NoRelease}]
         /\ pc \in [Jobs -> Ended \cup Steps] /\ job \in [Jobs -> Knowledge]
         /\ config.pin \in Releases \cup {NoRelease}
         /\ Ended \cap Steps = {} /\ Releases \subseteq Nat \ {0} /\ Absent \notin SUBSET File
         /\ Releases \cap Jobs = {} /\ File # {}
  BY ReleasesAssumption, JobsAssumption, ConfigsAssumption
     DEF TypeOK, Dirs, Files, Knowledge, Ended, Steps, Releases, NoRelease, File, Absent

\* A job that goes on keeps types if what it learns has its type.
LEMMA GoOnTyped ==
  ASSUME TypeOK, NEW j \in Jobs, NEW label \in Ended \cup Steps, NEW knows \in Knowledge,
         Goto(j, label), job' = [job EXCEPT ![j] = knows]
  PROVE  pc' \in [Jobs -> Ended \cup Steps] /\ job' \in [Jobs -> Knowledge]
  BY Types DEF Goto

\* The types of everything but pc and job.
LEMMA DiskTyped ==
  ASSUME TypeOK, UNCHANGED <<config, latest, mishaps>>, idDir' \in BOOLEAN, sound' \in BOOLEAN,
         link' \in Releases \cup {NoRelease}, tmp' \in [Procs -> Releases \cup {NoRelease}],
         disk' \in [Dirs -> Files],
         pc' \in [Jobs -> Ended \cup Steps], job' \in [Jobs -> Knowledge]
  PROVE  TypeOK'
  BY DEF TypeOK, Dirs, Files, Knowledge

\* Each action of a job, in turn.
LEMMA WorkTyped ==
  ASSUME TypeOK, Placed, NEW j \in Jobs, Work(j)
  PROVE  TypeOK'
  <1> USE DEF Disk
  <1>0. /\ job[j] \in Knowledge /\ disk[j] \in Files /\ NoRelease \notin Releases
        /\ Steps \subseteq Ended \cup Steps /\ Ended \subseteq Ended \cup Steps
    BY Types DEF Dirs, NoRelease
  <1>1. CASE \E outcome \in Ended : Finish(j, outcome) /\ UNCHANGED Disk
    BY <1>1, EndTyped, Types, DiskTyped DEF TypeOK
  <1>2. CASE \E outcome \in Ended : Abandon(j, outcome)
    BY <1>2, AbandonTyped
  <1>3. CASE \E label \in Steps, knows \in Knowledge :
               Goto(j, label) /\ job' = [job EXCEPT ![j] = knows] /\ UNCHANGED Disk
    BY <1>0, <1>3, GoOnTyped, Types, DiskTyped DEF TypeOK
  <1>4. CASE ResolveBin(j)
    <2>1. [job[j] EXCEPT !.found = NoRelease] \in Knowledge
      BY <1>0 DEF Knowledge
    <2>2. \E label \in Steps : Goto(j, label)
      BY <1>4 DEF ResolveBin, Steps
    <2>3. job' = [job EXCEPT ![j] = [job[j] EXCEPT !.found = NoRelease]]
      BY <1>4, Types DEF ResolveBin
    <2> QED
      BY <1>3, <1>4, <2>1, <2>2, <2>3 DEF ResolveBin
  <1>5. CASE ResolveVersion(j)
    <2>1. \A r \in {link, Unversioned} : [job[j] EXCEPT !.found = r] \in Knowledge
      BY <1>0 DEF Knowledge, TypeOK
    <2>2. \E label \in Steps : Goto(j, label)
      BY <1>5 DEF ResolveVersion, Steps
    <2>3. \E r \in {link, Unversioned} : job' = [job EXCEPT ![j] = [job[j] EXCEPT !.found = r]]
      BY <1>5, Types DEF ResolveVersion
    <2> QED
      BY <1>3, <1>5, <2>1, <2>2, <2>3 DEF ResolveVersion
  <1>6. CASE DecideToAsk(j)
    <2>1. job[j] \in Knowledge /\ job = [job EXCEPT ![j] = job[j]]
      BY <1>0, Types
    <2>2. CASE \E label \in Steps : Goto(j, label) /\ UNCHANGED job
      BY <1>3, <1>6, <2>1, <2>2 DEF DecideToAsk
    <2> QED
      BY <1>1, <1>6, <2>2 DEF DecideToAsk, Steps, Ended
  <1>7. CASE Check(j)
    <2>1. [job[j] EXCEPT !.kind = "force"] \in Knowledge
      BY <1>0 DEF Knowledge, Kinds
    <2>2. CASE Goto(j, "fetch") /\ job' = [job EXCEPT ![j].kind = "force"]
      <3>1. job' = [job EXCEPT ![j] = [job[j] EXCEPT !.kind = "force"]]
        BY <2>2, Types
      <3> QED
        BY <1>3, <1>7, <2>1, <2>2, <3>1 DEF Check, Steps
    <2> QED
      BY <1>1, <1>7, <2>2 DEF Check, Ended
  <1>8. CASE Fetch(j)
    <2>1. [job[j] EXCEPT !.seen = latest] \in Knowledge
      BY <1>0 DEF Knowledge, TypeOK
    <2>2. CASE Goto(j, "resolve") /\ job' = [job EXCEPT ![j].seen = latest]
      <3>1. job' = [job EXCEPT ![j] = [job[j] EXCEPT !.seen = latest]]
        BY <2>2, Types
      <3> QED
        BY <1>3, <1>8, <2>1, <2>2, <3>1 DEF Fetch, Steps
    <2> QED
      BY <1>1, <1>8, <2>2 DEF Fetch, Ended
  <1>9. CASE Decide(j)
    <2> DEFINE knows == [job[j] EXCEPT !.goal = Target(j), !.seen = NoRelease, !.found = NoRelease]
    <2>1. knows \in Knowledge
      BY <1>0, Types DEF Knowledge, Target
    <2>2. CASE NeedsInstall(j)
      <3>1. job' = [job EXCEPT ![j] = knows]
        BY <1>9, <2>2, Types DEF Decide
      <3> HIDE DEF knows
      <3> QED
        BY <1>3, <1>9, <2>1, <2>2, <3>1 DEF Decide, Steps
    <2> QED
      BY <1>1, <1>9, <2>2 DEF Decide, Ended
  <1>10. CASE Stage(j)
    <2>1. CASE ~Abandon(j, "failed")
      <3>1. disk' \in [Dirs -> Files] /\ job' = job /\ pc' \in [Jobs -> Ended \cup Steps]
        BY <1>10, <2>1, Types DEF Stage, Goto, Files, Steps
      <3> QED
        BY <1>10, <2>1, <3>1, DiskTyped, Types DEF Stage, TypeOK
    <2> QED
      BY <1>2, <2>1 DEF Ended
  <1>11. CASE WriteBin(j) \/ WriteVersion(j)
    <2>1. CASE \A outcome \in Ended : ~Abandon(j, outcome)
      <3>1. PICK f \in File, label \in Steps, then \in Steps : Write(j, f, label, then)
        BY <1>11 DEF WriteBin, WriteVersion, File, Steps
      <3>2. disk[j] # Absent /\ disk' = [disk EXCEPT ![j] = @ \cup {f}] /\ Goto(j, then)
        BY <2>1, <3>1 DEF Write, Ended
      <3>3. disk' \in [Dirs -> Files] /\ job' = job /\ pc' \in [Jobs -> Ended \cup Steps]
        BY <2>1, <3>1, <3>2, <1>0, Types DEF Write, Goto, Files, Ended
      <3> QED
        BY <2>1, <3>1, <3>3, DiskTyped, Types DEF Write, TypeOK, Ended
    <2> QED
      BY <1>2, <2>1
  <1>12. CASE VersionExists(j)
    <2>1. job = [job EXCEPT ![j] = job[j]] /\ \E label \in Steps : Goto(j, label)
      BY <1>12, Types DEF VersionExists, Steps
    <2> QED
      BY <1>0, <1>3, <1>12, <2>1 DEF VersionExists
  <1>13. CASE ClearOpen(j)
    <2>1. CASE Goto(j, "clear") /\ disk[job[j].goal] # Absent
      <3>1. job[j].goal \in Dirs
        BY <2>1, <1>0, <1>13, Types DEF Placed, Place, Installing, Staging, ClearOpen, Knowledge, Dirs
      <3>2. [job[j] EXCEPT !.left = disk[job[j].goal]] \in Knowledge
        BY <1>0, <2>1, <3>1, Types DEF Knowledge, Files
      <3>3. job' = [job EXCEPT ![j] = [job[j] EXCEPT !.left = disk[job[j].goal]]]
        BY <1>13, <2>1, Types DEF ClearOpen
      <3> QED
        BY <1>3, <1>13, <2>1, <3>2, <3>3 DEF ClearOpen, Steps
    <2> QED
      BY <1>2, <1>13, <2>1 DEF ClearOpen, Ended
  <1>14. CASE ClearFile(j)
    <2>1. PICK f \in job[j].left :
            /\ job' = [job EXCEPT ![j].left = @ \ {f}]
            /\ disk' = IF Has(job[j].goal, f) THEN [disk EXCEPT ![job[j].goal] = @ \ {f}] ELSE disk
      BY <1>14 DEF ClearFile
    <2>2. job' = [job EXCEPT ![j] = [job[j] EXCEPT !.left = @ \ {f}]]
      BY <2>1, Types
    <2>3. [job[j] EXCEPT !.left = @ \ {f}] \in Knowledge
      BY <1>0 DEF Knowledge
    <2>4. job' \in [Jobs -> Knowledge]
      BY <2>2, <2>3, Types
    <2>5. disk' \in [Dirs -> Files]
      <3>1. CASE ~Has(job[j].goal, f)
        BY <2>1, <3>1, Types
      <3>2. CASE Has(job[j].goal, f)
        <4>1. job[j].goal \in Dirs /\ f \in File
          BY <3>2, <1>0 DEF Has, Knowledge, Dirs
        <4>2. disk[job[j].goal] \ {f} \in Files
          BY <3>2, <4>1, Types DEF Has, Files, Absent, File
        <4> QED
          BY <2>1, <3>2, <4>1, <4>2, Types
      <3> QED
        BY <3>1, <3>2
    <2> QED
      BY <1>14, <2>4, <2>5, DiskTyped, Types DEF ClearFile, TypeOK
  <1>15. CASE ClearDir(j)
    <2>1. CASE \A outcome \in Ended : ~Abandon(j, outcome)
      <3>1. disk' \in [Dirs -> Files] /\ job' = job /\ pc' \in [Jobs -> Ended \cup Steps]
        BY <1>15, <2>1, Types DEF ClearDir, Goto, Files, Ended, Steps
      <3> QED
        BY <1>15, <2>1, <3>1, DiskTyped, Types DEF ClearDir, TypeOK, Ended
    <2> QED
      BY <1>2, <2>1
  <1>16. CASE Rename(j)
    <2>1. CASE \A outcome \in Ended : ~Abandon(j, outcome)
      <3>1. disk' \in [Dirs -> Files] /\ pc' \in [Jobs -> Ended \cup Steps]
        BY <1>0, <1>16, <2>1, Types DEF Rename, Goto, Files, Ended, Steps
      <3>2. \A k \in Jobs : job[k] \in Knowledge /\ [job[k] EXCEPT !.left = {}] \in Knowledge
        BY Types DEF Knowledge
      <3>3. job' \in [Jobs -> Knowledge]
        BY <1>16, <2>1, <3>2 DEF Rename, Ended
      <3> QED
        BY <1>16, <2>1, <3>1, <3>3, DiskTyped, Types DEF Rename, TypeOK, Ended
    <2> QED
      BY <1>2, <2>1
  <1>17. CASE DropTmp(j) \/ Symlink(j)
    <2>1. CASE \A outcome \in Ended : ~Abandon(j, outcome)
      <3>1. job' = job /\ pc' \in [Jobs -> Ended \cup Steps]
        BY <1>17, <2>1, Types DEF DropTmp, Symlink, Goto, Ended, Steps
      <3>2. tmp' \in [Procs -> Releases \cup {NoRelease}]
        BY <1>0, <1>17, <2>1, Types DEF DropTmp, Symlink, Ended, Knowledge
      <3> QED
        BY <1>17, <2>1, <3>1, <3>2, DiskTyped, Types DEF DropTmp, Symlink, TypeOK, Ended
    <2> QED
      BY <1>2, <2>1
  <1>18. CASE Swap(j)
    <2>1. CASE \A outcome \in Ended : ~Abandon(j, outcome)
      <3>1. Finish(j, "ok") /\ job[j].proc \in Procs /\ tmp[job[j].proc] # NoRelease
        BY <1>18, <2>1 DEF Swap, Placed, Place, Active, Ended
      <3>2. link' \in Releases \cup {NoRelease} /\ tmp' \in [Procs -> Releases \cup {NoRelease}]
        BY <1>18, <3>1, Types DEF Swap
      <3>3. pc' \in [Jobs -> Ended \cup Steps] /\ job' \in [Jobs -> Knowledge]
        BY <3>1, EndTyped DEF Ended
      <3> QED
        BY <1>18, <3>1, <3>2, <3>3, DiskTyped, Types DEF Swap, TypeOK
    <2> QED
      BY <1>2, <2>1
  <1>19. CASE Remove(j)
    <2>1. job = [job EXCEPT ![j] = job[j]]
      BY Types
    <2> QED
      BY <1>0, <1>1, <1>3, <1>19, <2>1 DEF Remove, Steps, Ended
  <1>20. CASE Wipe(j)
    <2>1. link' \in Releases \cup {NoRelease} /\ tmp' \in [Procs -> Releases \cup {NoRelease}]
      BY <1>20, Types DEF Wipe, TypeOK
    <2>2. disk' \in [Dirs -> Files]
      <3>1. \A n \in Dirs : disk[n] # Absent =>
              Absent \in Files /\ \A f \in disk[n] : disk[n] \ {f} \in Files
        BY Types DEF Files
      <3> QED
        BY <1>20, <3>1, Types DEF Wipe, Dirs
    <2> QED
      BY <1>20, <2>1, <2>2, DiskTyped, Types DEF Wipe, TypeOK
  <1>21. CASE WipeEnd(j)
    <2>1. pc' \in [Jobs -> Ended \cup Steps] /\ job' \in [Jobs -> Knowledge] /\ idDir' \in BOOLEAN
      BY <1>21, EndTyped DEF WipeEnd, Ended, TypeOK
    <2> QED
      BY <1>21, <2>1, DiskTyped, Types DEF WipeEnd, TypeOK
  <1> QED
    BY <1>4, <1>5, <1>6, <1>7, <1>8, <1>9, <1>10, <1>11, <1>12, <1>13, <1>14, <1>15, <1>16,
       <1>17, <1>18, <1>19, <1>20, <1>21 DEF Work

-----------------------------------------------------------------------------
(* Frames: what a job's step leaves alone                                  *)

\* A job runs, and goes on or ends; the other jobs stay where they are and,
\* but for the files a replacement saves them from removing, what they know.
LEMMA WorkMoves ==
  ASSUME TypeOK, NEW j \in Jobs, Work(j)
  PROVE  /\ pc[j] \in Steps /\ UNCHANGED <<config, latest, mishaps>>
         /\ \A k \in Jobs \ {j} :
              /\ pc'[k] = pc[k]
              /\ \/ job'[k] = job[k]
                 \/ /\ Rename(j) /\ pc'[j] = "dropTmp" /\ job[k].goal = job[j].goal
                    /\ job'[k] = [job[k] EXCEPT !.left = {}]
         /\ \/ pc'[j] \in Ended /\ job'[j] = Blank
            \/ /\ pc'[j] \in Steps
               /\ job'[j].proc = job[j].proc /\ job'[j].beside = job[j].beside
               /\ job'[j].kind = job[j].kind \/ (Check(j) /\ job'[j].kind = "force")
  <1> USE Types DEF Disk, Goto, Ended, Steps
  <1>1. ASSUME NEW outcome \in Ended, Finish(j, outcome)
        PROVE  /\ \A k \in Jobs \ {j} : pc'[k] = pc[k] /\ job'[k] = job[k]
               /\ pc'[j] \in Ended /\ job'[j] = Blank
    BY <1>1 DEF Finish
  <1>2. ASSUME NEW outcome \in Ended, Abandon(j, outcome)
        PROVE  /\ Finish(j, outcome) /\ UNCHANGED <<config, latest, mishaps>>
    BY <1>2 DEF Abandon
  <1>0. /\ job[j] = [kind |-> job[j].kind, proc |-> job[j].proc, seen |-> job[j].seen,
                     found |-> job[j].found, goal |-> job[j].goal, left |-> job[j].left,
                     beside |-> job[j].beside]
        /\ DOMAIN job = Jobs /\ DOMAIN pc = Jobs
    BY DEF Knowledge
  <1>3. CASE ResolveBin(j) \/ ResolveVersion(j) \/ ClearFile(j)
    BY <1>0, <1>3 DEF ResolveBin, ResolveVersion, ClearFile
  <1>10. CASE VersionExists(j) \/ DropTmp(j) \/ Wipe(j)
    BY <1>10 DEF VersionExists, DropTmp, Wipe
  <1>4. CASE DecideToAsk(j) \/ Remove(j)
    BY <1>1, <1>4 DEF DecideToAsk, Remove
  <1>11. CASE Check(j)
    BY <1>0, <1>1, <1>11 DEF Check
  <1>12. CASE Fetch(j)
    BY <1>0, <1>1, <1>12 DEF Fetch
  <1>13. CASE Decide(j)
    BY <1>0, <1>1, <1>13 DEF Decide
  <1>5. CASE Stage(j) \/ Symlink(j)
    BY <1>1, <1>2, <1>5 DEF Stage, Symlink
  <1>14. CASE ClearOpen(j)
    BY <1>0, <1>1, <1>2, <1>14 DEF ClearOpen
  <1>15. CASE ClearDir(j)
    BY <1>1, <1>2, <1>15 DEF ClearDir
  <1>6. CASE WriteBin(j) \/ WriteVersion(j)
    BY <1>1, <1>2, <1>6 DEF WriteBin, WriteVersion, Write
  <1>7. CASE Swap(j)
    BY <1>1, <1>2, <1>7 DEF Swap
  <1>8. CASE WipeEnd(j)
    BY <1>1, <1>8 DEF WipeEnd
  <1>9. CASE Rename(j)
    <2>1. CASE Abandon(j, "lost")
      BY <1>1, <1>2, <1>9, <2>1 DEF Rename
    <2>2. CASE ~Abandon(j, "lost")
      <3>1. /\ \A k \in Jobs :
                 job'[k] = IF job[k].goal = job[j].goal THEN [job[k] EXCEPT !.left = {}] ELSE job[k]
            /\ pc[j] = "rename" /\ pc' = [pc EXCEPT ![j] = "dropTmp"]
            /\ UNCHANGED <<config, latest, mishaps>>
        BY <1>9, <2>2 DEF Rename
      <3> QED
        BY <1>0, <1>9, <3>1
    <2> QED
      BY <2>1, <2>2
  <1> QED
    BY <1>3, <1>4, <1>5, <1>6, <1>7, <1>8, <1>9, <1>10, <1>11, <1>12, <1>13, <1>14, <1>15 DEF Work

\* Job k is where it was, and knows what it knew of itself.
Keeps(k) ==
  /\ pc'[k] = pc[k]
  /\ job'[k].kind = job[k].kind /\ job'[k].proc = job[k].proc /\ job'[k].seen = job[k].seen
  /\ job'[k].found = job[k].found /\ job'[k].goal = job[k].goal

\* The same, field by field.
Moves(j) ==
  /\ pc[j] \in Steps /\ UNCHANGED <<config, latest, mishaps>>
  /\ \A k \in Jobs \ {j} :
       /\ Keeps(k)
       /\ job'[k].beside = job[k].beside
       /\ \/ job'[k].left = job[k].left
          \/ Rename(j) /\ pc'[j] = "dropTmp" /\ job[k].goal = job[j].goal /\ job'[k].left = {}
  /\ \/ pc'[j] \in Ended /\ job'[j] = Blank
     \/ /\ pc'[j] \in Steps
        /\ job'[j].proc = job[j].proc /\ job'[j].beside = job[j].beside
        /\ job'[j].kind = job[j].kind \/ (Check(j) /\ job'[j].kind = "force")

\* A step of an install is one of Moves: what it leaves alone, and what it may change.
LEMMA WorkMovesFields ==
  ASSUME TypeOK, NEW j \in Jobs, Work(j)
  PROVE  Moves(j)
  <1>1. ASSUME NEW k \in Jobs \ {j}
        PROVE  /\ job'[k].kind = job[k].kind /\ job'[k].proc = job[k].proc
               /\ job'[k].seen = job[k].seen /\ job'[k].found = job[k].found
               /\ job'[k].goal = job[k].goal /\ job'[k].beside = job[k].beside
               /\ \/ job'[k].left = job[k].left
                  \/ /\ Rename(j) /\ pc'[j] = "dropTmp" /\ job[k].goal = job[j].goal
                     /\ job'[k].left = {}
    <2>1. CASE job'[k] = job[k]
      BY <2>1
    <2>2. CASE /\ Rename(j) /\ pc'[j] = "dropTmp" /\ job[k].goal = job[j].goal
               /\ job'[k] = [job[k] EXCEPT !.left = {}]
      BY <2>2, Types DEF Knowledge
    <2> QED
      BY <2>1, <2>2, WorkMoves
  <1> QED
    BY <1>1, WorkMoves DEF Moves, Keeps

\* Which actions touch what: the disk, `current', the temporary names.
LEMMA WorkTouches ==
  ASSUME TypeOK, Placed, NEW j \in Jobs, Work(j)
  PROVE  /\ \A k \in Jobs \ {j} : disk'[k] = disk[k] \/ (Wipe(j) /\ disk[k] # Absent)
         /\ \A r \in Releases :
              \/ disk'[r] = disk[r] \/ Wipe(j)
              \/ r = job[j].goal /\ (ClearFile(j) \/ ClearDir(j) \/ Rename(j))
         /\ link' = link \/ Wipe(j) \/ Swap(j)
         /\ \A p \in Procs :
              \/ tmp'[p] = tmp[p] \/ Wipe(j)
              \/ p = job[j].proc /\ (DropTmp(j) \/ Symlink(j) \/ Swap(j))
         /\ sound' = sound \/ Swap(j)
  <1> USE Types DEF Disk
  <1>0. /\ DOMAIN disk = Dirs /\ DOMAIN tmp = Procs /\ j \in Dirs
        /\ \A r \in Releases : r # j /\ r \in Dirs
        /\ \A k \in Jobs : k \in Dirs
    BY DEF Dirs
  <1>1. ASSUME NEW outcome \in Ended, Abandon(j, outcome)
        PROVE  /\ \A n \in Dirs \ {j} : disk'[n] = disk[n]
               /\ UNCHANGED <<link, tmp, sound>>
    BY <1>0, <1>1 DEF Abandon
  <1>2. pc[j] \in Installing => job[j].goal \in Releases
    BY DEF Placed, Place, Knowledge
  <1>3. CASE UNCHANGED <<disk, link, tmp, sound>>
    BY <1>3
  <1>4. CASE Stage(j)
    BY <1>0, <1>1, <1>4 DEF Stage, Ended
  <1>5. CASE WriteBin(j) \/ WriteVersion(j)
    BY <1>0, <1>1, <1>5 DEF WriteBin, WriteVersion, Write, Ended
  <1>6. CASE ClearFile(j)
    BY <1>0, <1>2, <1>6 DEF ClearFile, Has, Installing, Staging
  <1>7. CASE ClearDir(j)
    BY <1>0, <1>1, <1>2, <1>7 DEF ClearDir, Installing, Staging, Ended
  <1>8. CASE Rename(j)
    <2>1. pc[j] = "rename"
      BY <1>8 DEF Rename
    <2>2. job[j].goal \in Releases
      BY <1>2, <2>1 DEF Installing, Staging
    <2>3. CASE Abandon(j, "lost")
      BY <1>0, <1>1, <2>3 DEF Ended
    <2>4. CASE ~Abandon(j, "lost")
      <3>1. disk' = [disk EXCEPT ![job[j].goal] = disk[j], ![j] = Absent] /\ UNCHANGED <<link, tmp, sound>>
        BY <1>8, <2>4 DEF Rename
      <3> QED
        BY <1>0, <1>8, <2>2, <3>1
    <2> QED
      BY <2>3, <2>4
  <1>9. CASE DropTmp(j)
    BY <1>0, <1>9 DEF DropTmp
  <1>10. CASE Symlink(j)
    BY <1>0, <1>1, <1>10 DEF Symlink, Ended
  <1>11. CASE Swap(j)
    BY <1>0, <1>1, <1>11 DEF Swap, Ended
  <1>12. CASE ClearOpen(j)
    BY <1>0, <1>1, <1>12 DEF ClearOpen, Ended
  <1>13. CASE Wipe(j)
    <2>1. sound' = sound
      BY <1>13 DEF Wipe
    <2>2. \A k \in Jobs : disk[k] = Absent => disk'[k] = disk[k]
      BY <1>0, <1>13 DEF Wipe
    <2> QED
      BY <1>13, <2>1, <2>2
  <1> QED
    BY <1>3, <1>4, <1>5, <1>6, <1>7, <1>8, <1>9, <1>10, <1>11, <1>12, <1>13
       DEF Work, ResolveBin, ResolveVersion, DecideToAsk, Check, Fetch, Decide, VersionExists, Remove, WipeEnd

-----------------------------------------------------------------------------
(* The inductive invariant, conjunct by conjunct                           *)

\* A step of an install leaves every install where its kind may be.
LEMMA WorkPlaced ==
  ASSUME TypeOK, Placed, NEW j \in Jobs, Work(j)
  PROVE  Placed'
  <1> USE Types
  <1>1. ASSUME NEW k \in Jobs \ {j} PROVE Place(k)'
    <2>1. pc'[k] = pc[k]
      BY WorkMovesFields DEF Moves, Keeps
    <2>2. /\ job'[k].kind = job[k].kind /\ job'[k].proc = job[k].proc
          /\ job'[k].seen = job[k].seen /\ job'[k].goal = job[k].goal
      BY WorkMovesFields DEF Moves, Keeps
    <2>3. disk[k] = Absent => disk'[k] = Absent
      BY WorkTouches
    <2> QED
      BY <2>1, <2>2, <2>3 DEF Placed, Place, Active
  <1>2. Place(j)'
    <2> USE DEF Goto, Disk, Steps, Ended, Active, Place
    <2>0. /\ job[j] = [kind |-> job[j].kind, proc |-> job[j].proc, seen |-> job[j].seen,
                       found |-> job[j].found, goal |-> job[j].goal, left |-> job[j].left,
                       beside |-> job[j].beside]
          /\ DOMAIN job = Jobs /\ DOMAIN pc = Jobs /\ DOMAIN disk = Dirs /\ j \in Dirs
          /\ pc[j] \in Installing => job[j].goal # j /\ job[j].goal \in Dirs
      BY DEF Knowledge, Dirs, Placed, Place
    <2>1. ASSUME NEW outcome \in Ended, Finish(j, outcome), disk'[j] = Absent
          PROVE  Place(j)'
      BY <2>0, <2>1 DEF Finish, Blank, Staging, Linking, Installing
    <2>2. ASSUME NEW outcome \in Ended, Abandon(j, outcome)
          PROVE  Place(j)'
      BY <2>0, <2>1, <2>2 DEF Abandon
    <2>3. Place(j)
      BY DEF Placed, Place
    <2> USE DEF Staging, Linking, Installing
    <2>4. CASE ResolveBin(j) \/ ResolveVersion(j)
      BY <2>0, <2>3, <2>4 DEF ResolveBin, ResolveVersion
    <2>5. CASE VersionExists(j) \/ Wipe(j)
      BY <2>0, <2>3, <2>5 DEF VersionExists, Wipe
    <2>6. CASE DecideToAsk(j)
      BY <2>0, <2>1, <2>3, <2>6 DEF DecideToAsk
    <2>7. CASE Check(j)
      BY <2>0, <2>1, <2>3, <2>7 DEF Check
    <2>8. CASE Fetch(j)
      BY <2>0, <2>1, <2>3, <2>8 DEF Fetch, TypeOK, NoRelease, Releases
    <2>9. CASE Decide(j)
      <3>1. NeedsInstall(j) /\ job[j].seen # NoRelease => Target(j) # NoRelease
        BY DEF Target
      <3> QED
        BY <2>0, <2>1, <2>3, <2>9, <3>1 DEF Decide
    <2>10. CASE Stage(j)
      BY <2>0, <2>2, <2>3, <2>10 DEF Stage
    <2>11. CASE WriteBin(j) \/ WriteVersion(j)
      BY <2>0, <2>2, <2>3, <2>11 DEF WriteBin, WriteVersion, Write
    <2>12. CASE ClearOpen(j) \/ ClearDir(j)
      BY <2>0, <2>2, <2>3, <2>12 DEF ClearOpen, ClearDir
    <2>13. CASE ClearFile(j)
      BY <2>0, <2>3, <2>13 DEF ClearFile
    <2>14. CASE Rename(j)
      <3>1. CASE ~Abandon(j, "lost")
        <4>1. job'[j].kind = job[j].kind /\ job'[j].proc = job[j].proc /\ job'[j].goal = job[j].goal
          BY <2>0, <2>14, <3>1 DEF Rename
        <4>2. disk'[j] = Absent /\ pc[j] = "rename" /\ pc'[j] = "dropTmp"
          BY <2>0, <2>14, <3>1 DEF Rename
        <4> QED
          BY <2>3, <4>1, <4>2
      <3> QED
        BY <2>2, <3>1
    <2>15. CASE DropTmp(j) \/ Symlink(j)
      BY <2>0, <2>2, <2>3, <2>15 DEF DropTmp, Symlink
    <2>16. CASE Swap(j)
      BY <2>0, <2>1, <2>2, <2>3, <2>16 DEF Swap
    <2>17. CASE Remove(j) \/ WipeEnd(j)
      BY <2>0, <2>1, <2>3, <2>17 DEF Remove, WipeEnd
    <2> QED
      BY <2>4, <2>5, <2>6, <2>7, <2>8, <2>9, <2>10, <2>11, <2>12, <2>13, <2>14, <2>15, <2>16, <2>17
         DEF Work
  <1> QED
    BY <1>1, <1>2 DEF Placed, Place

\* Learning of another job changes nothing else of what a job knows.
LEMMA Marked ==
  ASSUME TypeOK, NEW k \in Jobs, NEW beside, NEW knows,
         knows = [job[k] EXCEPT !.beside = beside]
  PROVE  /\ knows.kind = job[k].kind /\ knows.proc = job[k].proc /\ knows.seen = job[k].seen
         /\ knows.found = job[k].found /\ knows.goal = job[k].goal /\ knows.left = job[k].left
         /\ knows.beside = beside
         /\ beside \in {"nothing", "installs", "damage"} => knows \in Knowledge
  BY Types DEF Knowledge

\* A new job starts from nothing, and those it finds running learn of it.
Joins(j, p, kind) ==
  /\ ~Active(j) /\ pc'[j] \in {"resolve", "fetch", "remove"}
  /\ pc'[j] = "remove" <=> kind = "remove"
  /\ kind \in {"install", "force"} => pc'[j] = "fetch"
  /\ job'[j] = [kind |-> kind, proc |-> p, seen |-> NoRelease, found |-> NoRelease,
                goal |-> NoRelease, left |-> {},
                beside |-> BesideOf({k \in Jobs \ {j} : Active(k)})]
  /\ \A k \in Jobs \ {j} :
       /\ Keeps(k)
       /\ job'[k].left = job[k].left
       /\ job'[k].beside = IF Active(k) THEN Worse(job[k].beside, kind) ELSE job[k].beside
  /\ UNCHANGED <<config, latest, idDir, disk, link, tmp>>
  /\ sound' = (sound /\ kind # "remove")

\* A command begins as Joins says.
LEMMA BeginMoves ==
  ASSUME TypeOK, NEW j \in Jobs, NEW p \in Procs, NEW kind \in Kinds, Begin(j, p, kind)
  PROVE  Joins(j, p, kind)
  <1> USE Types DEF Begin, Goto
  <1>1. DOMAIN pc = Jobs
    OBVIOUS
  <1>2. pc'[j] = CASE kind \in {"start", "update"}  -> "resolve"
                   [] kind \in {"install", "force"} -> "fetch"
                   [] kind = "remove"               -> "remove"
    BY <1>1
  <1>3. /\ pc'[j] = "remove" <=> kind = "remove"
        /\ kind \in {"install", "force"} => pc'[j] = "fetch"
        /\ pc'[j] \in {"resolve", "fetch", "remove"}
    BY <1>2 DEF Kinds
  <1>4. ASSUME NEW k \in Jobs \ {j}
        PROVE  /\ Keeps(k) /\ job'[k].left = job[k].left
               /\ job'[k].beside = IF Active(k) THEN Worse(job[k].beside, kind) ELSE job[k].beside
    <2>1. /\ job'[k] = IF Active(k) THEN [job[k] EXCEPT !.beside = Worse(job[k].beside, kind)]
                                   ELSE job[k]
          /\ pc'[k] = pc[k]
      OBVIOUS
    <2>2. CASE Active(k)
      <3>1. job'[k] = [job[k] EXCEPT !.beside = Worse(job[k].beside, kind)]
        BY <2>1, <2>2
      <3> HIDE DEF Begin, Goto
      <3> QED
        BY <2>1, <2>2, <3>1, Marked DEF Keeps
    <2> QED
      BY <2>1, <2>2 DEF Keeps
  <1>5. job'[j] = [Blank EXCEPT !.kind = kind, !.proc = p,
                         !.beside = BesideOf({k \in Jobs \ {j} : Active(k)})]
    OBVIOUS
  <1> QED
    BY <1>1, <1>3, <1>4, <1>5 DEF Joins, Blank

\* Its types.
LEMMA BeginTyped ==
  ASSUME TypeOK, NEW j \in Jobs, NEW p \in Procs, NEW kind \in Kinds, Begin(j, p, kind)
  PROVE  TypeOK'
  <1>1. \A others : BesideOf(others) \in {"nothing", "installs", "damage"}
    BY DEF BesideOf
  <1>2. \A beside : Worse(beside, kind) \in {"nothing", "installs", "damage"}
    BY DEF Worse
  <1>0. Joins(j, p, kind)
    BY BeginMoves
  <1>3. job' \in [Jobs -> Knowledge]
    <2>1. job'[j] \in Knowledge
      BY <1>0, <1>1 DEF Joins, Knowledge
    <2>2. \A k \in Jobs \ {j} : job'[k] \in Knowledge
      <3> TAKE k \in Jobs \ {j}
      <3>1. job'[k] = IF Active(k) THEN [job[k] EXCEPT !.beside = Worse(job[k].beside, kind)]
                                   ELSE job[k]
        BY DEF Begin
      <3> QED
        BY <1>2, <3>1, Marked, Types
    <2>3. job' = [k \in Jobs |-> job'[k]]
      BY DEF Begin
    <2> QED
      BY <2>1, <2>2, <2>3
  <1>4. pc' \in [Jobs -> Ended \cup Steps]
    <2>1. pc'[j] \in Steps /\ DOMAIN pc' = Jobs
      BY <1>0, Types DEF Joins, Begin, Goto, Steps
    <2> QED
      BY <1>0, <2>1, Types DEF Joins, Keeps, Begin, Goto
  <1>5. mishaps' \in 0 .. MaxMishaps
    <2>1. mishaps' \in {mishaps, mishaps + 1} /\ mishaps' <= MaxMishaps
      BY DEF Begin
    <2> QED
      BY <2>1, MishapsAssumption DEF TypeOK
  <1>6. sound' \in BOOLEAN
    BY DEF Begin, TypeOK
  <1> QED
    BY <1>0, <1>3, <1>4, <1>5, <1>6 DEF Joins, TypeOK, Knowledge

\* A crash ends the jobs of its process and marks the others.
Dies(p) ==
  /\ \A k \in Jobs :
       \/ /\ Active(k) /\ job[k].proc = p
          /\ pc'[k] = "failed" /\ job'[k] = Blank /\ disk'[k] = Absent
       \/ /\ Active(k) /\ job[k].proc # p
          /\ Keeps(k) /\ job'[k].left = job[k].left /\ job'[k].beside = "damage"
          /\ disk'[k] = disk[k]
       \/ /\ ~Active(k) /\ pc'[k] = pc[k] /\ job'[k] = job[k] /\ disk'[k] = disk[k]
  /\ \A r \in Releases : disk'[r] = disk[r]
  /\ UNCHANGED <<config, latest, idDir, link, tmp>> /\ sound' = FALSE
  /\ \E k \in Jobs : Active(k) /\ job[k].proc = p

\* A crash ends the installs of one process as Dies says.
LEMMA CrashMoves ==
  ASSUME TypeOK, NEW p \in Procs, Crash(p)
  PROVE  Dies(p)
  <1>1. ASSUME NEW k \in Jobs
        PROVE  \/ /\ Active(k) /\ job[k].proc = p
                  /\ pc'[k] = "failed" /\ job'[k] = Blank /\ disk'[k] = Absent
               \/ /\ Active(k) /\ job[k].proc # p
                  /\ Keeps(k) /\ job'[k].left = job[k].left /\ job'[k].beside = "damage"
                  /\ disk'[k] = disk[k]
               \/ /\ ~Active(k) /\ pc'[k] = pc[k] /\ job'[k] = job[k] /\ disk'[k] = disk[k]
    <2>1. CASE Active(k) /\ job[k].proc # p
      <3>1. /\ job'[k] = [job[k] EXCEPT !.beside = "damage"] /\ pc'[k] = pc[k]
            /\ disk'[k] = disk[k]
        BY <2>1, Types DEF Crash, Dirs
      <3> QED
        BY <2>1, <3>1, Marked DEF Keeps
    <2> QED
      BY <2>1, Types DEF Crash, Dirs
  <1> QED
    BY <1>1, Types DEF Crash, Dirs, Dies

\* Its types.
LEMMA CrashTyped ==
  ASSUME TypeOK, NEW p \in Procs, Crash(p)
  PROVE  TypeOK'
  <1>0. Dies(p)
    BY CrashMoves
  <1>1. Blank \in Knowledge /\ "failed" \in Ended
    BY DEF Blank, Knowledge, Kinds, Ended
  <1>2. \A k \in Jobs : [job[k] EXCEPT !.beside = "damage"] \in Knowledge
    BY Types DEF Knowledge
  <1>3. job' \in [Jobs -> Knowledge]
    <2>1. job' = [k \in Jobs |-> job'[k]]
      BY DEF Crash
    <2>2. \A k \in Jobs : job'[k] \in Knowledge
      BY <1>1, <1>2, Types DEF Crash
    <2> QED
      BY <2>1, <2>2
  <1>4. pc' \in [Jobs -> Ended \cup Steps]
    BY <1>1, Types DEF Crash
  <1>5. disk' \in [Dirs -> Files]
    BY Types DEF Crash, Files
  <1>6. mishaps' \in 0 .. MaxMishaps
    BY MishapsAssumption DEF Crash, TypeOK
  <1> QED
    BY <1>0, <1>3, <1>4, <1>5, <1>6 DEF Dies, TypeOK, Knowledge, Dirs, Files

\* Every step keeps the types.
LEMMA NextTyped == TypeOK /\ Placed /\ [Next]_vars => TypeOK'
  <1> SUFFICES ASSUME TypeOK, Placed, [Next]_vars PROVE TypeOK'
    OBVIOUS
  <1>1. CASE Publish
    BY <1>1, ReleasesAssumption DEF Publish, TypeOK, Releases
  <1>2. CASE UNCHANGED vars
    BY <1>2 DEF vars, TypeOK
  <1> QED
    BY <1>1, <1>2, WorkTyped, BeginTyped, CrashTyped DEF Next

\* Every step keeps every install where its kind may be.
LEMMA PlacedHolds == TypeOK /\ Placed /\ [Next]_vars => Placed'
  <1> SUFFICES ASSUME TypeOK, Placed, [Next]_vars PROVE Placed'
    OBVIOUS
  <1>1. CASE Publish \/ UNCHANGED vars
    BY <1>1 DEF Publish, vars, Placed, Place, Active
  <1>2. ASSUME NEW j \in Jobs, NEW p \in Procs, NEW kind \in Kinds, Begin(j, p, kind)
        PROVE  Placed'
    <2>0. Joins(j, p, kind)
      BY <1>2, BeginMoves
    <2>1. \A k \in Jobs \ {j} :
            /\ job'[k].kind = job[k].kind /\ job'[k].proc = job[k].proc
            /\ job'[k].seen = job[k].seen /\ job'[k].goal = job[k].goal
      BY <2>0 DEF Joins, Keeps
    <2>2. job'[j].kind = kind /\ job'[j].proc = p
      BY <2>0 DEF Joins
    <2>3. disk[j] = Absent /\ disk' = disk
      BY <2>0 DEF Joins, Placed, Place, Active, Staging, Ended
    <2>4. /\ pc'[j] \in {"resolve", "fetch", "remove"}
          /\ pc'[j] = "remove" <=> kind = "remove"
          /\ kind \in {"install", "force"} => pc'[j] = "fetch"
          /\ \A k \in Jobs \ {j} : pc'[k] = pc[k]
      BY <2>0 DEF Joins, Keeps
    <2> QED
      <3>1. Place(j)'
        BY <2>2, <2>3, <2>4 DEF Place, Active, Staging, Linking, Installing
      <3>2. ASSUME NEW k \in Jobs \ {j} PROVE Place(k)'
        BY <2>1, <2>3, <2>4 DEF Placed, Place, Active
      <3> QED
        BY <3>1, <3>2 DEF Placed
  <1>3. ASSUME NEW p \in Procs, Crash(p)
        PROVE  Placed'
    <2>0. Dies(p)
      BY <1>3, CrashMoves
    <2> SUFFICES ASSUME NEW k \in Jobs PROVE Place(k)'
      BY DEF Placed
    <2>1. CASE Active(k) /\ job[k].proc = p
      BY <2>0, <2>1 DEF Dies, Place, Active, Ended, Staging, Linking, Installing, Blank
    <2>2. CASE Active(k) /\ job[k].proc # p
      BY <2>0, <2>2 DEF Dies, Keeps, Placed, Place, Active
    <2>3. CASE ~Active(k)
      BY <2>0, <2>3 DEF Dies, Placed, Place, Active
    <2> QED
      BY <2>1, <2>2, <2>3
  <1> QED
    BY <1>1, <1>2, <1>3, WorkPlaced DEF Next

\* No step of an install deals with a release that is not out yet.
LEMMA WorkReleased ==
  ASSUME TypeOK, Placed, Released, NEW j \in Jobs, Work(j)
  PROVE  Released'
  <1> USE Types
  <1>0. Moves(j) /\ NoRelease <= latest /\ latest' = latest
    BY WorkMovesFields DEF Moves, NoRelease
  <1>1. ASSUME NEW k \in Jobs \ {j}
        PROVE  /\ job'[k].seen <= latest'
               /\ pc'[k] \in Installing \ {"stage"} => job'[k].goal <= latest'
    BY <1>0 DEF Moves, Keeps, Released
  <1>2. /\ job'[j].seen <= latest'
        /\ pc'[j] \in Installing \ {"stage"} => job'[j].goal <= latest'
    <2> USE DEF Goto, Disk, Steps, Ended, Staging, Linking, Installing
    <2>0. /\ job[j] = [kind |-> job[j].kind, proc |-> job[j].proc, seen |-> job[j].seen,
                       found |-> job[j].found, goal |-> job[j].goal, left |-> job[j].left,
                       beside |-> job[j].beside]
          /\ DOMAIN job = Jobs /\ DOMAIN pc = Jobs /\ job[j].seen <= latest
          /\ pc[j] \in Installing \ {"stage"} => job[j].goal <= latest
      BY DEF Knowledge, Released
    <2>1. CASE pc'[j] \in Ended /\ job'[j] = Blank
      BY <1>0, <2>1 DEF Blank
    <2>2. CASE ~(pc'[j] \in Ended /\ job'[j] = Blank)
      <3>1. \A outcome \in Ended : ~Finish(j, outcome) /\ ~Abandon(j, outcome)
        BY <2>0, <2>2 DEF Finish, Abandon
      <3>2. CASE ResolveBin(j) \/ ResolveVersion(j)
        BY <1>0, <2>0, <3>2 DEF ResolveBin, ResolveVersion
      <3>3. CASE DecideToAsk(j) \/ Check(j) \/ Remove(j)
        BY <1>0, <2>0, <3>1, <3>3 DEF DecideToAsk, Check, Remove
      <3>4. CASE Fetch(j)
        BY <1>0, <2>0, <3>1, <3>4 DEF Fetch
      <3>5. CASE Decide(j)
        BY <1>0, <2>0, <3>1, <3>5 DEF Decide
      <3>6. CASE Stage(j) \/ WriteBin(j) \/ WriteVersion(j)
        BY <1>0, <2>0, <3>1, <3>6 DEF Stage, WriteBin, WriteVersion, Write
      <3>7. CASE VersionExists(j) \/ DropTmp(j) \/ Wipe(j)
        BY <1>0, <2>0, <3>7 DEF VersionExists, DropTmp, Wipe
      <3>8. CASE ClearOpen(j) \/ ClearFile(j) \/ ClearDir(j)
        BY <1>0, <2>0, <3>1, <3>8 DEF ClearOpen, ClearFile, ClearDir
      <3>9. CASE Rename(j)
        <4>1. job'[j].goal = job[j].goal /\ job'[j].seen = job[j].seen /\ pc[j] = "rename"
          BY <2>0, <3>1, <3>9 DEF Rename
        <4> QED
          BY <1>0, <2>0, <4>1
      <3>10. CASE Symlink(j) \/ Swap(j) \/ WipeEnd(j)
        BY <1>0, <2>0, <3>1, <3>10 DEF Symlink, Swap, WipeEnd
      <3> QED
        BY <3>2, <3>3, <3>4, <3>5, <3>6, <3>7, <3>8, <3>9, <3>10 DEF Work
    <2> QED
      BY <2>1, <2>2
  <1>3. link' <= latest' /\ \A q \in Procs : tmp'[q] <= latest'
    <2> USE DEF Disk
    <2>0. DOMAIN tmp = Procs /\ link <= latest /\ \A q \in Procs : tmp[q] <= latest
      BY DEF Released
    <2>1. CASE UNCHANGED <<link, tmp>>
      BY <1>0, <2>0, <2>1
    <2>2. CASE DropTmp(j)
      BY <1>0, <2>0, <2>2 DEF DropTmp
    <2>3. CASE Symlink(j) /\ ~UNCHANGED <<link, tmp>>
      <3>1. tmp' = [tmp EXCEPT ![job[j].proc] = job[j].goal] /\ link' = link /\ pc[j] = "symlink"
        BY <2>3 DEF Symlink, Abandon
      <3>2. job[j].goal <= latest
        BY <3>1 DEF Released, Installing, Linking
      <3> QED
        BY <1>0, <2>0, <3>1, <3>2
    <2>4. CASE Swap(j) /\ ~UNCHANGED <<link, tmp>>
      <3>1. /\ link' = tmp[job[j].proc] /\ tmp' = [tmp EXCEPT ![job[j].proc] = NoRelease]
            /\ pc[j] = "swap"
        BY <2>4 DEF Swap, Abandon
      <3>2. job[j].proc \in Procs
        BY <3>1 DEF Placed, Place, Active, Ended
      <3> QED
        BY <1>0, <2>0, <3>1, <3>2
    <2>5. CASE Wipe(j)
      BY <1>0, <2>0, <2>5 DEF Wipe
    <2> QED
      BY <2>1, <2>2, <2>3, <2>4, <2>5
         DEF Work, ResolveBin, ResolveVersion, DecideToAsk, Check, Fetch, Decide, Stage, WriteBin,
             WriteVersion, Write, VersionExists, ClearOpen, ClearFile, ClearDir, Rename, Remove,
             WipeEnd, Abandon
  <1> QED
    BY <1>1, <1>2, <1>3 DEF Released

\* Nor does any other.
LEMMA ReleasedHolds == TypeOK /\ Placed /\ Released /\ [Next]_vars => Released'
  <1> SUFFICES ASSUME TypeOK, Placed, Released, [Next]_vars PROVE Released'
    OBVIOUS
  <1>1. CASE Publish
    BY <1>1, Types DEF Publish, Released, TypeOK, Knowledge, Releases, NoRelease
  <1>2. CASE UNCHANGED vars
    BY <1>2 DEF vars, Released
  <1>3. ASSUME NEW j \in Jobs, NEW p \in Procs, NEW kind \in Kinds, Begin(j, p, kind)
        PROVE  Released'
    <2>0. Joins(j, p, kind)
      BY <1>3, BeginMoves
    <2>1. ASSUME NEW k \in Jobs \ {j}
          PROVE  pc'[k] = pc[k] /\ job'[k].seen = job[k].seen /\ job'[k].goal = job[k].goal
      BY <2>0 DEF Joins, Keeps
    <2>2. /\ job'[j].seen = NoRelease /\ pc'[j] \notin Installing
          /\ UNCHANGED <<latest, link, tmp>> /\ NoRelease <= latest
      BY <2>0, Types DEF Joins, Staging, Linking, Installing, NoRelease
    <2> QED
      BY <2>1, <2>2 DEF Released
  <1>4. ASSUME NEW p \in Procs, Crash(p)
        PROVE  Released'
    <2>0. Dies(p)
      BY <1>4, CrashMoves
    <2>1. ASSUME NEW k \in Jobs
          PROVE  \/ pc'[k] = pc[k] /\ job'[k].seen = job[k].seen /\ job'[k].goal = job[k].goal
                 \/ job'[k].seen = NoRelease /\ pc'[k] = "failed"
      BY <2>0 DEF Dies, Keeps, Blank
    <2>2. UNCHANGED <<latest, link, tmp>> /\ NoRelease <= latest
      BY <2>0, Types DEF Dies, NoRelease
    <2>3. ASSUME NEW k \in Jobs
          PROVE  /\ job'[k].seen <= latest'
                 /\ pc'[k] \in Installing \ {"stage"} => job'[k].goal <= latest'
      BY <2>1, <2>2 DEF Released, Staging, Linking, Installing
    <2> QED
      BY <2>2, <2>3 DEF Released
  <1> QED
    BY <1>1, <1>2, <1>3, <1>4, WorkReleased DEF Next

\* Who runs beside whom, and what it knows of it, changes only when somebody
\* begins or dies.
LEMMA SpreadHolds == TypeOK /\ Placed /\ Spread /\ [Next]_vars => Spread'
  <1> SUFFICES ASSUME TypeOK, Placed, Spread, [Next]_vars PROVE Spread'
    OBVIOUS
  <1>1. CASE Publish \/ UNCHANGED vars
    BY <1>1 DEF Publish, vars, Spread, Active, Clean, Serial
  <1>2. ASSUME NEW i \in Jobs, Work(i)
        PROVE  Spread'
    <2>1. Moves(i)
      BY <1>2, WorkMovesFields
    <2>2. ASSUME NEW k \in Jobs, Active(k)'
          PROVE  /\ Active(k) /\ job'[k].beside = job[k].beside
                 /\ job'[k].kind = "remove" <=> job[k].kind = "remove"
      <3>1. CASE k = i
        <4>1. Check(i) => job[i].kind # "remove"
          BY DEF Check, Placed, Place, Active, Ended
        <4> QED
          BY <2>1, <2>2, <3>1, <4>1, Types DEF Moves, Active
      <3> QED
        BY <2>1, <2>2, <3>1 DEF Moves, Keeps, Active
    <2> QED
      BY <2>2 DEF Spread, Clean, Serial
  <1>3. ASSUME NEW i \in Jobs, NEW p \in Procs, NEW kind \in Kinds, Begin(i, p, kind)
        PROVE  Spread'
    <2> DEFINE others == {k \in Jobs \ {i} : Active(k)}
    <2>1. Joins(i, p, kind)
      BY <1>3, BeginMoves
    <2>2. job'[i].kind = kind /\ job'[i].beside = BesideOf(others)
      BY <2>1 DEF Joins
    <2>3. ASSUME NEW k \in Jobs \ {i}, Active(k)'
          PROVE  /\ k \in others /\ Active(k) /\ job'[k].kind = job[k].kind
                 /\ job'[k].beside = Worse(job[k].beside, kind)
      BY <2>1, <2>3 DEF Joins, Keeps, Active
    <2>4. \A k \in others : BesideOf(others) # "nothing"
      BY DEF BesideOf
    <2>5. BesideOf(others) = "damage" <=>
            \E o \in others : job[o].kind = "remove" \/ job[o].beside = "damage"
      BY DEF BesideOf
    <2>6. \A beside : /\ Worse(beside, kind) # "nothing"
                      /\ Worse(beside, kind) = "damage" <=> kind = "remove" \/ beside = "damage"
      BY DEF Worse
    <2> HIDE DEF others
    <2>7. ASSUME NEW j \in Jobs \ {i}, NEW k \in Jobs \ {i}, j # k, Active(j)', Active(k)'
          PROVE  /\ job'[j].kind = "remove" => ~Clean(k)'
                 /\ job'[k].kind # "remove" /\ ~Clean(j)' => ~Clean(k)'
                 /\ ~Serial(j)'
      BY <2>3, <2>6, <2>7 DEF Spread, Clean, Serial
    <2>8. ASSUME NEW k \in Jobs \ {i}, Active(k)'
          PROVE  /\ kind = "remove" => ~Clean(k)'
                 /\ job'[k].kind # "remove" /\ ~Clean(i)' => ~Clean(k)'
                 /\ ~Serial(i)'
      <3>1. \A o \in others : o \in Jobs /\ Active(o)
        BY DEF others
      <3> QED
        BY <2>2, <2>3, <2>4, <2>5, <2>6, <2>8, <3>1 DEF Spread, Clean, Serial
    <2>9. ASSUME NEW j \in Jobs \ {i}, Active(j)'
          PROVE  /\ job'[j].kind = "remove" => ~Clean(i)'
                 /\ kind # "remove" /\ ~Clean(j)' => ~Clean(i)'
                 /\ ~Serial(j)'
      BY <2>2, <2>3, <2>5, <2>6, <2>9 DEF Clean, Serial
    <2> QED
      BY <2>2, <2>7, <2>8, <2>9 DEF Spread
  <1>4. ASSUME NEW p \in Procs, Crash(p)
        PROVE  Spread'
    <2>1. Dies(p)
      BY <1>4, CrashMoves
    <2>2. ASSUME NEW k \in Jobs, Active(k)'
          PROVE  job'[k].beside = "damage"
      BY <2>1, <2>2 DEF Dies, Keeps, Active, Ended
    <2> QED
      BY <2>2 DEF Spread, Clean, Serial
  <1> QED
    BY <1>1, <1>2, <1>3, <1>4 DEF Next

\* What a clean job has staged nobody else touches.
LEMMA StagedHolds == TypeOK /\ Placed /\ Spread /\ Staged /\ [Next]_vars => Staged'
  <1> SUFFICES ASSUME TypeOK, Placed, Spread, Staged, [Next]_vars PROVE Staged'
    OBVIOUS
  <1>1. CASE Publish \/ UNCHANGED vars
    BY <1>1 DEF Publish, vars, Staged, Stages, Active, Clean
  <1>2. ASSUME NEW j \in Jobs, Work(j)
        PROVE  Staged'
    <2>1. Moves(j)
      BY <1>2, WorkMovesFields
    <2>2. ASSUME NEW k \in Jobs \ {j} PROVE Stages(k)'
      <3>1. pc'[k] = pc[k] /\ job'[k].beside = job[k].beside
        BY <2>1 DEF Moves, Keeps
      <3>2. disk'[k] = disk[k] \/ Wipe(j)
        BY <1>2, WorkTouches
      <3>3. Wipe(j) => Active(j) /\ job[j].kind = "remove"
        BY DEF Wipe, Placed, Place, Active, Ended
      <3>4. Wipe(j) /\ Active(k) => ~Clean(k)
        BY <3>3 DEF Spread
      <3> QED
        BY <3>1, <3>2, <3>4 DEF Staged, Stages, Active, Clean
    <2>3. Stages(j)'
      <3> USE Types DEF Goto, Disk, Ended, Active
      <3>0. /\ DOMAIN pc = Jobs /\ DOMAIN disk = Dirs /\ j \in Dirs
            /\ pc[j] \in Installing => job[j].goal # j /\ job[j].goal \in Dirs
            /\ Active(j)' => (Clean(j)' <=> Clean(j)) /\ pc[j] \notin Ended
            /\ Stages(j)
        BY <2>1 DEF Knowledge, Dirs, Placed, Place, Moves, Clean, Steps, Staged
      <3>1. ASSUME NEW outcome \in Ended, Finish(j, outcome) \/ Abandon(j, outcome)
            PROVE  Stages(j)'
        BY <3>0, <3>1 DEF Finish, Abandon, Stages
      <3> USE DEF Stages, Installing, Staging, Linking
      <3>2. CASE pc'[j] \notin Staging
        BY <3>2
      <3>3. CASE Stage(j)
        BY <3>0, <3>1, <3>3 DEF Stage
      <3>4. CASE WriteBin(j) \/ WriteVersion(j)
        BY <3>0, <3>1, <3>4 DEF WriteBin, WriteVersion, Write, File
      <3>5. CASE VersionExists(j)
        BY <3>0, <3>5 DEF VersionExists
      <3>6. CASE ClearOpen(j) \/ ClearDir(j)
        BY <3>0, <3>1, <3>6 DEF ClearOpen, ClearDir
      <3>7. CASE ClearFile(j)
        BY <3>0, <3>7 DEF ClearFile
      <3>8. CASE Rename(j) /\ ~Abandon(j, "lost")
        BY <3>0, <3>2, <3>8 DEF Rename
      <3>9. CASE DropTmp(j) \/ Symlink(j) \/ Swap(j)
        BY <3>0, <3>1, <3>9 DEF DropTmp, Symlink, Swap
      <3>10. CASE ResolveBin(j) \/ ResolveVersion(j) \/ DecideToAsk(j) \/ Check(j)
        BY <3>0, <3>1, <3>10 DEF ResolveBin, ResolveVersion, DecideToAsk, Check
      <3>11. CASE Fetch(j) \/ Decide(j) \/ Remove(j) \/ Wipe(j) \/ WipeEnd(j)
        BY <3>0, <3>1, <3>11 DEF Fetch, Decide, Remove, Wipe, WipeEnd
      <3> QED
        BY <1>2, <3>1, <3>3, <3>4, <3>5, <3>6, <3>7, <3>8, <3>9, <3>10, <3>11 DEF Work
    <2> QED
      BY <2>2, <2>3 DEF Staged
  <1>3. ASSUME NEW j \in Jobs, NEW p \in Procs, NEW kind \in Kinds, Begin(j, p, kind)
        PROVE  Staged'
    <2>1. Joins(j, p, kind)
      BY <1>3, BeginMoves
    <2>2. ASSUME NEW k \in Jobs \ {j} PROVE Stages(k)'
      <3>1. pc'[k] = pc[k] /\ (Active(k) /\ Clean(k)' => Clean(k)) /\ disk'[k] = disk[k]
        BY <2>1 DEF Joins, Keeps, Clean, Worse
      <3> QED
        BY <3>1 DEF Staged, Stages, Active
    <2>3. Stages(j)'
      BY <2>1 DEF Joins, Stages
    <2> QED
      BY <2>2, <2>3 DEF Staged
  <1>4. ASSUME NEW p \in Procs, Crash(p)
        PROVE  Staged'
    <2>1. Dies(p)
      BY <1>4, CrashMoves
    <2>2. ASSUME NEW k \in Jobs, Active(k)'
          PROVE  ~Clean(k)'
      BY <2>1, <2>2 DEF Dies, Keeps, Active, Clean, Ended
    <2> QED
      BY <2>2 DEF Staged, Stages
  <1> QED
    BY <1>1, <1>2, <1>3, <1>4 DEF Next

\* What becomes of a version directory: it loses files or is gone, or is
\* replaced by what a job has staged.
LEMMA DirShrinks ==
  ASSUME TypeOK, Placed, NEW j \in Jobs, Work(j), NEW r \in Releases
  PROVE  \/ disk'[r] \subseteq disk[r] \/ disk'[r] = Absent
         \/ /\ Rename(j) /\ pc'[j] = "dropTmp" /\ job[j].goal = r
            /\ disk'[r] = disk[j] /\ disk[r] \in {{}, Absent}
  <1> USE Types
  <1>1. DOMAIN disk = Dirs /\ DOMAIN pc = Jobs /\ r \in Dirs /\ r # j
    BY DEF Dirs
  <1>2. CASE disk'[r] = disk[r]
    BY <1>2
  <1>3. CASE Wipe(j)
    BY <1>1, <1>3 DEF Wipe
  <1>4. CASE r = job[j].goal /\ ClearFile(j)
    BY <1>1, <1>4 DEF ClearFile
  <1>5. CASE r = job[j].goal /\ ClearDir(j)
    BY <1>1, <1>5 DEF ClearDir, Abandon
  <1>6. CASE r = job[j].goal /\ Rename(j) /\ disk'[r] # disk[r]
    BY <1>1, <1>6 DEF Rename, Abandon, Goto
  <1> QED
    BY <1>2, <1>3, <1>4, <1>5, <1>6, WorkTouches

\* Every step keeps what installs have left and found in their lists.
LEMMA ListedHolds == TypeOK /\ Placed /\ Listed /\ [Next]_vars => Listed'
  <1> SUFFICES ASSUME TypeOK, Placed, Listed, [Next]_vars PROVE Listed'
    OBVIOUS
  <1>1. CASE Publish \/ UNCHANGED vars
    BY <1>1 DEF Publish, vars, Listed, List
  <1>2. ASSUME NEW j \in Jobs, Work(j)
        PROVE  Listed'
    <2>1. Moves(j)
      BY <1>2, WorkMovesFields
    <2>0. \A k \in Jobs : pc[k] = "clear" => job[k].goal \in Releases
      BY Types DEF Placed, Place, Installing, Staging, Knowledge
    <2>2. ASSUME NEW k \in Jobs \ {j}, pc[k] = "clear" PROVE List(k)'
      <3> DEFINE r == job[k].goal
      <3>0. r \in Releases /\ pc'[k] = "clear" /\ job'[k].goal = r
        BY <2>0, <2>1, <2>2 DEF Moves, Keeps
      <3>1. \/ disk'[r] \subseteq disk[r] \/ disk'[r] = Absent
            \/ Rename(j) /\ pc'[j] = "dropTmp" /\ job[j].goal = r
        BY <1>2, <3>0, DirShrinks
      <3>2. CASE Rename(j) /\ pc'[j] = "dropTmp" /\ job[j].goal = r
        <4>1. job'[k] = [job[k] EXCEPT !.left = {}]
          BY <3>2, Types DEF Rename, Abandon, Finish, Goto, Ended
        <4>2. job'[k].left = {}
          BY <4>1, Types DEF Knowledge
        <4> QED
          BY <4>2 DEF List
      <3>3. job'[k].left \in {job[k].left, {}}
        BY <2>1 DEF Moves
      <3>4. CASE (disk'[r] \subseteq disk[r] \/ disk'[r] = Absent) /\ disk[r] # Absent
        BY <2>2, <3>0, <3>3, <3>4 DEF Listed, List
      <3>5. CASE (disk'[r] \subseteq disk[r] \/ disk'[r] = Absent) /\ disk[r] = Absent
        <4>1. disk'[r] \in Files
          BY <1>2, <3>0, WorkTyped, Types DEF TypeOK, Dirs, Files
        <4>2. disk'[r] = Absent \/ disk'[r] = {}
          BY <3>5, <4>1 DEF Files, Absent, File
        <4> QED
          BY <3>0, <4>2 DEF List
      <3> QED
        BY <3>1, <3>2, <3>4, <3>5
    <2>3. List(j)'
      <3> USE Types DEF Goto, Disk, Ended
      <3>0. DOMAIN pc = Jobs /\ DOMAIN job = Jobs /\ DOMAIN disk = Dirs /\ List(j)
        BY DEF Listed
      <3>1. ASSUME NEW outcome \in Ended, Finish(j, outcome) \/ Abandon(j, outcome)
            PROVE  List(j)'
        BY <3>0, <3>1 DEF Finish, Abandon, List
      <3>2. CASE pc'[j] # "clear"
        BY <3>2 DEF List
      <3>3. CASE ClearOpen(j)
        <4>1. CASE /\ job' = [job EXCEPT ![j].left = disk[job[j].goal]]
                   /\ disk' = disk
          <5>1. job'[j].left = disk[job[j].goal] /\ job'[j].goal = job[j].goal
            BY <3>0, <4>1 DEF Knowledge
          <5> QED
            BY <4>1, <5>1 DEF List
        <4> QED
          BY <3>1, <3>3, <4>1 DEF ClearOpen
      <3>4. CASE ClearFile(j)
        <4>1. PICK f \in job[j].left :
                /\ job' = [job EXCEPT ![j].left = @ \ {f}]
                /\ disk' = IF Has(job[j].goal, f) THEN [disk EXCEPT ![job[j].goal] = @ \ {f}]
                                                  ELSE disk
          BY <3>4 DEF ClearFile
        <4>2. job'[j].left = job[j].left \ {f} /\ job'[j].goal = job[j].goal /\ f \in File
          BY <3>0, <4>1 DEF Knowledge
        <4>3. job[j].goal \in Dirs /\ job[j].goal # NoRelease /\ pc[j] = "clear"
          BY <2>0, <3>4 DEF ClearFile, Dirs, NoRelease
        <4>4. disk'[job[j].goal] = IF f \in disk[job[j].goal] THEN disk[job[j].goal] \ {f}
                                                             ELSE disk[job[j].goal]
          BY <3>0, <4>1, <4>3 DEF Has
        <4>5. disk[job[j].goal] = Absent => f \notin disk[job[j].goal]
          BY <4>2 DEF Absent, File
        <4> QED
          BY <3>0, <4>2, <4>3, <4>4, <4>5 DEF List
      <3>5. CASE ClearDir(j)
        BY <3>0, <3>1, <3>2, <3>5 DEF ClearDir
      <3>6. CASE ~ClearOpen(j) /\ ~ClearFile(j) /\ ~ClearDir(j)
        <4>1. pc[j] # "clear"
          BY <1>2, <3>6 DEF Work, ResolveBin, ResolveVersion, DecideToAsk, Check, Fetch, Decide,
                Stage, WriteBin, WriteVersion, Write, VersionExists, Rename, DropTmp, Symlink,
                Swap, Remove, Wipe, WipeEnd
        <4>2. CASE ResolveBin(j) \/ ResolveVersion(j) \/ DecideToAsk(j) \/ Check(j) \/ Fetch(j)
          BY <3>0, <3>1, <3>2, <4>2 DEF ResolveBin, ResolveVersion, DecideToAsk, Check, Fetch
        <4>3. CASE Decide(j) \/ Stage(j) \/ WriteBin(j) \/ WriteVersion(j) \/ VersionExists(j)
          BY <3>0, <3>1, <3>2, <4>3 DEF Decide, Stage, WriteBin, WriteVersion, Write, VersionExists
        <4>4. CASE Rename(j) \/ DropTmp(j) \/ Symlink(j) \/ Swap(j)
          BY <3>0, <3>1, <3>2, <4>4 DEF Rename, DropTmp, Symlink, Swap
        <4>5. CASE Remove(j) \/ Wipe(j) \/ WipeEnd(j)
          BY <3>0, <3>1, <3>2, <4>1, <4>5 DEF Remove, Wipe, WipeEnd
        <4> QED
          BY <1>2, <3>6, <4>2, <4>3, <4>4, <4>5 DEF Work
      <3> QED
        BY <3>3, <3>4, <3>5, <3>6
    <2>4. ASSUME NEW k \in Jobs \ {j}, pc[k] # "clear" PROVE List(k)'
      BY <2>1, <2>4 DEF Moves, Keeps, List
    <2> QED
      BY <2>2, <2>3, <2>4 DEF Listed
  <1>3. ASSUME NEW j \in Jobs, NEW p \in Procs, NEW kind \in Kinds, Begin(j, p, kind)
        PROVE  Listed'
    <2>1. Joins(j, p, kind)
      BY <1>3, BeginMoves
    <2>2. ASSUME NEW k \in Jobs \ {j} PROVE List(k)'
      BY <2>1 DEF Joins, Keeps, Listed, List
    <2>3. List(j)'
      BY <2>1 DEF Joins, List
    <2> QED
      BY <2>2, <2>3 DEF Listed
  <1>4. ASSUME NEW p \in Procs, Crash(p)
        PROVE  Listed'
    <2>1. Dies(p)
      BY <1>4, CrashMoves
    <2>2. ASSUME NEW k \in Jobs PROVE List(k)'
      <3>1. pc[k] = "clear" => job[k].goal \in Releases
        BY Types DEF Placed, Place, Installing, Staging, Knowledge
      <3> QED
        BY <2>1, <3>1 DEF Dies, Keeps, Listed, List
    <2> QED
      BY <2>2 DEF Listed
  <1> QED
    BY <1>1, <1>2, <1>3, <1>4 DEF Next
\* A job that is clean finds nothing but clean jobs beside it.
LEMMA CleanIsCalm ==
  ASSUME Spread, NEW k \in Jobs, Active(k), Clean(k), job[k].kind # "remove"
  PROVE  Calm
  BY DEF Spread, Calm, Clean

\* A calm step stays calm.
LEMMA CalmWork ==
  ASSUME TypeOK, Placed, Calm, NEW j \in Jobs, Work(j)
  PROVE  Calm' /\ ~Wipe(j) /\ Active(j)
  <1>1. Moves(j)
    BY WorkMovesFields
  <1>2. Active(j) /\ ~Wipe(j)
    BY <1>1, Types DEF Moves, Active, Calm, Placed, Place, Wipe
  <1>3. ASSUME NEW k \in Jobs, Active(k)' PROVE Clean(k)' /\ job'[k].kind # "remove"
    <2>1. CASE k = j
      BY <1>1, <1>2, <1>3, <2>1, Types DEF Moves, Active, Calm, Clean
    <2>2. CASE k # j
      BY <1>1, <1>3, <2>2 DEF Moves, Keeps, Active, Calm, Clean
    <2> QED
      BY <2>1, <2>2
  <1> QED
    BY <1>2, <1>3 DEF Calm

\* While nothing may fail half way a release that is safe remains so: who takes
\* its files away is about to replace it.
LEMMA SafeKept ==
  ASSUME TypeOK, Placed, Staged, Listed, Calm, NEW j \in Jobs, Work(j),
         NEW r \in Releases, Safe(r)
  PROVE  Safe(r)'
  <1> USE Types DEF Ended
  <1>0. /\ Moves(j) /\ ~Wipe(j) /\ Active(j) /\ Clean(j) /\ NoRelease \notin Releases
        /\ DOMAIN disk = Dirs /\ r \in Dirs /\ r # j /\ j \in Dirs /\ DOMAIN pc = Jobs
        /\ disk[r] \in Files /\ r # NoRelease
    BY WorkMovesFields, CalmWork DEF Calm, Dirs, NoRelease
  <1>1. Whole(r) <=> disk[r] = File
    BY <1>0 DEF Whole, Has, Files, Absent, File
  <1>2. Whole(r)' <=> disk'[r] = File
    <2>1. disk'[r] \in Files
      BY <1>0, WorkTyped DEF TypeOK, Dirs, Files
    <2> QED
      BY <1>0, <2>1 DEF Whole, Has, Files, Absent, File
  <1>3. \/ disk'[r] = disk[r]
        \/ job[j].goal = r /\ (ClearFile(j) \/ ClearDir(j) \/ Rename(j))
    BY <1>0, WorkTouches
  <1>4. Absent \notin {{}, File} /\ {} # File /\ "absent" \notin File
    BY DEF Absent, File
  <1>5. ASSUME ClearFile(j), job[j].goal = r
        PROVE  /\ job'[j].goal = r /\ pc[j] = "clear" /\ pc'[j] = "clear"
               /\ \E f \in job[j].left :
                    /\ job'[j].left = job[j].left \ {f}
                    /\ disk'[r] = IF f \in disk[r] THEN disk[r] \ {f} ELSE disk[r]
               /\ \A k \in Jobs \ {j} : job'[k].left = job[k].left
    <2>1. PICK f \in job[j].left :
            /\ job' = [job EXCEPT ![j].left = @ \ {f}]
            /\ disk' = IF Has(job[j].goal, f) THEN [disk EXCEPT ![job[j].goal] = @ \ {f}]
                                              ELSE disk
      BY <1>5 DEF ClearFile
    <2>2. job'[j].left = job[j].left \ {f} /\ job'[j].goal = r
      BY <1>5, <2>1 DEF Knowledge
    <2>3. disk'[r] = IF f \in disk[r] THEN disk[r] \ {f} ELSE disk[r]
      BY <1>0, <1>5, <2>1 DEF Has
    <2>4. \A k \in Jobs \ {j} : job'[k].left = job[k].left
      BY <2>1
    <2> QED
      BY <1>5, <2>2, <2>3, <2>4 DEF ClearFile
  <1>6. ASSUME ClearDir(j), job[j].goal = r
        PROVE  /\ pc[j] = "clear" /\ job[j].left = {}
               /\ IF disk[r] \in {{}, Absent}
                    THEN disk'[r] = Absent /\ pc'[j] = "rename" /\ job' = job
                    ELSE disk'[r] = disk[r]
    BY <1>0, <1>6 DEF ClearDir, Goto, Abandon
  <1>7. ASSUME Rename(j), job[j].goal = r
        PROVE  /\ pc[j] = "rename" /\ disk[j] = File
               /\ IF disk[r] \in {{}, Absent} THEN disk'[r] = File ELSE disk'[r] = disk[r]
    <2>1. pc[j] = "rename" /\ disk[j] = File
      BY <1>0, <1>7 DEF Rename, Staged, Stages
    <2> QED
      BY <1>0, <1>4, <1>7, <2>1 DEF Rename, Abandon
  <1>8. CASE Whole(r)
    <2>1. CASE ClearFile(j) /\ job[j].goal = r
      <3>1. disk[r] \subseteq job[j].left
        BY <1>1, <1>4, <1>5, <1>8, <2>1 DEF Listed, List
      <3>2. disk'[r] \subseteq job'[j].left
        BY <1>5, <2>1, <3>1
      <3>3. Replacing(j, r)'
        BY <1>0, <1>5, <2>1, <3>2 DEF Replacing, Active
      <3> QED
        BY <1>0, <3>3 DEF Safe
    <2>2. CASE ~(ClearFile(j) /\ job[j].goal = r)
      BY <1>0, <1>1, <1>2, <1>3, <1>4, <1>6, <1>7, <1>8, <2>2 DEF Safe
    <2> QED
      BY <2>1, <2>2
  <1>9. ASSUME NEW w \in Jobs, Replacing(w, r)
        PROVE  Safe(r)'
    <2>0. /\ job[w].goal = r
          /\ \/ pc[w] = "clear" /\ (disk[r] \subseteq job[w].left \/ disk[r] = Absent)
             \/ pc[w] = "rename" /\ disk[r] \in {{}, Absent}
      BY <1>9 DEF Replacing
    <2>1. CASE Rename(j) /\ job[j].goal = r /\ disk[r] \in {{}, Absent}
      BY <1>0, <1>2, <1>7, <2>1 DEF Safe
    <2>2. CASE w = j /\ ~Rename(j)
      <3>1. CASE ClearFile(j)
        <4>1. disk'[r] \subseteq job'[j].left \/ disk'[r] = Absent
          <5>1. CASE disk[r] = Absent
            <6>1. \A f \in job[j].left : f \in File
              BY DEF Knowledge
            <6> QED
              BY <1>4, <1>5, <2>0, <2>2, <3>1, <5>1, <6>1 DEF Absent
          <5>2. CASE disk[r] # Absent
            BY <1>5, <2>0, <2>2, <3>1, <5>2
          <5> QED
            BY <5>1, <5>2
        <4>2. Replacing(j, r)'
          BY <1>5, <2>0, <2>2, <3>1, <4>1 DEF Replacing, Active
        <4> QED
          BY <1>0, <4>2 DEF Safe
      <3>2. CASE ClearDir(j)
        <4>1. disk[r] \in {{}, Absent}
          BY <1>6, <2>0, <2>2, <3>2
        <4>2. Replacing(j, r)'
          BY <1>6, <2>0, <2>2, <3>2, <4>1 DEF Replacing, Active
        <4> QED
          BY <1>0, <4>2 DEF Safe
      <3> QED
        BY <2>0, <2>2, <3>1, <3>2
           DEF Work, ResolveBin, ResolveVersion, DecideToAsk, Check, Fetch, Decide, Stage,
               WriteBin, WriteVersion, Write, VersionExists, ClearOpen, DropTmp, Symlink, Swap,
               Remove, Wipe, WipeEnd
    <2>3. CASE w # j /\ ~(Rename(j) /\ job[j].goal = r /\ disk[r] \in {{}, Absent})
      <3>1. pc'[w] = pc[w] /\ job'[w].goal = r
        BY <1>0, <2>0, <2>3 DEF Moves, Keeps
      <3>2. job'[w].left = job[w].left
        <4>1. CASE Rename(j) /\ pc'[j] = "dropTmp" /\ job[w].goal = job[j].goal
          BY <1>0, <2>0, <2>3, <4>1 DEF Rename, Abandon, Finish, Goto
        <4> QED
          BY <1>0, <2>3, <4>1 DEF Moves
      <3>3. \/ disk'[r] = disk[r] \/ disk'[r] = Absent
            \/ disk'[r] \subseteq disk[r] /\ disk[r] # Absent
        <4>1. CASE ClearFile(j) /\ job[j].goal = r
          <5>1. disk[r] = Absent => disk'[r] = Absent
            <6>1. \A f \in job[j].left : f \in File
              BY DEF Knowledge
            <6> QED
              BY <1>4, <1>5, <4>1, <6>1 DEF Absent
          <5> QED
            BY <1>5, <4>1, <5>1
        <4> QED
          BY <1>3, <1>6, <1>7, <2>3, <4>1
      <3>4. Replacing(w, r)'
        BY <2>0, <3>1, <3>2, <3>3 DEF Replacing, Active
      <3> QED
        BY <1>0, <3>4 DEF Safe
    <2>4. CASE w = j /\ Rename(j)
      BY <1>7, <2>0, <2>1, <2>4 DEF Rename
    <2> QED
      BY <2>1, <2>2, <2>3, <2>4
  <1> QED
    BY <1>8, <1>9 DEF Safe
\* A job's step, while nothing may fail half way: what is linked, or about to
\* be, is safe.
LEMMA CalmLinks ==
  ASSUME TypeOK, Placed, Staged, Listed, Linked, Calm, NEW j \in Jobs, Work(j)
  PROVE  /\ \A k \in Jobs : Links(k)'
         /\ Swap(j) /\ link' # link => Safe(link)'
  <1> USE Types
  <1>0. /\ Moves(j) /\ ~Wipe(j) /\ Active(j) /\ Clean(j) /\ Links(j)
        /\ DOMAIN disk = Dirs /\ j \in Dirs /\ DOMAIN pc = Jobs /\ DOMAIN tmp = Procs
        /\ job[j].proc \in Procs
    BY WorkMovesFields, CalmWork DEF Calm, Dirs, Linked, Placed, Place
  <1>1. \A r \in Releases : Safe(r) => Safe(r)'
    BY SafeKept
  <1>2. \A k \in Jobs : pc[k] \in Installing => job[k].goal \in Releases
    BY DEF Placed, Place, Knowledge
  <1>3. \A q \in Procs : tmp[q] # NoRelease => tmp[q] \in Releases
    OBVIOUS
  <1>4. ASSUME NEW k \in Jobs \ {j}, Active(k)', Clean(k)', pc'[k] \in Linking
        PROVE  Links(k)'
    <2>1. /\ Keeps(k) /\ Active(k) /\ Clean(k) /\ pc[k] \in Linking /\ Links(k)
          /\ job[k].proc \in Procs
      BY <1>0, <1>4 DEF Moves, Keeps, Active, Clean, Linked, Placed, Place
    <2>2. Safe(job[k].goal)'
      <3>1. job[k].goal \in Releases /\ Safe(job[k].goal)
        BY <1>2, <2>1 DEF Links, Installing
      <3> QED
        BY <1>1, <2>1, <3>1 DEF Keeps
    <2>3. ASSUME pc'[k] # "dropTmp", tmp'[job[k].proc] # NoRelease
          PROVE  Safe(tmp[job[k].proc])'
      <3>1. CASE tmp'[job[k].proc] = tmp[job[k].proc]
        <4>1. tmp[job[k].proc] \in Releases /\ Safe(tmp[job[k].proc])
          BY <1>3, <2>1, <2>3, <3>1 DEF Links, Keeps
        <4>2. tmp'[job'[k].proc] = tmp[job[k].proc]
          BY <2>1, <3>1 DEF Keeps
        <4> QED
          BY <1>1, <4>1, <4>2
      <3>2. CASE tmp'[job[k].proc] # tmp[job[k].proc]
        <4>1. job[k].proc = job[j].proc /\ (DropTmp(j) \/ Symlink(j) \/ Swap(j))
          BY <1>0, <2>1, <3>2, WorkTouches
        <4>2. Symlink(j) /\ tmp'[job[k].proc] = job[j].goal
          BY <1>0, <2>1, <2>3, <3>2, <4>1 DEF DropTmp, Symlink, Swap, Abandon
        <4>3. pc[j] = "symlink"
          BY <4>2 DEF Symlink
        <4>4. Safe(job[j].goal) /\ job[j].goal \in Releases
          BY <1>0, <1>2, <4>3 DEF Links, Linking, Installing
        <4>5. tmp'[job'[k].proc] = job[j].goal
          BY <2>1, <4>2 DEF Keeps
        <4> QED
          BY <1>1, <4>4, <4>5
      <3> QED
        BY <3>1, <3>2
    <2> QED
      BY <2>1, <2>2, <2>3 DEF Keeps, Links
  <1>5. Links(j)'
    <2> SUFFICES ASSUME Active(j)', pc'[j] \in Linking PROVE Links(j)'
      BY DEF Links
    <2>1. \A outcome \in Ended : ~Finish(j, outcome) /\ ~Abandon(j, outcome)
      BY <1>0 DEF Finish, Abandon, Goto, Active
    <2>2. CASE Rename(j)
      <3>1. /\ pc[j] = "rename" /\ pc'[j] = "dropTmp" /\ disk[j] = File
            /\ disk' = [disk EXCEPT ![job[j].goal] = disk[j], ![j] = Absent]
            /\ job' = [k \in Jobs |-> IF job[k].goal = job[j].goal
                                        THEN [job[k] EXCEPT !.left = {}] ELSE job[k]]
        BY <1>0, <2>1, <2>2 DEF Rename, Goto, Ended, Staged, Stages
      <3>2. job[j].goal \in Releases /\ job[j].goal \in Dirs /\ job[j].goal # j
        BY <1>2, <3>1 DEF Installing, Staging, Dirs
      <3>3. disk'[job[j].goal] = File
        BY <1>0, <3>1, <3>2
      <3>4. job'[j].goal = job[j].goal
        BY <3>1 DEF Knowledge
      <3>5. Safe(job[j].goal)'
        BY <3>2, <3>3, <3>4 DEF Safe, Whole, Has, NoRelease
      <3> QED
        BY <3>1, <3>4, <3>5 DEF Links
    <2>3. CASE DropTmp(j) \/ Symlink(j)
      <3>1. pc[j] \in {"dropTmp", "symlink"} /\ job' = job
        BY <2>1, <2>3 DEF DropTmp, Symlink, Ended
      <3>2. job[j].goal \in Releases /\ Safe(job[j].goal)
        BY <1>0, <1>2, <3>1 DEF Links, Linking, Installing
      <3>3. Safe(job[j].goal)'
        BY <1>1, <3>1, <3>2
      <3>4. tmp'[job[j].proc] \in {NoRelease, job[j].goal}
        BY <1>0, <2>1, <2>3 DEF DropTmp, Symlink, Ended
      <3> QED
        BY <3>1, <3>3, <3>4 DEF Links
    <2>4. CASE Swap(j)
      BY <2>1, <2>4 DEF Swap, Ended
    <2>5. CASE ~Rename(j) /\ ~DropTmp(j) /\ ~Symlink(j) /\ ~Swap(j)
      <3> USE <1>0, <2>1 DEF Goto, Ended, Linking
      <3>1. CASE ResolveBin(j) \/ ResolveVersion(j) \/ DecideToAsk(j) \/ Check(j)
        BY <3>1 DEF ResolveBin, ResolveVersion, DecideToAsk, Check, Finish
      <3>2. CASE Fetch(j) \/ Decide(j) \/ Stage(j) \/ WriteBin(j) \/ WriteVersion(j)
        BY <3>2 DEF Fetch, Decide, Stage, WriteBin, WriteVersion, Write
      <3>3. CASE VersionExists(j) \/ ClearOpen(j) \/ ClearFile(j) \/ ClearDir(j)
        BY <3>3 DEF VersionExists, ClearOpen, ClearFile, ClearDir
      <3>4. CASE Remove(j) \/ WipeEnd(j)
        BY <3>4 DEF Remove, WipeEnd
      <3> QED
        BY <2>5, <3>1, <3>2, <3>3, <3>4 DEF Work
    <2> QED
      BY <2>2, <2>3, <2>4, <2>5
  <1>6. ASSUME Swap(j), link' # link PROVE Safe(link)'
    <2>1. pc[j] = "swap" /\ tmp[job[j].proc] # NoRelease /\ link' = tmp[job[j].proc]
      BY <1>6 DEF Swap, Abandon
    <2>2. link' \in Releases /\ Safe(tmp[job[j].proc])
      BY <1>0, <1>3, <2>1 DEF Links, Linking
    <2> QED
      BY <1>1, <2>1, <2>2
  <1>7. ASSUME NEW k \in Jobs \ {j} PROVE Links(k)'
    BY <1>4 DEF Links
  <1> QED
    BY <1>5, <1>6, <1>7

\* A step of an install keeps the published release whole and its config in step.
LEMMA WorkLinked ==
  ASSUME TypeOK, Placed, Spread, Staged, Listed, Linked, NEW j \in Jobs, Work(j)
  PROVE  Linked'
  <1>0. Moves(j) /\ Active(j) /\ link \in Nat
    BY WorkMovesFields, Types DEF Moves, Active
  <1>1. ASSUME sound' PROVE Safe(link)' /\ Calm'
    <2>1. Calm /\ (sound \/ (Swap(j) /\ tmp[job[j].proc] # NoRelease))
      <3>1. CASE sound
        BY <3>1 DEF Linked
      <3>2. CASE ~sound
        <4>1. Swap(j) /\ sound' # sound
          BY <1>1, <3>2, WorkTouches
        <4>2. pc[j] = "swap" /\ tmp[job[j].proc] # NoRelease /\ \A k \in Jobs : Clean(k)
          BY <1>1, <3>2, <4>1 DEF Swap, Abandon, Clean
        <4>3. job[j].kind # "remove"
          BY <1>0, <4>2 DEF Placed, Place
        <4> QED
          BY <1>0, <4>1, <4>2, <4>3, CleanIsCalm
      <3> QED
        BY <3>1, <3>2
    <2>2. Calm'
      BY <2>1, CalmWork
    <2>3. CASE link' # link
      <3>1. Swap(j)
        BY <2>1, <2>3, CalmWork, WorkTouches
      <3> QED
        BY <2>1, <2>2, <2>3, <3>1, CalmLinks
    <2>4. CASE link' = link /\ sound
      <3>1. Safe(link)
        BY <2>4 DEF Linked
      <3>2. link \in Releases
        BY <3>1 DEF Safe, TypeOK
      <3> QED
        BY <2>1, <2>2, <2>4, <3>1, <3>2, SafeKept
    <2>5. CASE link' = link /\ ~sound
      <3>1. Swap(j) /\ pc[j] = "swap" /\ tmp[job[j].proc] # NoRelease
        BY <2>1, <2>5 DEF Swap
      <3>2. link' = tmp[job[j].proc]
        BY <3>1 DEF Swap
      <3>3. Safe(link) /\ link \in Releases
        <4>1. Links(j) /\ Clean(j)
          BY <1>0, <2>1 DEF Linked, Calm
        <4>2. Safe(link)
          BY <1>0, <2>5, <3>1, <3>2, <4>1 DEF Links, Linking
        <4> QED
          BY <4>2 DEF Safe, TypeOK
      <3> QED
        BY <2>1, <2>2, <2>5, <3>3, SafeKept
    <2> QED
      BY <2>3, <2>4, <2>5
  <1>2. ASSUME NEW k \in Jobs PROVE Links(k)'
    <2>1. CASE Calm
      BY <2>1, CalmLinks
    <2>2. CASE ~Calm
      <3>1. ASSUME Active(k), Clean(k) PROVE job[k].kind = "remove"
        BY <2>2, <3>1, CleanIsCalm
      <3>2. ASSUME Active(k)', Clean(k)', pc'[k] \in Linking PROVE FALSE
        <4>1. Active(k) /\ Clean(k)
          BY <1>0, <3>2, Types DEF Moves, Keeps, Active, Clean
        <4>2. k = j
          <5>1. job[k].kind = "remove" /\ pc[k] \in {"remove", "wipe"}
            BY <3>1, <4>1 DEF Placed, Place
          <5> QED
            BY <1>0, <3>2, <5>1 DEF Moves, Keeps, Linking
        <4>3. pc[j] \in {"remove", "wipe"}
          BY <3>1, <4>1, <4>2 DEF Placed, Place
        <4>4. pc'[j] \in {"wipe", "remove"} \cup Ended
          BY <4>3, Types DEF Work, ResolveBin, ResolveVersion, DecideToAsk, Check, Fetch, Decide, Stage,
               WriteBin, WriteVersion, Write, VersionExists, ClearOpen, ClearFile, ClearDir, Rename,
               DropTmp, Symlink, Swap, Remove, Wipe, WipeEnd, Finish, Goto, Ended
        <4> QED
          BY <3>2, <4>2, <4>4 DEF Linking, Ended
      <3> QED
        BY <3>2 DEF Links
    <2> QED
      BY <2>1, <2>2
  <1> QED
    BY <1>1, <1>2 DEF Linked

\* And so does any other.
LEMMA LinkedHolds == IInv /\ [Next]_vars => Linked'
  <1> SUFFICES ASSUME IInv, [Next]_vars PROVE Linked'
    OBVIOUS
  <1>0. TypeOK /\ Placed /\ Spread /\ Staged /\ Listed /\ Linked
    BY DEF IInv
  <1>1. CASE Publish \/ UNCHANGED vars
    <2>1. UNCHANGED <<disk, link, tmp, sound, pc, job>>
      BY <1>1 DEF Publish, vars
    <2>2. \A r : Safe(r)' <=> Safe(r)
      BY <2>1 DEF Safe, Whole, Has, Replacing, Active
    <2>3. Linked' <=> Linked
      BY <2>1, <2>2 DEF Linked, Links, Calm, Active, Clean
    <2> QED
      BY <1>0, <2>3
  <1>2. ASSUME NEW j \in Jobs, NEW p \in Procs, NEW kind \in Kinds, Begin(j, p, kind)
        PROVE  Linked'
    <2>1. Joins(j, p, kind)
      BY <1>0, <1>2, BeginMoves
    <2>2. ASSUME NEW r, Safe(r) PROVE Safe(r)'
      <3>1. disk' = disk /\ ~Active(j)
        BY <2>1 DEF Joins
      <3>2. ASSUME NEW k \in Jobs, Replacing(k, r) PROVE Replacing(k, r)'
        <4>1. k # j
          BY <3>1, <3>2 DEF Replacing
        <4>2. Keeps(k) /\ job'[k].left = job[k].left
          BY <2>1, <4>1 DEF Joins
        <4> QED
          BY <3>1, <3>2, <4>2 DEF Replacing, Keeps, Active
      <3> QED
        BY <2>2, <3>1, <3>2 DEF Safe, Whole, Has
    <2>3. ASSUME NEW k \in Jobs \ {j}, Active(k)', Clean(k)'
          PROVE  Active(k) /\ Clean(k) /\ kind # "remove"
      BY <2>1, <2>3 DEF Joins, Keeps, Active, Clean, Worse
    <2>4. ASSUME NEW k \in Jobs PROVE Links(k)'
      <3>1. CASE k = j
        BY <2>1, <3>1 DEF Joins, Links, Linking
      <3>2. CASE k # j
        <4>1. UNCHANGED tmp /\ Keeps(k)
          BY <2>1, <3>2 DEF Joins
        <4> QED
          BY <1>0, <2>2, <2>3, <3>2, <4>1 DEF Linked, Links, Keeps
      <3> QED
        BY <3>1, <3>2
    <2>5. ASSUME sound' PROVE Safe(link)' /\ Calm'
      <3>1. sound /\ kind # "remove" /\ link' = link /\ Calm /\ Safe(link)
        BY <1>0, <2>1, <2>5 DEF Joins, Linked
      <3>2. ASSUME NEW k \in Jobs, Active(k)' PROVE Clean(k)' /\ job'[k].kind # "remove"
        <4>1. CASE k = j
          BY <2>1, <3>1, <4>1 DEF Joins, BesideOf, Calm, Clean
        <4>2. CASE k # j
          BY <2>1, <3>1, <3>2, <4>2 DEF Joins, Keeps, Active, Calm, Clean, Worse
        <4> QED
          BY <4>1, <4>2
      <3> QED
        BY <2>2, <3>1, <3>2 DEF Calm
    <2> QED
      BY <2>4, <2>5 DEF Linked
  <1>3. ASSUME NEW p \in Procs, Crash(p)
        PROVE  Linked'
    <2>1. Dies(p)
      BY <1>0, <1>3, CrashMoves
    <2>2. ASSUME NEW k \in Jobs, Active(k)'
          PROVE  ~Clean(k)'
      BY <2>1, <2>2 DEF Dies, Keeps, Active, Clean, Ended
    <2> QED
      BY <2>1, <2>2 DEF Linked, Links, Dies
  <1> QED
    BY <1>0, <1>1, <1>2, <1>3, WorkLinked DEF Next
\* What job j does next, when it is alone.
LEMMA AloneWork ==
  ASSUME IInv, NEW j \in Jobs, Work(j), Active(j)', Serial(j)'
  PROVE  Found(j)' /\ Aimed(j)' /\ Done(j)'
  <1> USE Types DEF Goto, Disk, Ended, Steps
  <1>0. /\ TypeOK /\ Moves(j) /\ Active(j) /\ Serial(j) /\ Clean(j)
        /\ Found(j) /\ Aimed(j) /\ Done(j) /\ Place(j) /\ Stages(j)
    BY WorkMovesFields
       DEF IInv, Moves, Active, Serial, Clean, Alone, Placed, Staged
  <1>1. /\ job[j] = [kind |-> job[j].kind, proc |-> job[j].proc, seen |-> job[j].seen,
                     found |-> job[j].found, goal |-> job[j].goal, left |-> job[j].left,
                     beside |-> job[j].beside]
        /\ DOMAIN job = Jobs /\ DOMAIN pc = Jobs /\ DOMAIN disk = Dirs /\ DOMAIN tmp = Procs
        /\ j \in Dirs /\ j \notin Releases
        /\ link \in Releases \cup {NoRelease} /\ NoRelease \notin Releases
        /\ pc[j] \in Installing => /\ job[j].goal \in Releases /\ job[j].goal # j
                                   /\ job[j].goal \in Dirs /\ job[j].goal # NoRelease
    BY <1>0 DEF Knowledge, Dirs, Place, NoRelease, TypeOK
  <1>2. \A outcome \in Ended : ~Finish(j, outcome) /\ ~Abandon(j, outcome)
    BY <1>1 DEF Finish, Abandon, Active
  <1> USE DEF Staging, Linking, Installing
  <1>3. CASE ResolveBin(j)
    <2>1. /\ UNCHANGED <<disk, link>> /\ pc'[j] = IF Has(link, "bin") THEN "version" ELSE "decide"
          /\ job'[j].found = NoRelease /\ job'[j].seen = job[j].seen
      BY <1>1, <1>3 DEF ResolveBin
    <2>2. (\A f : Has(link, f)' <=> Has(link, f)) /\ UNCHANGED link
      BY <2>1 DEF Has
    <2>3. Found(j)'
      <3>1. pc'[j] = "decide" => ~Has(link, "bin")'
        BY <2>1, <2>2
      <3>2. pc'[j] = "version" => Has(link, "bin")'
        BY <2>1, <2>2
      <3>3. job'[j].seen # NoRelease => link' <= job'[j].seen
        BY <1>0, <2>1, <2>2 DEF Found
      <3> QED
        BY <2>1, <3>1, <3>2, <3>3 DEF Found, NoRelease, Unversioned
    <2> QED
      BY <2>1, <2>3 DEF Aimed, Done
  <1>4. CASE ResolveVersion(j)
    <2>1. /\ UNCHANGED <<disk, link>> /\ pc[j] = "version" /\ pc'[j] = "decide"
          /\ job'[j].found = IF Has(link, "VERSION") THEN link ELSE Unversioned
          /\ job'[j].seen = job[j].seen
      BY <1>1, <1>4 DEF ResolveVersion
    <2>2. Has(link, "bin") /\ (Has(link, "VERSION") => Usable)
      BY <1>0, <2>1 DEF Found, Usable, Whole, File
    <2>3. Has(link, "VERSION") => link \notin {NoRelease, Unversioned}
      BY <1>0, <1>1 DEF Has, Unversioned
    <2>4. Unversioned # NoRelease
      BY DEF Unversioned, NoRelease
    <2>5. (\A f : Has(link, f)' <=> Has(link, f)) /\ (Usable' <=> Usable) /\ UNCHANGED link
      BY <2>1 DEF Has, Usable, Whole
    <2>6. Found(j)'
      BY <1>0, <2>1, <2>2, <2>3, <2>4, <2>5 DEF Found
    <2> QED
      BY <2>1, <2>6 DEF Aimed, Done
  <1>5. CASE DecideToAsk(j)
    <2>1. UNCHANGED <<disk, link, job>> /\ pc[j] = "decide" /\ pc'[j] \in {"fetch", "check"}
      BY <1>1, <1>2, <1>5 DEF DecideToAsk
    <2> QED
      BY <1>0, <2>1 DEF Found, Aimed, Done, Has, Usable, Whole
  <1>6. CASE Check(j)
    <2>1. UNCHANGED <<disk, link>> /\ pc'[j] = "fetch" /\ job'[j].seen = job[j].seen
      BY <1>1, <1>2, <1>6 DEF Check
    <2> QED
      BY <1>0, <2>1 DEF Found, Aimed, Done
  <1>7. CASE Fetch(j)
    <2>1. UNCHANGED <<disk, link>> /\ pc'[j] = "resolve" /\ job'[j].seen = latest
      BY <1>1, <1>2, <1>7 DEF Fetch
    <2> QED
      BY <1>0, <2>1 DEF Found, Aimed, Done, IInv, Released
  <1>8. CASE Decide(j)
    <2>1. /\ pc[j] = "decide" /\ job[j].seen # NoRelease /\ NeedsInstall(j)
          /\ UNCHANGED <<disk, link, config, tmp>> /\ pc'[j] = "stage"
          /\ job' = [job EXCEPT ![j].goal = Target(j), ![j].seen = NoRelease,
                                ![j].found = NoRelease]
      BY <1>1, <1>2, <1>8 DEF Decide
    <2>2. job'[j].goal = Target(j) /\ job'[j].seen = NoRelease /\ job'[j].kind = job[j].kind
      BY <1>1, <2>1
    <2>3. IF config.pin # NoRelease THEN Target(j) = config.pin ELSE link <= Target(j)
      BY <1>0, <2>1 DEF Target, Found
    <2>4. job[j].kind # "force" => ~Usable \/ link # Target(j)
      BY <1>0, <2>1 DEF NeedsInstall, Found, Usable, Whole, File
    <2> QED
      BY <2>1, <2>2, <2>3, <2>4 DEF Found, Aimed, Done, Usable, Whole, Has
  <1>9. CASE Stage(j)
    <2>1. /\ disk' = [disk EXCEPT ![j] = {}] /\ UNCHANGED <<link, config, job>>
          /\ pc[j] = "stage" /\ pc'[j] = "writeBin"
      BY <1>1, <1>2, <1>9 DEF Stage
    <2>2. link # NoRelease => disk'[link] = disk[link]
      BY <1>1, <2>1
    <2> QED
      BY <1>0, <1>1, <2>1, <2>2 DEF Found, Aimed, Done, Usable, Whole, Has
  <1>10. CASE WriteBin(j) \/ WriteVersion(j)
    <2>1. /\ \E f \in File : disk' = [disk EXCEPT ![j] = @ \cup {f}]
          /\ UNCHANGED <<link, config, job>>
          /\ pc[j] \in {"writeBin", "writeVersion"} /\ pc'[j] \in {"writeVersion", "exists"}
      BY <1>1, <1>2, <1>10 DEF WriteBin, WriteVersion, Write, File
    <2>2. link # NoRelease => disk'[link] = disk[link]
      BY <1>1, <2>1
    <2> QED
      BY <1>0, <1>1, <2>1, <2>2 DEF Found, Aimed, Done, Usable, Whole, Has
  <1>11. CASE VersionExists(j)
    <2>1. /\ UNCHANGED <<disk, link, config, job>> /\ pc[j] = "exists"
          /\ pc'[j] = IF disk[job[j].goal] # Absent THEN "open" ELSE "rename"
      BY <1>1, <1>11 DEF VersionExists
    <2> QED
      BY <1>0, <2>1 DEF Found, Aimed, Done, Usable, Whole, Has
  <1>12. CASE ClearOpen(j)
    <2>1. /\ UNCHANGED <<disk, link, config>> /\ pc[j] = "open" /\ pc'[j] = "clear"
          /\ job'[j].left = disk[job[j].goal] /\ job'[j].goal = job[j].goal
          /\ job'[j].kind = job[j].kind /\ job'[j].seen = job[j].seen
      BY <1>1, <1>2, <1>12 DEF ClearOpen
    <2> QED
      BY <1>0, <2>1 DEF Found, Aimed, Done, Usable, Whole, Has
  <1>13. CASE ClearFile(j)
    <2>1. PICK f \in job[j].left :
            /\ job' = [job EXCEPT ![j].left = @ \ {f}]
            /\ disk' = IF Has(job[j].goal, f) THEN [disk EXCEPT ![job[j].goal] = @ \ {f}]
                                              ELSE disk
      BY <1>13 DEF ClearFile
    <2>2. /\ pc[j] = "clear" /\ pc' = pc /\ UNCHANGED <<link, config>>
          /\ job'[j].left = job[j].left \ {f} /\ job'[j].goal = job[j].goal
          /\ job'[j].kind = job[j].kind /\ job'[j].seen = job[j].seen
      BY <1>1, <1>13, <2>1 DEF ClearFile
    <2>3. /\ disk'[job[j].goal] = disk[job[j].goal] \ {f}
          /\ \A n \in Dirs \ {job[j].goal} : disk'[n] = disk[n]
      BY <1>1, <2>1, <2>2 DEF Has
    <2>4. disk'[job[j].goal] # Absent
      BY <1>0, <1>1, <2>2, <2>3 DEF Done, Files, File, Absent
    <2>5. Usable' => Usable
      BY <1>1, <2>2, <2>3 DEF Usable, Whole, Has, Dirs
    <2> QED
      BY <1>0, <2>2, <2>3, <2>4, <2>5 DEF Found, Aimed, Done
  <1>14. CASE ClearDir(j)
    <2>1. /\ pc[j] = "clear" /\ pc'[j] = "rename" /\ UNCHANGED <<link, config, job>>
          /\ disk' = [disk EXCEPT ![job[j].goal] = Absent]
      BY <1>1, <1>2, <1>14 DEF ClearDir
    <2>2. disk'[job[j].goal] = Absent /\ \A n \in Dirs \ {job[j].goal} : disk'[n] = disk[n]
      BY <1>1, <2>1
    <2>3. Usable' => Usable
      BY <1>1, <2>1, <2>2 DEF Usable, Whole, Has, Dirs, File, Absent
    <2> QED
      BY <1>0, <2>1, <2>2, <2>3 DEF Found, Aimed, Done
  <1>15. CASE Rename(j)
    <2>1. /\ pc[j] = "rename" /\ pc'[j] = "dropTmp" /\ UNCHANGED <<link, config>>
          /\ disk' = [disk EXCEPT ![job[j].goal] = disk[j], ![j] = Absent] /\ disk[j] = File
          /\ job' = [k \in Jobs |-> IF job[k].goal = job[j].goal
                                      THEN [job[k] EXCEPT !.left = {}] ELSE job[k]]
      BY <1>0, <1>1, <1>2, <1>15 DEF Rename, Stages
    <2>2. /\ job'[j].goal = job[j].goal /\ job'[j].kind = job[j].kind
          /\ job'[j].seen = job[j].seen
      BY <1>1, <2>1
    <2>3. disk'[job[j].goal] = File
      BY <1>1, <2>1
    <2> QED
      BY <1>0, <2>1, <2>2, <2>3 DEF Found, Aimed, Done
  <1>16. CASE DropTmp(j) \/ Symlink(j)
    <2>1. \/ /\ pc[j] = "dropTmp" /\ pc'[j] = "symlink"
             /\ tmp' = [tmp EXCEPT ![job[j].proc] = NoRelease]
          \/ /\ pc[j] = "symlink" /\ pc'[j] = "swap"
             /\ tmp' = [tmp EXCEPT ![job[j].proc] = job[j].goal]
      BY <1>1, <1>2, <1>16 DEF DropTmp, Symlink
    <2>2. UNCHANGED <<link, config, disk, job>> /\ job[j].proc \in Procs
      BY <1>0, <1>2, <1>16 DEF DropTmp, Symlink, Place
    <2> QED
      BY <1>0, <1>1, <2>1, <2>2 DEF Found, Aimed, Done
  <1>17. CASE Swap(j)
    BY <1>2, <1>17 DEF Swap
  <1>18. CASE Remove(j) \/ Wipe(j) \/ WipeEnd(j)
    <2>1. pc'[j] = "wipe" /\ job' = job
      BY <1>1, <1>2, <1>18 DEF Remove, Wipe, WipeEnd
    <2>2. link' \in {link, NoRelease}
      BY <1>18 DEF Remove, Wipe, WipeEnd
    <2>3. job[j].seen \in Nat
      BY <1>0 DEF Knowledge, NoRelease
    <2> QED
      BY <1>0, <2>1, <2>2, <2>3 DEF Found, Aimed, Done, NoRelease
  <1> QED
    BY <1>3, <1>4, <1>5, <1>6, <1>7, <1>8, <1>9, <1>10, <1>11, <1>12, <1>13, <1>14, <1>15, <1>16,
       <1>17, <1>18 DEF Work

\* Every step keeps what an install that ran alone has found and done.
LEMMA AloneHolds == IInv /\ [Next]_vars => Alone'
  <1> SUFFICES ASSUME IInv, [Next]_vars,
                      NEW k \in Jobs, Active(k)', Serial(k)'
               PROVE  Found(k)' /\ Aimed(k)' /\ Done(k)'
    BY DEF Alone
  <1>0. TypeOK /\ Spread
    BY DEF IInv
  <1>1. CASE Publish \/ UNCHANGED vars
    <2>1. UNCHANGED <<config, disk, link, tmp, pc, job>>
      BY <1>1 DEF Publish, vars
    <2>2. Active(k) /\ Serial(k)
      BY <2>1 DEF Active, Serial
    <2>3. Found(k) /\ Aimed(k) /\ Done(k)
      BY <2>2 DEF IInv, Alone
    <2> QED
      BY <2>1, <2>3 DEF Found, Aimed, Done, Usable, Whole, Has
  <1>2. ASSUME NEW j \in Jobs, Work(j)
        PROVE  Found(k)' /\ Aimed(k)' /\ Done(k)'
    <2>1. Moves(j)
      BY <1>0, <1>2, WorkMovesFields
    <2>2. CASE k # j
      <3>1. Active(j) /\ Active(k) /\ Serial(k)
        BY <1>0, <2>1, <2>2, Types DEF Moves, Keeps, Active, Serial
      <3> QED
        BY <1>0, <2>2, <3>1 DEF Spread
    <2> QED
      BY <1>2, <2>2, AloneWork
  <1>3. ASSUME NEW j \in Jobs, NEW p \in Procs, NEW kind \in Kinds, Begin(j, p, kind)
        PROVE  Found(k)' /\ Aimed(k)' /\ Done(k)'
    <2>1. Joins(j, p, kind)
      BY <1>0, <1>3, BeginMoves
    <2>2. k = j
      BY <2>1 DEF Joins, Keeps, Active, Serial, Worse
    <2> QED
      BY <2>1, <2>2 DEF Joins, Found, Aimed, Done, Installing, Staging, Linking
  <1>4. ASSUME NEW p \in Procs, Crash(p)
        PROVE  Found(k)' /\ Aimed(k)' /\ Done(k)'
    BY <1>0, <1>4, CrashMoves DEF Dies, Keeps, Active, Serial, Ended
  <1> QED
    BY <1>1, <1>2, <1>3, <1>4 DEF Next
-----------------------------------------------------------------------------
(* The invariant                                                           *)

\* The invariant holds at first.
LEMMA InitIInv == Init => IInv
  <1> SUFFICES ASSUME Init PROVE IInv
    OBVIOUS
  <1>1. /\ 1 \in Releases /\ \A j \in Jobs : j # 1
        /\ \A j \in Jobs : ~Active(j) /\ pc[j] = "ok" /\ job[j] = Blank /\ disk[j] = Absent
        /\ \A j, k \in Jobs : ~Active(j)
        /\ link = NoRelease \/ (link = 1 /\ disk[1] = File)
        /\ sound => link = 1
    BY ReleasesAssumption, JobsAssumption DEF Init, Active, Ended, Releases
  <1>2. TypeOK
    BY <1>1, MishapsAssumption
       DEF Init, TypeOK, Ended, Steps, Blank, Kinds, Releases, NoRelease, File, Absent
  <1>3. Placed
    BY <1>1 DEF Placed, Place, Blank, Staging, Linking, Installing
  <1>4. Released
    BY <1>1 DEF Init, Released, Blank, Staging, Linking, Installing, NoRelease
  <1>5. Spread /\ Staged /\ Listed /\ Alone
    BY <1>1 DEF Spread, Staged, Stages, Listed, List, Alone
  <1>6. Linked
    BY <1>1 DEF Linked, Links, Calm, Safe, Whole, Has, NoRelease
  <1> QED
    BY <1>2, <1>3, <1>4, <1>5, <1>6 DEF IInv

\* Every step keeps the invariant.
LEMMA NextIInv == IInv /\ [Next]_vars => IInv'
  <1> SUFFICES ASSUME IInv, [Next]_vars PROVE IInv'
    OBVIOUS
  <1>1. TypeOK /\ Placed /\ Released /\ Spread /\ Staged /\ Listed
    BY DEF IInv
  <1> QED
    BY <1>1, NextTyped, PlacedHolds, ReleasedHolds, SpreadHolds, StagedHolds, ListedHolds,
       LinkedHolds, AloneHolds DEF IInv

\* Every reachable state satisfies the invariant.
LEMMA Invariance == Spec => []IInv
  BY InitIInv, NextIInv, PTL DEF Spec

-----------------------------------------------------------------------------
(* Theorems                                                                *)

\* Every variable keeps its type, whatever jobs, crashes and uninstalls do.
THEOREM InstallTypeCorrect == Spec => []TypeOK
  <1>1. IInv => TypeOK
    BY DEF IInv
  <1> QED
    BY <1>1, Invariance, PTL

\* A version directory comes into being with all its files, or not at all:
\* only the rename of a staging directory adds files to one.
THEOREM WholeOrNotAtAll == Spec => PublishedWhole
  <1>1. ASSUME IInv, [Next]_vars, NEW r \in Releases, ~(disk'[r] \subseteq disk[r])
        PROVE  \/ disk'[r] \in {Absent, File}
               \/ \E j \in Jobs : job[j].goal = r /\ job[j].beside = "damage"
    <2>0. TypeOK /\ Placed /\ Staged
      BY <1>1 DEF IInv
    <2>1. CASE Publish \/ UNCHANGED vars
      BY <1>1, <2>1 DEF Publish, vars
    <2>2. ASSUME NEW j \in Jobs, Work(j)
          PROVE  \/ disk'[r] \in {Absent, File}
                 \/ job[j].goal = r /\ job[j].beside = "damage"
      <3>1. CASE disk'[r] = Absent
        BY <3>1
      <3>2. CASE Rename(j) /\ job[j].goal = r /\ disk'[r] = disk[j]
        <4>1. Active(j) /\ (Clean(j) => disk[j] = File)
          BY <2>0, <3>2 DEF Rename, Active, Ended, Staged, Stages
        <4> QED
          BY <3>2, <4>1 DEF Clean
      <3> QED
        BY <1>1, <2>0, <2>2, <3>1, <3>2, DirShrinks
    <2>3. ASSUME NEW j \in Jobs, NEW p \in Procs, NEW kind \in Kinds, Begin(j, p, kind)
          PROVE  FALSE
      BY <1>1, <2>3 DEF Begin
    <2>4. ASSUME NEW p \in Procs, Crash(p)
          PROVE  FALSE
      BY <1>1, <2>0, <2>4, CrashMoves DEF Dies
    <2> QED
      BY <1>1, <2>1, <2>2, <2>3, <2>4 DEF Next
  <1>2. IInv /\ [Next]_vars =>
          [\A r \in Releases :
             ~(disk'[r] \subseteq disk[r]) =>
               \/ disk'[r] \in {Absent, File}
               \/ \E j \in Jobs : job[j].goal = r /\ job[j].beside = "damage"]_vars
    BY <1>1
  <1> QED
    BY <1>2, Invariance, PTL DEF Spec, PublishedWhole

\* A step that makes a usable module unusable belongs to an uninstall, to a
\* forced installation of the active version, or to overlapping operations.
THEOREM FailuresTakeNothingAway == Spec => FailuresKeepThePrevious
  <1>1. ASSUME IInv, [Next]_vars, Usable, ~Usable'
        PROVE  \E j \in Jobs :
                 /\ Active(j)
                 /\ \/ job[j].kind = "remove"
                    \/ job[j].kind = "force" /\ job[j].goal = link
                    \/ ~Serial(j)
    <2>0. TypeOK /\ Placed
      BY <1>1 DEF IInv
    <2>5. link \in Releases
      BY <1>1, <2>0 DEF Usable, Whole, Has, File, TypeOK
    <2>1. ~(link' = link /\ disk'[link] = disk[link])
      BY <1>1 DEF Usable, Whole, Has
    <2>2. ASSUME NEW j \in Jobs, Work(j)
          PROVE  /\ Active(j)
                 /\ \/ job[j].kind = "remove"
                    \/ job[j].kind = "force" /\ job[j].goal = link
                    \/ ~Serial(j)
      <3>1. Active(j)
        BY <2>0, <2>2, WorkMovesFields, Types DEF Moves, Active
      <3> SUFFICES ASSUME Serial(j), job[j].kind # "remove"
                   PROVE  job[j].kind = "force" /\ job[j].goal = link
        BY <3>1
      <3>2. Aimed(j) /\ Done(j)
        BY <1>1, <3>1 DEF IInv, Alone
      <3>3. ~Wipe(j)
        BY <2>0, <3>1 DEF Wipe, Placed, Place
      <3>4. CASE link' # link
        <4>1. Swap(j) /\ pc[j] = "swap" /\ link' = tmp[job[j].proc]
          BY <2>0, <2>2, <3>3, <3>4, WorkTouches DEF Swap, Abandon
        <4>2. link' = job[j].goal /\ disk[job[j].goal] = File /\ disk' = disk
          BY <3>2, <3>4, <4>1 DEF Done, Linking, Swap, Abandon
        <4>3. job[j].goal # NoRelease
          BY <2>0, <4>1 DEF Placed, Place, Installing, Linking
        <4> QED
          BY <1>1, <4>2, <4>3 DEF Usable, Whole, Has
      <3>5. CASE link' = link
        <4>1. disk'[link] # disk[link]
          BY <2>1, <3>5
        <4>2. job[j].goal = link /\ (ClearFile(j) \/ ClearDir(j) \/ Rename(j))
          BY <2>0, <2>2, <2>5, <3>3, <4>1, WorkTouches
        <4>3. pc[j] \in {"clear", "rename"}
          BY <4>2 DEF ClearFile, ClearDir, Rename
        <4> QED
          BY <1>1, <3>2, <4>2, <4>3 DEF Aimed, Installing, Staging, Linking
      <3> QED
        BY <3>4, <3>5
    <2>3. ASSUME NEW j \in Jobs, NEW p \in Procs, NEW kind \in Kinds, Begin(j, p, kind)
          PROVE  FALSE
      BY <2>1, <2>3 DEF Begin
    <2>4. ASSUME NEW p \in Procs, Crash(p)
          PROVE  FALSE
      BY <2>0, <2>1, <2>4, <2>5, CrashMoves DEF Dies
    <2>6. ~Publish /\ ~UNCHANGED vars
      BY <2>1 DEF Publish, vars
    <2> QED
      BY <1>1, <2>2, <2>3, <2>4, <2>6 DEF Next
  <1>2. IInv /\ [Next]_vars =>
          [Usable /\ ~Usable' =>
             \E j \in Jobs :
               /\ Active(j)
               /\ \/ job[j].kind = "remove"
                  \/ job[j].kind = "force" /\ job[j].goal = link
                  \/ ~Serial(j)]_vars
    BY <1>1
  <1> QED
    BY <1>2, Invariance, PTL DEF Spec, FailuresKeepThePrevious

\* Whoever ends, well or lost, does so by a step of its own.
LEMMA OwnEnd ==
  ASSUME IInv, [Next]_vars, NEW j \in Jobs, Active(j), pc'[j] \in {"ok", "lost"}
  PROVE  Work(j)
  <1>0. TypeOK
    BY DEF IInv
  <1>1. CASE Publish \/ UNCHANGED vars
    BY <1>1 DEF Publish, vars, Active, Ended
  <1>2. ASSUME NEW k \in Jobs, Work(k), k # j PROVE FALSE
    BY <1>0, <1>2, WorkMovesFields DEF Moves, Keeps, Active, Ended
  <1>3. ASSUME NEW k \in Jobs, NEW p \in Procs, NEW kind \in Kinds, Begin(k, p, kind)
        PROVE  FALSE
    BY <1>0, <1>3, BeginMoves DEF Joins, Keeps, Active, Ended
  <1>4. ASSUME NEW p \in Procs, Crash(p)
        PROVE  FALSE
    BY <1>0, <1>4, CrashMoves DEF Dies, Keeps, Active, Ended
  <1> QED
    BY <1>1, <1>2, <1>3, <1>4 DEF Next

\* An installation that is alone and reports success leaves `current' at a whole
\* version, the pinned one or else one no older than before.
THEOREM SuccessIsCurrent == Spec => OkMeansCurrent
  <1>1. ASSUME IInv, [Next]_vars, NEW j \in Jobs, Active(j), pc'[j] = "ok", Serial(j),
               pc[j] = "swap" \/ job[j].kind \in {"install", "force"}
        PROVE  /\ Usable'
               /\ IF config.pin # NoRelease
                    THEN link' = config.pin
                    ELSE link' >= link /\ (pc[j] = "swap" => link' = job[j].goal)
    <2>0. /\ TypeOK /\ Place(j) /\ Found(j) /\ Aimed(j) /\ Done(j) /\ Work(j)
          /\ DOMAIN pc = Jobs /\ link \in Nat
      BY <1>1, OwnEnd, Types DEF IInv, Placed, Alone
    <2>1. CASE Swap(j)
      <3>1. /\ pc[j] = "swap" /\ link' = tmp[job[j].proc] /\ disk' = disk
        BY <1>1, <2>0, <2>1 DEF Swap, Abandon, Finish, Goto
      <3>2. link' = job[j].goal /\ disk'[link'] = File /\ job[j].goal # NoRelease
        BY <2>0, <3>1 DEF Done, Place, Linking, Installing
      <3>3. job[j].goal \in Nat
        BY <2>0, Types DEF Knowledge, NoRelease
      <3> QED
        BY <2>0, <3>1, <3>2, <3>3 DEF Usable, Whole, Has, Aimed, Linking, Installing
    <2>2. CASE Decide(j)
      <3>1. /\ pc[j] = "decide" /\ job[j].seen # NoRelease /\ ~NeedsInstall(j)
            /\ UNCHANGED <<config, link, disk>>
        BY <1>1, <2>0, <2>2 DEF Decide, Goto, Disk
      <3>2. job[j].found = link /\ Usable
        BY <2>0, <3>1 DEF NeedsInstall, Found
      <3>3. config.pin # NoRelease => link = config.pin
        BY <3>1, <3>2 DEF NeedsInstall, Target
      <3> QED
        BY <2>0, <3>1, <3>2, <3>3 DEF Usable, Whole, Has
    <2>3. CASE ~Swap(j) /\ ~Decide(j)
      <3>1. pc[j] # "swap" /\ job[j].kind \in {"install", "force"}
        BY <1>1, <2>0, <2>3
           DEF Work, ResolveBin, ResolveVersion, DecideToAsk, Check, Fetch, Stage,
               WriteBin, WriteVersion, Write, VersionExists, ClearOpen, ClearFile, ClearDir, Rename,
               DropTmp, Symlink, Remove, Wipe, WipeEnd
      <3>2. pc[j] \notin {"check", "remove", "wipe"} /\ ~DecideToAsk(j)
        BY <1>1, <2>0, <3>1 DEF Place, DecideToAsk
      <3> QED
        BY <1>1, <2>0, <2>3, <3>2, Types
           DEF Work, ResolveBin, ResolveVersion, DecideToAsk, Check, Fetch, Stage,
               WriteBin, WriteVersion, Write, VersionExists, ClearOpen, ClearFile, ClearDir, Rename,
               DropTmp, Symlink, Remove, Wipe, WipeEnd, Finish, Abandon, Goto, Active, Ended
    <2> QED
      BY <2>1, <2>2, <2>3
  <1>2. IInv /\ [Next]_vars =>
          [\A j \in Jobs :
             /\ Active(j) /\ pc'[j] = "ok" /\ Serial(j)
             /\ \/ pc[j] = "swap"
                \/ job[j].kind \in {"install", "force"}
             => /\ Usable'
                /\ IF config.pin # NoRelease
                     THEN link' = config.pin
                     ELSE /\ link' >= link
                          /\ pc[j] = "swap" => link' = job[j].goal]_vars
    BY <1>1
  <1> QED
    BY <1>2, Invariance, PTL DEF Spec, OkMeansCurrent

\* No leftover of a crash or of a failed operation makes a later operation,
\* running alone, find what it does not expect.
THEOREM LeftoversHarmless == Spec => LeftoversAreNoObstacle
  <1>1. ASSUME IInv, [Next]_vars, NEW j \in Jobs, Active(j), pc'[j] = "lost", Serial(j)
        PROVE  FALSE
    <2>0. /\ TypeOK /\ Place(j) /\ Done(j) /\ Stages(j) /\ Clean(j) /\ Work(j)
          /\ DOMAIN pc = Jobs /\ job[j].left \in SUBSET File
      BY <1>1, OwnEnd, Types DEF IInv, Placed, Alone, Staged, Serial, Clean, Knowledge
    <2>1. CASE WriteBin(j) \/ WriteVersion(j)
      BY <1>1, <2>0, <2>1
         DEF WriteBin, WriteVersion, Write, Abandon, Finish, Goto, Stages, Absent
    <2>2. CASE ClearOpen(j)
      BY <1>1, <2>0, <2>2 DEF ClearOpen, Goto, Done
    <2>3. CASE ClearDir(j)
      BY <1>1, <2>0, <2>3 DEF ClearDir, Goto, Done
    <2>4. CASE Rename(j)
      BY <1>1, <2>0, <2>4 DEF Rename, Goto, Done, Stages, File, Absent
    <2>5. CASE Symlink(j)
      BY <1>1, <2>0, <2>5 DEF Symlink, Goto, Done, Linking, File, Absent
    <2>6. CASE Swap(j)
      BY <1>1, <2>0, <2>6 DEF Swap, Finish, Goto, Done, Place, Installing, Linking
    <2>7. CASE WipeEnd(j)
      BY <1>1, <2>0, <2>7 DEF WipeEnd, Finish, Goto, Serial
    <2> QED
      BY <1>1, <2>0, <2>1, <2>2, <2>3, <2>4, <2>5, <2>6, <2>7
         DEF Work, ResolveBin, ResolveVersion, DecideToAsk, Check, Fetch, Decide, Stage,
             VersionExists, ClearFile, DropTmp, Remove, Wipe, Finish, Abandon, Goto, Active, Ended
  <1>2. IInv /\ [Next]_vars =>
          [\A j \in Jobs : Active(j) /\ pc'[j] = "lost" => ~Serial(j)]_vars
    BY <1>1
  <1> QED
    BY <1>2, Invariance, PTL DEF Spec, LeftoversAreNoObstacle

\* However installations overlap, some of them failing, once they have ended
\* the module is usable.
THEOREM OverlapsSettle == Spec => []SettledIsUsable
  <1>1. ASSUME IInv PROVE SettledIsUsable
    BY <1>1 DEF IInv, Linked, Safe, Replacing, SettledIsUsable, Usable
  <1> QED
    BY <1>1, Invariance, PTL
=============================================================================
