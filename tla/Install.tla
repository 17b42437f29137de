------------------------------- MODULE Install -------------------------------
(***************************************************************************)
(* The versions of one module on disk (core/src/plugins: ensure_available, *)
(* install_from, swap_symlink, uninstall and resolve) and the operations   *)
(* that meet there: threads of the daemon, its start, and CLI processes.   *)
(* Every file system call that another process can see or that can fail is *)
(* a step.  Modules have directories of their own, so one is enough.  The  *)
(* local_dir layout has neither versions nor a link.                       *)
(***************************************************************************)
EXTENDS Integers, FiniteSets

CONSTANTS
  Procs,        \* processes: the daemon, the CLI
  Jobs,         \* operations that may run at a time
  LastRelease,  \* bound: how many releases are ever published
  Configs,      \* [pin, auto] of the configurations considered
  MaxMishaps    \* bound: crashes and uninstalls in a behaviour

Releases == 1 .. LastRelease
NoRelease == 0

\* What resolve makes of a module without its VERSION file.
Unversioned == -1

ASSUME ReleasesAssumption == LastRelease \in Nat \ {0}
ASSUME MishapsAssumption == MaxMishaps \in Nat
ASSUME JobsAssumption == Jobs \cap Releases = {} /\ Procs # {}
ASSUME ConfigsAssumption ==
  Configs \subseteq [pin : Releases \cup {NoRelease}, auto : BOOLEAN]
VARIABLES
  config,  \* [modules]: pin and auto_update
  latest,  \* the newest release of the source
  idDir,   \* modules/<id> exists
  disk,    \* the files of each version directory and of each job's staging one
  link,    \* the version `current` names
  tmp,     \* the version current.tmp.<pid> names
  mishaps, \* crashes and uninstalls so far
  sound,   \* history: activated, and neither crashed nor uninstalled since
  pc,      \* where each job is, or how it ended
  job      \* what each job knows

vars == <<config, latest, idDir, disk, link, tmp, mishaps, sound, pc, job>>

\* manifest.json is written beside these and read by nobody.
File == {"bin", "VERSION"}

\* No such directory.
Absent == {"absent"}

Kinds == {"start", "install", "force", "update", "remove"}

\* lost: a file system call found something it did not expect.
Ended == {"ok", "failed", "lost"}

Steps == {"resolve", "version", "decide", "check", "fetch", "stage", "writeBin",
          "writeVersion", "exists", "open", "clear", "rename", "dropTmp", "symlink", "swap",
          "remove", "wipe"}

NoProc == "none"

\* beside: what ran, or went wrong, at the same time.
Blank == [kind |-> "install", proc |-> NoProc, seen |-> NoRelease, found |-> NoRelease,
          goal |-> NoRelease, left |-> {}, beside |-> "nothing"]

TypeOK ==
  /\ config \in Configs /\ latest \in Releases /\ idDir \in BOOLEAN
  /\ disk \in [Releases \cup Jobs -> (SUBSET File) \cup {Absent}]
  /\ link \in Releases \cup {NoRelease}
  /\ tmp \in [Procs -> Releases \cup {NoRelease}] /\ sound \in BOOLEAN
  /\ mishaps \in 0 .. MaxMishaps
  /\ pc \in [Jobs -> Ended \cup Steps]
  /\ job \in [Jobs -> [kind : Kinds, proc : Procs \cup {NoProc}, seen : Releases \cup {NoRelease},
                       found : Releases \cup {NoRelease, Unversioned},
                       goal : Releases \cup {NoRelease}, left : SUBSET File,
                       beside : {"nothing", "installs", "damage"}]]

Active(j) == pc[j] \notin Ended

Has(r, f) == r # NoRelease /\ f \in disk[r]

Whole(r) == \A f \in File : Has(r, f)

\* resolve finds a module that runs, and knows its version.
Usable == Whole(link)

\* An earlier installation of the first release, or none.
Init ==
  /\ config \in Configs /\ latest = 1
  /\ idDir \in BOOLEAN
  /\ link = IF idDir THEN 1 ELSE NoRelease
  /\ disk = [n \in Releases \cup Jobs |-> IF idDir /\ n = 1 THEN File ELSE Absent]
  /\ tmp = [p \in Procs |-> NoRelease]
  /\ sound = idDir /\ mishaps = 0
  /\ pc = [j \in Jobs |-> "ok"]
  /\ job = [j \in Jobs |-> Blank]

Goto(j, label) == pc' = [pc EXCEPT ![j] = label]

\* Dropping the TempDir removes what is left of the staging directory.
Finish(j, outcome) ==
  /\ Goto(j, outcome)
  /\ job' = [job EXCEPT ![j] = Blank]

Abandon(j, outcome) ==
  /\ Finish(j, outcome)
  /\ disk' = [disk EXCEPT ![j] = Absent]
  /\ UNCHANGED <<config, latest, idDir, link, tmp, mishaps, sound>>

Disk == <<config, latest, idDir, disk, link, tmp, mishaps, sound>>

-----------------------------------------------------------------------------
(* Requests, and the source                                                *)

Publish ==
  /\ latest < LastRelease
  /\ latest' = latest + 1
  /\ UNCHANGED <<config, idDir, disk, link, tmp, mishaps, sound, pc, job>>

\* Damage spreads: who starts beside a job that may fail half way may find
\* what it leaves.
BesideOf(others) ==
  CASE others = {} -> "nothing"
    [] \E o \in others : job[o].kind = "remove" \/ job[o].beside = "damage" -> "damage"
    [] OTHER -> "installs"

Worse(beside, kind) == IF kind = "remove" \/ beside = "damage" THEN "damage" ELSE "installs"

\* A daemon resolves its modules before it serves anybody, and `modules
\* update' lists them before it asks the source.
Begin(j, p, kind) ==
  LET others == {k \in Jobs \ {j} : Active(k)}
      mates  == {k \in others : job[k].proc = p}
  IN /\ ~Active(j)
     /\ kind = "start" => mates = {}
     /\ \A k \in mates : job[k].kind # "start"
     /\ Goto(j, CASE kind \in {"start", "update"}  -> "resolve"
                  [] kind \in {"install", "force"} -> "fetch"
                  [] kind = "remove"               -> "remove")
     /\ job' = [k \in Jobs |->
                  CASE k = j         -> [Blank EXCEPT !.kind = kind, !.proc = p,
                                                      !.beside = BesideOf(others)]
                    [] k \in others -> [job[k] EXCEPT !.beside = Worse(@, kind)]
                    [] OTHER        -> job[k]]
     /\ sound' = (sound /\ kind # "remove")
     /\ mishaps' = IF kind = "remove" THEN mishaps + 1 ELSE mishaps
     /\ mishaps' <= MaxMishaps
     /\ UNCHANGED <<config, latest, idDir, disk, link, tmp>>

-----------------------------------------------------------------------------
(* resolve looks through `current' twice, and it may be swapped in between *)

ResolveBin(j) ==
  /\ pc[j] = "resolve"
  /\ Goto(j, IF Has(link, "bin") THEN "version" ELSE "decide")
  /\ job' = [job EXCEPT ![j].found = NoRelease]
  /\ UNCHANGED Disk

ResolveVersion(j) ==
  /\ pc[j] = "version"
  /\ Goto(j, "decide")
  /\ job' = [job EXCEPT ![j].found = IF Has(link, "VERSION") THEN link ELSE Unversioned]
  /\ UNCHANGED Disk

-----------------------------------------------------------------------------
(* ensure_available                                                        *)

\* The start installs only what it cannot resolve; update looks at what is
\* installed.
DecideToAsk(j) ==
  /\ pc[j] = "decide" /\ job[j].seen = NoRelease
  /\ IF (job[j].kind = "start") = (job[j].found = NoRelease)
       THEN Goto(j, IF job[j].kind = "start" THEN "fetch" ELSE "check") /\ UNCHANGED job
       ELSE Finish(j, "ok")
  /\ UNCHANGED Disk

\* `modules update' forces what differs from the latest release.
Check(j) ==
  /\ pc[j] = "check"
  /\ \/ Finish(j, "failed")
     \/ job[j].found = latest /\ Finish(j, "ok")
     \/ /\ job[j].found # latest
        /\ Goto(j, "fetch")
        /\ job' = [job EXCEPT ![j].kind = "force"]
  /\ UNCHANGED Disk

Fetch(j) ==
  /\ pc[j] = "fetch"
  /\ \/ Finish(j, "failed")
     \/ Goto(j, "resolve") /\ job' = [job EXCEPT ![j].seen = latest]
  /\ UNCHANGED Disk

TargetLatest(j) == job[j].seen

Target(j) == IF config.pin # NoRelease THEN config.pin ELSE job[j].seen

NeedsInstall(j) ==
  \/ job[j].kind = "force"
  \/ job[j].found \in {NoRelease, Unversioned}
  \/ job[j].found # Target(j) /\ (config.auto \/ config.pin # NoRelease)

Decide(j) ==
  /\ pc[j] = "decide" /\ job[j].seen # NoRelease
  /\ IF NeedsInstall(j)
       THEN /\ Goto(j, "stage")
            /\ job' = [job EXCEPT ![j].goal = Target(j), ![j].seen = NoRelease,
                                  ![j].found = NoRelease]
       ELSE Finish(j, "ok")
  /\ UNCHANGED Disk

-----------------------------------------------------------------------------
(* install_from                                                            *)

\* Downloads, of the pin's manifest if need be and of the binary, and their
\* checks come before anything is touched.
Stage(j) ==
  /\ pc[j] = "stage"
  /\ \/ /\ job[j].goal <= latest
        /\ idDir' = TRUE
        /\ disk' = [disk EXCEPT ![j] = {}]
        /\ Goto(j, "writeBin")
        /\ UNCHANGED <<config, latest, link, tmp, mishaps, sound, job>>
     \/ Abandon(j, "failed")

\* An uninstall may have taken the staging directory away; the disk may be full.
Write(j, f, label, then) ==
  /\ pc[j] = label
  /\ \/ /\ disk[j] # Absent
        /\ disk' = [disk EXCEPT ![j] = @ \cup {f}]
        /\ Goto(j, then)
        /\ UNCHANGED <<config, latest, idDir, link, tmp, mishaps, sound, job>>
     \/ disk[j] # Absent /\ Abandon(j, "failed")
     \/ disk[j] = Absent /\ Abandon(j, "lost")

WriteBinLast(j) == Write(j, "bin", "writeBin", "exists")

WriteBin(j) == Write(j, "bin", "writeBin", "writeVersion")
WriteVersion(j) == Write(j, "VERSION", "writeVersion", "exists")

VersionExists(j) ==
  /\ pc[j] = "exists"
  /\ Goto(j, IF disk[job[j].goal] # Absent THEN "open" ELSE "rename")
  /\ UNCHANGED <<Disk, job>>

\* remove_dir_all lists the directory it opened and removes what it listed,
\* whatever others have removed by then.
ClearOpen(j) ==
  /\ pc[j] = "open"
  /\ IF disk[job[j].goal] = Absent
       THEN Abandon(j, "lost")
       ELSE /\ job' = [job EXCEPT ![j].left = disk[job[j].goal]]
            /\ Goto(j, "clear")
            /\ UNCHANGED Disk

ClearFile(j) ==
  /\ pc[j] = "clear"
  /\ \E f \in job[j].left :
       /\ job' = [job EXCEPT ![j].left = @ \ {f}]
       /\ disk' = IF Has(job[j].goal, f) THEN [disk EXCEPT ![job[j].goal] = @ \ {f}]
                                         ELSE disk
  /\ UNCHANGED <<config, latest, idDir, link, tmp, mishaps, sound, pc>>

ClearDir(j) ==
  /\ pc[j] = "clear" /\ job[j].left = {}
  /\ IF disk[job[j].goal] \in {{}, Absent}
       THEN /\ disk' = [disk EXCEPT ![job[j].goal] = Absent]
            /\ Goto(j, "rename")
            /\ UNCHANGED <<config, latest, idDir, link, tmp, mishaps, sound, job>>
       ELSE Abandon(j, "lost")

\* rename takes the place of nothing or of an empty directory.  Who was
\* clearing that one still has it open, and finds no more files in it.
Rename(j) ==
  LET goal == job[j].goal
  IN /\ pc[j] = "rename"
     /\ IF disk[j] # Absent /\ disk[goal] \in {{}, Absent}
          THEN /\ disk' = [disk EXCEPT ![goal] = disk[j], ![j] = Absent]
               /\ job' = [k \in Jobs |-> IF job[k].goal = goal
                                           THEN [job[k] EXCEPT !.left = {}] ELSE job[k]]
               /\ Goto(j, "dropTmp")
               /\ UNCHANGED <<config, latest, idDir, link, tmp, mishaps, sound>>
          ELSE Abandon(j, "lost")

-----------------------------------------------------------------------------
(* swap_symlink.  Jobs of one process share the temporary name.            *)

DropCurrent(j) ==
  /\ pc[j] = "dropTmp"
  /\ link' = NoRelease
  /\ tmp' = [tmp EXCEPT ![job[j].proc] = NoRelease]
  /\ Goto(j, "symlink")
  /\ UNCHANGED <<config, latest, idDir, disk, mishaps, sound, job>>

KeepTmp(j) ==
  /\ pc[j] = "dropTmp"
  /\ Goto(j, "symlink")
  /\ UNCHANGED <<Disk, job>>

DropTmp(j) ==
  /\ pc[j] = "dropTmp"
  /\ tmp' = [tmp EXCEPT ![job[j].proc] = NoRelease]
  /\ Goto(j, "symlink")
  /\ UNCHANGED <<config, latest, idDir, disk, link, mishaps, sound, job>>

Symlink(j) ==
  /\ pc[j] = "symlink"
  /\ IF disk[job[j].goal] # Absent /\ tmp[job[j].proc] = NoRelease
       THEN /\ tmp' = [tmp EXCEPT ![job[j].proc] = job[j].goal]
            /\ Goto(j, "swap")
            /\ UNCHANGED <<config, latest, idDir, disk, link, mishaps, sound, job>>
       ELSE Abandon(j, "lost")

SwapOrUndo(j) ==
  /\ pc[j] = "swap"
  /\ IF tmp[job[j].proc] # NoRelease
       THEN /\ link' = tmp[job[j].proc]
            /\ tmp' = [tmp EXCEPT ![job[j].proc] = NoRelease]
            /\ Finish(j, "ok")
            /\ sound' = (sound \/ \A k \in Jobs : job[k].beside # "damage")
            /\ UNCHANGED <<config, latest, idDir, disk, mishaps>>
       ELSE /\ disk' = [disk EXCEPT ![job[j].goal] = Absent]
            /\ Finish(j, "lost")
            /\ UNCHANGED <<config, latest, idDir, link, tmp, mishaps, sound>>

Swap(j) ==
  /\ pc[j] = "swap"
  /\ IF tmp[job[j].proc] # NoRelease
       THEN /\ link' = tmp[job[j].proc]
            /\ tmp' = [tmp EXCEPT ![job[j].proc] = NoRelease]
            /\ Finish(j, "ok")
            /\ sound' = (sound \/ \A k \in Jobs : job[k].beside # "damage")
            /\ UNCHANGED <<config, latest, idDir, disk, mishaps>>
       ELSE Abandon(j, "lost")

-----------------------------------------------------------------------------
(* uninstall                                                               *)

Remove(j) ==
  /\ pc[j] = "remove"
  /\ IF idDir THEN Goto(j, "wipe") /\ UNCHANGED job ELSE Finish(j, "failed")
  /\ UNCHANGED Disk

\* remove_dir_all of the module's directory, one entry at a time.
Wipe(j) ==
  /\ pc[j] = "wipe"
  /\ \/ link # NoRelease /\ link' = NoRelease /\ UNCHANGED <<disk, tmp>>
     \/ \E p \in Procs : /\ tmp[p] # NoRelease
                         /\ tmp' = [tmp EXCEPT ![p] = NoRelease]
                         /\ UNCHANGED <<disk, link>>
     \/ \E n \in Releases \cup Jobs :
          /\ disk[n] # Absent
          /\ \/ disk[n] = {} /\ disk' = [disk EXCEPT ![n] = Absent]
             \/ \E f \in disk[n] : disk' = [disk EXCEPT ![n] = @ \ {f}]
          /\ UNCHANGED <<link, tmp>>
  /\ UNCHANGED <<config, latest, idDir, mishaps, sound, pc, job>>

\* What another job made after the directory was listed stays behind, and
\* the directory with it.
WipeEnd(j) ==
  LET empty == /\ link = NoRelease /\ \A p \in Procs : tmp[p] = NoRelease
               /\ \A n \in Releases \cup Jobs : disk[n] = Absent
  IN /\ pc[j] = "wipe"
     /\ IF empty THEN idDir' = FALSE /\ Finish(j, "ok")
                 ELSE job[j].beside # "nothing" /\ UNCHANGED idDir /\ Finish(j, "lost")
     /\ UNCHANGED <<config, latest, disk, link, tmp, mishaps, sound>>

-----------------------------------------------------------------------------
(* A process dies, and its jobs with it.  Staging directories it leaves    *)
(* behind have names that are never used again.                            *)
Crash(p) ==
  LET killed == {j \in Jobs : Active(j) /\ job[j].proc = p}
  IN /\ killed # {} /\ mishaps < MaxMishaps
     /\ mishaps' = mishaps + 1
     /\ pc' = [j \in Jobs |-> IF j \in killed THEN "failed" ELSE pc[j]]
     /\ job' = [j \in Jobs |->
                  CASE j \in killed -> Blank
                    [] Active(j) /\ j \notin killed -> [job[j] EXCEPT !.beside = "damage"]
                    [] OTHER -> job[j]]
     /\ disk' = [n \in DOMAIN disk |-> IF n \in killed THEN Absent ELSE disk[n]]
     /\ sound' = FALSE
     /\ UNCHANGED <<config, latest, idDir, link, tmp>>

Work(j) ==
  \/ ResolveBin(j) \/ ResolveVersion(j)
  \/ DecideToAsk(j) \/ Check(j) \/ Fetch(j) \/ Decide(j)
  \/ Stage(j) \/ WriteBin(j) \/ WriteVersion(j) \/ VersionExists(j)
  \/ ClearOpen(j) \/ ClearFile(j) \/ ClearDir(j) \/ Rename(j)
  \/ DropTmp(j) \/ Symlink(j) \/ Swap(j)
  \/ Remove(j) \/ Wipe(j) \/ WipeEnd(j)

Next ==
  \/ Publish
  \/ \E j \in Jobs : Work(j) \/ \E p \in Procs, kind \in Kinds : Begin(j, p, kind)
  \/ \E p \in Procs : Crash(p)

Spec == Init /\ [][Next]_vars

-----------------------------------------------------------------------------
(* Properties                                                              *)

Serial(j) == job[j].beside = "nothing"

\* A version directory comes into being with all its files, or not at all,
\* unless an uninstall takes some away before: readers never find one half
\* written.
PublishedWhole ==
  [][\A r \in Releases :
       ~(disk'[r] \subseteq disk[r]) =>
         \/ disk'[r] \in {Absent, File}
         \/ \E j \in Jobs : job[j].goal = r /\ job[j].beside = "damage"]_vars

\* What failures may take away: a module that could be used stays usable,
\* whatever fails or crashes, unless it is uninstalled, a forced install
\* replaces the very version that is active, or operations overlap.
FailuresKeepThePrevious ==
  [][Usable /\ ~Usable' =>
       \E j \in Jobs :
         /\ Active(j)
         /\ \/ job[j].kind = "remove"
            \/ job[j].kind = "force" /\ job[j].goal = link
            \/ ~Serial(j)]_vars

\* An installation that reports success, alone, has left `current' at a whole
\* version: the pinned one, or else the one it set out for, and never an older
\* one than before.
OkMeansCurrent ==
  [][\A j \in Jobs :
       /\ Active(j) /\ pc'[j] = "ok" /\ Serial(j)
       /\ \/ pc[j] = "swap"
          \/ job[j].kind \in {"install", "force"}
       => /\ Usable'
          /\ IF config.pin # NoRelease
               THEN link' = config.pin
               ELSE /\ link' >= link
                    /\ pc[j] = "swap" => link' = job[j].goal]_vars

\* Nothing that a crash or a failed operation left behind, a half removed
\* version, a temporary link, makes a later operation fail.
LeftoversAreNoObstacle ==
  [][\A j \in Jobs : Active(j) /\ pc'[j] = "lost" => ~Serial(j)]_vars

\* However installations overlap, some of them failing, once they have ended
\* the module is usable.
SettledIsUsable == sound /\ (\A j \in Jobs : ~Active(j)) => Usable
=============================================================================
