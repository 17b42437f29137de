# cliphistory: a TLA+ model of the daemon

cliphistory records what passes through the desktop clipboard and gives it back.
`cliphistory serve` is a daemon; it runs *modules* as child processes (a clipboard
reader, a paster, a picker frontend), keeps the history in SQLite, and answers
one-line JSON requests on a Unix socket. This directory holds a model of its
concurrent and stateful parts, the TLC runs that check it on small instances, and
TLAPS proofs of its main invariants for every instance.

## The system

| component | state it keeps | operations | talks to |
|---|---|---|---|
| history store (`core/src/storage/`) | table `entries`, LRU payload cache, thumbnail files | insert or promote, prune by age / count / bytes, delete, clear, pin, read a payload | called by the main loop and by `slow-op` threads |
| main loop and dispatch (`core/src/engine/mod.rs`, `dispatch.rs`, `state.rs`, `actions.rs`) | one FIFO of `AppEvent`s, the registry of watchers | clipboard events, requests, notifications | store, watchers, module slots |
| subscriptions (`serve_history_watch`) | one thread and one `()` channel each | register, wake, read a snapshot, write it | registry, store, picker |
| supervision (`engine/supervisor.rs`, `plugins/process.rs`) | per slot: id, stdin sender, restart counter | spawn with retries, watch the exit, restart after a pause, give up | main loop, children |
| start and stop (`engine/mod.rs` `run`, `run_inner`, `shutdown`) | the socket file | probe, remove, set up, bind, unlink | other launches, clients |
| clipboard readers, paster (`modules/module-common`, `clipboard-*`, `paster-uinput`) | last hash, owned selection | sample, report, claim, paste | daemon, display server |
| picker (`modules/frontend-generic`) | the rows on screen, edits in flight | edit optimistically, resubscribe, redraw | daemon |
| installation (`plugins/install.rs`, `registry.rs`, `release.rs`) | version directories, `current` symlink | install, swap, uninstall, resolve | daemon start, CLI |
| discovery and bootstrap (`discovery/`, `engine/bootstrap.rs`) | what the present start knows | detect the session, rank, choose, download what is missing | daemon start, CLI, release source |
| auto-paste (`engine/actions.rs`, `paste.rs`, `modules/paster-uinput`) | a thread per delayed paste; the device and its keys | load, hand to the clipboard module, wait, play the chord | clipboard slot, paster slot, display server |
| CLI, wire types, configuration, rendering | none that others read | | |

What is hard in it:

* **Threads over one store.** The main loop and each open picker's thread use the
  store at once. A connection lock covers single statements; the cache has a lock of
  its own; several operations span both.
* **Threads over one queue.** A child's exit, its last frames, its restart timer,
  connections and shutdown arrive from different threads in one FIFO.
* **Wake-ups.** Subscribers are woken by `()` messages and read the history
  themselves; registration, mutation, notification and writing interleave.
* **Processes over one path.** Two launches race for one socket file, which also
  survives crashes.
* **Delays instead of acknowledgements.** Nothing tells the daemon that the selection
  has been claimed; the paste follows after a pause, through a sender cloned before it.
* **Two rankings.** A fresh machine chooses among what is published, every later start
  among what is installed, with other inputs and the same function.
* **Retention.** Three rules, pins, a clock with one-second ticks that may step back,
  and a loop that must stop.

What makes each component correct is listed with the runs below. `PROJECT.json` lists
every hazard at its source line.

## Modules

### Storage (`Storage`, `ContentCache`, `History`, `MCStorage`)

`Storage` is the store with its threads. `rows` is the table (id -> content, pin,
`created_at`), `lastId` the AUTOINCREMENT counter, `cache` the `ContentCache` (its own
module: the map, the recency order and the byte count), `thumbs` the files, `now` the
clock. Threads are the main loop (`Main`) and `Workers` (slow-op threads that pick,
delete and clear); each has a program counter `pc`, an argument register `arg`,
and, while it deletes, `victims` (whose cached copies are still to be evicted) and `todo`
(whose thumbnails are still to be removed). `conn` is the connection lock.

| code | actions |
|---|---|
| `insert` | `Store` or `Promote`, then `CacheInserted`, then `EnsureThumbnail` for images |
| `prune_with_budget` | `PruneAge`, `PruneCount`, `PruneBudget` (repeated), `PruneDone`; the connection is held throughout |
| `delete_where`, `delete`, `clear` | `Remove` in one step, then `RemoveThumb` once per victim, then `EvictVictims` |
| `content` | `CacheHit`, or `CacheMiss`, `ReadRow` / `ReadNothing`, `FillCache` |
| `set_pinned` | `SetPinned` |
| the clock; a crash and restart | `Tick` (either way); `Restart` (threads and cache gone, table and files kept, the first prune again) |

A payload is a model value with a size, and stands for its hash too. `mark_used` changes
counters no property reads; `history_items` is a read. `History` is the abstract
specification: entries that are captured or promoted, pinned, deleted, or dropped when
unpinned, atomically and under ids used once.

### Supervisor (`Supervisor`, `Lifecycle`)

One slot (clipboard or paster: the code is generic over the two). `loop` is where the
main loop is: in `start_impl` (`spawn`, with its attempts), in `recv`, or over. `queue`
is the part of `app_rx` that concerns the slot. Children are numbered in spawn order;
`pipe` holds the lines a child printed and the `module-stdout` and `events` threads have
not yet passed on. A death (`ChildDies`), its report (`ReportExit`), the timer
(`TimerFires`) and the forwarding of frames (`Forward`) are steps of different threads.
`Lifecycle` is the abstract specification: a slot that is starting, up, down, off or over, and the
number of children it has had. `Phase` says which of these a state of the threads is.

### Reader (`Reader`, `MCReader`)

A clipboard module of either backend (`platform`). `selection` is what the display server
holds, `notices` the events its watcher thread has not read, `wakes` the channel into
`run_event_loop`, which the stdin thread feeds too. A sample is `Sample` (which flavours are
offered) followed by `ReadPayload` (whoever owns the selection by then), so that the
selection can change between the two; both may fail, and on X11 a failing `xclip` passes for
an empty clipboard. `claims` are the detached threads that will take the selection for the
daemon. `seen` and `told` are what the properties speak of: whether the watcher was told of
the present selection, and the payload of the last Event frame. Error frames are left out: a
failed sample sets `failed` and changes nothing else. Wayland events are merged per dispatch,
X11 events are not; an X11 owner that exits is not announced.

### Dispatch (`Dispatch`, `MCDispatch`)

The main loop as clients see it. History is the number of mutations so far
(`version`), so that "who has the latest" is a comparison. A client connects, writes a
line, and may leave at any time. `loop.at` is `recv`, `read` (inside the blocking
`read_line`), `prune` (between an insertion and its prune), `notify` (between a mutation
and `notify_history_changed`) or `done`. `worker[c]` is the thread serving client `c`:
`picking` for Show; `register`, `wake`, `recv`, `push` for WatchHistory. `PickerEdits`
says whether a frontend may answer with Delete or Clear, `Silent` which clients may never
write their line, `Stalled` which may stop reading.

### Startup

Each launch of `cliphistory serve` is a process: `probe` (connect), `clean`
(`remove_file`), `setup` (database, prune, modules), `bind`, `serve`, then `stopping`
and `leaving`, or a crash anywhere. `path` is whose socket is at the socket path, dead or
alive. The accept thread runs until the process ends, so a stopping daemon still
accepts connections. `overlapped` is a history variable: some launch began while another
was starting.

### Install (`Install`, `MCInstall`)

The directory of one module (they share nothing): `disk` is what each version directory and
each job's staging directory holds, `link` the version that `current` names, `tmp` the
temporary link of each process. A job is a call of `ensure_available` or `uninstall`: by the
daemon's start, by a CLI command, or by one of the daemon's `slow-op` threads, so jobs may share
a process, and with it the temporary link's name. Every file system call that another process
can see is a step.

| code | actions |
|---|---|
| `resolve` (twice through the link: the binary, then VERSION) | `ResolveBin`, `ResolveVersion` |
| `ensure_available`, `modules update` | `DecideToAsk`, `Check`, `Fetch`, `Decide` |
| `install_from` | `Stage`, `WriteBin`, `WriteVersion`, `VersionExists`, `ClearOpen`, `ClearFile`, `ClearDir`, `Rename` |
| `swap_symlink` | `DropTmp`, `Symlink`, `Swap` |
| `uninstall` | `Remove`, `Wipe` (an entry at a time), `WipeEnd` |
| a release is published; a process dies | `Publish`; `Crash` |

A job ends `ok`, `failed` (the network, a full disk) or `lost` (a file system call found what the
code does not expect). `beside` is a history field: what ran, or went wrong, at the same time.

### Picker (`Picker`, `MCPicker`)

One window against the daemon's history. `copied` and `pins` are the daemon's order of entries and
of pins; `rows` is the list on the screen. Between them are `flight`, the edits in threads of their
own, and the subscription: `wake`, `pushed` (the socket), `last` (what the sync thread compares
with), `pending` (the channel to the window, of which only the latest counts).

| code | actions |
|---|---|
| `update` in `render.rs`: one frame | `Draw`, or one of `Move`, `Turn`, `Type`, `Pick`, `Toggle`, `Delete`, `Clear`, `Back`, `Leave`, each of which takes in `pending` first (`Drain`, `Kept`, `Current`) |
| `sync_history` | `Subscribe`, `SyncReads`, `SyncEnds` |
| `fire_and_forget` and the daemon's answer | `Asks`, then `Serve` or `Lose` |
| `serve_history_watch` | `Push` |
| other clients, outages | `Copy`, `EditElsewhere`, `StopDaemon`, `StartDaemon` |

An unpinned entry goes before the others in the window, whatever its copy's place, as the code
has it; the daemon's snapshot puts it right. The confirmation of clear-all changes nothing until
it is given, and is left out. The backoff is time.

### Discovery (`Discovery`, `MCDiscovery`)

Start after start of one machine. `daemon` is where the present start is and what it knows:
the session, what was installed (`infos`), the modules it wants (`desired`), what it still has to
fetch (`plan`). `disk` says of each module whether its binary is absent, broken (no answer to
`--manifest`, or another protocol) or good; `source` is the release server, with the modules it
has for each target triple. `cli` is a `modules install` without ids, which may run beside a start.

| code | operators and actions |
|---|---|
| `SessionType::detect`, the candidate lists | `DetectSession`, `Candidates` |
| `rank_candidates` (a stable sort by score, of which the head is all that is used) | `RankCandidates`, `FirstIn` |
| `select_target` | `SelectTarget` |
| `run_inner` up to the modules: configuration and session, `discover` | `Launch`, `List` |
| `resolve_desired`, `remote_rank`, for a kind at a time | `Pick` |
| the missing ones, `ensure_available` | `Plan` (`WantedBut`, `Missing`), `DaemonFetch`, `DaemonInstall` |
| `resolve_target_ids` and its download | `CliStart`, `CliFetch`, `CliInstall` |
| another session, tool, configuration, network; a module removed or outdated | `Change` |

A manifest is fetched anew for every question, and may fail each time by itself. How one version
is put in its place is `Install`. The order of `Ids` is the order of names, which is that of the
directory listing as the code sorts it.

### Paste (`Paste`, `MCPaste`)

`copy_entry` and everything after it. `call[c]` is the next statement of the call for copy `c`;
`frames` and `jobs` are the two children's channels with their pipes; `claims` the claim threads
(and, on X11, the `xclip` processes, which outlive the module); `owner` what each selection holds;
`timers` the auto-paste threads with the sender each of them cloned; `step` and `held` the chord
and the keys of the virtual keyboard. `asked` remembers which paster ran when the paste was
requested, `rivals` what raced with a copy since its request (other copies, an application's, the
end of the module), `missed` whose claim was lost or failed, `spoiled` which chords began with a
key down or were cut short. A paste records what it found, and in `late` whether the claim of its
own copy was still under way.

| code | actions |
|---|---|
| `copy_entry` | `Load` / `LoadNothing`, `SendToClipboard`, `TriggerAutoPaste` (with `Route`) |
| `run_event_loop` on `SetClipboard`; the claim threads | `HandleSet`; `ClaimRegular`, `ClaimPrimary` (Wayland), `StartXclip`, `XclipOwns` (X11), `ClaimFails` |
| `schedule_module`, `schedule_command` after the sleep | `Fire`, `RunCommand` |
| `Keyboard::create`, `serve`, `play`, `emit` | `PasterReady`, `EmitEvent` (an event of the chord at a time), `EmitFails`, `PasterStops` |
| exits, and what the supervisor makes of them | `ClipDies`, `ClipStops`, `PasterDies`; `ClipExited`, `RestartClip`, `PasterExited`, `RestartPaster` |
| another application; the end of the daemon | `AppCopies`; `Shutdown` |

Nothing orders a chord after its claim, in the code or in the model: a timer may fire as soon as it
is set, and the claim of its copy may take as long as it likes. `NothingStaleIsPasted` therefore
excepts the chord that strikes while its own claim is under way, and the copy whose claim was lost
or failed; both happen (see below). The keyboard is the kernel's: an event that does
not change a key is not passed on, and the window pastes when Insert goes down.

## Runs

| run | checks | bounds |
|---|---|---|
| `storage_serial` | entry count and byte budget are within their limits after a prune, as far as pins allow; the oldest unpinned go first, the pinned never; every prune ends; no deleted payload is served, no thumbnail outlives its row | no worker; three payloads of size 1, one an image, and one of size 3 that fills the byte budget alone and bypasses the cache; up to two ids given out by an earlier run, four in all; the clock moves both ways in 0..2 |
| `storage_races` | cache accounting, no payload under another's id, refinement of `History` (so one row per payload, no id used twice, and pins survive), the budget drops no entry too many: with the newest victim put back it would be exceeded again | the main loop and one worker, crashes anywhere; three payloads, three ids, one of them perhaps from an earlier run; three rows may meet a budget for three small ones, so that a prune has several victims; the clock moves both ways in 0..1 |
| `storage_stale` (violation) | `DeletedNotServed` fails beside a worker | the main loop and one worker, no crash |
| `supervisor` | one child and the one that is fed, a disabled slot is off, refinement of `Lifecycle` (so a start only at first and after a death, a bounded crash loop, and off for good), frames to the last, recovery, shutdown is heard | the real limits (3 spawn attempts, 5 restarts); two frames |
| `dispatch` | no lost wake-up, subscribers catch up, quick requests are answered | two subscribers (one may stall), one client with any other request, one copy, two mutations |
| `reader` | nothing missed by a reader at rest, a copy that stays is reported, an orphan ends at the next copy | two texts, an image and a selection without either; two changes by applications, one claim; the display and the daemon may go at any time |
| `startup` | launches that do not overlap leave one daemon, reachable, whatever socket a crash left | four launches: a crashed or stopped one, its successor, and two more that may overlap them |
| `install` | version directories appear whole, failures keep the previous version, ok means current, leftovers are no obstacle, overlapping installs settle on a usable version | two jobs at a time, in one process or two; two releases; one crash or uninstall; no pin, `auto_update`, or a pin of the older release |
| `picker` | keys act on what was shown, an unedited list is current, a reconnection undoes lost edits | two entries at first, one more id; two edits, one change by others, one outage; no filter, or one that matches a label and a row number |
| `discovery` | the best module of every kind is picked; an undisturbed start serves every kind it can; the next start agrees, without a network | the four modules of the repository; sessions of each type; no preference, the other session's module, a misspelt one, one of another kind; a source that is up, down, too new, or has no build of a module; every state of the clipboard modules' files; one disturbance at any moment |
| `wrong_session` (violation) | `NeverWrongSession` | the same, undisturbed |
| `paste` | nothing older than its request is pasted unless its own claim was late, lost or failed; a request pastes at most once, by the paster that was asked; keys are let go of; what was queued comes through | two copies; four set-ups: Wayland with the paster, X11 with `paste_command`, X11 with a keyboard nobody opens and a tool, Wayland without auto-paste; one mishap anywhere, and a stop |

Why the bounds are enough to be interesting: three ids let one entry be deleted, one be
pinned and one be captured afterwards, with room for every rule to have victims; rows an
earlier run left under more generous limits are the only way the pinned ones alone exceed
the budget, which is when a prune has nothing left to drop;
payload sizes cover under, at and over the limits, and the oversize bypass of the cache;
one worker suffices for each two-party race, and the proofs below remove the bound on workers; two
subscribers are needed to have one that stalls beside one that must not suffer from it; four
launches are needed for a start after a crash beside an overlapping pair; two releases are what an
upgrade needs, and one crash or uninstall leaves every kind of leftover for the jobs that follow;
two copies are what one needs to fall between another's request and its paste, and the safety
properties of `paste` were also checked with two mishaps and six set-ups (5.8 million states up to
the names of the copies) and are proved below for any number; a change
between two starts, or in the middle of one, is what tells a ranking that is used from one that was
used before.

A type invariant is stated in every module, and all of them are proved.

What `install` leaves out of `FailuresKeepThePrevious` is as much a result as what it checks: a
forced install of the active version removes that version before it puts the new copy in its
place, so a failure or a crash in between leaves `current` dangling, although
`docs/cli.md:170` says that failures leave the previous installation untouched.

What the violation runs show, in a sentence each:

* `storage_stale`: a payload enters the cache after the deletion of its row evicted it, and
  `CopyEntry` of the deleted id is answered from memory (comment at
  `core/src/storage/prune.rs:105`).
* `wrong_session`: on a fresh X11 machine without `xclip`, `clipboard-wayland` is downloaded and
  started, because `remote_rank` ranks every published module of the kind, and met requirements
  count before the session's candidates (`README.md:33-34`, `docs/configuration.md:125-126`). It stays
  after `xclip` is installed, since what is installed is never fetched again for want of another.

## Where the documents and the code differ

Met while modelling; the models follow the code.

* `core/src/engine/actions.rs:158`: a Delete or Clear answered by a frontend wakes no subscriber,
  although `proto/src/ipc.rs:40` promises a frame for every mutation. With `PickerEdits` TLC
  refutes `NoLostWakeup`; the `dispatch` run and the proofs assume `~PickerEdits`.
* `module-common/src/reader.rs:57` says that the loop runs "until `Stop`, EOF or watcher death"; it
  ends when both feeders are gone (line 97), so a module whose watcher lost the display waits for
  ever and is not restarted, and one whose daemon died ends at its next wake-up (`OrphanEndsAtNextCopy`).
* `docs/cli.md:30`: "Starting twice is refused while an instance is alive" holds for launches that do
  not overlap (`SerialStartsLeaveOne`); two that overlap may both pass the probe, and the later one
  removes the earlier one's socket (`engine/mod.rs:53`).
* `docs/configuration.md:115`: a preferred module "wins over ranking and is downloaded automatically
  if missing"; it is downloaded only if no module of its kind is installed and the session has
  candidates (not on a TTY).
* `docs/configuration.md:117`: `strict` is never read.
* `docs/configuration.md:139` and `:143`: `auto_update` and pins act when a module is missing or
  on `modules update`, not on every start.
* `core/src/cli/local.rs:134`: "whatever discovery would pick" is what discovery ranks first among
  what is installed; kinds with nothing installed are left out unless nothing at all is.
* `docs/configuration.md:67` and `core/src/paste.rs:67`: the delay is counted from the request, not from
  clipboard ownership, and nothing waits for the claim: the chord may come first (`late` in `Paste`).
* `docs/configuration.md:66`: the chord is played also when nothing was written back. A frame that could
  not be queued is logged (`engine/actions.rs:103` and `:106`), a claim that failed is reported, and
  `trigger_auto_paste` runs in either case (`missed` in `Paste`).
* `clipboard-wayland/src/main.rs:215`, `README.md:170`: CLIPBOARD and PRIMARY are claimed in two calls by
  a thread per request, so that after two requests each may hold another entry.
* `module-common/src/reader.rs:120`, `clipboard-wayland/src/main.rs:40`: an emptied clipboard should make
  the reader forget the hash, and be no error. On Wayland `sample` passes the error that stands for an
  empty clipboard on (`main.rs:62`), so the hash is kept and the same payload, copied again, is not
  reported.
* `docs/configuration.md:146`: an install is activated atomically by swapping `current`, except that a forced install of
  the active version removes that version first.
* `frontend-generic/src/gui/app.rs:208`: "the sync thread reconciles any difference within one interval";
  a snapshot equal to the last one received is dropped although the list was edited since, and there
  is no timer. `UneditedIsCurrent` and `ReconnectionReconciles` say how far it goes.
* `module-common/src/chord.rs:5-7`: PRIMARY is claimed beside the clipboard on Wayland only.

## Fairness

* `Storage`: the steps of a prune (`WF` on the main loop's prune and removal steps): a thread
  that holds a lock is scheduled. Nothing is assumed of workers, the clock or crashes.
* `Supervisor`: the main loop, the timer and every child's supervisor and forwarding threads
  are scheduled. Children may live for ever; spawns may fail every time.
* `Dispatch`: the main loop and the subscription threads are scheduled; a client that is not
  `Silent` writes its line or leaves; a `Stalled` one may block the thread that writes to it
  (and no other). The runs have no `Silent` client: `handle_conn` reads without a timeout on the main
  loop, and one that connects and says nothing would stop it for everybody. A picker may stay open for ever.
* `Reader`: the loop, the watcher and the stdin thread are scheduled, and the owner of a
  selection answers a read (the code sets no timeout). Claims may take for ever.
* `Startup`: a launch that is running continues. Nobody has to stop or crash.
* `Picker`: the sync thread, the subscription's thread and, while a row is shown, the next frame: a
  frame without rows does not ask for another. Nobody has to press a key.
* `Paste`: the clipboard module's loop (`HandleSet`), its claim threads and `xclip` (`Claiming`), the
  daemon's timers (`Timers`) and the paster's loop (`Playing`) are scheduled. Nothing is assumed of
  callers, children that exit, the supervisor or the user.
* `Install`, `Discovery`: none. Their properties are safety properties.

## Proofs

All theorems are proved by TLAPS for every value of the constants, under the named
assumptions of the modules (limits are naturals, `None` is not a member of the sets).

`StorageProofs`. The invariant `IInv` is `TypeOK`, `Carries` and `NeverAnotherPayload`.
`NeverAnotherPayload` alone is not inductive: a call that has read a row carries the
payload in its register until `FillCache`, so `Carries` says what the registers hold at each
label, and `TypeOK` that no register names an id that was never given out (or a fresh id
could turn an old copy into another entry's). One lemma per action shows
the invariant preserved. `TableSteps` then says what any step can do to the table; from it follow
`PinnedEntriesSurvive`, `DeletedIdsStayDead` and `Refinement` (`Spec => IsHistory`), and from
the refinement `Deduplicated`.

The cache's account needs sums and recency orders. `Tracked` says that `bytes` is the sum of the
sizes of what the map holds and that the order lists each of its ids once; every cache operation
keeps it (`CacheStaysAccounted`). The sums (`Total`) and what an eviction leaves of the order (`Retained`) are
recursive functions; that the recursion has the value it should, and what it computes, is proved by
taking a counterexample on a smallest set (`Minimal`, over the finite subsets of a set) or at a least
index (`Least`). Both lemmas follow from the library's facts about well-founded orders, without an
induction theorem. `Total`, `Retained` and the picker's `Only` are defined the way they are so
that this can be done.

`BudgetIsNotWasted` and `OldestEntriesGoFirst` are about the steps of a prune; `PruneReachesBothLimits` also needs
to know what a prune that has passed its first rules has reached while it holds the
connection (`PruneInv`). `DeletedIsForgotten` is under `Workers = {}`, the condition without which
`storage_stale` refutes it, and `ThumbnailsFollow` also under `~CanCrash`: `SerialInv` says which ids are still to be
evicted or unlinked at each label of the one thread.

`DispatchProofs`. `NoLostWakeup` needs to know that an entry of the registry belongs to a live
subscription or to a client that is gone (`RegistryIsOfSubscribers`), which in turn needs that
a connection is in the queue, with the loop, or with one thread, and never with two
(`ServedOnce`). `WakeupsAreNotLost` and `EditsAreAnnounced` assume `~PickerEdits`, the
condition without which TLC finds a lost wake-up; there is no bound on clients.

`ReaderProofs`. `NothingMissed` needs to know, half-way through a sample, that the selection still
has the flavour that was asked for or that a wake-up is on its way (`HalfSampled`), and that
the hash is set only for what was sent (`HashWasTold`). Every step of the platform, the
applications and the claims either leaves the selection alone or leaves a wake-up behind
(`Elsewhere`); only the two halves of a sample need more.

`InstallProofs`. The invariant is `TypeOK /\ Placed /\ Released /\ Spread /\ Staged /\ Listed /\ Linked /\
Alone`. `Placed` says which step a job of each kind can be at, `Released` that no
job and no link names a release that is not out, `Spread` what two jobs under way know of each other
(`beside`), `Staged` what a staging directory holds at each step, `Listed` that a directory being removed holds no
more than its remover has listed. `Linked` is the core: once a version was activated, and until something is
uninstalled or cut short by a crash (`sound`), `current` names a version that is whole or that a
job is about to replace. `Alone` says what a job nothing happened beside has found out and done so
far, step by step. The six theorems follow for any
number of jobs, processes and releases. A step of a job is first shown to be one of a few `Moves`
of the fields, so that each conjunct looks at the steps it speaks of and no others.

`PickerProofs`. `PickerTypeCorrect` carries more than types: no entry is twice in the history, in a snapshot on its
way, or in the window, whatever is pinned, toggled, deleted or copied again, which is what makes
an id enough to find a row. `UneditedIsCurrent` becomes inductive with two facts that
meet in the sync thread: a subscriber without a wake-up coming has been sent the present
history (`Announced`), and what it received last is in the channel or in the window unless the user
has edited the window since (`Received`); a snapshot dropped for its fingerprint was there already.
`KeysActOnWhatWasShown` compares the row the code computes (`Entry`) with the entry that was meant, case by
case.

`StartProofs` holds the proofs of `Startup` and of `Discovery`. In `Startup`, while no launches overlapped, at most one is starting (`OneStarts`), a launch
beyond its probe is alone (`StartsAlone`) and whoever listens owns the path
(`ListenerOwnsPath`). `SerialStartsLeaveOne` and `SerialStartsAreReachable` follow for any number of
launches and crashes.

In `Discovery` the lemmas come first: what is first in a list (`FirstInList`, `FirstStandsBefore`), that the
least penalty and the first of those who have it is the module that beats all others in the order of
`docs/configuration.md` (`Ranked`), and that the list of missing modules has every pick but those that are there
(`WantedButSome`). `BestModuleIsPicked` follows from them and the types, for any
modules, candidates, preferences, tools and releases. The two invariants are about a whole start, and
then about the next. `CalmInv` says what a start that nothing disturbs may rely on: the
configuration, the session and the published modules are those it read, each pick made so far is what
anybody would pick who found what it found (`PickFor`), and what is installed now is what was found and
the picks that are published (`Due`), less those it has still to install. `CalmStartsServe` is
read off its end. `RestartsAreQuiet` needs to know that what was downloaded does not
change the pick although it is now ranked as installed: at the end of a calm start
that served every kind, all that was downloaded of a kind is its pick (`ServedIsSettled`), so the kind is settled
(`SettledFor`): the same pick, and a module of it is installed or the session asks for none.
`BeforeInv` carries that through the next start until something changes.

`SupervisorProofs`. A slot has one token: a start that is going on or on its way (`Pending`), or a
child that lives or whose exit has not been handled (`Lives`). `OneToken` says that there is never a
second one: at most one timer, at most one exit or restart in the queue, none of them beside
a watched child. `Paid` ties children to deaths that were counted: every start but the first was
paid for, and every death that was answered paid for one, so that `CrashLoopBounded` follows from the limit
(no run checks it: it is part of what `IsLifecycle` says); `Followed` says that the sender is that of the watched child, which gives `ChildIsReachable`; and `DisabledIsOff` is inductive once the
token is known. `EnabledIsAttended` is what recovery needs besides fairness: an enabled slot has a token.
`Refinement` (`Spec => IsLifecycle`) maps each step of a thread to a step of the phases or to none; the equalities
of `Paid` are what makes the counter of deaths, which decides, agree with the number of children.

`PasteProofs`. Each of the three safety properties is one part of the invariant with what it rests on.
`Keyboard` follows the chord: what is held at each step, and that a chord begun from released
keys has pasted once its Insert is down. `Once` puts every request in one place: its timer, a job of
the paster it was meant for, or what has been pasted; a job carries the number of the child, which
is why a successor can never play it. `Owned` speaks of the copies whose paste is still to come and
that were not missed: every claim under way is the copy's own or a rival's, and once its own is over, so is what the
selections hold (`Fresh`); `Unsent` adds that no claim is under way before its request. A chord whose
claim is still under way is `late` by definition, so that nothing is assumed about time. There is no bound on copies, set-ups or mishaps.

Only model-checked: everything about progress (`PruneTerminates`, `LastWordsRecorded`, `Recovers`,
`StopIsHeard`, `SubscribersCatchUp`, `EveryRequestAnswered`, `SettledIsReported`,
`OrphanEndsAtNextCopy`, `StaleSocketIsNoObstacle`, `ReconnectionReconciles`, `CopiesComeThrough`), since
liveness under fairness is beyond the prover. Every safety property that a passing run checks is proved.

## Not modelled

* Serialisation, rendering, fonts, key names, configuration parsing, logging: no state that
  other components read. The configuration is read once per process; its limits are CONSTANTS,
  its choices the configurations of `Discovery` and the set-ups of `Paste`.
* The distribution and its install hints (`discovery/distro.rs`): text for `doctor`.
* The tools of `paste.rs` one by one: they are one command that pastes or fails.
* Failing SQL statements and a poisoned lock: the calls return the error and change nothing.
* `history_items` and `content_head` as separate reads: a snapshot is one read.
* A quick answer larger than the socket buffer, written to a client that does not read: it
  blocks the main loop as a silent client does.
* Mouse clicks in the picker, which act on the row indices of the frame they were drawn in.
* `pump_output` or a thread failing to start.

## Plan

1. Done: Storage and Supervisor with their refinements; Dispatch, Reader, Startup, Install, Picker, Discovery
   and Paste, each with its run; proofs of every safety property the runs check.
2. Composition of `Picker` and `Dispatch`: edits of one window that reach another.
3. `Install` has no abstract specification: what it would promise (a link that names a whole version, except
   for the losses that are excused) is what `FailuresKeepThePrevious` and `SettledIsUsable` say.
