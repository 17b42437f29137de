------------------------------ MODULE Storage -------------------------------
(***************************************************************************)
(* The daemon's Storage (core/src/storage/): an SQLite table behind one    *)
(* mutex (`conn`), a payload cache behind another, and a directory of      *)
(* thumbnail files behind none.  The engine's main loop and the slow-op    *)
(* workers call it concurrently; a step is one critical section or one     *)
(* file operation, so every gap between `drop(conn)` and the next lock is  *)
(* a place where another thread may run.                                   *)
(*                                                                         *)
(* `conn` is a variable only because pruning holds the mutex across steps: *)
(* every other holder takes and drops it within a step.                    *)
(***************************************************************************)
EXTENDS ContentCache, FiniteSets

CONSTANTS
  Main,         \* the engine's event-loop thread
  Workers,      \* slow-op worker threads
  None,
  Images,       \* payloads of kind image
  MaxItemSize,  \* max_item_size
  MaxEntries,   \* max_entries, 0 = unlimited
  MaxAge,       \* max_age_days in clock units, 0 = keep forever
  MaxTotal,     \* max_total_bytes, 0 = unlimited
  CanCrash,     \* whether the daemon may die and be started again
  MaxKept,      \* bound: ids an earlier run gave out
  MaxId,        \* bound: ids given out
  MaxClock      \* bound: wall-clock seconds

ASSUME ThreadAssumption == Main \notin Workers
ASSUME KindAssumption   == Images \subseteq Contents
ASSUME NoneAssumption   == None \notin Contents /\ None # Main
ASSUME LimitAssumption  ==
  /\ {MaxItemSize, MaxEntries, MaxAge, MaxTotal, MaxKept, MaxId, MaxClock} \subseteq Nat
  /\ CanCrash \in BOOLEAN

VARIABLES
  rows,     \* table entries: id -> [content, pinned, created]
  lastId,   \* sqlite_sequence: the largest id AUTOINCREMENT gave out
  now,      \* wall clock; it may be stepped backwards
  cache,    \* the ContentCache
  thumbs,   \* payloads whose <hash>.png exists
  conn,     \* holder of the connection mutex across steps, or None
  pc,       \* where each thread is in its call
  arg,      \* the entry a thread is inserting or reading: [id, content]
  victims,  \* rows a thread has deleted but not yet evicted: [id, content]
  todo,     \* victims whose thumbnail is still to be removed
  then      \* where a thread continues after its current sub-call

vars  == <<rows, lastId, now, cache, thumbs, conn, pc, arg, victims, todo, then>>
regs  == <<arg, victims, todo, then>>

Threads == {Main} \cup Workers
NoArg   == [id |-> 0, content |-> None]
Row     == [content : Contents, pinned : BOOLEAN, created : Nat]
Victim  == [id : 1..lastId, content : Contents]
PCs     == {"off", "idle", "put", "thumb", "prune", "count", "budget",
            "unlink", "evict", "disk", "fill"}
Continuations == {"idle", "prune", "count", "budget"}

Ids(vs)   == {v.id : v \in vs}
Unpinned  == {id \in DOMAIN rows : ~rows[id].pinned}
Stored(c) == \E id \in DOMAIN rows : rows[id].content = c
RowBytes(ids) == Total([id \in DOMAIN rows |-> Size[rows[id].content]], ids)

TypeOK ==
  /\ lastId \in Nat /\ now \in Nat
  /\ DOMAIN rows \subseteq 1..lastId
  /\ \A id \in DOMAIN rows : rows[id] \in Row
  /\ DOMAIN cache.map \subseteq 1..lastId
  /\ \A id \in DOMAIN cache.map : cache.map[id] \in Contents
  /\ thumbs \subseteq Images
  /\ conn \in {Main, None}
  /\ pc \in [Threads -> PCs]
  /\ arg \in [Threads -> [id : 0..lastId, content : Contents \cup {None}]]
  /\ victims \in [Threads -> SUBSET Victim]
  /\ todo \in [Threads -> SUBSET Victim]
  /\ then \in [Threads -> Continuations]

-----------------------------------------------------------------------------
(* Init: the database an earlier run left, perhaps under other limits;     *)
(* run_inner prunes before any worker can exist.                           *)

Inherited == [content : Contents, pinned : BOOLEAN, created : {0}]

Init ==
  /\ lastId \in 0..MaxKept
  /\ \E ids \in SUBSET (1..lastId) : rows \in [ids -> Inherited]
  /\ \A i, j \in DOMAIN rows : rows[i].content = rows[j].content => i = j
  /\ thumbs \in SUBSET {c \in Images : Stored(c)}
  /\ now = 0 /\ cache = EmptyCache /\ conn = None
  /\ pc = [t \in Threads |-> IF t = Main THEN "prune" ELSE "off"]
  /\ arg = [t \in Threads |-> NoArg]
  /\ victims = [t \in Threads |-> {}]
  /\ todo = [t \in Threads |-> {}]
  /\ then = [t \in Threads |-> "idle"]

Goto(t, label) == pc' = [pc EXCEPT ![t] = label]

\* Start a call: the thread is free and nobody holds the connection.
Enter(t) == pc[t] = "idle" /\ conn = None

\* What `SELECT id, hash` keeps of rows about to be deleted.
AsVictims(ids) == {[id |-> id, content |-> rows[id].content] : id \in ids}

\* Delete rows under the connection; their thumbnails and cached copies go
\* in later steps, and the thread then continues at `next`.
Remove(t, ids, next) ==
  /\ rows' = Restrict(rows, DOMAIN rows \ ids)
  /\ victims' = [victims EXCEPT ![t] = AsVictims(ids)]
  /\ todo' = [todo EXCEPT ![t] = AsVictims(ids)]
  /\ then' = [then EXCEPT ![t] = next]
  /\ Goto(t, IF ids = {} THEN next ELSE "unlink")
  /\ UNCHANGED <<lastId, now, cache, thumbs, arg>>

-----------------------------------------------------------------------------
(* insert, called by handle_clipboard_event on the main loop.              *)

FreshIdReusing == 1 + Max({0} \cup DOMAIN rows)

\* AUTOINCREMENT: an id is never given out twice.
FreshId == lastId + 1

\* A payload the table does not hold: one row under a fresh id.
\* (An oversized payload changes nothing.)
Store(c) ==
  /\ Enter(Main) /\ Size[c] <= MaxItemSize
  /\ ~Stored(c) /\ FreshId <= MaxId
  /\ lastId' = FreshId
  /\ rows' = Extend(rows, FreshId, [content |-> c, pinned |-> FALSE, created |-> now])
  /\ arg' = [arg EXCEPT ![Main] = [id |-> FreshId, content |-> c]]
  /\ then' = [then EXCEPT ![Main] = "prune"]
  /\ Goto(Main, "put")
  /\ UNCHANGED <<now, cache, thumbs, conn, victims, todo>>

\* A payload it holds: the row is promoted, keeping id and pin.
Promote(id) ==
  /\ Enter(Main) /\ Size[rows[id].content] <= MaxItemSize
  /\ rows' = [rows EXCEPT ![id].created = now]
  /\ arg' = [arg EXCEPT ![Main] = [id |-> id, content |-> rows[id].content]]
  /\ then' = [then EXCEPT ![Main] = "idle"]
  /\ Goto(Main, "put")
  /\ UNCHANGED <<lastId, now, cache, thumbs, conn, victims, todo>>

\* The connection is dropped; the fresh copy is put in the cache.
CacheInserted ==
  LET c == arg[Main].content
  IN  /\ pc[Main] = "put"
      /\ cache' = Put(cache, arg[Main].id, c)
      /\ Goto(Main, IF c \in Images THEN "thumb" ELSE then[Main])
      /\ arg' = IF c \in Images THEN arg ELSE [arg EXCEPT ![Main] = NoArg]
      /\ UNCHANGED <<rows, lastId, now, thumbs, conn, victims, todo, then>>

\* ensure_thumbnail: an existing file is kept, a new one written by rename;
\* the image may fail to decode.
EnsureThumbnail ==
  /\ pc[Main] = "thumb"
  /\ thumbs' \in {thumbs, thumbs \cup {arg[Main].content}}
  /\ arg' = [arg EXCEPT ![Main] = NoArg]
  /\ Goto(Main, then[Main])
  /\ UNCHANGED <<rows, lastId, now, cache, conn, victims, todo, then>>

-----------------------------------------------------------------------------
(* prune_with_budget: after every stored entry, and at start-up.  The      *)
(* connection is held throughout; each rule is one delete_where.           *)

Aged == {id \in Unpinned : rows[id].created + MaxAge < now}

\* ORDER BY pinned DESC, created_at DESC: i is listed strictly before j.
Before(i, j) ==
  \/ rows[i].pinned /\ ~rows[j].pinned
  \/ rows[i].pinned = rows[j].pinned /\ rows[i].created > rows[j].created

KeptOneTooMany(K) ==
  /\ K \subseteq DOMAIN rows
  /\ Cardinality(K) = Min({MaxEntries + 1, Cardinality(DOMAIN rows)})
  /\ \A i \in K, j \in DOMAIN rows \ K : ~Before(j, i)

\* K is a possible answer of the LIMIT query; rows of the same second may
\* come in any order.
Kept(K) ==
  /\ K \subseteq DOMAIN rows
  /\ Cardinality(K) = Min({MaxEntries, Cardinality(DOMAIN rows)})
  /\ \A i \in K, j \in DOMAIN rows \ K : ~Before(j, i)

\* ORDER BY created_at ASC, id ASC: i is evicted before j.
NewerFirst(i, j) ==
  \/ rows[i].created > rows[j].created
  \/ rows[i].created = rows[j].created /\ i > j

Older(i, j) ==
  \/ rows[i].created < rows[j].created
  \/ rows[i].created = rows[j].created /\ i < j

OverflowInclusive ==
  {id \in Unpinned :
     RowBytes({j \in Unpinned : Older(j, id)}) <= RowBytes(DOMAIN rows) - MaxTotal}

\* The oldest-first prefix of the unpinned rows that overflows the budget.
Overflow ==
  {id \in Unpinned :
     RowBytes({j \in Unpinned : Older(j, id)}) < RowBytes(DOMAIN rows) - MaxTotal}

AgeVictims == IF MaxAge > 0 THEN Aged ELSE {}

\* Take the connection; the age rule.
PruneAge ==
  /\ pc[Main] = "prune" /\ conn = None
  /\ conn' = Main
  /\ Remove(Main, AgeVictims, "count")

\* The count cap: unpinned rows the LIMIT query does not list.
PruneCount ==
  /\ pc[Main] = "count"
  /\ \E K \in SUBSET DOMAIN rows :
       /\ IF MaxEntries > 0 THEN Kept(K) ELSE K = DOMAIN rows
       /\ Remove(Main, Unpinned \ K, "budget")
  /\ UNCHANGED conn

OverBudget == MaxTotal > 0 /\ RowBytes(DOMAIN rows) > MaxTotal

\* The byte budget: evict a prefix, measure again.
PruneBudget ==
  /\ pc[Main] = "budget" /\ OverBudget /\ Overflow # {}
  /\ Remove(Main, Overflow, "budget")
  /\ UNCHANGED conn

NothingLeftToDropIgnored == ~OverBudget

\* It fits, or (n == 0) only pinned rows are left.
NothingLeftToDrop == OverBudget => Overflow = {}

\* The connection is released; after start-up the workers may come.
PruneDone ==
  /\ pc[Main] = "budget" /\ NothingLeftToDrop
  /\ conn' = None
  /\ pc' = [t \in Threads |-> IF t = Main \/ pc[t] = "off" THEN "idle" ELSE pc[t]]
  /\ UNCHANGED <<rows, lastId, now, cache, thumbs, regs>>

-----------------------------------------------------------------------------
(* delete, clear, set_pinned.  DeleteItem, ClearAll and SetPinned run on   *)
(* the main loop; a picker's answer is acted on by its slow-op worker.     *)

DeleteEntry(t, id) ==
  /\ Enter(t) /\ id \in DOMAIN rows
  /\ Remove(t, {id}, "idle")
  /\ UNCHANGED conn

ClearWithPins(t) ==
  /\ Enter(t) /\ DOMAIN rows # {}
  /\ Remove(t, DOMAIN rows, "idle")
  /\ UNCHANGED conn

Clear(t) ==
  /\ Enter(t) /\ Unpinned # {}
  /\ Remove(t, Unpinned, "idle")
  /\ UNCHANGED conn

SetPinned(id, pinned) ==
  /\ Enter(Main)
  /\ rows' = [rows EXCEPT ![id].pinned = pinned]
  /\ UNCHANGED <<lastId, now, cache, thumbs, conn, pc, regs>>

RemoveThumbKeepingFile(t) ==
  /\ pc[t] = "unlink"
  /\ \E v \in todo[t] :
       /\ todo' = [todo EXCEPT ![t] = @ \ {v}]
       /\ Goto(t, IF todo[t] = {v} THEN "evict" ELSE "unlink")
  /\ UNCHANGED <<rows, lastId, now, cache, thumbs, conn, arg, victims, then>>

\* remove_thumb for one victim; the files are removed one by one.
RemoveThumb(t) ==
  /\ pc[t] = "unlink"
  /\ \E v \in todo[t] :
       /\ thumbs' = thumbs \ {v.content}
       /\ todo' = [todo EXCEPT ![t] = @ \ {v}]
       /\ Goto(t, IF todo[t] = {v} THEN "evict" ELSE "unlink")
  /\ UNCHANGED <<rows, lastId, now, cache, conn, arg, victims, then>>

EvictVictims(t) ==
  /\ pc[t] = "evict"
  /\ cache' = EvictIds(cache, Ids(victims[t]))
  /\ victims' = [victims EXCEPT ![t] = {}]
  /\ Goto(t, then[t])
  /\ then' = [then EXCEPT ![t] = "idle"]
  /\ UNCHANGED <<rows, lastId, now, thumbs, conn, arg, todo>>

-----------------------------------------------------------------------------
(* content(id), the read behind CopyEntry: cache, then disk, then cache.   *)

\* Hit: the payload goes to the clipboard module.
CacheHit(t, id) ==
  /\ pc[t] = "idle" /\ id \in DOMAIN cache.map
  /\ cache' = Touch(cache, id)
  /\ UNCHANGED <<rows, lastId, now, thumbs, conn, pc, regs>>

CacheMiss(t, id) ==
  /\ pc[t] = "idle" /\ id \notin DOMAIN cache.map
  /\ arg' = [arg EXCEPT ![t] = [id |-> id, content |-> None]]
  /\ Goto(t, "disk")
  /\ UNCHANGED <<rows, lastId, now, cache, thumbs, conn, victims, todo, then>>

ReadRow(t) ==
  /\ pc[t] = "disk" /\ conn = None
  /\ arg[t].id \in DOMAIN rows
  /\ arg' = [arg EXCEPT ![t].content = rows[arg[t].id].content]
  /\ Goto(t, "fill")
  /\ UNCHANGED <<rows, lastId, now, cache, thumbs, conn, victims, todo, then>>

\* "no entry {id}"
ReadNothing(t) ==
  /\ pc[t] = "disk" /\ conn = None
  /\ arg[t].id \notin DOMAIN rows
  /\ arg' = [arg EXCEPT ![t] = NoArg]
  /\ Goto(t, "idle")
  /\ UNCHANGED <<rows, lastId, now, cache, thumbs, conn, victims, todo, then>>

FillCache(t) ==
  /\ pc[t] = "fill"
  /\ cache' = Put(cache, arg[t].id, arg[t].content)
  /\ arg' = [arg EXCEPT ![t] = NoArg]
  /\ Goto(t, "idle")
  /\ UNCHANGED <<rows, lastId, now, thumbs, conn, victims, todo, then>>

-----------------------------------------------------------------------------
\* The wall clock shows another second.
Tick ==
  /\ now' \in 0..MaxClock
  /\ UNCHANGED <<rows, lastId, cache, thumbs, conn, pc, regs>>

\* The daemon dies anywhere and is started again: the table and the files
\* stay, everything in memory is gone, and run_inner prunes first.
Restart ==
  /\ CanCrash
  /\ cache' = EmptyCache /\ conn' = None
  /\ pc' = [t \in Threads |-> IF t = Main THEN "prune" ELSE "off"]
  /\ arg' = [t \in Threads |-> NoArg]
  /\ victims' = [t \in Threads |-> {}]
  /\ todo' = [t \in Threads |-> {}]
  /\ then' = [t \in Threads |-> "idle"]
  /\ UNCHANGED <<rows, lastId, now, thumbs>>

Pruning ==
  \/ PruneAge \/ PruneCount \/ PruneBudget \/ PruneDone
  \/ RemoveThumb(Main) \/ EvictVictims(Main)

Next ==
  \/ \E c \in Contents : Store(c)
  \/ \E id \in DOMAIN rows : Promote(id)
  \/ CacheInserted
  \/ EnsureThumbnail
  \/ Pruning
  \/ \E id \in DOMAIN rows, p \in BOOLEAN : SetPinned(id, p)
  \/ \E t \in Threads :
       \/ \E id \in DOMAIN rows : DeleteEntry(t, id)
       \/ Clear(t)
       \/ \E id \in 1..lastId : CacheHit(t, id) \/ CacheMiss(t, id)
       \/ ReadRow(t) \/ ReadNothing(t) \/ FillCache(t)
  \/ \E t \in Workers : RemoveThumb(t) \/ EvictVictims(t)
  \/ Tick
  \/ Restart

Spec == Init /\ [][Next]_vars

\* The main loop is a thread the OS schedules: a prune it has begun goes on.
FairSpec == Spec /\ WF_vars(Pruning)

-----------------------------------------------------------------------------
(* Properties                                                              *)

\* The hot cache and the calls in flight never hold, under the id of a live
\* entry, a payload that is not that entry's: the gap between a disk read
\* and the cache fill may outlive the row, but an id is never given to
\* another one, so CopyEntry can never paste a different entry.
NeverAnotherPayload ==
  \A id \in DOMAIN rows :
    /\ id \in DOMAIN cache.map => cache.map[id] = rows[id].content
    /\ \A t \in Threads :
         arg[t].id = id /\ arg[t].content # None => arg[t].content = rows[id].content

\* LRU bookkeeping survives any interleaving of hits, fills, puts and
\* evictions by id (cache.rs: bytes, order and map are updated apart).
CacheAccounted == LruConsistent(cache)

\* A cached payload belongs to a row, or to one whose deletion is still on
\* its way to the cache (prune.rs: "A deleted row must never be served from
\* the hot cache.").
DeletedNotServed ==
  \A id \in DOMAIN cache.map :
    id \in DOMAIN rows \/ \E t \in Threads : id \in Ids(victims[t])

\* A preview file belongs to a row, or is about to be removed
\* ("pruned together with their entries").
ThumbnailsFollowRows ==
  \A c \in thumbs :
    Stored(c) \/ \E t \in Threads : \E v \in todo[t] : v.content = c

\* "Pinned entries survive all pruning": whatever the interleaving of pins,
\* prunes, clears and deletes, a pinned row goes only when it is named.
PinnedSurvive ==
  [][\A id \in DOMAIN rows :
       rows[id].pinned /\ id \notin DOMAIN rows' =>
         \E t \in Threads : DeleteEntry(t, id)]_vars

\* A deleted id never becomes live again: a picker or a client still holding
\* it cannot delete, pin or copy another entry by it.
IdsNeverReused ==
  [][\A id \in 1..lastId : id \notin DOMAIN rows => id \notin DOMAIN rows']_vars

\* When a prune lets go of the connection, both limits hold as far as the
\* pinned rows allow, although each rule ran on what the previous one left.
PruneReachesLimits ==
  [][conn = Main /\ conn' = None /\ pc'[Main] = "idle" =>
       \/ Unpinned = {}
       \/ /\ MaxEntries > 0 => Cardinality(DOMAIN rows) <= MaxEntries
          /\ ~OverBudget]_vars

\* A prune never drops an unpinned row while keeping an older one.
OldestGoFirst ==
  [][conn' = Main =>
       \A gone \in DOMAIN rows \ DOMAIN rows', kept \in Unpinned \cap DOMAIN rows' :
         rows[gone].created <= rows[kept].created]_vars

\* The byte budget never costs an entry that would have fitted: the victims
\* have a newest one, and putting just that one back would overflow again.
NoEvictionBeyondBudget ==
  [][PruneBudget =>
       LET dropped == DOMAIN rows \ DOMAIN rows'
       IN \E newest \in dropped :
            /\ \A v \in dropped \ {newest} : Older(v, newest)
            /\ RowBytes(DOMAIN rows' \cup {newest}) > MaxTotal]_vars

\* A prune ends and gives the connection back, even when the pinned rows
\* alone exceed the budget and nothing can be dropped.
PruneTerminates == conn = Main ~> conn = None

\* The table, seen as entries, behaves as History.
H == INSTANCE History WITH
       entries <- [id \in DOMAIN rows |->
                     [content |-> rows[id].content, pinned |-> rows[id].pinned]]

IsHistory == H!Spec
HoldsNoDuplicates == H!NoDuplicates
=============================================================================
