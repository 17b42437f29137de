--------------------------- MODULE StorageProofs ----------------------------
(***************************************************************************)
(* Theorems about Storage, for any payloads, sizes, limits, number of      *)
(* workers and crashes.                                                    *)
(*                                                                         *)
(* First the payload under an id: in the cache, in the rows, in what each  *)
(* thread holds.  Then sums of sizes and recency orders, whose recursions  *)
(* are unfolded by taking a smallest counterexample in a finite set; from  *)
(* these, the accounts of the cache and how far pruning reaches.  Last,    *)
(* what holds when the main loop is the only thread.                       *)
(***************************************************************************)
EXTENDS Storage, FiniteSetTheorems, WellFoundedInduction, TLAPS

-----------------------------------------------------------------------------
(* The cache: whatever an operation evicts, it never changes the payload   *)
(* it keeps under an id, and adds at most the one it was given.            *)

\* Forgetting ids only shrinks the cache: what stays is what was there.
LEMMA EvictIdsMap ==
  ASSUME NEW c, NEW ids
  PROVE  /\ DOMAIN EvictIds(c, ids).map = DOMAIN c.map \ ids
         /\ \A k \in DOMAIN c.map \ ids : EvictIds(c, ids).map[k] = c.map[k]
  BY DEF EvictIds, Restrict

\* Evicting over the budget only shrinks the cache.
LEMMA EvictOverBudgetMap ==
  ASSUME NEW c
  PROVE  /\ DOMAIN EvictOverBudget(c).map \subseteq DOMAIN c.map
         /\ \A k \in DOMAIN EvictOverBudget(c).map :
              EvictOverBudget(c).map[k] = c.map[k]
  BY EvictIdsMap DEF EvictOverBudget

\* A cache hit reorders the cache and changes none of its payloads.
LEMMA TouchMap ==
  ASSUME NEW c, NEW id
  PROVE  Touch(c, id).map = c.map
  BY DEF Touch

\* A put caches the payload it is given and, of the rest, only what was there.
LEMMA PutMap ==
  ASSUME NEW c, NEW id, NEW x
  PROVE  /\ DOMAIN Put(c, id, x).map \subseteq DOMAIN c.map \cup {id}
         /\ \A k \in DOMAIN Put(c, id, x).map :
              \/ k \in DOMAIN c.map /\ Put(c, id, x).map[k] = c.map[k]
              \/ k = id /\ Put(c, id, x).map[k] = x
  <1>1. CASE CacheBudget = 0 \/ Size[x] > CacheBudget
    BY <1>1 DEF Put
  <1>2. CASE ~(CacheBudget = 0 \/ Size[x] > CacheBudget)
    <2> DEFINE old == IF id \in DOMAIN c.map THEN Size[c.map[id]] ELSE 0
               touched == Touch([map   |-> Extend(c.map, id, x),
                                 order |-> c.order,
                                 bytes |-> c.bytes - old + Size[x]], id)
    <2>1. Put(c, id, x) = EvictOverBudget(touched)
      BY <1>2 DEF Put
    <2>2. touched.map = Extend(c.map, id, x)
      BY TouchMap
    <2> HIDE DEF touched
    <2>3. /\ DOMAIN EvictOverBudget(touched).map \subseteq DOMAIN Extend(c.map, id, x)
          /\ \A k \in DOMAIN EvictOverBudget(touched).map :
               EvictOverBudget(touched).map[k] = Extend(c.map, id, x)[k]
      BY <2>2, EvictOverBudgetMap
    <2> QED
      BY <2>1, <2>3 DEF Extend
  <1> QED
    BY <1>1, <1>2

-----------------------------------------------------------------------------
(* The inductive invariant.  TypeOK is not inductive by itself: that a     *)
(* thread puts a payload in the cache, and not None, depends on where it   *)
(* is in its call.  NeverAnotherPayload needs it too, because a register   *)
(* filled from a row that has gone since is put in the cache later.        *)

\* What a thread carries at each point of a call.
Carries ==
  \A t \in Threads :
    /\ pc[t] \in {"put", "thumb", "fill"} => arg[t].content \in Contents
    /\ pc[t] \in {"put", "disk", "fill"} => arg[t].id \in 1..lastId
    /\ pc[t] = "thumb" => arg[t].content \in Images

IInv == TypeOK /\ Carries /\ NeverAnotherPayload

\* A store as an earlier run left it satisfies the inductive invariant.
LEMMA InitIInv == Init => IInv
  <1> SUFFICES ASSUME Init PROVE IInv
    OBVIOUS
  <1> USE DEF Init, EmptyMap
  <1>1. TypeOK
    <2>1. /\ lastId \in Nat /\ now \in Nat
          /\ DOMAIN rows \subseteq 1..lastId
          /\ \A id \in DOMAIN rows : rows[id] \in Row
      BY LimitAssumption DEF Inherited, Row
    <2>2. /\ DOMAIN cache.map = {}
          /\ thumbs \subseteq Images
          /\ conn \in {Main, None}
      BY DEF EmptyCache
    <2>3. /\ pc \in [Threads -> PCs]
          /\ arg \in [Threads -> [id : 0..lastId, content : Contents \cup {None}]]
          /\ victims \in [Threads -> SUBSET Victim]
          /\ todo \in [Threads -> SUBSET Victim]
          /\ then \in [Threads -> Continuations]
      BY <2>1 DEF NoArg, PCs, Continuations, Threads
    <2> QED
      BY <2>1, <2>2, <2>3 DEF TypeOK
  <1>2. Carries
    BY DEF Carries, Threads
  <1>3. NeverAnotherPayload
    BY DEF NeverAnotherPayload, EmptyCache, NoArg
  <1> QED
    BY <1>1, <1>2, <1>3 DEF IInv

\* Deleting rows and moving on: shared by delete, clear and every prune rule.
LEMMA RemoveIInv ==
  ASSUME IInv, NEW t \in Threads, NEW ids \in SUBSET DOMAIN rows,
         NEW next \in Continuations,
         Remove(t, ids, next), conn' \in {Main, None}
  PROVE  IInv'
  <1> USE DEF IInv, Remove, Goto
  <1>1. /\ DOMAIN rows' = DOMAIN rows \ ids
        /\ \A id \in DOMAIN rows' : rows'[id] = rows[id]
    BY DEF Restrict
  <1>2. TypeOK'
    <2>1. /\ lastId' \in Nat /\ now' \in Nat
          /\ DOMAIN rows' \subseteq 1..lastId'
          /\ \A id \in DOMAIN rows' : rows'[id] \in Row
      BY <1>1 DEF TypeOK
    <2>2. /\ DOMAIN cache'.map \subseteq 1..lastId'
          /\ \A id \in DOMAIN cache'.map : cache'.map[id] \in Contents
          /\ thumbs' \subseteq Images
          /\ conn' \in {Main, None}
          /\ arg' \in [Threads -> [id : 0..lastId', content : Contents \cup {None}]]
      BY DEF TypeOK
    <2>3. pc' \in [Threads -> PCs] /\ then' \in [Threads -> Continuations]
      BY DEF TypeOK, PCs, Continuations
    <2>4. AsVictims(ids) \in SUBSET Victim
      BY DEF TypeOK, Row, Victim, AsVictims
    <2>5. victims' \in [Threads -> SUBSET Victim'] /\ todo' \in [Threads -> SUBSET Victim']
      BY <2>4 DEF TypeOK, Victim
    <2> QED
      BY <2>1, <2>2, <2>3, <2>5 DEF TypeOK
  <1>3. Carries'
    BY DEF Carries, TypeOK, PCs, Continuations
  <1>4. NeverAnotherPayload'
    <2>1. cache' = cache /\ arg' = arg
      OBVIOUS
    <2> SUFFICES ASSUME NEW id \in DOMAIN rows'
                 PROVE  /\ id \in DOMAIN cache'.map => cache'.map[id] = rows'[id].content
                        /\ \A u \in Threads :
                             arg'[u].id = id /\ arg'[u].content # None
                               => arg'[u].content = rows'[id].content
      BY DEF NeverAnotherPayload
    <2>2. id \in DOMAIN rows /\ rows'[id] = rows[id]
      BY <1>1
    <2> HIDE DEF IInv, Remove
    <2> QED
      BY <2>1, <2>2 DEF NeverAnotherPayload, IInv
  <1> QED
    BY <1>2, <1>3, <1>4

\* A step that keeps the table keeps NeverAnotherPayload if every payload it
\* newly caches or carries was already cached or carried under that id, or
\* is the row's own.
LEMMA PayloadsKept ==
  ASSUME IInv, rows' = rows,
         \A id \in DOMAIN cache'.map :
           \/ id \in DOMAIN cache.map /\ cache'.map[id] = cache.map[id]
           \/ \E t \in Threads : /\ arg[t].id = id /\ arg[t].content \in Contents
                                 /\ cache'.map[id] = arg[t].content,
         \A t \in Threads :
           \/ arg'[t] = arg[t]
           \/ arg'[t].content = None
           \/ arg'[t].content = rows[arg'[t].id].content
  PROVE  NeverAnotherPayload'
  BY NoneAssumption DEF IInv, NeverAnotherPayload

\* The INSERT of insert() gives the payload a fresh id, so no copy in flight
\* or in the cache carries that id with another payload.
LEMMA StoreIInv ==
  ASSUME IInv, NEW c \in Contents, Store(c)
  PROVE  IInv'
  <1> USE DEF Store, Enter, Goto, FreshId
  <1> DEFINE row == [content |-> c, pinned |-> FALSE, created |-> now]
  <1>0. lastId \in Nat /\ lastId' = lastId + 1 /\ lastId' \in 1..lastId'
    BY DEF IInv, TypeOK
  <1>1. /\ DOMAIN rows' = DOMAIN rows \cup {lastId'}
        /\ rows'[lastId'] = row
        /\ \A id \in DOMAIN rows : id # lastId' /\ rows'[id] = rows[id]
        /\ lastId' \notin DOMAIN cache.map
    BY <1>0 DEF Extend, IInv, TypeOK
  <1>2. row \in Row
    BY DEF Row, IInv, TypeOK
  <1>3. arg' = [arg EXCEPT ![Main] = [id |-> lastId', content |-> c]] /\ Main \in Threads
    BY <1>0 DEF Threads
  <1> HIDE DEF row
  <1>4. TypeOK'
    <2>0. lastId' \in Nat /\ now' \in Nat
      BY <1>0 DEF IInv, TypeOK
    <2>1. DOMAIN rows' \subseteq 1..lastId'
      <3>1. DOMAIN rows \subseteq 1..lastId
        BY DEF IInv, TypeOK
      <3> HIDE DEF Store
      <3> QED
        BY <3>1, <1>0, <1>1
    <2>7. \A id \in DOMAIN rows' : rows'[id] \in Row
      <3>1. \A id \in DOMAIN rows : rows[id] \in Row
        BY DEF IInv, TypeOK
      <3> HIDE DEF Store
      <3> QED
        BY <3>1, <1>1, <1>2
    <2>2. /\ DOMAIN cache'.map \subseteq 1..lastId'
          /\ \A id \in DOMAIN cache'.map : cache'.map[id] \in Contents
          /\ thumbs' \subseteq Images /\ conn' \in {Main, None}
      BY <1>0 DEF IInv, TypeOK
    <2>3. arg' \in [Threads -> [id : 0..lastId', content : Contents \cup {None}]]
      BY <1>0, <1>3 DEF IInv, TypeOK
    <2>4. pc' \in [Threads -> PCs] /\ then' \in [Threads -> Continuations]
      BY DEF IInv, TypeOK, PCs, Continuations
    <2>5. Victim \subseteq Victim'
      BY <1>0 DEF Victim
    <2>6. victims' \in [Threads -> SUBSET Victim'] /\ todo' \in [Threads -> SUBSET Victim']
      BY <2>5 DEF IInv, TypeOK
    <2> QED
      BY <2>0, <2>1, <2>7, <2>2, <2>3, <2>4, <2>6 DEF TypeOK
  <1>5. Carries'
    BY <1>0, <1>3 DEF IInv, TypeOK, Carries
  <1>6. NeverAnotherPayload'
    <2>1. \A t \in Threads : arg[t].id # lastId'
      BY <1>0 DEF IInv, TypeOK
    <2>2. ASSUME NEW t \in Threads, NEW id \in DOMAIN rows',
                 arg'[t].id = id, arg'[t].content # None
          PROVE  arg'[t].content = rows'[id].content
      <3>1. CASE t = Main
        <4>1. arg \in [Threads -> [id : 0..lastId, content : Contents \cup {None}]]
          BY DEF IInv, TypeOK
        <4>2. arg'[t] = [id |-> lastId', content |-> c]
          BY <4>1, <3>1, <1>3
        <4>3. rows'[lastId'].content = c
          BY <1>1 DEF row
        <4> HIDE DEF Store
        <4> QED
          BY <2>2, <4>2, <4>3
      <3>2. CASE t # Main
        <4>1. arg'[t] = arg[t]
          BY <3>2, <1>3 DEF IInv, TypeOK
        <4>2. id \in DOMAIN rows /\ rows'[id] = rows[id]
          BY <4>1, <2>1, <2>2, <1>1
        <4> HIDE DEF Store
        <4> QED
          BY <4>1, <4>2, <2>2 DEF IInv, NeverAnotherPayload
      <3> QED
        BY <3>1, <3>2
    <2>3. ASSUME NEW id \in DOMAIN rows', id \in DOMAIN cache'.map
          PROVE  cache'.map[id] = rows'[id].content
      BY <2>3, <1>1 DEF IInv, NeverAnotherPayload
    <2> QED
      BY <2>2, <2>3 DEF NeverAnotherPayload
  <1> QED
    BY <1>4, <1>5, <1>6 DEF IInv

\* Promoting a duplicate moves its row to the top and keeps its payload.
LEMMA PromoteIInv ==
  ASSUME IInv, NEW id \in DOMAIN rows, Promote(id)
  PROVE  IInv'
  <1>1. /\ rows[id] \in Row /\ now \in Nat /\ id \in 1..lastId
        /\ rows' = [rows EXCEPT ![id].created = now]
        /\ arg \in [Threads -> [id : 0..lastId, content : Contents \cup {None}]]
        /\ arg' = [arg EXCEPT ![Main] = [id |-> id, content |-> rows[id].content]]
        /\ Main \in Threads
    BY DEF IInv, TypeOK, Promote, Threads
  <1>2. /\ DOMAIN rows' = DOMAIN rows
        /\ \A i \in DOMAIN rows : rows'[i].content = rows[i].content
        /\ \A i \in DOMAIN rows : rows[i] \in Row => rows'[i] \in Row
    BY <1>1 DEF Row
  <1>3. TypeOK'
    <2>1. arg' \in [Threads -> [id : 0..lastId', content : Contents \cup {None}]]
      BY <1>1 DEF Promote, Row
    <2>2. pc' \in [Threads -> PCs] /\ then' \in [Threads -> Continuations]
      BY DEF IInv, TypeOK, Promote, Goto, PCs, Continuations
    <2>3. DOMAIN rows' \subseteq 1..lastId' /\ \A i \in DOMAIN rows' : rows'[i] \in Row
      BY <1>2 DEF IInv, TypeOK, Promote
    <2>4. Victim' = Victim
      BY DEF Promote, Victim
    <2> QED
      BY <2>1, <2>2, <2>3, <2>4 DEF IInv, TypeOK, Promote
  <1>4. Carries'
    <2>1. arg'[Main].content \in Contents /\ arg'[Main].id \in 1..lastId'
      BY <1>1 DEF Row, Promote
    <2>2. \A t \in Threads \ {Main} : arg'[t] = arg[t]
      BY <1>1
    <2>3. pc'[Main] = "put" /\ \A t \in Threads \ {Main} : pc'[t] = pc[t]
      BY <1>1 DEF IInv, TypeOK, Promote, Goto
    <2> QED
      BY <2>1, <2>2, <2>3 DEF IInv, Carries, Promote
  <1>5. NeverAnotherPayload'
    <2>1. cache' = cache
      BY DEF Promote
    <2>2. \A t \in Threads :
            arg'[t] = arg[t] \/ (arg'[t].id = id /\ arg'[t].content = rows[id].content)
      BY <1>1
    <2> QED
      BY <1>2, <2>1, <2>2 DEF IInv, NeverAnotherPayload
  <1> QED
    BY <1>3, <1>4, <1>5 DEF IInv

\* One thread moves on in its call and the table stays: what the register it
\* leaves behind and the caches it fills must satisfy.
LEMMA ThreadStepIInv ==
  ASSUME IInv, NEW t \in Threads, NEW label \in PCs,
         NEW a \in [id : 0..lastId, content : Contents \cup {None}],
         pc' = [pc EXCEPT ![t] = label],
         arg' = [arg EXCEPT ![t] = a],
         label \in {"put", "thumb", "fill"} => a.content \in Contents,
         label \in {"put", "disk", "fill"} => a.id \in 1..lastId,
         label = "thumb" => a.content \in Images,
         a = arg[t] \/ a.content = None \/ a.content = rows[a.id].content,
         \A k \in DOMAIN cache'.map :
           \/ k \in DOMAIN cache.map /\ cache'.map[k] = cache.map[k]
           \/ /\ k = arg[t].id /\ k \in 1..lastId /\ arg[t].content \in Contents
              /\ cache'.map[k] = arg[t].content,
         UNCHANGED <<rows, lastId, now, conn>>,
         thumbs' \subseteq Images,
         victims' \in [Threads -> SUBSET Victim],
         todo' \in [Threads -> SUBSET Victim],
         then' \in [Threads -> Continuations]
  PROVE  IInv'
  <1>1. /\ arg \in [Threads -> [id : 0..lastId, content : Contents \cup {None}]]
        /\ pc \in [Threads -> PCs]
    BY DEF IInv, TypeOK
  <1>2. \A u \in Threads \ {t} : arg'[u] = arg[u] /\ pc'[u] = pc[u]
    BY <1>1
  <1>3. arg'[t] = a /\ pc'[t] = label
    BY <1>1
  <1>4. TypeOK'
    <2>1. /\ arg' \in [Threads -> [id : 0..lastId', content : Contents \cup {None}]]
          /\ pc' \in [Threads -> PCs]
      BY <1>1
    <2>2. /\ DOMAIN cache'.map \subseteq 1..lastId'
          /\ \A k \in DOMAIN cache'.map : cache'.map[k] \in Contents
      BY DEF IInv, TypeOK
    <2> QED
      BY <2>1, <2>2 DEF IInv, TypeOK, Victim
  <1>5. Carries'
    BY <1>2, <1>3 DEF IInv, Carries
  <1>6. NeverAnotherPayload'
    BY <1>2, <1>3, PayloadsKept
  <1> QED
    BY <1>4, <1>5, <1>6 DEF IInv

\* What every thread's registers hold, and the register of an idle call.
LEMMA Registers ==
  ASSUME IInv
  PROVE  /\ arg \in [Threads -> [id : 0..lastId, content : Contents \cup {None}]]
         /\ pc \in [Threads -> PCs]
         /\ victims \in [Threads -> SUBSET Victim]
         /\ todo \in [Threads -> SUBSET Victim]
         /\ then \in [Threads -> Continuations]
         /\ thumbs \subseteq Images
         /\ NoArg \in [id : 0..lastId, content : Contents \cup {None}]
         /\ Main \in Threads /\ lastId \in Nat
         /\ Continuations \subseteq PCs \ {"put", "thumb", "disk", "fill"}
  BY DEF IInv, TypeOK, NoArg, Threads, PCs, Continuations

\* insert() caches, under the id it gave out, the payload it stored.
LEMMA CacheInsertedIInv ==
  ASSUME IInv, CacheInserted
  PROVE  IInv'
  <1> DEFINE c == arg[Main].content
             i == arg[Main].id
             a == IF c \in Images THEN arg[Main] ELSE NoArg
             label == IF c \in Images THEN "thumb" ELSE then[Main]
  <1>1. c \in Contents /\ i \in 1..lastId
    BY Registers DEF CacheInserted, IInv, Carries
  <1>2. /\ a \in [id : 0..lastId, content : Contents \cup {None}]
        /\ label \in PCs
    BY Registers DEF PCs
  <1>3. /\ arg' = [arg EXCEPT ![Main] = a] /\ pc' = [pc EXCEPT ![Main] = label]
        /\ UNCHANGED <<rows, lastId, now, thumbs, conn, victims, todo, then>>
    BY Registers DEF CacheInserted, Goto
  <1>4. \A k \in DOMAIN cache'.map :
          \/ k \in DOMAIN cache.map /\ cache'.map[k] = cache.map[k]
          \/ k = i /\ cache'.map[k] = c
    BY PutMap DEF CacheInserted
  <1>5. /\ label \in {"put", "thumb", "fill"} => a.content \in Contents
        /\ ~(label \in {"put", "disk", "fill"})
        /\ label = "thumb" => a.content \in Images
        /\ a = arg[Main] \/ a.content = None
    BY <1>1, Registers DEF NoArg
  <1> QED
    BY <1>1, <1>2, <1>3, <1>4, <1>5, Registers, ThreadStepIInv

\* Making a thumbnail touches neither rows nor cached payloads.
LEMMA EnsureThumbnailIInv ==
  ASSUME IInv, EnsureThumbnail
  PROVE  IInv'
  <1>1. arg[Main].content \in Images
    BY Registers DEF EnsureThumbnail, IInv, Carries
  <1>2. thumbs' \subseteq Images
    BY <1>1, Registers DEF EnsureThumbnail
  <1>3. /\ NoArg.content = None
        /\ then[Main] \in PCs /\ then[Main] \notin {"put", "thumb", "disk", "fill"}
    BY Registers DEF NoArg
  <1> QED
    BY <1>2, <1>3, Registers, ThreadStepIInv DEF EnsureThumbnail, Goto

\* Removing thumbnails after a DELETE leaves rows and cache alone.
LEMMA RemoveThumbIInv ==
  ASSUME IInv, NEW t \in Threads, RemoveThumb(t)
  PROVE  IInv'
  <1>1. PICK v \in todo[t] :
          /\ thumbs' = thumbs \ {v.content}
          /\ todo' = [todo EXCEPT ![t] = @ \ {v}]
          /\ Goto(t, IF todo[t] = {v} THEN "evict" ELSE "unlink")
    BY DEF RemoveThumb
  <1> DEFINE label == IF todo[t] = {v} THEN "evict" ELSE "unlink"
  <1>2. label \in PCs /\ label \notin {"put", "thumb", "disk", "fill"}
    BY DEF PCs
  <1>3. todo' \in [Threads -> SUBSET Victim] /\ thumbs' \subseteq Images
    BY <1>1, Registers
  <1>4. arg' = [arg EXCEPT ![t] = arg[t]] /\ arg[t] \in [id : 0..lastId, content : Contents \cup {None}]
    BY Registers DEF RemoveThumb
  <1>5. pc' = [pc EXCEPT ![t] = label]
    BY <1>1 DEF Goto
  <1>6. UNCHANGED <<rows, lastId, now, cache, conn, victims, then>>
    BY DEF RemoveThumb
  <1> HIDE DEF label
  <1> QED
    BY <1>2, <1>3, <1>4, <1>5, <1>6, Registers, ThreadStepIInv

\* Evicting the deleted ids only forgets cached payloads.
LEMMA EvictVictimsIInv ==
  ASSUME IInv, NEW t \in Threads, EvictVictims(t)
  PROVE  IInv'
  <1>1. then[t] \in PCs /\ then[t] \notin {"put", "thumb", "disk", "fill"}
    BY Registers
  <1>2. victims' \in [Threads -> SUBSET Victim]
    BY Registers DEF EvictVictims
  <1>3. then' \in [Threads -> Continuations]
    BY Registers DEF EvictVictims, Continuations
  <1>4. arg' = [arg EXCEPT ![t] = arg[t]] /\ arg[t] \in [id : 0..lastId, content : Contents \cup {None}]
    BY Registers DEF EvictVictims
  <1>5. \A k \in DOMAIN cache'.map : k \in DOMAIN cache.map /\ cache'.map[k] = cache.map[k]
    BY EvictIdsMap DEF EvictVictims
  <1>6. /\ pc' = [pc EXCEPT ![t] = then[t]]
        /\ UNCHANGED <<rows, lastId, now, thumbs, conn, todo>>
    BY DEF EvictVictims, Goto
  <1> QED
    BY <1>1, <1>2, <1>3, <1>4, <1>5, <1>6, Registers, ThreadStepIInv

\* A hit answers with the payload cached under the id.
LEMMA CacheHitIInv ==
  ASSUME IInv, NEW t \in Threads, NEW id, CacheHit(t, id)
  PROVE  IInv'
  <1>1. cache'.map = cache.map
    BY TouchMap DEF CacheHit
  <1>2. UNCHANGED <<rows, lastId, now, thumbs, conn, pc, arg, victims, todo, then>>
    BY DEF CacheHit, regs
  <1>3. TypeOK'
    BY <1>1, <1>2 DEF IInv, TypeOK, Victim
  <1>4. Carries' /\ NeverAnotherPayload'
    BY <1>1, <1>2 DEF IInv, Carries, NeverAnotherPayload
  <1> QED
    BY <1>3, <1>4 DEF IInv

\* A miss starts a disk read and holds no payload yet.
LEMMA CacheMissIInv ==
  ASSUME IInv, NEW t \in Threads, NEW id \in 1..lastId, CacheMiss(t, id)
  PROVE  IInv'
  <1> DEFINE a == [id |-> id, content |-> None]
  <1>1. /\ a \in [id : 0..lastId, content : Contents \cup {None}]
        /\ a.id \in 1..lastId /\ a.content = None
    BY Registers
  <1>2. arg' = [arg EXCEPT ![t] = a]
    BY DEF CacheMiss
  <1>3. "disk" \in PCs
    BY DEF PCs
  <1> HIDE DEF a
  <1> QED
    BY <1>1, <1>2, <1>3, Registers, ThreadStepIInv DEF CacheMiss, Goto

\* The disk read of content() holds the payload of the row it read.
LEMMA ReadRowIInv ==
  ASSUME IInv, NEW t \in Threads, ReadRow(t)
  PROVE  IInv'
  <1> DEFINE i == arg[t].id
             a == [id |-> i, content |-> rows[i].content]
  <1>1. i \in 1..lastId /\ i \in 0..lastId /\ i \in DOMAIN rows
    BY Registers DEF ReadRow, IInv, Carries
  <1>2. rows[i].content \in Contents
    BY <1>1 DEF IInv, TypeOK, Row
  <1>3. arg' = [arg EXCEPT ![t] = a]
    <2>1. arg[t] \in [id : 0..lastId, content : Contents \cup {None}]
      BY Registers
    <2>2. [arg[t] EXCEPT !.content = rows[i].content] = a
      BY <2>1
    <2>3. arg' = [arg EXCEPT ![t] = [arg[t] EXCEPT !.content = rows[i].content]]
      BY DEF ReadRow
    <2> QED
      BY <2>2, <2>3
  <1>4. /\ a \in [id : 0..lastId, content : Contents \cup {None}]
        /\ a.id \in 1..lastId /\ a.content \in Contents
        /\ a.content = rows[a.id].content
    BY <1>1, <1>2
  <1>5. "fill" \in PCs
    BY DEF PCs
  <1> HIDE DEF a, i
  <1> QED
    BY <1>3, <1>4, <1>5, Registers, ThreadStepIInv DEF ReadRow, Goto

\* A disk read that finds no row ends with nothing in hand.
LEMMA ReadNothingIInv ==
  ASSUME IInv, NEW t \in Threads, ReadNothing(t)
  PROVE  IInv'
  <1>1. "idle" \in PCs /\ NoArg.content = None
    BY DEF PCs, NoArg
  <1> QED
    BY <1>1, Registers, ThreadStepIInv DEF ReadNothing, Goto

\* content() caches, under the id it was asked for, the payload it read.
LEMMA FillCacheIInv ==
  ASSUME IInv, NEW t \in Threads, FillCache(t)
  PROVE  IInv'
  <1>1. "idle" \in PCs /\ NoArg.content = None
    BY DEF PCs, NoArg
  <1>2. arg[t].id \in 1..lastId /\ arg[t].content \in Contents
    BY DEF FillCache, IInv, Carries
  <1>3. \A k \in DOMAIN cache'.map :
          \/ k \in DOMAIN cache.map /\ cache'.map[k] = cache.map[k]
          \/ k = arg[t].id /\ cache'.map[k] = arg[t].content
    BY PutMap DEF FillCache
  <1> QED
    BY <1>1, <1>2, <1>3, Registers, ThreadStepIInv DEF FillCache, Goto

\* Pinning changes the pin of one row and no payload.
LEMMA SetPinnedIInv ==
  ASSUME IInv, NEW id \in DOMAIN rows, NEW p \in BOOLEAN, SetPinned(id, p)
  PROVE  IInv'
  <1>1. /\ rows' = [rows EXCEPT ![id].pinned = p]
        /\ UNCHANGED <<lastId, now, cache, thumbs, conn, pc, arg, victims, todo, then>>
    BY DEF SetPinned, regs
  <1>2. /\ DOMAIN rows' = DOMAIN rows
        /\ \A i \in DOMAIN rows : rows'[i].content = rows[i].content
        /\ \A i \in DOMAIN rows : rows[i] \in Row => rows'[i] \in Row
    BY <1>1 DEF Row
  <1>3. TypeOK'
    BY <1>1, <1>2 DEF IInv, TypeOK, Victim
  <1>4. Carries' /\ NeverAnotherPayload'
    BY <1>1, <1>2 DEF IInv, Carries, NeverAnotherPayload
  <1> QED
    BY <1>3, <1>4 DEF IInv

\* The end of a prune only returns control to the main loop.
LEMMA PruneDoneIInv ==
  ASSUME IInv, PruneDone
  PROVE  IInv'
  <1>1. UNCHANGED <<rows, lastId, now, cache, thumbs, arg, victims, todo, then>>
    BY DEF PruneDone, regs
  <1>2. \A t \in Threads : pc'[t] \in {pc[t], "idle"}
    BY DEF PruneDone
  <1>3. pc' \in [Threads -> PCs] /\ conn' \in {Main, None}
    BY Registers DEF PruneDone, PCs
  <1>4. TypeOK'
    BY <1>1, <1>3 DEF IInv, TypeOK, Victim
  <1>5. Carries' /\ NeverAnotherPayload'
    BY <1>1, <1>2 DEF IInv, Carries, NeverAnotherPayload
  <1> QED
    BY <1>4, <1>5 DEF IInv

\* A change of the clock changes nothing stored.
LEMMA TickIInv ==
  ASSUME IInv, Tick
  PROVE  IInv'
  <1>1. UNCHANGED <<rows, lastId, cache, thumbs, conn, pc, arg, victims, todo, then>>
    BY DEF Tick, regs
  <1>2. now' \in Nat
    BY LimitAssumption DEF Tick
  <1>3. TypeOK'
    BY <1>1, <1>2 DEF IInv, TypeOK, Victim
  <1>4. Carries' /\ NeverAnotherPayload'
    BY <1>1 DEF IInv, Carries, NeverAnotherPayload
  <1> QED
    BY <1>3, <1>4 DEF IInv

\* After a crash the rows are kept, and the cache and the calls in flight
\* are gone.
LEMMA RestartIInv ==
  ASSUME IInv, Restart
  PROVE  IInv'
  <1>1. /\ UNCHANGED <<rows, lastId, now, thumbs>>
        /\ DOMAIN cache'.map = {} /\ conn' = None
    BY DEF Restart, EmptyCache, EmptyMap
  <1>2. /\ \A t \in Threads : pc'[t] \in {"prune", "off"} /\ arg'[t] = NoArg
        /\ pc' \in [Threads -> PCs]
    BY DEF Restart, PCs
  <1>3. TypeOK'
    <2>1. arg' \in [Threads -> [id : 0..lastId', content : Contents \cup {None}]]
      BY <1>1, Registers DEF Restart
    <2>2. /\ victims' \in [Threads -> SUBSET Victim']
          /\ todo' \in [Threads -> SUBSET Victim']
          /\ then' \in [Threads -> Continuations]
      BY DEF Restart, Continuations
    <2> QED
      BY <1>1, <1>2, <2>1, <2>2 DEF IInv, TypeOK
  <1>4. Carries' /\ NeverAnotherPayload'
    BY <1>1, <1>2 DEF Carries, NeverAnotherPayload, NoArg
  <1> QED
    BY <1>3, <1>4 DEF IInv

-----------------------------------------------------------------------------
\* Whichever rule or call deletes rows, it is one Remove of rows that exist.
LEMMA Removals ==
  ASSUME IInv,
         \/ PruneAge \/ PruneCount \/ PruneBudget
         \/ \E t \in Threads :
              Clear(t) \/ \E id \in DOMAIN rows : DeleteEntry(t, id)
  PROVE  /\ conn' \in {Main, None}
         /\ \E t \in Threads, ids \in SUBSET DOMAIN rows, next \in Continuations :
              Remove(t, ids, next)
  <1>1. CASE PruneAge
    <2>1. AgeVictims \in SUBSET DOMAIN rows
      BY DEF AgeVictims, Aged, Unpinned
    <2> QED
      BY <1>1, <2>1, Registers DEF PruneAge, Continuations
  <1>2. CASE PruneCount
    <2>1. \A K : Unpinned \ K \in SUBSET DOMAIN rows
      BY DEF Unpinned
    <2>2. "budget" \in Continuations /\ conn \in {Main, None}
      BY DEF Continuations, IInv, TypeOK
    <2> QED
      BY <1>2, <2>1, <2>2, Registers DEF PruneCount
  <1>3. CASE PruneBudget
    <2>1. Overflow \in SUBSET DOMAIN rows
      BY DEF Overflow, Unpinned
    <2>2. "budget" \in Continuations /\ conn \in {Main, None}
      BY DEF Continuations, IInv, TypeOK
    <2> QED
      BY <1>3, <2>1, <2>2, Registers DEF PruneBudget
  <1>4. ASSUME NEW t \in Threads, Clear(t) \/ \E id \in DOMAIN rows : DeleteEntry(t, id)
        PROVE  /\ conn' \in {Main, None}
               /\ \E ids \in SUBSET DOMAIN rows, next \in Continuations :
                    Remove(t, ids, next)
    <2>1. Unpinned \in SUBSET DOMAIN rows
      BY DEF Unpinned
    <2>2. \A id \in DOMAIN rows : {id} \in SUBSET DOMAIN rows
      OBVIOUS
    <2>3. "idle" \in Continuations /\ conn \in {Main, None}
      BY DEF Continuations, IInv, TypeOK
    <2> QED
      BY <1>4, <2>1, <2>2, <2>3 DEF Clear, DeleteEntry
  <1> QED
    BY <1>1, <1>2, <1>3, <1>4

\* Every step of every thread preserves the inductive invariant.
LEMMA NextIInv == IInv /\ [Next]_vars => IInv'
  <1> SUFFICES ASSUME IInv, [Next]_vars PROVE IInv'
    OBVIOUS
  <1>1. CASE UNCHANGED vars
    BY <1>1 DEF vars, IInv, TypeOK, Victim, Carries, NeverAnotherPayload
  <1>2. CASE \E c \in Contents : Store(c)
    BY <1>2, StoreIInv
  <1>3. CASE \E id \in DOMAIN rows : Promote(id)
    BY <1>3, PromoteIInv
  <1>4. CASE CacheInserted \/ EnsureThumbnail
    BY <1>4, CacheInsertedIInv, EnsureThumbnailIInv
  <1>5. CASE \/ PruneAge \/ PruneCount \/ PruneBudget
             \/ \E t \in Threads :
                  Clear(t) \/ \E id \in DOMAIN rows : DeleteEntry(t, id)
    BY <1>5, Removals, RemoveIInv
  <1>6. CASE PruneDone
    BY <1>6, PruneDoneIInv
  <1>7. CASE \E t \in Threads : RemoveThumb(t) \/ EvictVictims(t)
    BY <1>7, RemoveThumbIInv, EvictVictimsIInv
  <1>8. CASE \E id \in DOMAIN rows, p \in BOOLEAN : SetPinned(id, p)
    BY <1>8, SetPinnedIInv
  <1>9. CASE \E t \in Threads : \E id \in 1..lastId : CacheHit(t, id) \/ CacheMiss(t, id)
    BY <1>9, CacheHitIInv, CacheMissIInv
  <1>10. CASE \E t \in Threads : ReadRow(t) \/ ReadNothing(t) \/ FillCache(t)
    BY <1>10, ReadRowIInv, ReadNothingIInv, FillCacheIInv
  <1>11. CASE Tick \/ Restart
    BY <1>11, TickIInv, RestartIInv
  <1> QED
    BY <1>1, <1>2, <1>3, <1>4, <1>5, <1>6, <1>7, <1>8, <1>9, <1>10, <1>11
       DEF Next, Pruning, Threads

\* Every state of every behaviour satisfies the inductive invariant.
THEOREM Invariance == Spec => []IInv
  BY InitIInv, NextIInv, PTL DEF Spec

\* The stores and every thread's registers always have their types: in
\* particular no row, cached copy or call in flight names an id that was
\* never given out, and only images have thumbnails.
THEOREM TypeCorrect == Spec => []TypeOK
  <1>1. IInv => TypeOK
    BY DEF IInv
  <1> QED
    BY <1>1, Invariance, PTL

\* CopyEntry never pastes a payload other than the entry's own, with any
\* number of workers reading, deleting and filling the cache at once.
THEOREM NoPayloadMixup == Spec => []NeverAnotherPayload
  <1>1. IInv => NeverAnotherPayload
    BY DEF IInv
  <1> QED
    BY <1>1, Invariance, PTL

-----------------------------------------------------------------------------
(* What a step can do to the table, and what follows from it.              *)

\* Whatever a step does to the table, it is one of: nothing, an insertion, a
\* promotion, a pin, or a removal.
LEMMA TableSteps ==
  ASSUME [Next]_vars
  PROVE  \/ UNCHANGED <<rows, lastId>>
         \/ \E c \in Contents : Store(c)
         \/ \E id \in DOMAIN rows : Promote(id)
         \/ \E id \in DOMAIN rows, p \in BOOLEAN : SetPinned(id, p)
         \/ \E t \in Threads, id \in DOMAIN rows : DeleteEntry(t, id)
         \/ \E ids \in SUBSET Unpinned :
              rows' = Restrict(rows, DOMAIN rows \ ids) /\ lastId' = lastId
  <1>1. ASSUME NEW t \in Threads, NEW ids \in SUBSET Unpinned, NEW next,
               Remove(t, ids, next)
        PROVE  rows' = Restrict(rows, DOMAIN rows \ ids) /\ lastId' = lastId
    BY <1>1 DEF Remove
  <1>2. CASE PruneAge \/ PruneCount \/ PruneBudget \/ \E t \in Threads : Clear(t)
    <2>1. AgeVictims \in SUBSET Unpinned /\ Overflow \in SUBSET Unpinned
      BY DEF AgeVictims, Aged, Overflow
    <2>2. /\ Unpinned \in SUBSET Unpinned
          /\ \A K : Unpinned \ K \in SUBSET Unpinned
      OBVIOUS
    <2>3. Main \in Threads
      BY DEF Threads
    <2>4. \E t \in Threads, ids \in SUBSET Unpinned, next \in PCs : Remove(t, ids, next)
      <3>1. {"idle", "count", "budget"} \subseteq PCs
        BY DEF PCs
      <3>2. CASE PruneAge
        BY <3>1, <3>2, <2>1, <2>3 DEF PruneAge
      <3>3. CASE PruneCount
        BY <3>1, <3>3, <2>2, <2>3 DEF PruneCount
      <3>4. CASE PruneBudget
        BY <3>1, <3>4, <2>1, <2>3 DEF PruneBudget
      <3>5. CASE \E t \in Threads : Clear(t)
        BY <3>1, <3>5, <2>2 DEF Clear
      <3> QED
        BY <1>2, <3>2, <3>3, <3>4, <3>5
    <2> QED
      BY <1>1, <2>4
  <1>3. CASE UNCHANGED vars
    BY <1>3 DEF vars
  <1>4. CASE CacheInserted \/ EnsureThumbnail \/ PruneDone \/ Tick \/ Restart
    BY <1>4 DEF CacheInserted, EnsureThumbnail, PruneDone, Tick, Restart
  <1>5. CASE \E t \in Threads :
               \/ RemoveThumb(t) \/ EvictVictims(t)
               \/ \E id \in 1..lastId : CacheHit(t, id) \/ CacheMiss(t, id)
               \/ ReadRow(t) \/ ReadNothing(t) \/ FillCache(t)
    BY <1>5 DEF RemoveThumb, EvictVictims, CacheHit, CacheMiss, ReadRow, ReadNothing, FillCache
  <1> QED
    BY <1>2, <1>3, <1>4, <1>5 DEF Next, Pruning, Threads

\* Pinned entries survive every prune and every clear, whatever the limits.
THEOREM PinnedEntriesSurvive == Spec => PinnedSurvive
  <1> DEFINE Survives ==
        \A id \in DOMAIN rows :
          rows[id].pinned /\ id \notin DOMAIN rows' =>
            \E t \in Threads : DeleteEntry(t, id)
  <1>1. ASSUME [Next]_vars PROVE Survives
    <2> SUFFICES ASSUME NEW id \in DOMAIN rows, rows[id].pinned, id \notin DOMAIN rows'
                 PROVE  \E t \in Threads : DeleteEntry(t, id)
      OBVIOUS
    <2>1. \A c : ~Store(c)
      BY DEF Store, Extend
    <2>2. /\ \A i \in DOMAIN rows : ~Promote(i)
          /\ \A i \in DOMAIN rows, p \in BOOLEAN : ~SetPinned(i, p)
      BY DEF Promote, SetPinned
    <2>3. ASSUME NEW ids \in SUBSET Unpinned, rows' = Restrict(rows, DOMAIN rows \ ids)
          PROVE  FALSE
      BY <2>3 DEF Restrict, Unpinned
    <2>4. PICK t \in Threads, i \in DOMAIN rows : DeleteEntry(t, i)
      BY <1>1, <2>1, <2>2, <2>3, TableSteps
    <2>5. i = id
      BY <2>4 DEF DeleteEntry, Remove, Restrict
    <2> QED
      BY <2>4, <2>5
  <1> QED
    BY <1>1, PTL DEF Spec, PinnedSurvive

\* An id that lost its row never gets one again: AUTOINCREMENT, and no call
\* writes a row back.
THEOREM DeletedIdsStayDead == Spec => IdsNeverReused
  <1> DEFINE Dead == \A id \in 1..lastId : id \notin DOMAIN rows => id \notin DOMAIN rows'
  <1>1. ASSUME IInv, [Next]_vars PROVE Dead
    <2>1. ASSUME NEW c \in Contents, Store(c) PROVE Dead
      <3>1. lastId \in Nat /\ DOMAIN rows' = DOMAIN rows \cup {lastId + 1}
        BY <1>1, <2>1 DEF Store, FreshId, Extend, IInv, TypeOK
      <3> QED
        BY <3>1
    <2>2. ASSUME NEW id \in DOMAIN rows, Promote(id) PROVE Dead
      BY <2>2 DEF Promote
    <2>3. ASSUME NEW id \in DOMAIN rows, NEW p \in BOOLEAN, SetPinned(id, p) PROVE Dead
      BY <2>3 DEF SetPinned
    <2>4. ASSUME NEW t \in Threads, NEW id \in DOMAIN rows, DeleteEntry(t, id) PROVE Dead
      BY <2>4 DEF DeleteEntry, Remove, Restrict
    <2>5. ASSUME NEW ids \in SUBSET Unpinned, rows' = Restrict(rows, DOMAIN rows \ ids)
          PROVE  Dead
      BY <2>5 DEF Restrict
    <2> QED
      BY <1>1, <2>1, <2>2, <2>3, <2>4, <2>5, TableSteps
  <1> QED
    BY <1>1, Invariance, PTL DEF Spec, IdsNeverReused

-----------------------------------------------------------------------------
(* The table refines History.                                              *)

\* The table as History sees it.
Entries == [id \in DOMAIN rows |->
              [content |-> rows[id].content, pinned |-> rows[id].pinned]]

\* Every step of the store maps to a step of the abstract history, or to
\* none.
LEMMA StepIsHistoryStep ==
  ASSUME IInv, [Next]_vars
  PROVE  [H!Next]_(H!hvars)
  <1> USE DEF H!hvars
  <1>1. CASE UNCHANGED <<rows, lastId>>
    BY <1>1
  <1>2. ASSUME NEW c \in Contents, Store(c)
        PROVE  H!Capture(c)
    <2>1. /\ lastId' = lastId + 1 /\ lastId \in Nat
          /\ DOMAIN rows' = DOMAIN rows \cup {lastId + 1}
          /\ rows'[lastId + 1] = [content |-> c, pinned |-> FALSE, created |-> now]
          /\ \A id \in DOMAIN rows : id # lastId + 1 /\ rows'[id] = rows[id]
          /\ \A id \in DOMAIN rows : rows[id].content # c
      BY <1>2 DEF Store, Stored, FreshId, Extend, IInv, TypeOK
    <2>2. Entries' = [id \in DOMAIN Entries \cup {lastId + 1} |->
                        IF id = lastId + 1 THEN [content |-> c, pinned |-> FALSE]
                                           ELSE Entries[id]]
      <3>1. /\ DOMAIN Entries' = DOMAIN Entries \cup {lastId + 1}
            /\ DOMAIN Entries = DOMAIN rows
        BY <2>1 DEF Entries
      <3>2. /\ Entries'[lastId + 1] = [content |-> c, pinned |-> FALSE]
            /\ \A id \in DOMAIN rows : Entries'[id] = Entries[id]
        <4>1. \A id \in DOMAIN rows' :
                Entries'[id] = [content |-> rows'[id].content, pinned |-> rows'[id].pinned]
          BY DEF Entries
        <4>2. \A id \in DOMAIN rows :
                Entries[id] = [content |-> rows[id].content, pinned |-> rows[id].pinned]
          BY DEF Entries
        <4>3. lastId + 1 \in DOMAIN rows' /\ DOMAIN rows \subseteq DOMAIN rows'
          BY <2>1
        <4>4. Entries'[lastId + 1] = [content |-> c, pinned |-> FALSE]
          <5>1. rows'[lastId + 1].content = c /\ rows'[lastId + 1].pinned = FALSE
            BY <2>1
          <5> QED
            BY <4>1, <4>3, <5>1, Zenon
        <4>5. ASSUME NEW id \in DOMAIN rows PROVE Entries'[id] = Entries[id]
          BY <2>1, <4>1, <4>2, <4>3
        <4> QED
          BY <4>4, <4>5
      <3>3. Entries' = [id \in DOMAIN rows' |-> Entries'[id]]
        BY DEF Entries
      <3> HIDE DEF Entries
      <3> QED
        BY <2>1, <3>1, <3>2, <3>3
    <2> QED
      BY <2>1, <2>2 DEF H!Capture, Entries
  <1>3. ASSUME NEW id \in DOMAIN rows, Promote(id)
        PROVE  UNCHANGED H!hvars
    <2>1. /\ lastId' = lastId /\ DOMAIN rows' = DOMAIN rows
          /\ \A i \in DOMAIN rows : rows'[i].content = rows[i].content
                                     /\ rows'[i].pinned = rows[i].pinned
      BY <1>3 DEF Promote, IInv, TypeOK, Row
    <2> QED
      BY <2>1
  <1>4. ASSUME NEW id \in DOMAIN rows, NEW p \in BOOLEAN, SetPinned(id, p)
        PROVE  H!SetPin(id, p)
    <2>1. /\ lastId' = lastId /\ DOMAIN rows' = DOMAIN rows
          /\ rows'[id].pinned = p
          /\ \A i \in DOMAIN rows : rows'[i].content = rows[i].content
          /\ \A i \in DOMAIN rows \ {id} : rows'[i].pinned = rows[i].pinned
      BY <1>4 DEF SetPinned, IInv, TypeOK, Row
    <2>2. Entries' = [Entries EXCEPT ![id].pinned = p]
      BY <2>1 DEF Entries
    <2> QED
      BY <2>1, <2>2 DEF H!SetPin, Entries
  <1>5. ASSUME NEW t \in Threads, NEW id \in DOMAIN rows, DeleteEntry(t, id)
        PROVE  H!DeleteOne(id)
    <2>1. lastId' = lastId /\ rows' = Restrict(rows, DOMAIN rows \ {id})
      BY <1>5 DEF DeleteEntry, Remove
    <2>2. DOMAIN rows' = DOMAIN rows \ {id} /\ \A i \in DOMAIN rows' : rows'[i] = rows[i]
      BY <2>1 DEF Restrict
    <2>3. Entries' = [i \in DOMAIN rows \ {id} |-> Entries[i]]
      BY <2>2 DEF Entries
    <2>4. H!Restrict(Entries, DOMAIN Entries \ {id}) = [i \in DOMAIN rows \ {id} |-> Entries[i]]
      BY DEF Entries, H!Restrict
    <2> QED
      BY <2>1, <2>3, <2>4 DEF H!DeleteOne, Entries
  <1>6. ASSUME NEW ids \in SUBSET Unpinned,
               rows' = Restrict(rows, DOMAIN rows \ ids), lastId' = lastId
        PROVE  H!DropUnpinned(ids)
    <2>1. ids \subseteq H!Unpinned
      BY DEF Unpinned, H!Unpinned
    <2>2. DOMAIN rows' = DOMAIN rows \ ids /\ \A i \in DOMAIN rows' : rows'[i] = rows[i]
      BY <1>6 DEF Restrict
    <2>3. Entries' = [i \in DOMAIN rows \ ids |-> Entries[i]]
      BY <2>2 DEF Entries
    <2>4. H!Restrict(Entries, DOMAIN Entries \ ids) = [i \in DOMAIN rows \ ids |-> Entries[i]]
      BY DEF Entries, H!Restrict
    <2> QED
      BY <1>6, <2>1, <2>3, <2>4 DEF H!DropUnpinned, Entries
  <1>7. DOMAIN Entries = DOMAIN rows /\ H!Unpinned = Unpinned
    BY DEF Entries, H!Unpinned, Unpinned
  <1> QED
    BY <1>1, <1>2, <1>3, <1>4, <1>5, <1>6, <1>7, TableSteps DEF H!Next, Entries

\* The threaded store, seen through its table, is the abstract history:
\* every prune, clear, delete, promotion and crash is one of its steps.
THEOREM Refinement == Spec => IsHistory
  <1>1. Init => H!Init
    BY LimitAssumption DEF Init, Inherited, H!Init, H!HTypeOK, H!NoDuplicates, H!Entry
  <1> QED
    BY <1>1, StepIsHistoryStep, Invariance, PTL DEF Spec, IsHistory, H!Spec

\* No payload has two rows: a copy of something already stored promotes it.
THEOREM Deduplicated == Spec => []HoldsNoDuplicates
  <1> DEFINE Distinct ==
        \A i, j \in DOMAIN rows : rows[i].content = rows[j].content => i = j
  <1>1. Init => Distinct
    BY DEF Init
  <1>2. ASSUME IInv, Distinct, [Next]_vars PROVE Distinct'
    <2>1. ASSUME NEW c \in Contents, Store(c) PROVE Distinct'
      <3>1. /\ DOMAIN rows' = DOMAIN rows \cup {lastId + 1}
            /\ rows'[lastId + 1].content = c
            /\ \A id \in DOMAIN rows : rows'[id] = rows[id] /\ rows[id].content # c
        BY <1>2, <2>1 DEF Store, Stored, FreshId, Extend, IInv, TypeOK
      <3> QED
        BY <1>2, <3>1
    <2>2. ASSUME NEW id \in DOMAIN rows, Promote(id) PROVE Distinct'
      BY <1>2, <2>2 DEF Promote, IInv, TypeOK, Row
    <2>3. ASSUME NEW id \in DOMAIN rows, NEW p \in BOOLEAN, SetPinned(id, p)
          PROVE  Distinct'
      BY <1>2, <2>3 DEF SetPinned, IInv, TypeOK, Row
    <2>4. ASSUME NEW ids, rows' = Restrict(rows, DOMAIN rows \ ids) PROVE Distinct'
      BY <1>2, <2>4 DEF Restrict
    <2>5. ASSUME NEW t \in Threads, NEW id \in DOMAIN rows, DeleteEntry(t, id)
          PROVE  Distinct'
      BY <2>4, <2>5 DEF DeleteEntry, Remove
    <2> QED
      BY <1>2, <2>1, <2>2, <2>3, <2>4, <2>5, TableSteps
  <1>3. Distinct => HoldsNoDuplicates
    BY DEF HoldsNoDuplicates, H!NoDuplicates
  <1> QED
    BY <1>1, <1>2, <1>3, Invariance, PTL DEF Spec

-----------------------------------------------------------------------------
(* Induction over finite sets, as the absence of a smallest counterexample: *)
(* a set of subsets of a finite set has a minimal member.                  *)
LEMMA Minimal ==
  ASSUME NEW S, IsFiniteSet(S), NEW B \in SUBSET (SUBSET S), B # {}
  PROVE  \E T \in B : \A U \in B : U \subseteq T => U = T
  <1>1. IsWellFoundedOn(StrictSubsetOrdering(S), SUBSET S)
    BY FS_StrictSubsetOrderingWellFounded, FS_FiniteSubsetsOfFinite
  <1>2. \E T \in B : \A U \in B : ~(<<U, T>> \in StrictSubsetOrdering(S))
    BY <1>1, WFMin
  <1> QED
    BY <1>2 DEF StrictSubsetOrdering

\* A nonempty set of naturals has a least element.
LEMMA Least ==
  ASSUME NEW N \in SUBSET Nat, N # {}
  PROVE  \E n \in N : \A m \in N : n <= m
  <1>1. PICK k \in N : TRUE
    OBVIOUS
  <1> DEFINE S == 0..k
             B == {0..m : m \in N \cap S}
  <1>2. IsFiniteSet(S)
    BY <1>1, FS_Interval
  <1>3. B \in SUBSET (SUBSET S) /\ B # {}
    <2>1. k \in N \cap S
      BY <1>1
    <2>2. \A m \in N \cap S : (0..m) \in SUBSET S
      BY <1>1
    <2> QED
      BY <2>1, <2>2
  <1>4. PICK T \in B : \A U \in B : U \subseteq T => U = T
    <2> HIDE DEF B, S
    <2> QED
      BY <1>2, <1>3, Minimal
  <1>5. PICK n \in N \cap S : T = 0..n
    BY <1>4
  <1>6. ASSUME NEW m \in N, ~(n <= m) PROVE FALSE
    <2>1. m \in N \cap S /\ m \in Nat /\ n \in Nat /\ m < n
      BY <1>1, <1>6
    <2>2. (0..m) \in B /\ (0..m) \subseteq (0..n)
      BY <2>1
    <2>3. (0..m) = (0..n)
      BY <2>2, <1>4, <1>5
    <2>4. n \in 0..n
      BY <2>1
    <2> HIDE DEF S, B
    <2> QED
      BY <2>1, <2>3, <2>4
  <1> QED
    BY <1>5, <1>6

-----------------------------------------------------------------------------
(* The recursive function behind Total, and what it computes.              *)

Some(s) == CHOOSE x \in s : TRUE

IsTotal(t, w, S) ==
  t = [s \in SUBSET S |-> IF s = {} THEN 0 ELSE w[Some(s)] + t[s \ {Some(s)}]]

\* Total is that function, applied to the whole set.
LEMMA TotalDef ==
  ASSUME NEW w, NEW S
  PROVE  Total(w, S) = (CHOOSE t : IsTotal(t, w, S))[S]
  BY DEF Total, MapThenSumSet, MapThenFoldSet, IsTotal, Some

\* The member that is counted first is one.
LEMMA SomeIn ==
  ASSUME NEW s, s # {}
  PROVE  Some(s) \in s
  BY DEF Some

\* The equation has at most one solution.
LEMMA TotalUnique ==
  ASSUME NEW S, IsFiniteSet(S), NEW w, NEW t, NEW u,
         IsTotal(t, w, S), IsTotal(u, w, S)
  PROVE  t = u
  <1> DEFINE B == {s \in SUBSET S : t[s] # u[s]}
  <1>1. ASSUME B # {} PROVE FALSE
    <2>1. PICK s \in B : \A r \in B : r \subseteq s => r = s
      <3>1. B \in SUBSET (SUBSET S)
        OBVIOUS
      <3> HIDE DEF B
      <3> QED
        BY <1>1, <3>1, Minimal
    <2>2. s # {}
      BY DEF IsTotal
    <2>3. Some(s) \in s
      BY <2>2, SomeIn
    <2>4. s \ {Some(s)} \in SUBSET S /\ s \ {Some(s)} # s
      BY <2>3
    <2>5. t[s \ {Some(s)}] = u[s \ {Some(s)}]
      BY <2>1, <2>4
    <2>6. /\ t[s] = w[Some(s)] + t[s \ {Some(s)}]
          /\ u[s] = w[Some(s)] + u[s \ {Some(s)}]
      BY <2>2 DEF IsTotal
    <2> QED
      BY <2>5, <2>6
  <1>2. t = [s \in SUBSET S |-> t[s]] /\ u = [s \in SUBSET S |-> u[s]]
    BY DEF IsTotal
  <1> QED
    BY <1>1, <1>2

\* A solution for a set, restricted, is one for each of its subsets.
LEMMA TotalRestrict ==
  ASSUME NEW S, NEW w, NEW t, IsTotal(t, w, S), NEW T \in SUBSET S
  PROVE  IsTotal([s \in SUBSET T |-> t[s]], w, T)
  <1> DEFINE u == [s \in SUBSET T |-> t[s]]
  <1>1. ASSUME NEW s \in SUBSET T
        PROVE  u[s] = IF s = {} THEN 0 ELSE w[Some(s)] + u[s \ {Some(s)}]
    <2>1. t[s] = IF s = {} THEN 0 ELSE w[Some(s)] + t[s \ {Some(s)}]
      BY DEF IsTotal
    <2>2. u[s] = t[s] /\ u[s \ {Some(s)}] = t[s \ {Some(s)}]
      OBVIOUS
    <2> QED
      BY <2>1, <2>2
  <1>2. u = [s \in SUBSET T |-> u[s]]
    OBVIOUS
  <1> HIDE DEF u
  <1>3. u = [s \in SUBSET T |-> IF s = {} THEN 0 ELSE w[Some(s)] + u[s \ {Some(s)}]]
    BY <1>1, <1>2
  <1>4. IsTotal(u, w, T)
    BY <1>3 DEF IsTotal
  <1> QED
    BY <1>4 DEF u

\* Where the equation can be solved, Total adds one member at a time.
LEMMA TotalUnfold ==
  ASSUME NEW S, IsFiniteSet(S), NEW w, NEW t, IsTotal(t, w, S)
  PROVE  \A T \in SUBSET S :
           Total(w, T) = IF T = {} THEN 0 ELSE w[Some(T)] + Total(w, T \ {Some(T)})
  <1>1. ASSUME NEW T \in SUBSET S PROVE Total(w, T) = t[T]
    <2>1. IsTotal([s \in SUBSET T |-> t[s]], w, T)
      BY TotalRestrict
    <2>2. IsTotal(CHOOSE u : IsTotal(u, w, T), w, T)
      BY <2>1
    <2>3. IsFiniteSet(T)
      BY FS_Subset
    <2>4. (CHOOSE u : IsTotal(u, w, T)) = [s \in SUBSET T |-> t[s]]
      BY <2>1, <2>2, <2>3, TotalUnique
    <2> QED
      BY <2>4, TotalDef
  <1> QED
    BY <1>1 DEF IsTotal

\* On a finite set it can be solved.
LEMMA TotalExists ==
  ASSUME NEW S, IsFiniteSet(S), NEW w
  PROVE  \E t : IsTotal(t, w, S)
  <1> DEFINE B == {T \in SUBSET S : ~\E t : IsTotal(t, w, T)}
  <1>1. ASSUME B # {} PROVE FALSE
    <2>1. PICK T \in B : \A U \in B : U \subseteq T => U = T
      <3>1. B \in SUBSET (SUBSET S)
        OBVIOUS
      <3> HIDE DEF B
      <3> QED
        BY <1>1, <3>1, Minimal
    <2>2. ASSUME NEW U \in SUBSET T, U # T
          PROVE  Total(w, U) = IF U = {} THEN 0 ELSE w[Some(U)] + Total(w, U \ {Some(U)})
      <3>1. U \in SUBSET S /\ U \notin B
        BY <2>1, <2>2
      <3>2. PICK t : IsTotal(t, w, U)
        BY <3>1
      <3>3. IsFiniteSet(U)
        BY <3>1, FS_Subset
      <3> QED
        BY <3>2, <3>3, TotalUnfold
    <2> DEFINE last == IF T = {} THEN 0 ELSE w[Some(T)] + Total(w, T \ {Some(T)})
               t == [s \in SUBSET T |-> IF s = T THEN last ELSE Total(w, s)]
    <2>3. ASSUME NEW s \in SUBSET T
          PROVE  t[s] = IF s = {} THEN 0 ELSE w[Some(s)] + t[s \ {Some(s)}]
      <3>1. s # {} => /\ s \ {Some(s)} # T
                      /\ t[s \ {Some(s)}] = Total(w, s \ {Some(s)})
        <4>1. s # {} => Some(s) \in s
          BY SomeIn
        <4>2. s # {} => s \ {Some(s)} # T
          BY <4>1
        <4> QED
          BY <4>2
      <3>2. CASE s = T
        <4>1. t[s] = last
          BY <3>2
        <4> HIDE DEF t
        <4> QED
          BY <3>1, <3>2, <4>1
      <3>3. CASE s # T
        <4>1. t[s] = Total(w, s)
          BY <3>3
        <4> HIDE DEF t
        <4> QED
          BY <2>2, <3>1, <3>3, <4>1
      <3> QED
        BY <3>2, <3>3
    <2>4. t = [s \in SUBSET T |-> t[s]]
      OBVIOUS
    <2> HIDE DEF t
    <2>5. t = [s \in SUBSET T |-> IF s = {} THEN 0 ELSE w[Some(s)] + t[s \ {Some(s)}]]
      BY <2>3, <2>4
    <2>6. IsTotal(t, w, T)
      BY <2>5 DEF IsTotal
    <2> QED
      BY <2>1, <2>6
  <1>2. S \in SUBSET S
    OBVIOUS
  <1> QED
    BY <1>1, <1>2

\* What Total computes, one member at a time.
LEMMA TotalStep ==
  ASSUME NEW S, IsFiniteSet(S), NEW w
  PROVE  Total(w, S) = IF S = {} THEN 0 ELSE w[Some(S)] + Total(w, S \ {Some(S)})
  <1>1. PICK t : IsTotal(t, w, S)
    BY TotalExists
  <1> QED
    BY <1>1, TotalUnfold

\* A weight for every id of S, and sums that are naturals.
Weighs(w, S) == \A x \in S : w[x] \in Nat

\* A sum of naturals is one.
LEMMA TotalNat ==
  ASSUME NEW S, IsFiniteSet(S), NEW w, Weighs(w, S)
  PROVE  Total(w, S) \in Nat
  <1> DEFINE B == {T \in SUBSET S : Total(w, T) \notin Nat}
  <1>1. ASSUME B # {} PROVE FALSE
    <2>1. PICK T \in B : \A U \in B : U \subseteq T => U = T
      <3>1. B \in SUBSET (SUBSET S)
        OBVIOUS
      <3> HIDE DEF B
      <3> QED
        BY <1>1, <3>1, Minimal
    <2>2. IsFiniteSet(T)
      BY <2>1, FS_Subset
    <2>3. Total(w, T) = IF T = {} THEN 0 ELSE w[Some(T)] + Total(w, T \ {Some(T)})
      BY <2>2, TotalStep
    <2>4. T # {}
      BY <2>1, <2>3
    <2>5. Some(T) \in T /\ w[Some(T)] \in Nat
      BY <2>4, <2>1, SomeIn DEF Weighs
    <2>6. Total(w, T \ {Some(T)}) \in Nat
      BY <2>1, <2>5
    <2> QED
      BY <2>1, <2>3, <2>4, <2>5, <2>6
  <1>2. S \in SUBSET S
    OBVIOUS
  <1> QED
    BY <1>1, <1>2

\* It does not matter which member is counted first.
LEMMA TotalRemove ==
  ASSUME NEW S, IsFiniteSet(S), NEW w, Weighs(w, S), NEW x \in S
  PROVE  Total(w, S) = w[x] + Total(w, S \ {x})
  <1> DEFINE B == {T \in SUBSET S : \E y \in T : Total(w, T) # w[y] + Total(w, T \ {y})}
  <1>1. ASSUME B # {} PROVE FALSE
    <2>1. PICK T \in B : \A U \in B : U \subseteq T => U = T
      <3>1. B \in SUBSET (SUBSET S)
        OBVIOUS
      <3> HIDE DEF B
      <3> QED
        BY <1>1, <3>1, Minimal
    <2>2. PICK y \in T : Total(w, T) # w[y] + Total(w, T \ {y})
      BY <2>1
    <2> DEFINE c == Some(T)
    <2>3. c \in T
      BY <2>2, SomeIn
    <2>4. IsFiniteSet(T) /\ T \subseteq S
      BY <2>1, FS_Subset
    <2>5. Total(w, T) = w[c] + Total(w, T \ {c})
      BY <2>2, <2>4, TotalStep
    <2>6. y # c
      BY <2>2, <2>5
    <2>7. Total(w, T \ {c}) = w[y] + Total(w, (T \ {c}) \ {y})
      <3>1. T \ {c} \notin B /\ y \in T \ {c} /\ T \ {c} \in SUBSET S
        BY <2>1, <2>3, <2>6, <2>4
      <3> QED
        BY <3>1
    <2>8. Total(w, T \ {y}) = w[c] + Total(w, (T \ {y}) \ {c})
      <3>1. T \ {y} \notin B /\ c \in T \ {y} /\ T \ {y} \in SUBSET S
        BY <2>1, <2>3, <2>6, <2>4
      <3> QED
        BY <3>1
    <2>9. (T \ {y}) \ {c} = (T \ {c}) \ {y}
      OBVIOUS
    <2>10. Total(w, (T \ {c}) \ {y}) \in Nat
      <3>1. IsFiniteSet((T \ {c}) \ {y}) /\ Weighs(w, (T \ {c}) \ {y})
        BY <2>4, FS_Subset DEF Weighs
      <3> QED
        BY <3>1, TotalNat
    <2>11. w[c] \in Nat /\ w[y] \in Nat
      BY <2>3, <2>4 DEF Weighs
    <2> HIDE DEF c
    <2> QED
      BY <2>2, <2>5, <2>7, <2>8, <2>9, <2>10, <2>11
  <1>2. S \in SUBSET S
    OBVIOUS
  <1> QED
    BY <1>1, <1>2

\* A set and the rest of it add up to the whole.
LEMMA TotalSplit ==
  ASSUME NEW S, IsFiniteSet(S), NEW w, Weighs(w, S), NEW T \in SUBSET S
  PROVE  Total(w, S) = Total(w, T) + Total(w, S \ T)
  <1> DEFINE B == {U \in SUBSET S : Total(w, S) # Total(w, U) + Total(w, S \ U)}
  <1>1. ASSUME B # {} PROVE FALSE
    <2>1. PICK U \in B : \A V \in B : V \subseteq U => V = U
      <3>1. B \in SUBSET (SUBSET S)
        OBVIOUS
      <3> HIDE DEF B
      <3> QED
        BY <1>1, <3>1, Minimal
    <2>2. IsFiniteSet(U) /\ U \subseteq S /\ IsFiniteSet(S \ U)
      BY <2>1, FS_Subset
    <2>3. U # {}
      <3>1. Total(w, {}) = 0 /\ Total(w, S) \in Nat /\ S \ {} = S
        BY FS_EmptySet, TotalStep, TotalNat
      <3>2. Total(w, S) = Total(w, {}) + Total(w, S \ {})
        BY <3>1
      <3>3. Total(w, S) # Total(w, U) + Total(w, S \ U)
        BY <2>1
      <3> QED
        BY <3>2, <3>3, Zenon
    <2>4. PICK x \in U : TRUE
      BY <2>3
    <2> DEFINE V == U \ {x}
    <2>5. V \in SUBSET S /\ V # U /\ V \subseteq U
      BY <2>2, <2>4
    <2>6. Total(w, S) = Total(w, V) + Total(w, S \ V)
      BY <2>1, <2>5
    <2>7. Total(w, U) = w[x] + Total(w, V)
      BY <2>2, <2>4, TotalRemove DEF Weighs
    <2>8. Total(w, S \ V) = w[x] + Total(w, S \ U)
      <3>1. (S \ V) \ {x} = S \ U /\ x \in S \ V
        BY <2>2, <2>4
      <3>2. IsFiniteSet(S \ V) /\ Weighs(w, S \ V)
        BY FS_Subset DEF Weighs
      <3> QED
        BY <3>1, <3>2, TotalRemove
    <2>9. Total(w, V) \in Nat /\ Total(w, S \ U) \in Nat /\ w[x] \in Nat
      <3>1. IsFiniteSet(V) /\ Weighs(w, V) /\ Weighs(w, S \ U)
        BY <2>2, <2>5, FS_Subset DEF Weighs
      <3> QED
        BY <3>1, <2>2, <2>4, TotalNat DEF Weighs
    <2> HIDE DEF V
    <2> QED
      BY <2>1, <2>6, <2>7, <2>8, <2>9
  <1> QED
    BY <1>1

\* A part never weighs more than the whole.
LEMMA TotalMonotone ==
  ASSUME NEW S, IsFiniteSet(S), NEW w, Weighs(w, S), NEW T \in SUBSET S
  PROVE  Total(w, T) \in Nat /\ Total(w, S) \in Nat /\ Total(w, T) <= Total(w, S)
  <1>1. /\ IsFiniteSet(T) /\ Weighs(w, T)
        /\ IsFiniteSet(S \ T) /\ Weighs(w, S \ T)
    BY FS_Subset DEF Weighs
  <1>2. Total(w, T) \in Nat /\ Total(w, S \ T) \in Nat /\ Total(w, S) \in Nat
    BY <1>1, TotalNat
  <1> QED
    BY <1>2, TotalSplit

\* Only the weights of the members count.
LEMMA TotalSame ==
  ASSUME NEW S, IsFiniteSet(S), NEW w, NEW v, \A x \in S : w[x] = v[x]
  PROVE  Total(w, S) = Total(v, S)
  <1> DEFINE B == {T \in SUBSET S : Total(w, T) # Total(v, T)}
  <1>1. ASSUME B # {} PROVE FALSE
    <2>1. PICK T \in B : \A U \in B : U \subseteq T => U = T
      <3>1. B \in SUBSET (SUBSET S)
        OBVIOUS
      <3> HIDE DEF B
      <3> QED
        BY <1>1, <3>1, Minimal
    <2>2. IsFiniteSet(T)
      BY <2>1, FS_Subset
    <2>3. /\ Total(w, T) = IF T = {} THEN 0 ELSE w[Some(T)] + Total(w, T \ {Some(T)})
          /\ Total(v, T) = IF T = {} THEN 0 ELSE v[Some(T)] + Total(v, T \ {Some(T)})
      BY <2>2, TotalStep
    <2>4. T # {}
      BY <2>1, <2>3
    <2>5. Some(T) \in T /\ w[Some(T)] = v[Some(T)]
      BY <2>4, <2>1, SomeIn
    <2>6. Total(w, T \ {Some(T)}) = Total(v, T \ {Some(T)})
      BY <2>1, <2>5
    <2> QED
      BY <2>1, <2>3, <2>4, <2>5, <2>6
  <1>2. S \in SUBSET S
    OBVIOUS
  <1> QED
    BY <1>1, <1>2

-----------------------------------------------------------------------------
(* Retained keeps exactly the ids it should, in an order without repeats.  *)

\* What the recursion of Retained builds from the first n ids.
IsKept(k, order, ids, n) ==
  k = [i \in 0..n |->
         IF i = 0 THEN <<>>
         ELSE IF order[i] \in ids THEN k[i - 1]
         ELSE Append(k[i - 1], order[i])]

\* The recursion is well founded.
LEMMA KeptExists ==
  ASSUME NEW order, NEW ids, NEW n \in Nat
  PROVE  \E k : IsKept(k, order, ids, n)
  <1> DEFINE N == {m \in Nat : ~\E k : IsKept(k, order, ids, m)}
  <1>1. ASSUME N # {} PROVE FALSE
    <2>1. PICK m \in N : \A l \in N : m <= l
      <3>1. N \in SUBSET Nat
        OBVIOUS
      <3> HIDE DEF N
      <3> QED
        BY <1>1, <3>1, Least
    <2>2. m # 0
      <3>1. IsKept([i \in 0..0 |-> <<>>], order, ids, 0)
        BY DEF IsKept
      <3> QED
        BY <2>1, <3>1
    <2>3. m - 1 \in Nat /\ m - 1 \notin N
      BY <2>1, <2>2
    <2>4. PICK k : IsKept(k, order, ids, m - 1)
      BY <2>3
    <2> DEFINE last == IF order[m] \in ids THEN k[m - 1] ELSE Append(k[m - 1], order[m])
               f == [i \in 0..m |-> IF i = m THEN last ELSE k[i]]
    <2>5. \A i \in 0..(m - 1) :
            k[i] = IF i = 0 THEN <<>>
                   ELSE IF order[i] \in ids THEN k[i - 1]
                   ELSE Append(k[i - 1], order[i])
      BY <2>4 DEF IsKept
    <2>6. ASSUME NEW i \in 0..m
          PROVE  f[i] = IF i = 0 THEN <<>>
                        ELSE IF order[i] \in ids THEN f[i - 1]
                        ELSE Append(f[i - 1], order[i])
      <3>1. i # 0 => i - 1 \in 0..(m - 1) /\ f[i - 1] = k[i - 1]
        BY <2>1
      <3>2. CASE i = m
        <4>1. f[i] = last
          BY <3>2
        <4> HIDE DEF f
        <4> QED
          BY <2>2, <3>1, <3>2, <4>1
      <3>3. CASE i # m
        <4>1. i \in 0..(m - 1) /\ f[i] = k[i]
          BY <3>3, <2>1
        <4> HIDE DEF f
        <4> QED
          BY <2>5, <3>1, <4>1
      <3> QED
        BY <3>2, <3>3
    <2>7. f = [i \in 0..m |-> f[i]]
      OBVIOUS
    <2> HIDE DEF f
    <2>8. f = [i \in 0..m |->
                 IF i = 0 THEN <<>>
                 ELSE IF order[i] \in ids THEN f[i - 1]
                 ELSE Append(f[i - 1], order[i])]
      BY <2>6, <2>7
    <2>9. IsKept(f, order, ids, m)
      BY <2>8 DEF IsKept
    <2> QED
      BY <2>1, <2>9
  <1> QED
    BY <1>1

\* A recency order: a sequence of distinct ids.
Recency(order, ids) == order \in Seq(ids) /\ IsInjective(order) /\ Range(order) = ids

\* A new id at the end of a recency order.
LEMMA AppendNew ==
  ASSUME NEW ids, NEW order, Recency(order, ids), NEW x, x \notin ids
  PROVE  Recency(Append(order, x), ids \cup {x})
  <1>1. /\ order \in Seq(ids \cup {x}) /\ Len(order) \in Nat
        /\ Append(order, x) \in Seq(ids \cup {x})
    BY DEF Recency
  <1>2. /\ DOMAIN order = 1..Len(order)
        /\ DOMAIN Append(order, x) = 1..(Len(order) + 1)
        /\ \A i \in 1..Len(order) : Append(order, x)[i] = order[i]
        /\ Append(order, x)[Len(order) + 1] = x
    BY <1>1
  <1>3. \A i \in 1..Len(order) : order[i] \in ids
    BY <1>2 DEF Recency, Range
  <1>4. IsInjective(Append(order, x))
    BY <1>1, <1>2, <1>3 DEF Recency, IsInjective
  <1>5. Range(Append(order, x)) = ids \cup {x}
    BY <1>1, <1>2, <1>3 DEF Recency, Range
  <1> QED
    BY <1>1, <1>4, <1>5 DEF Recency

\* Retained forgets the given ids and only those, and repeats none.
LEMMA RetainedRecency ==
  ASSUME NEW all, NEW order, Recency(order, all), NEW ids
  PROVE  Recency(Retained(order, ids), all \ ids)
  <1> DEFINE k == CHOOSE f : IsKept(f, order, ids, Len(order))
             First(n) == {order[j] : j \in 1..n}
             N == {n \in 0..Len(order) : ~Recency(k[n], First(n) \ ids)}
  <1>0. Len(order) \in Nat /\ DOMAIN order = 1..Len(order)
    BY DEF Recency
  <1>1. Retained(order, ids) = k[Len(order)]
    BY DEF Retained, IsKept
  <1>2. IsKept(k, order, ids, Len(order))
    BY <1>0, KeptExists
  <1>3. \A i \in 0..Len(order) :
          k[i] = IF i = 0 THEN <<>>
                 ELSE IF order[i] \in ids THEN k[i - 1]
                 ELSE Append(k[i - 1], order[i])
    <2> HIDE DEF k
    <2> QED
      BY <1>2 DEF IsKept
  <1> HIDE DEF k
  <1>4. ASSUME N # {} PROVE FALSE
    <2>1. PICK n \in N : \A l \in N : n <= l
      <3>1. N \in SUBSET Nat
        BY <1>0
      <3> HIDE DEF N
      <3> QED
        BY <1>4, <3>1, Least
    <2>2. n # 0
      <3>1. Recency(<<>>, {})
        BY DEF Recency, IsInjective, Range
      <3>2. k[0] = <<>> /\ First(0) \ ids = {}
        BY <1>0, <1>3
      <3>3. Recency(k[0], First(0) \ ids)
        BY <3>1, <3>2
      <3> HIDE DEF First
      <3>4. ASSUME n = 0 PROVE Recency(k[n], First(n) \ ids)
        BY <3>3, <3>4, Zenon
      <3> QED
        BY <2>1, <3>4
    <2>3. n - 1 \in 0..Len(order) /\ n - 1 \notin N /\ n \in 1..Len(order)
      <3>1. n \in 0..Len(order)
        OBVIOUS
      <3> HIDE DEF N
      <3> QED
        BY <1>0, <2>1, <2>2, <3>1
    <2>5. First(n) = First(n - 1) \cup {order[n]}
      <3>1. 1..n = 1..(n - 1) \cup {n}
        BY <2>3
      <3> QED
        BY <3>1
    <2>6. order[n] \notin First(n - 1)
      BY <1>0, <2>3 DEF Recency, IsInjective
    <2> HIDE DEF First
    <2>4. Recency(k[n - 1], First(n - 1) \ ids)
      BY <2>3
    <2>7. ~Recency(k[n], (First(n - 1) \cup {order[n]}) \ ids)
      BY <2>1, <2>5
    <2>8. k[n] = IF order[n] \in ids THEN k[n - 1] ELSE Append(k[n - 1], order[n])
      BY <1>3, <2>3
    <2>9. CASE order[n] \in ids
      <3>1. (First(n - 1) \cup {order[n]}) \ ids = First(n - 1) \ ids /\ k[n] = k[n - 1]
        BY <2>8, <2>9
      <3> QED
        BY <2>4, <2>7, <3>1
    <2>10. CASE order[n] \notin ids
      <3>1. (First(n - 1) \cup {order[n]}) \ ids = (First(n - 1) \ ids) \cup {order[n]}
        BY <2>10
      <3>2. k[n] = Append(k[n - 1], order[n]) /\ order[n] \notin First(n - 1) \ ids
        BY <2>6, <2>8, <2>10
      <3>3. Recency(Append(k[n - 1], order[n]), (First(n - 1) \ ids) \cup {order[n]})
        BY <2>4, <3>2, AppendNew
      <3> QED
        BY <2>7, <3>1, <3>2, <3>3
    <2> QED
      BY <2>9, <2>10
  <1>5. First(Len(order)) = all
    BY <1>0 DEF Recency, Range
  <1> HIDE DEF First
  <1>6. Recency(k[Len(order)], First(Len(order)) \ ids)
    BY <1>0, <1>4
  <1> QED
    BY <1>1, <1>5, <1>6

-----------------------------------------------------------------------------
(* The account: the byte count is what the listed payloads weigh.          *)

\* What every operation of the cache keeps, the budget aside.
Tracked(c) ==
  /\ IsFiniteSet(DOMAIN c.map)
  /\ \A id \in DOMAIN c.map : c.map[id] \in Contents
  /\ Recency(c.order, DOMAIN c.map)
  /\ c.bytes = PayloadBytes(c.map, DOMAIN c.map)

\* Payloads weigh naturals, and a part of the cache weighs no more than the
\* whole of it: `bytes -= len` never goes below zero.
LEMMA PayloadSplit ==
  ASSUME NEW map, IsFiniteSet(DOMAIN map), \A id \in DOMAIN map : map[id] \in Contents,
         NEW ids \in SUBSET DOMAIN map
  PROVE  /\ PayloadBytes(map, DOMAIN map) \in Nat
         /\ PayloadBytes(map, ids) \in Nat
         /\ PayloadBytes(map, DOMAIN map \ ids) \in Nat
         /\ PayloadBytes(map, DOMAIN map)
              = PayloadBytes(map, ids) + PayloadBytes(map, DOMAIN map \ ids)
  <1> DEFINE w == [id \in DOMAIN map |-> Size[map[id]]]
  <1>1. Weighs(w, DOMAIN map) /\ Weighs(w, ids) /\ Weighs(w, DOMAIN map \ ids)
    BY SizeAssumption DEF Weighs
  <1>2. IsFiniteSet(ids) /\ IsFiniteSet(DOMAIN map \ ids)
    BY FS_Subset
  <1> HIDE DEF w
  <1>3. /\ Total(w, DOMAIN map) \in Nat
        /\ Total(w, ids) \in Nat
        /\ Total(w, DOMAIN map \ ids) \in Nat
        /\ Total(w, DOMAIN map) = Total(w, ids) + Total(w, DOMAIN map \ ids)
    BY <1>1, <1>2, TotalNat, TotalSplit
  <1> QED
    BY <1>3 DEF PayloadBytes, w

\* What a set of ids weighs depends on their own payloads only.
LEMMA PayloadSame ==
  ASSUME NEW map, NEW map2, NEW ids, IsFiniteSet(ids),
         ids \subseteq DOMAIN map, ids \subseteq DOMAIN map2,
         \A id \in ids : map[id] = map2[id]
  PROVE  PayloadBytes(map, ids) = PayloadBytes(map2, ids)
  <1> DEFINE w == [id \in DOMAIN map |-> Size[map[id]]]
             v == [id \in DOMAIN map2 |-> Size[map2[id]]]
  <1>1. \A id \in ids : w[id] = v[id]
    OBVIOUS
  <1> HIDE DEF w, v
  <1>2. Total(w, ids) = Total(v, ids)
    BY <1>1, TotalSame
  <1> QED
    BY <1>2 DEF PayloadBytes, w, v

\* Evicting ids takes exactly their bytes off the account.
LEMMA EvictTracked ==
  ASSUME NEW c, Tracked(c), NEW ids
  PROVE  /\ Tracked(EvictIds(c, ids))
         /\ EvictIds(c, ids).bytes <= c.bytes
         /\ DOMAIN c.map \subseteq ids => EvictIds(c, ids).bytes = 0
  <1> DEFINE gone == ids \cap DOMAIN c.map
             left == DOMAIN c.map \ gone
             e == EvictIds(c, ids)
  <1>1. /\ DOMAIN e.map = left /\ \A k \in left : e.map[k] = c.map[k]
        /\ e.order = Retained(c.order, gone)
        /\ e.bytes = c.bytes - PayloadBytes(c.map, gone)
    BY DEF EvictIds, Restrict
  <1>2. gone \in SUBSET DOMAIN c.map /\ left \subseteq DOMAIN c.map
    OBVIOUS
  <1> HIDE DEF e, gone
  <1>3. IsFiniteSet(left) /\ \A k \in left : e.map[k] \in Contents
    BY <1>1, <1>2, FS_Subset DEF Tracked
  <1>4. Recency(e.order, left)
    BY <1>1, RetainedRecency DEF Tracked
  <1>5. /\ PayloadBytes(c.map, DOMAIN c.map) \in Nat
        /\ PayloadBytes(c.map, gone) \in Nat
        /\ PayloadBytes(c.map, left) \in Nat
        /\ PayloadBytes(c.map, DOMAIN c.map)
             = PayloadBytes(c.map, gone) + PayloadBytes(c.map, left)
    BY <1>2, PayloadSplit DEF Tracked
  <1>6. PayloadBytes(c.map, left) = PayloadBytes(e.map, left)
    BY <1>1, <1>2, <1>3, PayloadSame
  <1>7. e.bytes = PayloadBytes(c.map, left) /\ e.bytes <= c.bytes
    BY <1>1, <1>5 DEF Tracked
  <1>8. Tracked(e)
    BY <1>1, <1>3, <1>4, <1>6, <1>7 DEF Tracked
  <1>9. DOMAIN c.map \subseteq ids => e.bytes = 0
    <2>1. ASSUME DOMAIN c.map \subseteq ids PROVE left = {}
      BY <2>1 DEF gone
    <2>2. PayloadBytes(c.map, {}) = 0
      <3> DEFINE w == [id \in DOMAIN c.map |-> Size[c.map[id]]]
      <3> HIDE DEF w
      <3>1. Total(w, {}) = 0
        BY FS_EmptySet, TotalStep
      <3> QED
        BY <3>1 DEF PayloadBytes, w
    <2> HIDE DEF left
    <2> QED
      BY <1>7, <2>1, <2>2
  <1> QED
    BY <1>7, <1>8, <1>9 DEF e

\* A touched id is listed once, last.
LEMMA TouchRecency ==
  ASSUME NEW ids, NEW c, Recency(c.order, ids), NEW id
  PROVE  Recency(Touch(c, id).order, ids \cup {id})
  <1>1. Recency(Retained(c.order, {id}), ids \ {id})
    BY RetainedRecency
  <1>2. Recency(Append(Retained(c.order, {id}), id), (ids \ {id}) \cup {id})
    BY <1>1, AppendNew
  <1>3. (ids \ {id}) \cup {id} = ids \cup {id}
    OBVIOUS
  <1> QED
    BY <1>2, <1>3 DEF Touch

\* A hit changes the order and nothing of the account.
LEMMA TouchTracked ==
  ASSUME NEW c, Tracked(c), NEW id \in DOMAIN c.map
  PROVE  Tracked(Touch(c, id)) /\ Touch(c, id).bytes = c.bytes
  <1>1. Touch(c, id).map = c.map /\ Touch(c, id).bytes = c.bytes
    BY DEF Touch
  <1>2. DOMAIN c.map \cup {id} = DOMAIN c.map
    OBVIOUS
  <1>3. Recency(Touch(c, id).order, DOMAIN c.map)
    BY <1>2, TouchRecency DEF Tracked
  <1> QED
    BY <1>1, <1>3 DEF Tracked

\* Popping the coldest ids ends within the budget: when all are gone nothing
\* weighs anything.
LEMMA EvictOverBudgetTracked ==
  ASSUME NEW c, Tracked(c)
  PROVE  /\ Tracked(EvictOverBudget(c))
         /\ EvictOverBudget(c).bytes <= CacheBudget
  <1> DEFINE Coldest(n) == {c.order[i] : i \in 1..n}
             Enough == {n \in 0..Len(c.order) :
                          \/ EvictIds(c, Coldest(n)).bytes <= CacheBudget
                          \/ n = Len(c.order)}
  <1>1. Len(c.order) \in Nat /\ Coldest(Len(c.order)) = DOMAIN c.map
    BY DEF Tracked, Recency, Range
  <1>2. EvictOverBudget(c) = EvictIds(c, Coldest(Min(Enough)))
    BY DEF EvictOverBudget
  <1>3. Min(Enough) \in Enough
    <2>1. Enough \in SUBSET Nat /\ Enough # {}
      BY <1>1
    <2> HIDE DEF Enough
    <2>2. \E n \in Enough : \A m \in Enough : n <= m
      BY <2>1, Least
    <2> QED
      BY <2>2 DEF Min
  <1> DEFINE n == Min(Enough)
  <1>4. EvictIds(c, Coldest(n)).bytes <= CacheBudget \/ n = Len(c.order)
    <2>1. n \in Enough
      BY <1>3
    <2> HIDE DEF n
    <2> QED
      BY <2>1
  <1> HIDE DEF n, Enough, Coldest
  <1>5. EvictIds(c, Coldest(n)).bytes <= CacheBudget
    <2>1. EvictIds(c, DOMAIN c.map).bytes = 0
      BY EvictTracked
    <2> QED
      BY <1>1, <1>4, <2>1, BudgetAssumption
  <1>6. Tracked(EvictIds(c, Coldest(n)))
    BY EvictTracked
  <1> QED
    BY <1>2, <1>5, <1>6 DEF n

\* A put replaces what the id weighed by what it weighs now, and evicts down
\* to the budget.
LEMMA PutTracked ==
  ASSUME NEW c, Tracked(c), c.bytes <= CacheBudget, NEW id, NEW x \in Contents
  PROVE  Tracked(Put(c, id, x)) /\ Put(c, id, x).bytes <= CacheBudget
  <1>1. CASE CacheBudget = 0 \/ Size[x] > CacheBudget
    BY <1>1 DEF Put
  <1>2. CASE ~(CacheBudget = 0 \/ Size[x] > CacheBudget)
    <2> DEFINE old == IF id \in DOMAIN c.map THEN Size[c.map[id]] ELSE 0
               map == Extend(c.map, id, x)
               rest == DOMAIN c.map \ {id}
               fresh == [map |-> map, order |-> c.order, bytes |-> c.bytes - old + Size[x]]
               touched == Touch(fresh, id)
    <2>1. Put(c, id, x) = EvictOverBudget(touched)
      BY <1>2 DEF Put
    <2>2. touched.map = map /\ touched.bytes = c.bytes - old + Size[x]
      BY DEF Touch
    <2>3. /\ DOMAIN map = DOMAIN c.map \cup {id} /\ map[id] = x
          /\ \A k \in rest : map[k] = c.map[k]
      BY DEF Extend
    <2>4. Recency(touched.order, DOMAIN c.map \cup {id})
      <3>1. Recency(fresh.order, DOMAIN c.map)
        BY DEF Tracked
      <3> HIDE DEF fresh
      <3> QED
        BY <3>1, TouchRecency
    <2> HIDE DEF touched, fresh, map
    <2>5. /\ IsFiniteSet(DOMAIN map) /\ \A k \in DOMAIN map : map[k] \in Contents
          /\ IsFiniteSet(rest)
      BY <2>3, FS_AddElement, FS_RemoveElement DEF Tracked
    <2>6. PayloadBytes(map, DOMAIN map) = Size[x] + PayloadBytes(map, rest)
      <3> DEFINE w == [k \in DOMAIN map |-> Size[map[k]]]
      <3>1. Weighs(w, DOMAIN map) /\ w[id] = Size[x] /\ DOMAIN map \ {id} = rest
        BY <2>3, <2>5, SizeAssumption DEF Weighs
      <3> HIDE DEF w, rest
      <3>2. Total(w, DOMAIN map) = w[id] + Total(w, DOMAIN map \ {id})
        BY <2>3, <2>5, <3>1, TotalRemove
      <3> QED
        BY <3>1, <3>2 DEF PayloadBytes, w
    <2>7. PayloadBytes(c.map, DOMAIN c.map) = old + PayloadBytes(c.map, rest)
      <3>1. CASE id \in DOMAIN c.map
        <4> DEFINE w == [k \in DOMAIN c.map |-> Size[c.map[k]]]
        <4>1. Weighs(w, DOMAIN c.map) /\ w[id] = old
          BY <3>1, SizeAssumption DEF Weighs, Tracked
        <4> HIDE DEF w, old
        <4>2. Total(w, DOMAIN c.map) = w[id] + Total(w, DOMAIN c.map \ {id})
          BY <3>1, <4>1, TotalRemove DEF Tracked
        <4> QED
          BY <4>1, <4>2 DEF PayloadBytes, w
      <3>2. CASE id \notin DOMAIN c.map
        <4>1. rest = DOMAIN c.map /\ old = 0
          BY <3>2
        <4>2. PayloadBytes(c.map, DOMAIN c.map) \in Nat
          BY PayloadSplit DEF Tracked
        <4>3. PayloadBytes(c.map, rest) = PayloadBytes(c.map, DOMAIN c.map)
          BY <4>1
        <4> HIDE DEF rest, old
        <4> QED
          BY <4>1, <4>2, <4>3
      <3> QED
        BY <3>1, <3>2
    <2>8. /\ PayloadBytes(map, rest) = PayloadBytes(c.map, rest)
          /\ PayloadBytes(c.map, rest) \in Nat
      <3>1. rest \subseteq DOMAIN map /\ rest \in SUBSET DOMAIN c.map
        BY <2>3
      <3>2. IsFiniteSet(rest) /\ \A k \in rest : map[k] = c.map[k]
        BY <2>3, <2>5
      <3>3. /\ IsFiniteSet(DOMAIN c.map)
            /\ \A k \in DOMAIN c.map : c.map[k] \in Contents
        BY DEF Tracked
      <3> HIDE DEF rest
      <3>4. PayloadBytes(map, rest) = PayloadBytes(c.map, rest)
        BY <3>1, <3>2, PayloadSame
      <3>5. PayloadBytes(c.map, rest) \in Nat
        BY <3>1, <3>3, PayloadSplit
      <3> QED
        BY <3>4, <3>5
    <2>9. old \in Nat /\ Size[x] \in Nat
      BY SizeAssumption DEF Tracked
    <2> HIDE DEF old, rest
    <2>10. touched.bytes = PayloadBytes(touched.map, DOMAIN touched.map)
      BY <2>2, <2>6, <2>7, <2>8, <2>9 DEF Tracked
    <2>11. Tracked(touched)
      BY <2>2, <2>3, <2>4, <2>5, <2>10 DEF Tracked
    <2> QED
      BY <2>1, <2>11, EvictOverBudgetTracked
  <1> QED
    BY <1>1, <1>2

\* The account, as the runs check it.
LEMMA TrackedConsistent ==
  ASSUME NEW c, Tracked(c), c.bytes <= CacheBudget
  PROVE  LruConsistent(c)
  BY DEF Tracked, Recency, LruConsistent

\* The empty cache is accounted for.
LEMMA EmptyTracked == Tracked(EmptyCache) /\ EmptyCache.bytes <= CacheBudget
  <1> DEFINE w == [id \in {} |-> Size[EmptyMap[id]]]
  <1>1. Total(w, {}) = 0
    <2> HIDE DEF w
    <2> QED
      BY FS_EmptySet, TotalStep
  <1>2. DOMAIN EmptyMap = {} /\ EmptyCache.map = EmptyMap
    BY DEF EmptyCache, EmptyMap
  <1>3. PayloadBytes(EmptyMap, {}) = 0
    BY <1>1, <1>2 DEF PayloadBytes
  <1>4. Recency(<<>>, {})
    BY DEF Recency, IsInjective, Range
  <1>5. EmptyCache.order = <<>> /\ EmptyCache.bytes = 0
    BY DEF EmptyCache
  <1>6. DOMAIN EmptyCache.map = {} /\ PayloadBytes(EmptyCache.map, {}) = 0
    BY <1>2, <1>3
  <1> QED
    BY <1>4, <1>5, <1>6, FS_EmptySet, BudgetAssumption DEF Tracked

\* The cache is only ever changed by its own operations.
LEMMA CacheSteps ==
  ASSUME IInv, [Next]_vars
  PROVE  \/ cache' = cache
         \/ cache' = EmptyCache
         \/ \E ids : cache' = EvictIds(cache, ids)
         \/ \E id \in DOMAIN cache.map : cache' = Touch(cache, id)
         \/ \E id, x : x \in Contents /\ cache' = Put(cache, id, x)
  <1>1. CASE CacheInserted
    BY <1>1 DEF CacheInserted, IInv, Carries, Threads
  <1>2. ASSUME NEW t \in Threads, FillCache(t)
        PROVE  \E id, x : x \in Contents /\ cache' = Put(cache, id, x)
    BY <1>2 DEF FillCache, IInv, Carries
  <1>3. CASE \E t \in Threads : RemoveThumb(t) \/ EvictVictims(t)
    BY <1>3 DEF RemoveThumb, EvictVictims
  <1>4. CASE \E t \in Threads : \E id \in 1..lastId : CacheHit(t, id) \/ CacheMiss(t, id)
    BY <1>4 DEF CacheHit, CacheMiss
  <1>5. CASE \/ \E c \in Contents : Store(c)
             \/ \E id \in DOMAIN rows : Promote(id)
             \/ \E id \in DOMAIN rows, p \in BOOLEAN : SetPinned(id, p)
    BY <1>5 DEF Store, Promote, SetPinned
  <1>6. CASE \/ PruneAge \/ PruneCount \/ PruneBudget
             \/ \E t \in Threads :
                  Clear(t) \/ \E id \in DOMAIN rows : DeleteEntry(t, id)
    BY <1>6, Removals DEF Remove
  <1>7. CASE EnsureThumbnail \/ PruneDone \/ Tick \/ Restart \/ UNCHANGED vars
    BY <1>7 DEF EnsureThumbnail, PruneDone, Tick, Restart, vars
  <1>8. CASE \E t \in Threads : ReadRow(t) \/ ReadNothing(t)
    BY <1>8 DEF ReadRow, ReadNothing
  <1> QED
    BY <1>1, <1>2, <1>3, <1>4, <1>5, <1>6, <1>7, <1>8 DEF Next, Pruning, Threads

\* Through any interleaving of hits, fills, puts and evictions by id, the
\* cache's recency order lists its ids once each, its byte count is exact
\* and its budget holds.
THEOREM CacheStaysAccounted == Spec => []CacheAccounted
  <1> DEFINE Account == Tracked(cache) /\ cache.bytes <= CacheBudget
  <1>1. Init => Account
    BY EmptyTracked DEF Init
  <1>2. ASSUME IInv, Account, [Next]_vars PROVE Account'
    <2>1. CASE cache' = cache
      BY <1>2, <2>1
    <2>2. CASE cache' = EmptyCache
      BY <2>2, EmptyTracked
    <2>3. ASSUME NEW ids, cache' = EvictIds(cache, ids) PROVE Account'
      <3>1. /\ Tracked(EvictIds(cache, ids))
            /\ EvictIds(cache, ids).bytes <= cache.bytes
        BY <1>2, EvictTracked
      <3>2. cache.bytes \in Nat
        BY <1>2, PayloadSplit DEF Tracked
      <3>3. EvictIds(cache, ids).bytes \in Nat
        BY <3>1, PayloadSplit DEF Tracked
      <3> QED
        BY <1>2, <2>3, <3>1, <3>2, <3>3, BudgetAssumption
    <2>4. ASSUME NEW id \in DOMAIN cache.map, cache' = Touch(cache, id) PROVE Account'
      BY <1>2, <2>4, TouchTracked
    <2>5. ASSUME NEW id, NEW x \in Contents, cache' = Put(cache, id, x) PROVE Account'
      BY <1>2, <2>5, PutTracked
    <2> QED
      BY <1>2, <2>1, <2>2, <2>3, <2>4, <2>5, CacheSteps
  <1>3. Account => CacheAccounted
    BY TrackedConsistent DEF CacheAccounted
  <1> QED
    BY <1>1, <1>2, <1>3, Invariance, PTL DEF Spec

-----------------------------------------------------------------------------
(* Pruning: what the main loop may do while it holds the connection, and   *)
(* what each rule leaves behind.                                           *)

\* The rows weigh naturals, and there are finitely many.
RowWeight == [id \in DOMAIN rows |-> Size[rows[id].content]]

\* RowBytes is the sum of those weights.
LEMMA RowsWeigh ==
  ASSUME IInv
  PROVE  /\ IsFiniteSet(DOMAIN rows)
         /\ Weighs(RowWeight, DOMAIN rows)
         /\ \A ids : RowBytes(ids) = Total(RowWeight, ids)
  <1>1. /\ DOMAIN rows \subseteq 1..lastId /\ lastId \in Nat
        /\ \A id \in DOMAIN rows : rows[id].content \in Contents
    BY DEF IInv, TypeOK, Row
  <1>2. IsFiniteSet(1..lastId)
    BY <1>1, FS_Interval
  <1>3. IsFiniteSet(DOMAIN rows)
    BY <1>1, <1>2, FS_Subset
  <1>4. Weighs(RowWeight, DOMAIN rows)
    BY <1>1, SizeAssumption DEF Weighs, RowWeight
  <1>5. \A ids : RowBytes(ids) = Total(RowWeight, ids)
    BY DEF RowBytes, RowWeight
  <1> QED
    BY <1>3, <1>4, <1>5

\* Fewer rows weigh no more, and none weigh nothing.
LEMMA RowBytesMonotone ==
  ASSUME IInv, NEW S \in SUBSET DOMAIN rows, NEW T \in SUBSET S
  PROVE  /\ RowBytes(T) \in Nat /\ RowBytes(S) \in Nat
         /\ RowBytes(T) <= RowBytes(S)
         /\ RowBytes(S) = RowBytes(T) + RowBytes(S \ T)
         /\ RowBytes({}) = 0
  <1>1. IsFiniteSet(S) /\ Weighs(RowWeight, S)
    BY RowsWeigh, FS_Subset DEF Weighs
  <1>2. /\ Total(RowWeight, T) \in Nat /\ Total(RowWeight, S) \in Nat
        /\ Total(RowWeight, T) <= Total(RowWeight, S)
    BY <1>1, TotalMonotone
  <1>3. Total(RowWeight, S) = Total(RowWeight, T) + Total(RowWeight, S \ T)
    BY <1>1, TotalSplit
  <1>4. Total(RowWeight, {}) = 0
    BY FS_EmptySet, TotalStep
  <1>5. /\ RowBytes(T) = Total(RowWeight, T) /\ RowBytes(S) = Total(RowWeight, S)
        /\ RowBytes(S \ T) = Total(RowWeight, S \ T)
        /\ RowBytes({}) = Total(RowWeight, {})
    BY RowsWeigh
  <1> QED
    BY <1>2, <1>3, <1>4, <1>5

\* The eviction order is a strict total order of the rows.
LEMMA OlderOrder ==
  ASSUME IInv
  PROVE  \A i, j, k \in DOMAIN rows :
           /\ ~Older(i, i)
           /\ Older(i, j) /\ Older(j, k) => Older(i, k)
           /\ i = j \/ Older(i, j) \/ Older(j, i)
  <1>1. \A i \in DOMAIN rows : rows[i].created \in Nat /\ i \in Nat
    BY DEF IInv, TypeOK, Row
  <1> QED
    BY <1>1 DEF Older

\* Some rows have a first one in the eviction order.
LEMMA FirstEvicted ==
  ASSUME IInv, NEW S \in SUBSET DOMAIN rows, S # {}
  PROVE  \E first \in S : \A j \in S : ~Older(j, first)
  <1> DEFINE Below(i) == {j \in S : Older(j, i)}
             B == {Below(i) : i \in S}
  <1>1. IsFiniteSet(S)
    BY RowsWeigh, FS_Subset
  <1>2. PICK T \in B : \A U \in B : U \subseteq T => U = T
    <2>1. B \in SUBSET (SUBSET S) /\ B # {}
      OBVIOUS
    <2> HIDE DEF B
    <2> QED
      BY <1>1, <2>1, Minimal
  <1>3. PICK i \in S : T = Below(i)
    OBVIOUS
  <1>4. ASSUME NEW j \in S, Older(j, i) PROVE FALSE
    <2>1. Below(j) \subseteq Below(i)
      BY <1>4, OlderOrder
    <2>2. j \in Below(i) /\ j \notin Below(j)
      BY <1>4, OlderOrder
    <2>3. Below(j) \in B
      OBVIOUS
    <2> HIDE DEF Below, B
    <2> QED
      BY <1>2, <1>3, <2>1, <2>2, <2>3
  <1> QED
    BY <1>4

\* And a last one.
LEMMA LastEvicted ==
  ASSUME IInv, NEW S \in SUBSET DOMAIN rows, S # {}
  PROVE  \E newest \in S : \A j \in S \ {newest} : Older(j, newest)
  <1> DEFINE Above(i) == {j \in S : Older(i, j)}
             B == {Above(i) : i \in S}
  <1>1. IsFiniteSet(S)
    BY RowsWeigh, FS_Subset
  <1>2. PICK T \in B : \A U \in B : U \subseteq T => U = T
    <2>1. B \in SUBSET (SUBSET S) /\ B # {}
      OBVIOUS
    <2> HIDE DEF B
    <2> QED
      BY <1>1, <2>1, Minimal
  <1>3. PICK i \in S : T = Above(i)
    OBVIOUS
  <1>4. ASSUME NEW j \in S, Older(i, j) PROVE FALSE
    <2>1. Above(j) \subseteq Above(i)
      BY <1>4, OlderOrder
    <2>2. j \in Above(i) /\ j \notin Above(j)
      BY <1>4, OlderOrder
    <2>3. Above(j) \in B
      OBVIOUS
    <2> HIDE DEF Above, B
    <2> QED
      BY <1>2, <1>3, <2>1, <2>2, <2>3
  <1>5. \A j \in S \ {i} : Older(j, i)
    BY <1>4, OlderOrder
  <1> QED
    BY <1>5

\* Over budget with something unpinned, the prefix to evict is not empty:
\* `n == 0` means that only pinned rows are left.
LEMMA SomethingOverflows ==
  ASSUME IInv, OverBudget, Unpinned # {}
  PROVE  Overflow # {}
  <1>1. Unpinned \in SUBSET DOMAIN rows
    BY DEF Unpinned
  <1>2. PICK first \in Unpinned : \A j \in Unpinned : ~Older(j, first)
    BY <1>1, FirstEvicted
  <1>3. {j \in Unpinned : Older(j, first)} = {}
    BY <1>2
  <1>4. RowBytes({}) = 0 /\ RowBytes(DOMAIN rows) \in Nat
    BY RowBytesMonotone
  <1>5. RowBytes({j \in Unpinned : Older(j, first)}) = 0
    BY <1>3, <1>4
  <1>6. RowBytes(DOMAIN rows) > MaxTotal /\ MaxTotal \in Nat
    BY LimitAssumption DEF OverBudget
  <1>7. RowBytes({j \in Unpinned : Older(j, first)}) < RowBytes(DOMAIN rows) - MaxTotal
    BY <1>4, <1>5, <1>6
  <1> QED
    BY <1>7 DEF Overflow

\* The byte budget evicts from the old end.
LEMMA OverflowIsOldest ==
  ASSUME IInv, NEW i \in Overflow, NEW j \in Unpinned, Older(j, i)
  PROVE  j \in Overflow
  <1> DEFINE Below(k) == {l \in Unpinned : Older(l, k)}
  <1>1. /\ i \in DOMAIN rows /\ j \in DOMAIN rows
        /\ Unpinned \subseteq DOMAIN rows
        /\ RowBytes(Below(i)) < RowBytes(DOMAIN rows) - MaxTotal
    BY DEF Overflow, Unpinned
  <1>2. Below(j) \in SUBSET Below(i) /\ Below(i) \in SUBSET DOMAIN rows
    BY <1>1, OlderOrder
  <1>3. /\ RowBytes(Below(j)) \in Nat /\ RowBytes(Below(i)) \in Nat
        /\ RowBytes(Below(j)) <= RowBytes(Below(i))
    <2> HIDE DEF Below
    <2> QED
      BY <1>2, RowBytesMonotone
  <1>4. RowBytes(DOMAIN rows) \in Nat /\ MaxTotal \in Nat
    BY RowBytesMonotone, LimitAssumption
  <1>5. RowBytes(Below(j)) < RowBytes(DOMAIN rows) - MaxTotal
    BY <1>1, <1>3, <1>4
  <1> QED
    BY <1>5 DEF Overflow

\* The budget rule of a prune drops no entry too many: with just the newest of
\* its victims put back, the history would exceed the budget again.
THEOREM BudgetIsNotWasted == Spec => NoEvictionBeyondBudget
  <1>1. ASSUME IInv, PruneBudget
        PROVE  LET dropped == DOMAIN rows \ DOMAIN rows'
               IN \E newest \in dropped :
                    /\ \A v \in dropped \ {newest} : Older(v, newest)
                    /\ RowBytes(DOMAIN rows' \cup {newest}) > MaxTotal
    <2>1. Overflow \in SUBSET DOMAIN rows /\ Overflow # {}
      BY <1>1 DEF PruneBudget, Overflow, Unpinned
    <2>2. DOMAIN rows' = DOMAIN rows \ Overflow
      BY <1>1 DEF PruneBudget, Remove, Restrict
    <2>3. PICK newest \in Overflow : \A j \in Overflow \ {newest} : Older(j, newest)
      BY <1>1, <2>1, LastEvicted
    <2> DEFINE Below == {j \in Unpinned : Older(j, newest)}
               freed == Overflow \ {newest}
    <2>4. RowBytes(Below) < RowBytes(DOMAIN rows) - MaxTotal
      BY DEF Overflow
    <2>5. freed \in SUBSET Below /\ Below \in SUBSET DOMAIN rows /\ freed \in SUBSET DOMAIN rows
      BY <2>1, <2>3 DEF Overflow, Unpinned
    <2> HIDE DEF Below, freed
    <2>6. /\ RowBytes(freed) \in Nat /\ RowBytes(Below) \in Nat
          /\ RowBytes(freed) <= RowBytes(Below)
      BY <1>1, <2>5, RowBytesMonotone
    <2>7. RowBytes(DOMAIN rows) = RowBytes(freed) + RowBytes(DOMAIN rows \ freed)
      BY <1>1, <2>5, RowBytesMonotone
    <2>8. RowBytes(DOMAIN rows \ freed) \in Nat /\ RowBytes(DOMAIN rows) \in Nat
      <3>1. DOMAIN rows \ freed \in SUBSET DOMAIN rows
        OBVIOUS
      <3> QED
        BY <1>1, <3>1, RowBytesMonotone
    <2>9. MaxTotal \in Nat
      BY LimitAssumption
    <2>10. RowBytes(DOMAIN rows \ freed) > MaxTotal
      BY <2>4, <2>6, <2>7, <2>8, <2>9
    <2>11. DOMAIN rows' \cup {newest} = DOMAIN rows \ freed
      BY <2>1, <2>2, <2>3 DEF freed
    <2>12. DOMAIN rows \ DOMAIN rows' = Overflow
      BY <2>1, <2>2
    <2> QED
      BY <2>3, <2>10, <2>11, <2>12
  <1> QED
    BY <1>1, Invariance, PTL DEF Spec, NoEvictionBeyondBudget

\* A step that ends with the main loop holding the connection is one of the
\* three rules, or leaves the table and the way back to them alone.
Passes ==
  /\ rows' = rows /\ conn = Main
  /\ \/ pc'[Main] = pc[Main] /\ then'[Main] = then[Main]
     \/ pc[Main] = "unlink" /\ pc'[Main] \in {"unlink", "evict"} /\ then'[Main] = then[Main]
     \/ pc[Main] = "evict" /\ pc'[Main] = then[Main]

\* While the main loop holds the connection it is inside a prune.
PruneHolds ==
  conn = Main =>
    /\ pc[Main] \in {"count", "budget", "unlink", "evict"}
    /\ pc[Main] \in {"unlink", "evict"} => then[Main] \in {"count", "budget"}

\* While a pruning pass holds the connection, only its own steps go on.
LEMMA HoldingSteps ==
  ASSUME IInv, PruneHolds, [Next]_vars, conn' = Main
  PROVE  PruneAge \/ PruneCount \/ PruneBudget \/ Passes
  <1>0. Main # None /\ Main \in Threads
    BY NoneAssumption DEF Threads
  <1>1. ASSUME conn' = conn PROVE conn = Main /\ pc[Main] \notin {"idle", "put", "thumb", "disk", "fill"}
    BY <1>1 DEF PruneHolds
  <1>2. CASE \/ \E c \in Contents : Store(c)
             \/ \E id \in DOMAIN rows : Promote(id)
             \/ \E id \in DOMAIN rows, p \in BOOLEAN : SetPinned(id, p)
             \/ \E t \in Threads :
                  Clear(t) \/ \E id \in DOMAIN rows : DeleteEntry(t, id)
    BY <1>0, <1>2 DEF Store, Promote, SetPinned, Clear, DeleteEntry, Enter
  <1>3. CASE CacheInserted \/ EnsureThumbnail
    BY <1>1, <1>3 DEF CacheInserted, EnsureThumbnail
  <1>4. CASE PruneDone \/ Restart
    BY <1>0, <1>4 DEF PruneDone, Restart
  <1>5. CASE Tick \/ UNCHANGED vars
    BY <1>5, <1>1 DEF Tick, vars, regs, Passes
  <1>6. ASSUME NEW t \in Threads, RemoveThumb(t) PROVE Passes
    <2>1. rows' = rows /\ then' = then /\ conn' = conn /\ pc[t] = "unlink"
      BY <1>6 DEF RemoveThumb
    <2>2. PICK label \in {"unlink", "evict"} : pc' = [pc EXCEPT ![t] = label]
      BY <1>6 DEF RemoveThumb, Goto
    <2> QED
      BY <1>1, <2>1, <2>2, <1>0, Registers DEF Passes
  <1>7. ASSUME NEW t \in Threads, EvictVictims(t) PROVE Passes
    <2>1. rows' = rows /\ conn' = conn /\ pc[t] = "evict"
      BY <1>7 DEF EvictVictims
    <2>2. pc' = [pc EXCEPT ![t] = then[t]] /\ then' = [then EXCEPT ![t] = "idle"]
      BY <1>7 DEF EvictVictims, Goto
    <2> QED
      BY <1>1, <2>1, <2>2, <1>0, Registers DEF Passes
  <1>8. ASSUME NEW t \in Threads, NEW id \in 1..lastId, CacheHit(t, id) \/ CacheMiss(t, id)
        PROVE  Passes
    <2>1. conn' = conn /\ rows' = rows /\ then' = then /\ pc[t] = "idle"
      BY <1>8 DEF CacheHit, CacheMiss, regs
    <2>2. pc'[Main] = pc[Main]
      BY <1>8, <2>1, <1>1, <1>0, Registers DEF CacheHit, CacheMiss, Goto
    <2> QED
      BY <1>1, <2>1, <2>2 DEF Passes
  <1>9. ASSUME NEW t \in Threads, ReadRow(t) \/ ReadNothing(t) PROVE FALSE
    BY <1>9, <1>0 DEF ReadRow, ReadNothing
  <1>10. ASSUME NEW t \in Threads, FillCache(t) PROVE Passes
    <2>1. conn' = conn /\ rows' = rows /\ then' = then /\ pc[t] = "fill"
      BY <1>10 DEF FillCache
    <2>2. pc'[Main] = pc[Main]
      BY <1>10, <2>1, <1>1, <1>0, Registers DEF FillCache, Goto
    <2> QED
      BY <1>1, <2>1, <2>2 DEF Passes
  <1> QED
    BY <1>2, <1>3, <1>4, <1>5, <1>6, <1>7, <1>8, <1>9, <1>10 DEF Next, Pruning, Threads

\* A rule goes to its next stop, through the removal of thumbnails and
\* cached copies if it deleted anything.
LEMMA RemoveGoes ==
  ASSUME IInv, NEW ids, NEW next, Remove(Main, ids, next)
  PROVE  /\ DOMAIN rows' = DOMAIN rows \ ids
         /\ \A id \in DOMAIN rows' : rows'[id] = rows[id]
         /\ pc'[Main] = next \/ (pc'[Main] = "unlink" /\ then'[Main] = next)
  BY Registers DEF Remove, Restrict, Goto

\* A prune never drops an unpinned row while keeping an older one.
LEMMA PruneDropsOldest ==
  ASSUME IInv, PruneAge \/ PruneCount \/ PruneBudget,
         NEW gone \in DOMAIN rows \ DOMAIN rows', NEW kept \in Unpinned \cap DOMAIN rows'
  PROVE  rows[gone].created <= rows[kept].created
  <1>0. /\ gone \in DOMAIN rows /\ kept \in DOMAIN rows /\ ~rows[kept].pinned
        /\ rows[gone].created \in Nat /\ rows[kept].created \in Nat
        /\ now \in Nat /\ MaxAge \in Nat
    BY LimitAssumption DEF IInv, TypeOK, Row, Unpinned
  <1>1. CASE PruneAge
    <2>1. gone \in AgeVictims /\ kept \notin AgeVictims
      BY <1>1, RemoveGoes DEF PruneAge
    <2>2. gone \in Aged /\ kept \notin Aged
      BY <2>1 DEF AgeVictims
    <2> QED
      BY <1>0, <2>2 DEF Aged
  <1>2. CASE PruneCount
    <2>1. PICK K \in SUBSET DOMAIN rows :
            /\ IF MaxEntries > 0 THEN Kept(K) ELSE K = DOMAIN rows
            /\ Remove(Main, Unpinned \ K, "budget")
      BY <1>2 DEF PruneCount
    <2>2. gone \in Unpinned \ K /\ kept \in K
      <3>1. DOMAIN rows' = DOMAIN rows \ (Unpinned \ K)
        BY <2>1, RemoveGoes
      <3> QED
        BY <3>1
    <2>3. ~Before(gone, kept)
      BY <1>0, <2>1, <2>2 DEF Kept
    <2>4. rows[gone].pinned = rows[kept].pinned
      BY <1>0, <2>2 DEF IInv, TypeOK, Row, Unpinned
    <2>5. ~(rows[gone].created > rows[kept].created)
      BY <2>3, <2>4 DEF Before
    <2> QED
      BY <1>0, <2>5
  <1>3. CASE PruneBudget
    <2>1. gone \in Overflow /\ kept \notin Overflow
      BY <1>3, RemoveGoes DEF PruneBudget
    <2>2. ~Older(kept, gone)
      BY <2>1, OverflowIsOldest
    <2> QED
      BY <1>0, <2>2 DEF Older
  <1> QED
    BY <1>1, <1>2, <1>3

\* What the count rule has reached, as long as the prune lasts.
AfterCount ==
  \/ pc[Main] = "budget"
  \/ pc[Main] \in {"unlink", "evict"} /\ then[Main] = "budget"

CountReached ==
  conn = Main /\ AfterCount =>
    \/ Unpinned = {}
    \/ MaxEntries > 0 => Cardinality(DOMAIN rows) <= MaxEntries

\* The least of two.
LEMMA MinPair ==
  ASSUME NEW a \in Nat, NEW b \in Nat
  PROVE  Min({a, b}) <= a
  <1>1. \E n \in {a, b} : \A m \in {a, b} : n <= m
    OBVIOUS
  <1> QED
    BY <1>1 DEF Min

\* The LIMIT query lists pinned rows first: if an unpinned one is kept, all
\* pinned ones are among the kept, and what is left is within the cap.
LEMMA CountCaps ==
  ASSUME IInv, PruneCount, MaxEntries > 0
  PROVE  Unpinned' = {} \/ Cardinality(DOMAIN rows') <= MaxEntries
  <1>1. PICK K \in SUBSET DOMAIN rows : Kept(K) /\ Remove(Main, Unpinned \ K, "budget")
    BY DEF PruneCount
  <1>2. /\ DOMAIN rows' = DOMAIN rows \ (Unpinned \ K)
        /\ \A id \in DOMAIN rows' : rows'[id] = rows[id]
    BY <1>1, RemoveGoes
  <1>3. ASSUME NEW i \in Unpinned' PROVE DOMAIN rows' = K
    <2>1. i \in K /\ ~rows[i].pinned
      BY <1>2, <1>3 DEF Unpinned
    <2>2. ASSUME NEW j \in DOMAIN rows \ K PROVE j \in Unpinned
      <3>1. ~Before(j, i)
        BY <1>1, <2>1, <2>2 DEF Kept
      <3> QED
        BY <2>1, <3>1 DEF Before, Unpinned
    <2> QED
      BY <1>2, <2>2
  <1>4. Cardinality(K) <= MaxEntries
    <2>1. Cardinality(K) = Min({MaxEntries, Cardinality(DOMAIN rows)})
      BY <1>1 DEF Kept
    <2>2. MaxEntries \in Nat /\ Cardinality(DOMAIN rows) \in Nat
      BY LimitAssumption, RowsWeigh, FS_CardinalityType
    <2> QED
      BY <2>1, <2>2, MinPair
  <1> QED
    BY <1>3, <1>4

\* Fewer rows stay within the cap.
LEMMA FewerRows ==
  ASSUME IInv, DOMAIN rows' \subseteq DOMAIN rows,
         \A id \in DOMAIN rows' : rows'[id] = rows[id],
         \/ Unpinned = {}
         \/ MaxEntries > 0 => Cardinality(DOMAIN rows) <= MaxEntries
  PROVE  \/ Unpinned' = {}
         \/ MaxEntries > 0 => Cardinality(DOMAIN rows') <= MaxEntries
  <1>1. /\ IsFiniteSet(DOMAIN rows)
        /\ Cardinality(DOMAIN rows') <= Cardinality(DOMAIN rows)
        /\ Cardinality(DOMAIN rows) \in Nat /\ Cardinality(DOMAIN rows') \in Nat
    BY RowsWeigh, FS_Subset, FS_CardinalityType
  <1>2. Unpinned' \subseteq Unpinned
    BY DEF Unpinned
  <1>3. MaxEntries \in Nat
    BY LimitAssumption
  <1> QED
    BY <1>1, <1>2, <1>3

PruneInv == PruneHolds /\ CountReached

\* Both hold in every run.
LEMMA PruneInvHolds == Spec => []PruneInv
  <1>1. Init => PruneInv
    BY NoneAssumption DEF Init, PruneInv, PruneHolds, CountReached, AfterCount
  <1>2. ASSUME IInv, PruneInv, [Next]_vars PROVE PruneInv'
    <2> SUFFICES ASSUME conn' = Main PROVE PruneInv'
      BY DEF PruneInv, PruneHolds, CountReached, AfterCount
    <2>1. CASE PruneAge
      <3>1. pc'[Main] = "count" \/ (pc'[Main] = "unlink" /\ then'[Main] = "count")
        BY <1>2, <2>1, RemoveGoes DEF PruneAge
      <3> QED
        BY <3>1 DEF PruneInv, PruneHolds, CountReached, AfterCount
    <2>2. CASE PruneCount
      <3>1. PICK K \in SUBSET DOMAIN rows :
              /\ IF MaxEntries > 0 THEN Kept(K) ELSE K = DOMAIN rows
              /\ Remove(Main, Unpinned \ K, "budget")
        BY <2>2 DEF PruneCount
      <3>2. pc'[Main] = "budget" \/ (pc'[Main] = "unlink" /\ then'[Main] = "budget")
        BY <1>2, <3>1, RemoveGoes
      <3>3. Unpinned' = {} \/ (MaxEntries > 0 => Cardinality(DOMAIN rows') <= MaxEntries)
        BY <1>2, <2>2, CountCaps
      <3> QED
        BY <3>2, <3>3 DEF PruneInv, PruneHolds, CountReached, AfterCount
    <2>3. CASE PruneBudget
      <3>1. Remove(Main, Overflow, "budget") /\ conn = Main /\ pc[Main] = "budget"
        BY <2>3 DEF PruneBudget
      <3>2. /\ DOMAIN rows' \subseteq DOMAIN rows
            /\ \A id \in DOMAIN rows' : rows'[id] = rows[id]
            /\ pc'[Main] = "budget" \/ (pc'[Main] = "unlink" /\ then'[Main] = "budget")
        BY <1>2, <3>1, RemoveGoes
      <3>3. Unpinned = {} \/ (MaxEntries > 0 => Cardinality(DOMAIN rows) <= MaxEntries)
        BY <1>2, <3>1 DEF PruneInv, CountReached, AfterCount
      <3>4. Unpinned' = {} \/ (MaxEntries > 0 => Cardinality(DOMAIN rows') <= MaxEntries)
        BY <1>2, <3>2, <3>3, FewerRows
      <3> QED
        BY <3>2, <3>4 DEF PruneInv, PruneHolds, CountReached, AfterCount
    <2>4. CASE Passes
      <3>1. PruneHolds'
        BY <1>2, <2>4 DEF Passes, PruneInv, PruneHolds
      <3>2. rows' = rows /\ Unpinned' = Unpinned
        BY <2>4 DEF Passes, Unpinned
      <3>3. AfterCount' => AfterCount
        <4>1. CASE pc'[Main] = pc[Main] /\ then'[Main] = then[Main]
          BY <4>1 DEF AfterCount
        <4>2. CASE pc[Main] = "unlink" /\ then'[Main] = then[Main]
                   /\ pc'[Main] \in {"unlink", "evict"}
          BY <4>2 DEF AfterCount
        <4>3. CASE pc[Main] = "evict" /\ pc'[Main] = then[Main]
          <5>1. then[Main] \in {"count", "budget"}
            BY <1>2, <2>4, <4>3 DEF Passes, PruneInv, PruneHolds
          <5> QED
            BY <4>3, <5>1 DEF AfterCount
        <4> QED
          BY <2>4, <4>1, <4>2, <4>3 DEF Passes
      <3>4. CountReached'
        BY <1>2, <2>4, <3>2, <3>3 DEF Passes, PruneInv, CountReached
      <3> QED
        BY <3>1, <3>4 DEF PruneInv
    <2>5. PruneHolds
      BY <1>2 DEF PruneInv
    <2> QED
      BY <1>2, <2>1, <2>2, <2>3, <2>4, <2>5, HoldingSteps
  <1> QED
    BY <1>1, <1>2, Invariance, PTL DEF Spec

\* Whatever rule drops an entry, no older unpinned one is kept.
THEOREM OldestEntriesGoFirst == Spec => OldestGoFirst
  <1> DEFINE Oldest ==
        conn' = Main =>
          \A gone \in DOMAIN rows \ DOMAIN rows', kept \in Unpinned \cap DOMAIN rows' :
            rows[gone].created <= rows[kept].created
  <1>1. ASSUME IInv, PruneInv, [Next]_vars, conn' = Main,
               NEW gone \in DOMAIN rows \ DOMAIN rows', NEW kept \in Unpinned \cap DOMAIN rows'
        PROVE  rows[gone].created <= rows[kept].created
    <2>1. ~Passes
      BY DEF Passes
    <2>2. PruneAge \/ PruneCount \/ PruneBudget
      BY <1>1, <2>1, HoldingSteps DEF PruneInv
    <2> QED
      BY <1>1, <2>2, PruneDropsOldest
  <1>2. IInv /\ PruneInv /\ [Next]_vars => Oldest
    BY <1>1
  <1> QED
    BY <1>2, Invariance, PruneInvHolds, PTL DEF Spec, OldestGoFirst

\* The connection is only let go of at the end of a prune, or by a crash.
LEMMA LettingGo ==
  ASSUME IInv, PruneHolds, [Next]_vars, conn = Main, conn' = None
  PROVE  PruneDone \/ Restart
  <1>0. Main # None
    BY NoneAssumption
  <1>1. CASE \/ \E c \in Contents : Store(c)
             \/ \E id \in DOMAIN rows : Promote(id)
             \/ \E id \in DOMAIN rows, p \in BOOLEAN : SetPinned(id, p)
             \/ CacheInserted \/ EnsureThumbnail \/ Tick \/ UNCHANGED vars
    BY <1>0, <1>1 DEF Store, Promote, SetPinned, CacheInserted, EnsureThumbnail, Tick, vars
  <1>2. CASE \E t \in Threads :
               Clear(t) \/ \E id \in DOMAIN rows : DeleteEntry(t, id)
    BY <1>0, <1>2 DEF Clear, DeleteEntry
  <1>3. CASE PruneAge \/ PruneCount \/ PruneBudget
    BY <1>0, <1>3 DEF PruneAge, PruneCount, PruneBudget
  <1>4. CASE \E t \in Threads :
               \/ RemoveThumb(t) \/ EvictVictims(t)
               \/ \E id \in 1..lastId : CacheHit(t, id) \/ CacheMiss(t, id)
               \/ ReadRow(t) \/ ReadNothing(t) \/ FillCache(t)
    BY <1>0, <1>4 DEF RemoveThumb, EvictVictims, CacheHit, CacheMiss, ReadRow, ReadNothing, FillCache
  <1> QED
    BY <1>1, <1>2, <1>3, <1>4 DEF Next, Pruning, Threads

\* When a prune is over, both limits hold as far as the pinned rows allow,
\* although the budget rule ran on what the count rule had left.
THEOREM PruneReachesBothLimits == Spec => PruneReachesLimits
  <1>1. ASSUME IInv, PruneInv, [Next]_vars, conn = Main, conn' = None, pc'[Main] = "idle"
        PROVE  \/ Unpinned = {}
               \/ /\ MaxEntries > 0 => Cardinality(DOMAIN rows) <= MaxEntries
                  /\ ~OverBudget
    <2>1. ~Restart
      BY <1>1 DEF Restart, Threads
    <2>2. PruneDone
      BY <1>1, <2>1, LettingGo DEF PruneInv
    <2>3. pc[Main] = "budget" /\ (OverBudget => Overflow = {})
      BY <2>2 DEF PruneDone, NothingLeftToDrop
    <2>4. Unpinned = {} \/ (MaxEntries > 0 => Cardinality(DOMAIN rows) <= MaxEntries)
      BY <1>1, <2>3 DEF PruneInv, CountReached, AfterCount
    <2>5. OverBudget => Unpinned = {}
      BY <1>1, <2>3, SomethingOverflows
    <2> QED
      BY <2>4, <2>5
  <1> QED
    BY <1>1, Invariance, PruneInvHolds, PTL DEF Spec, PruneReachesLimits

-----------------------------------------------------------------------------
(* One thread.  Without workers nothing runs between a DELETE and the      *)
(* eviction of what it deleted, or between an INSERT and its cache entry   *)
(* and thumbnail; with them both properties fail (StorageStale).           *)

\* What the main loop has still to remove, and the row its insert is about.
MainLine ==
  /\ victims[Main] # {} => pc[Main] \in {"unlink", "evict"}
  /\ todo[Main] # {} => pc[Main] = "unlink"
  /\ pc[Main] \in {"put", "thumb", "fill"} => arg[Main].id \in DOMAIN rows

SerialInv == MainLine /\ DeletedNotServed

\* The threads are the main loop alone.
LEMMA OneThread ==
  ASSUME Workers = {}
  PROVE  /\ Threads = {Main}
         /\ DeletedNotServed <=>
              \A id \in DOMAIN cache.map : id \in DOMAIN rows \/ id \in Ids(victims[Main])
         /\ ThumbnailsFollowRows <=>
              \A c \in thumbs : Stored(c) \/ \E v \in todo[Main] : v.content = c
  BY DEF Threads, DeletedNotServed, ThumbnailsFollowRows

\* Deleted rows are handed over to the evictions and unlinks that follow.
LEMMA SerialRemove ==
  ASSUME IInv, SerialInv, Workers = {},
         NEW ids \in SUBSET DOMAIN rows, NEW next \in Continuations, Remove(Main, ids, next),
         pc[Main] \in {"idle", "prune", "count", "budget"}
  PROVE  SerialInv' /\ (ThumbnailsFollowRows => ThumbnailsFollowRows')
  <1>1. /\ DOMAIN rows' = DOMAIN rows \ ids
        /\ \A id \in DOMAIN rows' : rows'[id] = rows[id]
        /\ cache' = cache /\ thumbs' = thumbs
    BY DEF Remove, Restrict
  <1>2. /\ victims'[Main] = AsVictims(ids) /\ todo'[Main] = AsVictims(ids)
        /\ pc'[Main] = IF ids = {} THEN next ELSE "unlink"
    BY Registers DEF Remove, Goto
  <1>3. victims[Main] = {} /\ todo[Main] = {}
    BY DEF SerialInv, MainLine
  <1>4. /\ ids = {} => AsVictims(ids) = {}
        /\ Ids(AsVictims(ids)) = ids
        /\ \A id \in ids : \E v \in AsVictims(ids) : v.content = rows[id].content
    <2>1. \A id \in ids : [id |-> id, content |-> rows[id].content] \in AsVictims(ids)
      BY DEF AsVictims
    <2>2. \A v \in AsVictims(ids) : v.id \in ids
      BY DEF AsVictims
    <2>3. \A id \in ids : \E v \in AsVictims(ids) : v.id = id /\ v.content = rows[id].content
      BY <2>1
    <2> QED
      BY <2>2, <2>3 DEF Ids
  <1>5. MainLine'
    BY <1>2, <1>4 DEF MainLine, Continuations
  <1>6. DeletedNotServed'
    <2>1. Ids(victims[Main]) = {}
      BY <1>3 DEF Ids
    <2>2. \A id \in DOMAIN cache.map : id \in DOMAIN rows
      BY <2>1, OneThread DEF SerialInv
    <2>3. \A id \in DOMAIN cache'.map : id \in DOMAIN rows' \/ id \in Ids(victims'[Main])
      BY <1>1, <1>2, <1>4, <2>2
    <2>4. Main \in Threads
      BY Registers
    <2> QED
      BY <2>3, <2>4 DEF DeletedNotServed, Ids
  <1>7. ASSUME ThumbnailsFollowRows PROVE ThumbnailsFollowRows'
    <2>1. Main \in Threads
      BY Registers
    <2> SUFFICES ASSUME NEW c \in thumbs'
                 PROVE  Stored(c)' \/ \E v \in todo'[Main] : v.content = c
      BY <2>1 DEF ThumbnailsFollowRows
    <2>2. PICK id \in DOMAIN rows : rows[id].content = c
      BY <1>1, <1>3, <1>7, OneThread DEF Stored
    <2>3. CASE id \in ids
      BY <1>2, <1>4, <2>2, <2>3
    <2>4. CASE id \notin ids
      BY <1>1, <2>2, <2>4 DEF Stored
    <2> QED
      BY <2>3, <2>4
  <1> QED
    BY <1>5, <1>6, <1>7 DEF SerialInv

\* Every removal is made by the main loop, with nothing left over from an
\* earlier one.
LEMMA SerialRemovals ==
  ASSUME IInv, Workers = {},
         \/ PruneAge \/ PruneCount \/ PruneBudget
         \/ \E t \in Threads :
              Clear(t) \/ \E id \in DOMAIN rows : DeleteEntry(t, id)
  PROVE  /\ pc[Main] \in {"idle", "prune", "count", "budget"}
         /\ \E ids \in SUBSET DOMAIN rows, next \in Continuations : Remove(Main, ids, next)
  <1>1. Threads = {Main}
    BY OneThread
  <1>2. pc[Main] \in {"idle", "prune", "count", "budget"}
    BY <1>1 DEF PruneAge, PruneCount, PruneBudget, Clear, DeleteEntry, Enter
  <1> QED
    BY <1>1, <1>2, Removals

\* A step that keeps ids, and caches or previews only what has a row.
LEMMA SerialKeeps ==
  ASSUME SerialInv, Workers = {},
         DOMAIN rows \subseteq DOMAIN rows',
         \A id \in DOMAIN rows : rows'[id].content = rows[id].content,
         victims' = victims, todo' = todo, MainLine',
         \A id \in DOMAIN cache'.map : id \in DOMAIN cache.map \/ id \in DOMAIN rows,
         \A c \in thumbs' : c \in thumbs \/ Stored(c)
  PROVE  SerialInv' /\ (ThumbnailsFollowRows => ThumbnailsFollowRows')
  <1>1. \A c : Stored(c) => Stored(c)'
    BY DEF Stored
  <1>2. DeletedNotServed'
    BY DEF SerialInv, DeletedNotServed
  <1>3. ThumbnailsFollowRows => ThumbnailsFollowRows'
    BY <1>1 DEF ThumbnailsFollowRows
  <1> QED
    BY <1>2, <1>3 DEF SerialInv

\* Without workers every step keeps the invariant, and a crash excepted the thumbnails.
LEMMA SerialNext ==
  ASSUME IInv, SerialInv, Workers = {}, [Next]_vars
  PROVE  /\ SerialInv'
         /\ ~Restart /\ ThumbnailsFollowRows => ThumbnailsFollowRows'
  <1>0. Main \in Threads /\ Threads = {Main}
    BY Registers, OneThread
  <1>1. CASE \/ PruneAge \/ PruneCount \/ PruneBudget
             \/ \E t \in Threads :
                  Clear(t) \/ \E id \in DOMAIN rows : DeleteEntry(t, id)
    BY <1>1, SerialRemovals, SerialRemove
  <1>2. ASSUME NEW c \in Contents, Store(c)
        PROVE  SerialInv' /\ (ThumbnailsFollowRows => ThumbnailsFollowRows')
    <2>1. /\ DOMAIN rows' = DOMAIN rows \cup {FreshId}
          /\ \A id \in DOMAIN rows : id # FreshId /\ rows'[id] = rows[id]
      BY <1>2 DEF Store, Extend, FreshId, IInv, TypeOK
    <2>2. arg'[Main] = [id |-> FreshId, content |-> c] /\ pc'[Main] = "put"
      BY <1>0, <1>2, Registers DEF Store, Goto
    <2>3. /\ cache' = cache /\ thumbs' = thumbs /\ victims' = victims /\ todo' = todo
          /\ pc[Main] = "idle"
      BY <1>2 DEF Store, Enter
    <2>4. MainLine'
      BY <2>1, <2>2, <2>3 DEF SerialInv, MainLine
    <2> QED
      BY <2>1, <2>3, <2>4, SerialKeeps
  <1>3. ASSUME NEW id \in DOMAIN rows, Promote(id)
        PROVE  SerialInv' /\ (ThumbnailsFollowRows => ThumbnailsFollowRows')
    <2>1. /\ DOMAIN rows' = DOMAIN rows
          /\ \A i \in DOMAIN rows : rows'[i].content = rows[i].content
      BY <1>3 DEF Promote, IInv, TypeOK, Row
    <2>2. arg'[Main].id = id /\ pc'[Main] = "put"
      BY <1>0, <1>3, Registers DEF Promote, Goto
    <2>3. /\ cache' = cache /\ thumbs' = thumbs /\ victims' = victims /\ todo' = todo
          /\ pc[Main] = "idle"
      BY <1>3 DEF Promote, Enter
    <2>4. MainLine'
      BY <2>1, <2>2, <2>3 DEF SerialInv, MainLine
    <2> QED
      BY <2>1, <2>3, <2>4, SerialKeeps
  <1>4. CASE CacheInserted
    <2>1. /\ rows' = rows /\ thumbs' = thumbs /\ victims' = victims /\ todo' = todo
          /\ pc[Main] = "put"
          /\ cache' = Put(cache, arg[Main].id, arg[Main].content)
      BY <1>4 DEF CacheInserted
    <2>2. arg[Main].id \in DOMAIN rows
      BY <2>1 DEF SerialInv, MainLine
    <2>3. /\ pc'[Main] = "thumb" /\ arg'[Main] = arg[Main]
          \/ pc'[Main] = then[Main]
      BY <1>0, <1>4, Registers DEF CacheInserted, Goto
    <2>4. then[Main] \notin {"put", "thumb", "fill"}
      BY <1>0, Registers
    <2>5. MainLine'
      BY <2>1, <2>2, <2>3, <2>4 DEF SerialInv, MainLine
    <2>6. \A id \in DOMAIN cache'.map : id \in DOMAIN cache.map \/ id \in DOMAIN rows
      BY <2>1, <2>2, PutMap
    <2> QED
      BY <2>1, <2>5, <2>6, SerialKeeps
  <1>5. CASE EnsureThumbnail
    <2>1. /\ rows' = rows /\ cache' = cache /\ victims' = victims /\ todo' = todo
          /\ pc[Main] = "thumb"
          /\ thumbs' \in {thumbs, thumbs \cup {arg[Main].content}}
      BY <1>5 DEF EnsureThumbnail
    <2>2. arg[Main].id \in DOMAIN rows /\ arg[Main].content \in Contents
      BY <1>0, <2>1 DEF SerialInv, MainLine, IInv, Carries
    <2>3. Stored(arg[Main].content)
      BY <1>0, <2>2, NoneAssumption DEF IInv, NeverAnotherPayload, Stored
    <2>4. pc'[Main] = then[Main] /\ then[Main] \notin {"put", "thumb", "fill"}
      BY <1>0, <1>5, Registers DEF EnsureThumbnail, Goto
    <2>5. MainLine'
      BY <2>1, <2>4 DEF SerialInv, MainLine
    <2> QED
      BY <2>1, <2>3, <2>5, SerialKeeps
  <1>6. CASE PruneDone
    <2>1. /\ rows' = rows /\ cache' = cache /\ thumbs' = thumbs
          /\ victims' = victims /\ todo' = todo /\ pc[Main] = "budget"
      BY <1>6 DEF PruneDone, regs
    <2>2. pc'[Main] = "idle"
      BY <1>0, <1>6 DEF PruneDone
    <2>3. MainLine'
      BY <2>1, <2>2 DEF SerialInv, MainLine
    <2> QED
      BY <2>1, <2>3, SerialKeeps
  <1>7. ASSUME NEW t \in Threads, RemoveThumb(t)
        PROVE  SerialInv' /\ (ThumbnailsFollowRows => ThumbnailsFollowRows')
    <2>0. t = Main
      BY <1>0
    <2>1. PICK v \in todo[Main] :
            /\ thumbs' = thumbs \ {v.content}
            /\ todo' = [todo EXCEPT ![Main] = @ \ {v}]
            /\ Goto(Main, IF todo[Main] = {v} THEN "evict" ELSE "unlink")
      BY <1>7, <2>0 DEF RemoveThumb
    <2>2. /\ rows' = rows /\ cache' = cache /\ victims' = victims
          /\ todo'[Main] = todo[Main] \ {v}
          /\ pc'[Main] = IF todo[Main] = {v} THEN "evict" ELSE "unlink"
      BY <1>0, <1>7, <2>0, <2>1, Registers DEF RemoveThumb, Goto
    <2>3. MainLine'
      BY <2>2 DEF SerialInv, MainLine
    <2>4. DeletedNotServed'
      BY <2>2 DEF SerialInv, DeletedNotServed
    <2>5. ASSUME ThumbnailsFollowRows PROVE ThumbnailsFollowRows'
      <3>1. ASSUME NEW c \in thumbs'
            PROVE  Stored(c)' \/ \E w \in todo'[Main] : w.content = c
        <4>1. c \in thumbs /\ c # v.content
          BY <2>1
        <4>2. Stored(c) \/ \E w \in todo[Main] : w.content = c
          BY <4>1, <2>5, OneThread
        <4> QED
          BY <2>2, <4>1, <4>2 DEF Stored
      <3> QED
        BY <1>0, <3>1 DEF ThumbnailsFollowRows
    <2> QED
      BY <2>3, <2>4, <2>5 DEF SerialInv
  <1>8. ASSUME NEW t \in Threads, EvictVictims(t)
        PROVE  SerialInv' /\ (ThumbnailsFollowRows => ThumbnailsFollowRows')
    <2>0. t = Main
      BY <1>0
    <2>1. /\ rows' = rows /\ thumbs' = thumbs /\ todo' = todo
          /\ cache' = EvictIds(cache, Ids(victims[Main]))
          /\ pc[Main] = "evict"
      BY <1>8, <2>0 DEF EvictVictims
    <2>2. victims'[Main] = {} /\ pc'[Main] = then[Main]
      BY <1>0, <1>8, <2>0, Registers DEF EvictVictims, Goto
    <2>3. then[Main] \notin {"put", "thumb", "fill"}
      BY <1>0, Registers
    <2>4. MainLine'
      BY <2>1, <2>2, <2>3 DEF SerialInv, MainLine
    <2>5. DeletedNotServed'
      <3>1. \A id \in DOMAIN cache'.map : id \in DOMAIN rows
        BY <2>1, EvictIdsMap, OneThread DEF SerialInv
      <3> QED
        BY <2>1, <3>1 DEF DeletedNotServed
    <2>6. ThumbnailsFollowRows => ThumbnailsFollowRows'
      BY <2>1 DEF ThumbnailsFollowRows, Stored
    <2> QED
      BY <2>4, <2>5, <2>6 DEF SerialInv
  <1>9. ASSUME NEW t \in Threads, NEW id \in 1..lastId, CacheHit(t, id)
        PROVE  SerialInv' /\ (ThumbnailsFollowRows => ThumbnailsFollowRows')
    <2>1. /\ rows' = rows /\ thumbs' = thumbs /\ victims' = victims /\ todo' = todo
          /\ pc' = pc /\ arg' = arg /\ cache'.map = cache.map
      BY <1>9, TouchMap DEF CacheHit, regs
    <2>2. MainLine'
      BY <2>1 DEF SerialInv, MainLine
    <2> QED
      BY <2>1, <2>2, SerialKeeps
  <1>10. ASSUME NEW t \in Threads,
                ReadNothing(t) \/ \E id \in 1..lastId : CacheMiss(t, id)
         PROVE  SerialInv' /\ (ThumbnailsFollowRows => ThumbnailsFollowRows')
    <2>0. t = Main
      BY <1>0
    <2>1. /\ rows' = rows /\ cache' = cache /\ thumbs' = thumbs
          /\ victims' = victims /\ todo' = todo /\ pc[Main] \in {"disk", "idle"}
      BY <1>10, <2>0 DEF CacheMiss, ReadNothing
    <2>2. pc'[Main] \in {"disk", "idle"}
      BY <1>0, <1>10, <2>0, Registers DEF CacheMiss, ReadNothing, Goto
    <2>3. MainLine'
      BY <2>1, <2>2 DEF SerialInv, MainLine
    <2> QED
      BY <2>1, <2>3, SerialKeeps
  <1>11. ASSUME NEW t \in Threads, ReadRow(t)
         PROVE  SerialInv' /\ (ThumbnailsFollowRows => ThumbnailsFollowRows')
    <2>0. t = Main
      BY <1>0
    <2>1. /\ rows' = rows /\ cache' = cache /\ thumbs' = thumbs
          /\ victims' = victims /\ todo' = todo /\ pc[Main] = "disk"
          /\ arg[Main].id \in DOMAIN rows
      BY <1>11, <2>0 DEF ReadRow
    <2>2. arg'[Main].id = arg[Main].id /\ pc'[Main] = "fill"
      BY <1>0, <1>11, <2>0, Registers DEF ReadRow, Goto
    <2>3. MainLine'
      BY <2>1, <2>2 DEF SerialInv, MainLine
    <2> QED
      BY <2>1, <2>3, SerialKeeps
  <1>12. ASSUME NEW t \in Threads, FillCache(t)
         PROVE  SerialInv' /\ (ThumbnailsFollowRows => ThumbnailsFollowRows')
    <2>0. t = Main
      BY <1>0
    <2>1. /\ rows' = rows /\ thumbs' = thumbs /\ victims' = victims /\ todo' = todo
          /\ pc[Main] = "fill"
          /\ cache' = Put(cache, arg[Main].id, arg[Main].content)
      BY <1>12, <2>0 DEF FillCache
    <2>2. pc'[Main] = "idle"
      BY <1>0, <1>12, <2>0, Registers DEF FillCache, Goto
    <2>3. \A id \in DOMAIN cache'.map : id \in DOMAIN cache.map \/ id \in DOMAIN rows
      BY <2>1, PutMap DEF SerialInv, MainLine
    <2>4. MainLine'
      BY <2>1, <2>2 DEF SerialInv, MainLine
    <2> QED
      BY <2>1, <2>3, <2>4, SerialKeeps
  <1>13. ASSUME NEW id \in DOMAIN rows, NEW p \in BOOLEAN, SetPinned(id, p)
         PROVE  SerialInv' /\ (ThumbnailsFollowRows => ThumbnailsFollowRows')
    <2>1. /\ DOMAIN rows' = DOMAIN rows
          /\ \A i \in DOMAIN rows : rows'[i].content = rows[i].content
          /\ cache' = cache /\ thumbs' = thumbs
          /\ victims' = victims /\ todo' = todo /\ pc' = pc /\ arg' = arg
      BY <1>13 DEF SetPinned, regs, IInv, TypeOK, Row
    <2>2. MainLine'
      BY <2>1 DEF SerialInv, MainLine
    <2> QED
      BY <2>1, <2>2, SerialKeeps
  <1>14. CASE Tick \/ UNCHANGED vars
    <2>1. UNCHANGED <<rows, cache, thumbs, pc, arg, victims, todo>>
      BY <1>14 DEF Tick, vars, regs
    <2>2. MainLine'
      BY <2>1 DEF SerialInv, MainLine
    <2> QED
      BY <2>1, <2>2, SerialKeeps
  <1>15. CASE Restart
    <2>1. /\ pc'[Main] = "prune" /\ victims'[Main] = {} /\ todo'[Main] = {}
          /\ DOMAIN cache'.map = {}
      BY <1>0, <1>15 DEF Restart, EmptyCache, EmptyMap
    <2> QED
      BY <1>15, <2>1 DEF SerialInv, MainLine, DeletedNotServed
  <1> QED
    BY <1>1, <1>2, <1>3, <1>4, <1>5, <1>6, <1>7, <1>8, <1>9, <1>10, <1>11,
       <1>12, <1>13, <1>14, <1>15 DEF Next, Pruning, Threads

\* Both hold at first.
LEMMA SerialInit == Init => SerialInv /\ ThumbnailsFollowRows
  <1> SUFFICES ASSUME Init PROVE SerialInv /\ ThumbnailsFollowRows
    OBVIOUS
  <1>1. /\ pc[Main] = "prune" /\ victims[Main] = {} /\ todo[Main] = {}
        /\ DOMAIN cache.map = {} /\ \A c \in thumbs : Stored(c)
    BY DEF Init, Threads, EmptyCache, EmptyMap
  <1> QED
    BY <1>1 DEF SerialInv, MainLine, DeletedNotServed, ThumbnailsFollowRows

\* While the engine runs no worker, across crashes, a cached payload has a
\* row, or its eviction is the next thing the main loop does.
THEOREM DeletedIsForgotten == Workers = {} => (Spec => []DeletedNotServed)
  <1> SUFFICES ASSUME Workers = {} PROVE Spec => []DeletedNotServed
    OBVIOUS
  <1>1. IInv /\ SerialInv /\ [Next]_vars => SerialInv'
    BY SerialNext
  <1>2. SerialInv => DeletedNotServed
    BY DEF SerialInv
  <1>3. Init => SerialInv
    BY SerialInit
  <1> QED
    BY <1>1, <1>2, <1>3, Invariance, PTL DEF Spec

\* While it runs no worker and does not crash, a preview file has a row, or
\* its removal is under way.
THEOREM ThumbnailsFollow ==
  Workers = {} /\ ~CanCrash => (Spec => []ThumbnailsFollowRows)
  <1> SUFFICES ASSUME Workers = {}, ~CanCrash PROVE Spec => []ThumbnailsFollowRows
    OBVIOUS
  <1> DEFINE Both == SerialInv /\ ThumbnailsFollowRows
  <1>1. IInv /\ Both /\ [Next]_vars => Both'
    <2>1. ~Restart
      BY DEF Restart
    <2> QED
      BY <2>1, SerialNext
  <1>2. Init => Both
    BY SerialInit
  <1> QED
    BY <1>1, <1>2, Invariance, PTL DEF Spec
=============================================================================
