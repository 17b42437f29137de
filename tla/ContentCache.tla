---------------------------- MODULE ContentCache ----------------------------
(***************************************************************************)
(* The in-memory payload cache in front of the blob store: a byte-budgeted *)
(* LRU over full payloads keyed by entry id (core/src/storage/cache.rs).   *)
(* The structure itself is sequential: Storage guards it with a mutex of   *)
(* its own, so every operator below is one critical section.               *)
(*                                                                         *)
(* A cache is a record: `map` from entry id to payload, `order` the ids    *)
(* coldest first, `bytes` the accounted payload bytes.                     *)
(***************************************************************************)
EXTENDS Integers, Sequences, FiniteSetsExt, Functions

CONSTANTS
  Contents,     \* the payloads that may be copied
  Size,         \* payload length in bytes
  CacheBudget   \* max_cache_bytes; 0 disables the cache

ASSUME SizeAssumption   == Size \in [Contents -> Nat]
ASSUME BudgetAssumption == CacheBudget \in Nat

\* f with k mapped to v.
Extend(f, k, v) == [x \in DOMAIN f \cup {k} |-> IF x = k THEN v ELSE f[x]]

EmptyMap == [x \in {} |-> {}]

EmptyCache == [map |-> EmptyMap, order |-> <<>>, bytes |-> 0]

\* The sum of `weight` over a set of ids.
Total(weight, ids) == MapThenSumSet(LAMBDA id : weight[id], ids)

PayloadBytes(map, ids) == Total([id \in DOMAIN map |-> Size[map[id]]], ids)

\* `order` without the given ids (VecDeque::retain).
Retained(order, ids) ==
  LET kept[i \in 0..Len(order)] ==
        IF i = 0 THEN <<>>
        ELSE IF order[i] \in ids THEN kept[i - 1]
        ELSE Append(kept[i - 1], order[i])
  IN  kept[Len(order)]

\* Plausible slips in evict_ids, put and touch, used to test the properties.
EvictIdsForgetting(c, ids) == c

\* evict_ids: drop every cached copy of the given ids.
EvictIds(c, ids) ==
  LET gone == ids \cap DOMAIN c.map
  IN  [map   |-> Restrict(c.map, DOMAIN c.map \ gone),
       order |-> Retained(c.order, gone),
       bytes |-> c.bytes - PayloadBytes(c.map, gone)]

\* touch: move an id to the most-recently-used end.
Touch(c, id) ==
  [map |-> c.map, order |-> Append(Retained(c.order, {id}), id), bytes |-> c.bytes]

\* evict_over_budget: pop the coldest ids until the budget holds.
EvictOverBudget(c) ==
  LET Popped(n) == EvictIds(c, {c.order[i] : i \in 1..n})
      Enough    == {n \in 0..Len(c.order) :
                      Popped(n).bytes <= CacheBudget \/ n = Len(c.order)}
  IN  Popped(Min(Enough))

PutLeakingBytes(c, id, content) ==
  IF CacheBudget = 0 \/ Size[content] > CacheBudget
    THEN c
    ELSE EvictOverBudget(
           Touch([map   |-> Extend(c.map, id, content),
                  order |-> c.order,
                  bytes |-> c.bytes + Size[content]], id))

\* put: insert or refresh.  A payload larger than the whole budget is
\* refused, and leaves an older copy under the same id where it was.
Put(c, id, content) ==
  LET old == IF id \in DOMAIN c.map THEN Size[c.map[id]] ELSE 0
  IN  IF CacheBudget = 0 \/ Size[content] > CacheBudget
        THEN c
        ELSE EvictOverBudget(
               Touch([map   |-> Extend(c.map, id, content),
                      order |-> c.order,
                      bytes |-> c.bytes - old + Size[content]], id))

\* The recency order lists exactly the cached ids, each once, the byte
\* count is the sum of the payloads held (so `bytes -= len` never wraps a
\* usize), and the budget holds.
LruConsistent(c) ==
  /\ IsInjective(c.order)
  /\ Range(c.order) = DOMAIN c.map
  /\ c.bytes = PayloadBytes(c.map, DOMAIN c.map)
  /\ c.bytes <= CacheBudget
=============================================================================
