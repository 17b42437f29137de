------------------------------ MODULE History -------------------------------
(***************************************************************************)
(* What the clipboard history promises, with no threads, cache or files:   *)
(* every entry has an id that is never given out twice, a payload occurs   *)
(* at most once, and an entry disappears only by name or while unpinned.   *)
(***************************************************************************)
EXTENDS Integers, Functions

CONSTANT Contents

VARIABLES
  entries,   \* id -> [content, pinned]
  lastId     \* the largest id ever given out

hvars == <<entries, lastId>>

Entry    == [content : Contents, pinned : BOOLEAN]
Unpinned == {id \in DOMAIN entries : ~entries[id].pinned}

HTypeOK ==
  /\ lastId \in Nat
  /\ DOMAIN entries \subseteq 1..lastId
  /\ \A id \in DOMAIN entries : entries[id] \in Entry

\* No payload is held twice.
NoDuplicates ==
  \A i, j \in DOMAIN entries : entries[i].content = entries[j].content => i = j

\* Whatever an earlier run left.
Init == HTypeOK /\ NoDuplicates

\* A payload not in the history is captured under a fresh id.
Capture(c) ==
  /\ \A id \in DOMAIN entries : entries[id].content # c
  /\ lastId' = lastId + 1
  /\ entries' = [id \in DOMAIN entries \cup {lastId + 1} |->
                   IF id = lastId + 1 THEN [content |-> c, pinned |-> FALSE]
                                      ELSE entries[id]]

SetPin(id, p) ==
  /\ id \in DOMAIN entries
  /\ entries' = [entries EXCEPT ![id].pinned = p]
  /\ UNCHANGED lastId

\* The user names one entry, pinned or not.
DeleteOne(id) ==
  /\ id \in DOMAIN entries
  /\ entries' = Restrict(entries, DOMAIN entries \ {id})
  /\ UNCHANGED lastId

\* Clearing and every retention rule: unpinned entries only.
DropUnpinned(ids) ==
  /\ ids \subseteq Unpinned
  /\ entries' = Restrict(entries, DOMAIN entries \ ids)
  /\ UNCHANGED lastId

Next ==
  \/ \E c \in Contents : Capture(c)
  \/ \E id \in DOMAIN entries :
       DeleteOne(id) \/ \E p \in BOOLEAN : SetPin(id, p)
  \/ \E ids \in SUBSET Unpinned : DropUnpinned(ids)

Spec == Init /\ [][Next]_hvars
=============================================================================
