---------------------------- MODULE PickerProofs ----------------------------
(***************************************************************************)
(* Proofs about the picker: the window's list, the snapshots on their way  *)
(* to it and the daemon's history stay lists of distinct entries; what the *)
(* window shows is the history unless a change is still on its way or the  *)
(* user has edited the list; and a key acts on the entry that had the      *)
(* focus on the screen.                                                    *)
(*                                                                         *)
(* First come the sequences the module is built from (Only, a pinned part  *)
(* followed by the rest), then one lemma per group of steps.               *)
(***************************************************************************)
EXTENDS Picker, FiniteSetTheorems, WellFoundedInduction, TLAPS

-----------------------------------------------------------------------------
(* Least members.                                                          *)

\* A set of subsets of a finite set has a minimal member.
LEMMA Minimal ==
  ASSUME NEW S, IsFiniteSet(S), NEW B \in SUBSET (SUBSET S), B # {}
  PROVE  \E T \in B : \A U \in B : U \subseteq T => U = T
  <1>1. IsWellFoundedOn(StrictSubsetOrdering(S), SUBSET S)
    BY FS_StrictSubsetOrderingWellFounded, FS_FiniteSubsetsOfFinite
  <1>2. \E T \in B : \A U \in B : ~(<<U, T>> \in StrictSubsetOrdering(S))
    BY <1>1, WFMin
  <1> QED
    BY <1>2 DEF StrictSubsetOrdering

\* A nonempty set of naturals has a least element.
LEMMA Least ==
  ASSUME NEW N \in SUBSET Nat, N # {}
  PROVE  \E n \in N : \A m \in N : n <= m
  <1>1. PICK k \in N : TRUE
    OBVIOUS
  <1> DEFINE S == 0..k
             B == {0..m : m \in N \cap S}
  <1>2. IsFiniteSet(S)
    BY <1>1, FS_Interval
  <1>3. B \in SUBSET (SUBSET S) /\ B # {}
    <2>1. k \in N \cap S
      BY <1>1
    <2>2. \A m \in N \cap S : (0..m) \in SUBSET S
      BY <1>1
    <2> QED
      BY <2>1, <2>2
  <1>4. PICK T \in B : \A U \in B : U \subseteq T => U = T
    <2> HIDE DEF B, S
    <2> QED
      BY <1>2, <1>3, Minimal
  <1>5. PICK n \in N \cap S : T = 0..n
    BY <1>4
  <1>6. ASSUME NEW m \in N, ~(n <= m) PROVE FALSE
    <2>1. m \in N \cap S /\ m \in Nat /\ n \in Nat /\ m < n
      BY <1>1, <1>6
    <2>2. (0..m) \in B /\ (0..m) \subseteq (0..n)
      BY <2>1
    <2>3. (0..m) = (0..n)
      BY <2>2, <1>4, <1>5
    <2>4. n \in 0..n
      BY <2>1
    <2> HIDE DEF S, B
    <2> QED
      BY <2>1, <2>3, <2>4
  <1> QED
    BY <1>5, <1>6

\* What Min and Max choose among row numbers.
LEMMA MinIn ==
  ASSUME NEW N \in SUBSET Nat, N # {}
  PROVE  Min(N) \in N /\ \A m \in N : Min(N) <= m
  BY Least DEF Min

\* The greatest of some row numbers is one of them.
LEMMA MaxIn ==
  ASSUME NEW k \in Nat, NEW N \in SUBSET (0..k), N # {}
  PROVE  Max(N) \in N
  <1> DEFINE C == {k - n : n \in N}
  <1>0. \A n \in N : n \in Nat /\ k - n \in Nat
    OBVIOUS
  <1>1. C \in SUBSET Nat /\ C # {}
    BY <1>0
  <1>2. PICK c \in C : \A m \in C : c <= m
    <2> HIDE DEF C
    <2> QED
      BY <1>1, Least
  <1>3. PICK n \in N : c = k - n
    BY <1>2
  <1>4. ASSUME NEW m \in N PROVE n >= m
    <2>1. k - n <= k - m
      BY <1>2, <1>3
    <2> QED
      BY <1>0, <2>1
  <1> QED
    BY <1>3, <1>4 DEF Max

-----------------------------------------------------------------------------
(* Lists of distinct entries.                                              *)

\* s lists each member of A once.
Enum(s, A) == s \in Seq(A) /\ IsInjective(s) /\ Range(s) = A

\* The empty list.
LEMMA EnumEmpty == Enum(<<>>, {})
  BY DEF Enum, IsInjective, Range

\* A sequence without repeats lists its range.
LEMMA EnumRange ==
  ASSUME NEW S, NEW s \in Seq(S), IsInjective(s)
  PROVE  Enum(s, Range(s)) /\ Range(s) \subseteq S
  <1>1. DOMAIN s = 1..Len(s) /\ Len(s) \in Nat
    OBVIOUS
  <1>2. \A i \in 1..Len(s) : s[i] \in S /\ s[i] \in Range(s)
    BY <1>1 DEF Range
  <1>3. s \in Seq(Range(s))
    BY <1>1, <1>2
  <1> QED
    BY <1>1, <1>2, <1>3 DEF Enum, Range

\* A list of members of S is a sequence over S.
LEMMA EnumIn ==
  ASSUME NEW S, NEW A \in SUBSET S, NEW s, Enum(s, A)
  PROVE  s \in Seq(S)
  BY DEF Enum

\* A new entry at the end.
LEMMA AppendNew ==
  ASSUME NEW A, NEW s, Enum(s, A), NEW x, x \notin A
  PROVE  Enum(Append(s, x), A \cup {x})
  <1>1. /\ s \in Seq(A \cup {x}) /\ Len(s) \in Nat
        /\ Append(s, x) \in Seq(A \cup {x})
    BY DEF Enum
  <1>2. /\ DOMAIN s = 1..Len(s)
        /\ DOMAIN Append(s, x) = 1..(Len(s) + 1)
        /\ \A i \in 1..Len(s) : Append(s, x)[i] = s[i]
        /\ Append(s, x)[Len(s) + 1] = x
    BY <1>1
  <1>3. \A i \in 1..Len(s) : s[i] \in A
    BY <1>2 DEF Enum, Range
  <1>4. IsInjective(Append(s, x))
    BY <1>1, <1>2, <1>3 DEF Enum, IsInjective
  <1>5. Range(Append(s, x)) = A \cup {x}
    BY <1>1, <1>2, <1>3 DEF Enum, Range
  <1> QED
    BY <1>1, <1>4, <1>5 DEF Enum

\* One list after another.
LEMMA ConcatEnum ==
  ASSUME NEW A, NEW s, Enum(s, A), NEW B, NEW t, Enum(t, B), A \cap B = {}
  PROVE  Enum(s \o t, A \cup B)
  <1>1. /\ s \in Seq(A \cup B) /\ t \in Seq(A \cup B) /\ Len(s) \in Nat /\ Len(t) \in Nat
        /\ s \o t \in Seq(A \cup B)
    BY DEF Enum
  <1>2. /\ DOMAIN s = 1..Len(s) /\ DOMAIN t = 1..Len(t)
        /\ DOMAIN (s \o t) = 1..(Len(s) + Len(t))
        /\ \A i \in 1..Len(s) : (s \o t)[i] = s[i]
        /\ \A i \in 1..Len(t) : (s \o t)[Len(s) + i] = t[i]
    BY <1>1
  <1>3. /\ \A i \in 1..Len(s) : s[i] \in A
        /\ \A i \in 1..Len(t) : t[i] \in B
    BY <1>2 DEF Enum, Range
  <1>4. \A i \in (1..(Len(s) + Len(t))) \ (1..Len(s)) :
          i - Len(s) \in 1..Len(t) /\ (s \o t)[i] = t[i - Len(s)]
    BY <1>1, <1>2
  <1>5. ASSUME NEW i \in DOMAIN (s \o t), NEW j \in DOMAIN (s \o t),
               (s \o t)[i] = (s \o t)[j]
        PROVE  i = j
    <2>1. CASE i \in 1..Len(s) /\ j \in 1..Len(s)
      BY <1>2, <1>5, <2>1 DEF Enum, IsInjective
    <2>2. CASE i \notin 1..Len(s) /\ j \notin 1..Len(s)
      <3>1. i - Len(s) = j - Len(s)
        BY <1>2, <1>4, <1>5, <2>2 DEF Enum, IsInjective
      <3> QED
        BY <1>1, <1>2, <3>1
    <2>3. CASE (i \in 1..Len(s)) # (j \in 1..Len(s))
      BY <1>2, <1>3, <1>4, <1>5, <2>3
    <2> QED
      BY <2>1, <2>2, <2>3
  <1>6. IsInjective(s \o t)
    BY <1>5 DEF IsInjective
  <1>7. Range(s \o t) = A \cup B
    <2>1. \A i \in DOMAIN (s \o t) : (s \o t)[i] \in A \cup B
      BY <1>2, <1>3, <1>4
    <2>2. \A a \in A : \E i \in DOMAIN (s \o t) : (s \o t)[i] = a
      <3> TAKE a \in A
      <3>1. PICK i \in 1..Len(s) : s[i] = a
        BY <1>2 DEF Enum, Range
      <3> QED
        BY <1>1, <1>2, <3>1
    <2>3. \A b \in B : \E i \in DOMAIN (s \o t) : (s \o t)[i] = b
      <3> TAKE b \in B
      <3>1. PICK i \in 1..Len(t) : t[i] = b
        BY <1>2 DEF Enum, Range
      <3>2. Len(s) + i \in DOMAIN (s \o t)
        BY <1>1, <1>2
      <3> QED
        BY <1>2, <3>1, <3>2
    <2> QED
      BY <2>1, <2>2, <2>3 DEF Range
  <1> QED
    BY <1>1, <1>6, <1>7 DEF Enum

\* And apart again.
LEMMA SplitEnum ==
  ASSUME NEW S, NEW s \in Seq(S), NEW t \in Seq(S), IsInjective(s \o t)
  PROVE  /\ Enum(s, Range(s)) /\ Enum(t, Range(t)) /\ Range(s) \cap Range(t) = {}
         /\ Range(s) \subseteq S /\ Range(t) \subseteq S
  <1>1. /\ DOMAIN s = 1..Len(s) /\ DOMAIN t = 1..Len(t)
        /\ Len(s) \in Nat /\ Len(t) \in Nat
        /\ DOMAIN (s \o t) = 1..(Len(s) + Len(t))
        /\ \A i \in 1..Len(s) : (s \o t)[i] = s[i]
        /\ \A i \in 1..Len(t) : (s \o t)[Len(s) + i] = t[i]
    OBVIOUS
  <1>2. \A i, j \in DOMAIN (s \o t) : (s \o t)[i] = (s \o t)[j] => i = j
    BY DEF IsInjective
  <1>3. IsInjective(s)
    <2> SUFFICES ASSUME NEW i \in DOMAIN s, NEW j \in DOMAIN s, s[i] = s[j] PROVE i = j
      BY DEF IsInjective
    <2>1. i \in DOMAIN (s \o t) /\ j \in DOMAIN (s \o t)
      BY <1>1
    <2> QED
      BY <1>1, <1>2, <2>1
  <1>4. IsInjective(t)
    <2> SUFFICES ASSUME NEW i \in DOMAIN t, NEW j \in DOMAIN t, t[i] = t[j] PROVE i = j
      BY DEF IsInjective
    <2>1. Len(s) + i \in DOMAIN (s \o t) /\ Len(s) + j \in DOMAIN (s \o t)
      BY <1>1
    <2>2. Len(s) + i = Len(s) + j
      BY <1>1, <1>2, <2>1
    <2> QED
      BY <1>1, <2>2
  <1>5. ASSUME NEW i \in DOMAIN s, NEW j \in DOMAIN t, s[i] = t[j] PROVE FALSE
    <2>1. i \in DOMAIN (s \o t) /\ Len(s) + j \in DOMAIN (s \o t) /\ i # Len(s) + j
      BY <1>1
    <2> QED
      BY <1>1, <1>2, <1>5, <2>1
  <1>6. Range(s) \cap Range(t) = {}
    BY <1>5 DEF Range
  <1> QED
    BY <1>3, <1>4, <1>6, EnumRange

-----------------------------------------------------------------------------
(* Only keeps exactly the members it should.                               *)

\* What the recursion of Only builds from the first n members.
IsKept(k, s, keep, n) ==
  k = [i \in 0..n |->
         IF i = 0 THEN <<>>
         ELSE IF s[i] \in keep THEN Append(k[i - 1], s[i])
         ELSE k[i - 1]]

\* The recursion is well founded.
LEMMA KeptExists ==
  ASSUME NEW s, NEW keep, NEW n \in Nat
  PROVE  \E k : IsKept(k, s, keep, n)
  <1> DEFINE N == {m \in Nat : ~\E k : IsKept(k, s, keep, m)}
  <1>1. ASSUME N # {} PROVE FALSE
    <2>1. PICK m \in N : \A l \in N : m <= l
      <3>1. N \in SUBSET Nat
        OBVIOUS
      <3> HIDE DEF N
      <3> QED
        BY <1>1, <3>1, Least
    <2>2. m # 0
      <3>1. IsKept([i \in 0..0 |-> <<>>], s, keep, 0)
        BY DEF IsKept
      <3> QED
        BY <2>1, <3>1
    <2>3. m - 1 \in Nat /\ m - 1 \notin N
      BY <2>1, <2>2
    <2>4. PICK k : IsKept(k, s, keep, m - 1)
      BY <2>3
    <2> DEFINE new == IF s[m] \in keep THEN Append(k[m - 1], s[m]) ELSE k[m - 1]
               f == [i \in 0..m |-> IF i = m THEN new ELSE k[i]]
    <2>5. \A i \in 0..(m - 1) :
            k[i] = IF i = 0 THEN <<>>
                   ELSE IF s[i] \in keep THEN Append(k[i - 1], s[i])
                   ELSE k[i - 1]
      BY <2>4 DEF IsKept
    <2>6. ASSUME NEW i \in 0..m
          PROVE  f[i] = IF i = 0 THEN <<>>
                        ELSE IF s[i] \in keep THEN Append(f[i - 1], s[i])
                        ELSE f[i - 1]
      <3>1. i # 0 => i - 1 \in 0..(m - 1) /\ f[i - 1] = k[i - 1]
        BY <2>1
      <3>2. CASE i = m
        <4>1. f[i] = new
          BY <3>2
        <4> HIDE DEF f
        <4> QED
          BY <2>2, <3>1, <3>2, <4>1
      <3>3. CASE i # m
        <4>1. i \in 0..(m - 1) /\ f[i] = k[i]
          BY <3>3, <2>1
        <4> HIDE DEF f
        <4> QED
          BY <2>5, <3>1, <4>1
      <3> QED
        BY <3>2, <3>3
    <2>7. f = [i \in 0..m |-> f[i]]
      OBVIOUS
    <2> HIDE DEF f
    <2>8. f = [i \in 0..m |->
                 IF i = 0 THEN <<>>
                 ELSE IF s[i] \in keep THEN Append(f[i - 1], s[i])
                 ELSE f[i - 1]]
      BY <2>6, <2>7
    <2>9. IsKept(f, s, keep, m)
      BY <2>8 DEF IsKept
    <2> QED
      BY <2>1, <2>9
  <1> QED
    BY <1>1

\* Only lists what is both in the list and wanted.
LEMMA OnlyEnum ==
  ASSUME NEW all, NEW s, Enum(s, all), NEW keep
  PROVE  Enum(Only(s, keep), all \cap keep)
  <1> DEFINE k == CHOOSE f : IsKept(f, s, keep, Len(s))
             First(n) == {s[j] : j \in 1..n}
             N == {n \in 0..Len(s) : ~Enum(k[n], First(n) \cap keep)}
  <1>0. Len(s) \in Nat /\ DOMAIN s = 1..Len(s)
    BY DEF Enum
  <1>1. Only(s, keep) = k[Len(s)]
    BY DEF Only, IsKept
  <1>2. IsKept(k, s, keep, Len(s))
    BY <1>0, KeptExists
  <1>3. \A i \in 0..Len(s) :
          k[i] = IF i = 0 THEN <<>>
                 ELSE IF s[i] \in keep THEN Append(k[i - 1], s[i])
                 ELSE k[i - 1]
    <2> HIDE DEF k
    <2> QED
      BY <1>2 DEF IsKept
  <1> HIDE DEF k
  <1>4. ASSUME N # {} PROVE FALSE
    <2>1. PICK n \in N : \A l \in N : n <= l
      <3>1. N \in SUBSET Nat
        BY <1>0
      <3> HIDE DEF N
      <3> QED
        BY <1>4, <3>1, Least
    <2>2. n # 0
      <3>1. Enum(<<>>, {})
        BY DEF Enum, IsInjective, Range
      <3>2. k[0] = <<>> /\ First(0) \cap keep = {}
        BY <1>0, <1>3
      <3>3. Enum(k[0], First(0) \cap keep)
        BY <3>1, <3>2
      <3> HIDE DEF First
      <3>4. ASSUME n = 0 PROVE Enum(k[n], First(n) \cap keep)
        BY <3>3, <3>4, Zenon
      <3> QED
        BY <2>1, <3>4
    <2>3. n - 1 \in 0..Len(s) /\ n - 1 \notin N /\ n \in 1..Len(s)
      <3>1. n \in 0..Len(s)
        OBVIOUS
      <3> HIDE DEF N
      <3> QED
        BY <1>0, <2>1, <2>2, <3>1
    <2>5. First(n) = First(n - 1) \cup {s[n]}
      <3>1. 1..n = 1..(n - 1) \cup {n}
        BY <2>3
      <3> QED
        BY <3>1
    <2>6. s[n] \notin First(n - 1)
      BY <1>0, <2>3 DEF Enum, IsInjective
    <2> HIDE DEF First
    <2>4. Enum(k[n - 1], First(n - 1) \cap keep)
      BY <2>3
    <2>7. ~Enum(k[n], (First(n - 1) \cup {s[n]}) \cap keep)
      BY <2>1, <2>5
    <2>8. k[n] = IF s[n] \in keep THEN Append(k[n - 1], s[n]) ELSE k[n - 1]
      BY <1>3, <2>3
    <2>9. CASE s[n] \notin keep
      <3>1. (First(n - 1) \cup {s[n]}) \cap keep = First(n - 1) \cap keep /\ k[n] = k[n - 1]
        BY <2>8, <2>9
      <3> QED
        BY <2>4, <2>7, <3>1
    <2>10. CASE s[n] \in keep
      <3>1. (First(n - 1) \cup {s[n]}) \cap keep = (First(n - 1) \cap keep) \cup {s[n]}
        BY <2>10
      <3>2. k[n] = Append(k[n - 1], s[n]) /\ s[n] \notin First(n - 1) \cap keep
        BY <2>6, <2>8, <2>10
      <3>3. Enum(Append(k[n - 1], s[n]), (First(n - 1) \cap keep) \cup {s[n]})
        BY <2>4, <3>2, AppendNew
      <3> QED
        BY <2>7, <3>1, <3>2, <3>3
    <2> QED
      BY <2>9, <2>10
  <1>5. First(Len(s)) = all
    BY <1>0 DEF Enum, Range
  <1> HIDE DEF First
  <1>6. Enum(k[Len(s)], First(Len(s)) \cap keep)
    <2>1. Len(s) \in 0..Len(s)
      BY <1>0
    <2>2. Len(s) \notin N
      <3> HIDE DEF N
      <3> QED
        BY <1>4
    <2> QED
      BY <2>1, <2>2, Zenon
  <1>7. Enum(k[Len(s)], all \cap keep)
    BY <1>5, <1>6, Zenon
  <1> QED
    BY <1>1, <1>7, Zenon

\* A list of one, and a list with one entry put before it or taken out.
LEMMA Prepend ==
  ASSUME NEW A, NEW s, Enum(s, A), NEW x, x \notin A
  PROVE  Enum(<<x>> \o s, A \cup {x})
  <1>1. Enum(<<x>>, {x})
    BY DEF Enum, IsInjective, Range
  <1>2. {x} \cap A = {} /\ {x} \cup A = A \cup {x}
    OBVIOUS
  <1> QED
    BY <1>1, <1>2, ConcatEnum

\* A list without one entry.
LEMMA WithoutEnum ==
  ASSUME NEW A \in SUBSET Ids, NEW s, Enum(s, A), NEW x
  PROVE  Enum(Without(s, x), A \ {x})
  <1>1. A \cap (Ids \ {x}) = A \ {x}
    OBVIOUS
  <1> QED
    BY <1>1, OnlyEnum DEF Without

-----------------------------------------------------------------------------
(* Lists of pinned entries and the rest.                                   *)

\* Both parts of a list, and the whole of it, have no entry twice.
LEMMA ListParts ==
  ASSUME NEW l, IsList(l)
  PROVE  /\ Enum(l.pins, Range(l.pins)) /\ Enum(l.rest, Range(l.rest))
         /\ Range(l.pins) \cap Range(l.rest) = {}
         /\ Range(l.pins) \subseteq Ids /\ Range(l.rest) \subseteq Ids
         /\ Enum(List(l), Range(l.pins) \cup Range(l.rest))
  <1>1. l.pins \in Seq(Ids) /\ l.rest \in Seq(Ids) /\ IsInjective(l.pins \o l.rest)
    BY DEF IsList, List
  <1>2. /\ Enum(l.pins, Range(l.pins)) /\ Enum(l.rest, Range(l.rest))
        /\ Range(l.pins) \cap Range(l.rest) = {}
        /\ Range(l.pins) \subseteq Ids /\ Range(l.rest) \subseteq Ids
    BY <1>1, SplitEnum
  <1> QED
    BY <1>2, ConcatEnum DEF List

\* Two lists that share no entry make one.
LEMMA ListOf ==
  ASSUME NEW A \in SUBSET Ids, NEW B \in SUBSET Ids, A \cap B = {},
         NEW p, Enum(p, A), NEW r, Enum(r, B)
  PROVE  /\ IsList([pins |-> p, rest |-> r])
         /\ Enum(List([pins |-> p, rest |-> r]), A \cup B)
  <1>1. p \in Seq(Ids) /\ r \in Seq(Ids)
    BY EnumIn
  <1>2. Enum(p \o r, A \cup B)
    BY ConcatEnum
  <1>3. List([pins |-> p, rest |-> r]) = p \o r
    BY DEF List
  <1> QED
    BY <1>1, <1>2, <1>3 DEF IsList, Enum

\* The rows of a list are numbered from one, and each holds an entry of its own.
LEMMA ListRows ==
  ASSUME NEW l, IsList(l)
  PROVE  /\ Len(List(l)) \in Nat /\ DOMAIN List(l) = 1..Len(List(l))
         /\ \A i \in DOMAIN List(l) : List(l)[i] \in Ids /\ List(l)[i] \in Range(List(l))
         /\ \A i, j \in DOMAIN List(l) : List(l)[i] = List(l)[j] => i = j
         /\ \A x \in Range(List(l)) : \E i \in DOMAIN List(l) : List(l)[i] = x
  <1>1. List(l) \in Seq(Ids) /\ IsInjective(List(l))
    BY DEF IsList, List
  <1> QED
    BY <1>1 DEF IsInjective, Range

\* The mark of no snapshot is not one.
LEMMA NoListApart == ~IsList(NoList)
  <1>1. NoList.pins[1] = 0 /\ 1 \in DOMAIN NoList.pins /\ 0 \notin Ids
    BY BoundsAssumption DEF NoList, NoId, Ids
  <1> QED
    BY <1>1 DEF IsList

\* A toggled entry moves between the parts and stays in the list.
LEMMA ToggledList ==
  ASSUME NEW l, IsList(l), NEW x \in Range(List(l))
  PROVE  IsList(Toggled(l, x)) /\ x \in Range(List(Toggled(l, x)))
  <1> DEFINE A == Range(l.pins)
             B == Range(l.rest)
  <1>1. /\ Enum(l.pins, A) /\ Enum(l.rest, B) /\ A \cap B = {}
        /\ A \in SUBSET Ids /\ B \in SUBSET Ids /\ x \in A \cup B
    BY ListParts DEF Enum
  <1> HIDE DEF A, B
  <1>2. CASE x \in A
    <2>1. Enum(Without(l.pins, x), A \ {x})
      BY <1>1, WithoutEnum
    <2>2. Enum(<<x>> \o l.rest, B \cup {x})
      BY <1>1, <1>2, Prepend
    <2>3. /\ A \ {x} \in SUBSET Ids /\ B \cup {x} \in SUBSET Ids
          /\ (A \ {x}) \cap (B \cup {x}) = {} /\ x \in (A \ {x}) \cup (B \cup {x})
      BY <1>1, <1>2
    <2>4. Toggled(l, x) = [pins |-> Without(l.pins, x), rest |-> <<x>> \o l.rest]
      BY <1>2 DEF Toggled, A
    <2>5. IsList(Toggled(l, x)) /\ Enum(List(Toggled(l, x)), (A \ {x}) \cup (B \cup {x}))
      BY <2>1, <2>2, <2>3, <2>4, ListOf
    <2> QED
      BY <2>3, <2>5 DEF Enum
  <1>3. CASE x \notin A
    <2>1. Enum(Append(l.pins, x), A \cup {x})
      BY <1>1, <1>3, AppendNew
    <2>2. Enum(Without(l.rest, x), B \ {x})
      BY <1>1, WithoutEnum
    <2>3. /\ A \cup {x} \in SUBSET Ids /\ B \ {x} \in SUBSET Ids
          /\ (A \cup {x}) \cap (B \ {x}) = {} /\ x \in (A \cup {x}) \cup (B \ {x})
      BY <1>1, <1>3
    <2>4. Toggled(l, x) = [pins |-> Append(l.pins, x), rest |-> Without(l.rest, x)]
      BY <1>3 DEF Toggled, A
    <2>5. IsList(Toggled(l, x)) /\ Enum(List(Toggled(l, x)), (A \cup {x}) \cup (B \ {x}))
      BY <2>1, <2>2, <2>3, <2>4, ListOf
    <2> QED
      BY <2>3, <2>5 DEF Enum
  <1> QED
    BY <1>2, <1>3

\* Without one of its entries a list is one.
LEMMA DeletedList ==
  ASSUME NEW l, IsList(l), NEW x
  PROVE  IsList([pins |-> Without(l.pins, x), rest |-> Without(l.rest, x)])
  <1> DEFINE A == Range(l.pins)
             B == Range(l.rest)
  <1>1. /\ Enum(l.pins, A) /\ Enum(l.rest, B) /\ A \cap B = {}
        /\ A \in SUBSET Ids /\ B \in SUBSET Ids
    BY ListParts
  <1> HIDE DEF A, B
  <1>2. Enum(Without(l.pins, x), A \ {x}) /\ Enum(Without(l.rest, x), B \ {x})
    BY <1>1, WithoutEnum
  <1>3. /\ A \ {x} \in SUBSET Ids /\ B \ {x} \in SUBSET Ids
        /\ (A \ {x}) \cap (B \ {x}) = {}
    BY <1>1
  <1> QED
    BY <1>2, <1>3, ListOf

\* And so are its pinned entries.
LEMMA PinnedList ==
  ASSUME NEW l, IsList(l)
  PROVE  IsList([l EXCEPT !.rest = <<>>])
  <1>1. Enum(l.pins, Range(l.pins)) /\ Range(l.pins) \in SUBSET Ids
    BY ListParts
  <1>2. [l EXCEPT !.rest = <<>>] = [pins |-> l.pins, rest |-> <<>>]
    BY DEF IsList
  <1>3. Range(l.pins) \cap {} = {} /\ {} \in SUBSET Ids
    OBVIOUS
  <1>4. IsList([pins |-> l.pins, rest |-> <<>>])
    BY <1>1, <1>3, EnumEmpty, ListOf
  <1> QED
    BY <1>2, <1>4

-----------------------------------------------------------------------------
(* The daemon's history.                                                   *)

\* The daemon's part of TypeOK.
HistoryOK ==
  /\ lastId \in Ids
  /\ copied \in Seq(Ids) /\ IsInjective(copied) /\ Range(copied) \subseteq 1 .. lastId
  /\ pins \in Seq(Ids) /\ IsInjective(pins) /\ Range(pins) \subseteq Range(copied)

\* The history as lists of distinct entries.
LEMMA HistoryListed ==
  ASSUME HistoryOK
  PROVE  /\ Enum(copied, Range(copied)) /\ Enum(pins, Range(pins))
         /\ Range(pins) \subseteq Range(copied) /\ Range(copied) \subseteq 1 .. lastId
         /\ 1 .. lastId \subseteq Ids
  <1>1. 1 .. lastId \subseteq Ids
    BY BoundsAssumption DEF HistoryOK, Ids
  <1> QED
    BY <1>1, EnumRange DEF HistoryOK

\* And back: what an action has to show of the new history.
LEMMA ListedHistory ==
  ASSUME lastId' \in Ids, NEW A \in SUBSET (1 .. lastId'), Enum(copied', A),
         NEW B \in SUBSET A, Enum(pins', B)
  PROVE  HistoryOK'
  <1>1. 1 .. lastId' \subseteq Ids
    BY BoundsAssumption DEF Ids
  <1>2. A \in SUBSET Ids /\ B \in SUBSET Ids
    BY <1>1
  <1>3. copied' \in Seq(Ids) /\ pins' \in Seq(Ids)
    BY <1>2, EnumIn
  <1> QED
    BY <1>3 DEF HistoryOK, Enum

\* What is sent is a list.
LEMMA SnapshotListed ==
  ASSUME HistoryOK
  PROVE  IsList(Snapshot)
  <1> DEFINE A == Range(copied)
             B == Range(pins)
  <1>1. /\ Enum(copied, A) /\ Enum(pins, B)
        /\ A \in SUBSET Ids /\ B \in SUBSET Ids
    BY HistoryListed
  <1>2. Snapshot = [pins |-> pins, rest |-> Only(copied, Ids \ B)]
    BY DEF Snapshot
  <1> HIDE DEF A, B
  <1>3. Enum(Only(copied, Ids \ B), A \cap (Ids \ B))
    BY <1>1, OnlyEnum
  <1>4. A \cap (Ids \ B) \in SUBSET Ids /\ B \cap (A \cap (Ids \ B)) = {}
    BY <1>1
  <1>5. IsList([pins |-> pins, rest |-> Only(copied, Ids \ B)])
    BY <1>1, <1>3, <1>4, ListOf
  <1> QED
    BY <1>2, <1>5

\* Copying puts an entry first.
LEMMA CopyListed ==
  ASSUME HistoryOK, NEW id \in Ids, Copy(id)
  PROVE  HistoryOK'
  <1> DEFINE A == Range(copied)
             B == Range(pins)
             last1 == IF id > lastId THEN id ELSE lastId
  <1>1. /\ Enum(copied, A) /\ Enum(pins, B) /\ B \in SUBSET A
        /\ A \in SUBSET (1 .. lastId) /\ A \in SUBSET Ids
    BY HistoryListed
  <1>2. /\ lastId' = last1 /\ copied' = <<id>> \o Without(copied, id) /\ pins' = pins
    BY DEF Copy, Changed
  <1> HIDE DEF A, B
  <1>3. Enum(Without(copied, id), A \ {id})
    BY <1>1, WithoutEnum
  <1>4. id \notin A \ {id}
    OBVIOUS
  <1>5. Enum(copied', (A \ {id}) \cup {id})
    BY <1>2, <1>3, <1>4, Prepend
  <1>6. last1 \in Ids /\ (A \ {id}) \cup {id} \in SUBSET (1 .. last1)
    BY <1>1, BoundsAssumption DEF HistoryOK, Ids
  <1>7. Enum(pins', B) /\ B \in SUBSET ((A \ {id}) \cup {id})
    BY <1>1, <1>2
  <1> HIDE DEF last1
  <1> QED
    BY <1>2, <1>5, <1>6, <1>7, ListedHistory

\* What an edit does to the history, and to whom it is told.
LEMMA EffectListed ==
  ASSUME HistoryOK, NEW e \in Edit, Effect(e), lastId' = lastId
  PROVE  HistoryOK'
  <1> DEFINE A == Range(copied)
             B == Range(pins)
  <1>1. /\ Enum(copied, A) /\ Enum(pins, B) /\ B \in SUBSET A
        /\ A \in SUBSET (1 .. lastId) /\ A \in SUBSET Ids /\ B \in SUBSET Ids
        /\ lastId \in Ids
    BY HistoryListed DEF HistoryOK
  <1>2. e.op \in {"delete", "pin", "unpin", "clear"}
    BY DEF Edit
  <1>3. CASE e.op = "clear"
    <2>1. copied' = Only(copied, B) /\ pins' = pins
      BY <1>3 DEF Effect, Changed
    <2> HIDE DEF A, B
    <2>2. Enum(copied', A \cap B)
      BY <1>1, <2>1, OnlyEnum
    <2>3. A \cap B \in SUBSET (1 .. lastId') /\ B \in SUBSET (A \cap B) /\ Enum(pins', B)
      BY <1>1, <2>1
    <2> QED
      BY <1>1, <2>2, <2>3, ListedHistory
  <1>4. CASE e.op # "clear" /\ e.id \notin A
    BY <1>4 DEF Effect, HistoryOK
  <1>5. CASE e.op = "delete" /\ e.id \in A
    <2>1. copied' = Without(copied, e.id) /\ pins' = Without(pins, e.id)
      BY <1>5 DEF Effect, Changed
    <2> HIDE DEF A, B
    <2>2. Enum(copied', A \ {e.id}) /\ Enum(pins', B \ {e.id})
      BY <1>1, <2>1, WithoutEnum
    <2>3. A \ {e.id} \in SUBSET (1 .. lastId') /\ B \ {e.id} \in SUBSET (A \ {e.id})
      BY <1>1
    <2> QED
      BY <1>1, <2>2, <2>3, ListedHistory
  <1>6. CASE e.op = "pin" /\ e.id \in A
    <2>1. copied' = copied /\ pins' = Append(Without(pins, e.id), e.id)
      BY <1>6 DEF Effect, Changed
    <2> HIDE DEF A, B
    <2>2. Enum(Without(pins, e.id), B \ {e.id}) /\ e.id \notin B \ {e.id}
      BY <1>1, WithoutEnum
    <2>3. Enum(copied', A) /\ Enum(pins', (B \ {e.id}) \cup {e.id})
      BY <1>1, <2>1, <2>2, AppendNew
    <2>4. A \in SUBSET (1 .. lastId') /\ (B \ {e.id}) \cup {e.id} \in SUBSET A
      BY <1>1, <1>6
    <2> QED
      BY <1>1, <2>3, <2>4, ListedHistory
  <1>7. CASE e.op = "unpin" /\ e.id \in A
    <2>1. copied' = copied /\ pins' = Without(pins, e.id)
      BY <1>7 DEF Effect, Changed
    <2> HIDE DEF A, B
    <2>2. Enum(copied', A) /\ Enum(pins', B \ {e.id})
      BY <1>1, <2>1, WithoutEnum
    <2>3. A \in SUBSET (1 .. lastId') /\ B \ {e.id} \in SUBSET A
      BY <1>1
    <2> QED
      BY <1>1, <2>2, <2>3, ListedHistory
  <1> QED
    BY <1>2, <1>3, <1>4, <1>5, <1>6, <1>7

\* An edit that changes the history wakes the subscriber.
LEMMA EffectTold ==
  ASSUME NEW e \in Edit, Effect(e)
  PROVE  /\ UNCHANGED <<up, sub, pushed, last, pending>>
         /\ \/ UNCHANGED <<copied, pins, wake>>
            \/ wake' = (wake \/ sub = "on")
  <1>1. e.op \in {"delete", "pin", "unpin", "clear"}
    BY DEF Edit
  <1> QED
    BY <1>1 DEF Effect, Changed, channel

-----------------------------------------------------------------------------
(* A frame                                                                 *)

\* The window's lists, as a frame finds them.
ListsOK == IsList(rows) /\ (pending = NoList \/ IsList(pending))

\* A frame shows a list.
LEMMA ShownListed ==
  ASSUME ListsOK
  PROVE  IsList(Shown)
  BY DEF ListsOK, Shown

\* The rows that match are rows of the list.
LEMMA VisibleRows ==
  ASSUME ListsOK
  PROVE  /\ Visible(Shown) \subseteq 1 .. Len(List(Shown)) /\ Len(List(Shown)) \in Nat
         /\ DOMAIN List(Shown) = 1 .. Len(List(Shown))
         /\ Visible(Shown) \in SUBSET Nat
  <1>1. Len(List(Shown)) \in Nat /\ DOMAIN List(Shown) = 1 .. Len(List(Shown))
    BY ShownListed, ListRows
  <1>2. Visible(Shown) \subseteq DOMAIN List(Shown)
    BY DEF Visible
  <1> QED
    BY <1>1, <1>2

\* A frame with a row to show has one to act on, and it is a visible one.
LEMMA CurrentShown ==
  ASSUME ListsOK, Visible(Shown) # {}
  PROVE  /\ Current \in Visible(Shown) /\ Current \in Nat \ {0}
         /\ Entry \in Ids /\ Entry \in Range(List(Shown))
  <1>1. Min(Visible(Shown)) \in Visible(Shown)
    BY VisibleRows, MinIn
  <1>2. Current \in Visible(Shown)
    BY <1>1 DEF Current
  <1>3. Current \in DOMAIN List(Shown) /\ Current \in Nat \ {0}
    BY <1>2, VisibleRows
  <1> QED
    BY <1>2, <1>3, ShownListed, ListRows DEF Entry

\* The selection is followed to a row number.
LEMMA KeptRow ==
  ASSUME ListsOK, selected \in Nat \ {0}
  PROVE  Kept \in Nat \ {0}
  <1>1. CASE pending # NoList /\ Focused \in Range(List(pending))
    <2>1. IsList(pending)
      BY <1>1 DEF ListsOK
    <2>2. /\ \E i \in DOMAIN List(pending) : List(pending)[i] = Focused
          /\ DOMAIN List(pending) = 1 .. Len(List(pending)) /\ Len(List(pending)) \in Nat
      BY <1>1, <2>1, ListRows
    <2>3. Kept = CHOOSE i \in DOMAIN List(pending) : List(pending)[i] = Focused
      BY <1>1 DEF Kept
    <2>4. Kept \in DOMAIN List(pending)
      BY <2>2, <2>3
    <2> QED
      BY <2>2, <2>4
  <1>2. CASE ~(pending # NoList /\ Focused \in Range(List(pending)))
    BY <1>2 DEF Kept
  <1> QED
    BY <1>1, <1>2

\* Toggling keeps the row it toggled.
LEMMA ToggledRow ==
  ASSUME ListsOK, Visible(Shown) # {}
  PROVE  /\ IsList(Toggled(Shown, Entry))
         /\ (CHOOSE i \in DOMAIN List(Toggled(Shown, Entry)) :
               List(Toggled(Shown, Entry))[i] = Entry) \in Nat \ {0}
  <1> DEFINE after == Toggled(Shown, Entry)
  <1>1. IsList(after) /\ Entry \in Range(List(after))
    BY ShownListed, CurrentShown, ToggledList
  <1> HIDE DEF after
  <1>2. /\ \E i \in DOMAIN List(after) : List(after)[i] = Entry
        /\ DOMAIN List(after) = 1 .. Len(List(after)) /\ Len(List(after)) \in Nat
    BY <1>1, ListRows
  <1>3. (CHOOSE i \in DOMAIN List(after) : List(after)[i] = Entry) \in DOMAIN List(after)
    BY <1>2
  <1>4. (CHOOSE i \in DOMAIN List(after) : List(after)[i] = Entry) \in Nat \ {0}
    BY <1>2, <1>3
  <1> QED
    BY <1>1, <1>4 DEF after

-----------------------------------------------------------------------------
(* Types                                                                   *)

\* The subscription's part of TypeOK, and the window's.
ChannelOK ==
  /\ {up, wake} \subseteq BOOLEAN /\ sub \in {"off", "on", "dead"}
  /\ pushed \in Seq([pins : Seq(Ids), rest : Seq(Ids)]) /\ Len(pushed) <= MaxPushed
  /\ \A i \in DOMAIN pushed : IsList(pushed[i])

WindowOK ==
  /\ {open, edited} \subseteq BOOLEAN /\ flight \subseteq Edit
  /\ selected \in Nat \ {0} /\ focus \in {"row", "button"}
  /\ filter \in Filters \cup {Everything} /\ picked \in Ids \cup {NoId}

CountsOK == edits \in 0 .. MaxEdits /\ others \in 0 .. MaxOthers /\ outages \in 0 .. MaxOutages

\* TypeOK is those parts.
LEMMA TypeParts ==
  TypeOK <=> HistoryOK /\ ChannelOK /\ ListsOK /\ WindowOK /\ CountsOK
  BY DEF TypeOK, HistoryOK, ChannelOK, ListsOK, WindowOK, CountsOK

\* The types hold at first.
LEMMA InitTyped == Init => TypeOK
  <1> SUFFICES ASSUME Init PROVE TypeOK
    OBVIOUS
  <1>1. HistoryOK
    <2>1. 1 \in Ids /\ 2 \in Ids /\ 1 .. 2 \subseteq Ids
      BY BoundsAssumption DEF Ids
    <2> QED
      BY <2>1 DEF Init, HistoryOK, IsInjective, Range
  <1>2. IsList(Snapshot)
    BY <1>1, SnapshotListed
  <1>3. ChannelOK
    <2>1. {up, wake} \subseteq BOOLEAN
      BY Zenon DEF Init
    <2>2. /\ sub \in {"off", "on", "dead"}
          /\ pushed \in Seq([pins : Seq(Ids), rest : Seq(Ids)])
          /\ Len(pushed) <= MaxPushed /\ DOMAIN pushed = {}
      BY BoundsAssumption DEF Init
    <2> QED
      BY <2>1, <2>2 DEF ChannelOK
  <1>4. WindowOK
    <2>1. {open, edited} \subseteq BOOLEAN
      BY Zenon DEF Init
    <2>2. /\ flight \subseteq Edit /\ selected \in Nat \ {0} /\ focus \in {"row", "button"}
          /\ filter \in Filters \cup {Everything} /\ picked \in Ids \cup {NoId}
      BY DEF Init
    <2> QED
      BY <2>1, <2>2 DEF WindowOK
  <1>5. CountsOK
    BY BoundsAssumption DEF Init, CountsOK
  <1> QED
    BY <1>1, <1>2, <1>3, <1>4, <1>5, TypeParts DEF Init, ListsOK

\* What an action has to show of the new state.
LEMMA PartsNext ==
  ASSUME HistoryOK', ChannelOK', ListsOK', WindowOK', CountsOK'
  PROVE  TypeOK'
  BY DEF TypeOK, HistoryOK, ChannelOK, ListsOK, WindowOK, CountsOK

\* What is left alone keeps its type.
LEMMA Untouched ==
  /\ HistoryOK /\ UNCHANGED <<lastId, copied, pins>> => HistoryOK'
  /\ ChannelOK /\ UNCHANGED <<up, sub, wake, pushed>> => ChannelOK'
  /\ ListsOK /\ UNCHANGED <<rows, pending>> => ListsOK'
  /\ WindowOK /\ UNCHANGED <<flight, selected, focus, filter, open, picked, edited>> => WindowOK'
  /\ CountsOK /\ UNCHANGED counts => CountsOK'
  <1>1. HistoryOK /\ UNCHANGED <<lastId, copied, pins>> => HistoryOK'
    BY DEF HistoryOK
  <1>2. ChannelOK /\ UNCHANGED <<up, sub, wake, pushed>> => ChannelOK'
    BY DEF ChannelOK
  <1>3. ListsOK /\ UNCHANGED <<rows, pending>> => ListsOK'
    BY DEF ListsOK
  <1>4. WindowOK /\ UNCHANGED <<flight, selected, focus, filter, open, picked, edited>> => WindowOK'
    BY DEF WindowOK
  <1>5. CountsOK /\ UNCHANGED counts => CountsOK'
    BY DEF CountsOK, counts
  <1> QED
    BY <1>1, <1>2, <1>3, <1>4, <1>5

\* A wake-up that is given or not.
LEMMA WokenTyped ==
  ASSUME ChannelOK, UNCHANGED <<up, sub, pushed>>,
         wake' = wake \/ wake' = (wake \/ sub = "on")
  PROVE  ChannelOK'
  <1>1. wake' \in BOOLEAN
    BY Zenon DEF ChannelOK
  <1> QED
    BY <1>1 DEF ChannelOK

\* One lemma per group of actions: a copy.
LEMMA CopyTyped ==
  ASSUME TypeOK, NEW id \in Ids, Copy(id)
  PROVE  TypeOK'
  <1>1. HistoryOK /\ ChannelOK /\ ListsOK /\ WindowOK /\ CountsOK
    BY TypeParts
  <1>2. HistoryOK'
    BY <1>1, CopyListed
  <1>3. /\ UNCHANGED <<up, sub, pushed, pending, flight, window, edits, outages>>
        /\ wake' = (wake \/ sub = "on")
        /\ others < MaxOthers /\ others' = others + 1
    BY DEF Copy, Changed
  <1>4. ChannelOK'
    BY <1>1, <1>3, WokenTyped
  <1>5. CountsOK'
    BY <1>1, <1>3, BoundsAssumption DEF CountsOK
  <1> QED
    BY <1>1, <1>2, <1>3, <1>4, <1>5, Untouched, PartsNext DEF window

\* What an edit does to the daemon and its subscriber.
LEMMA EffectTyped ==
  ASSUME TypeOK, NEW e \in Edit, Effect(e), lastId' = lastId
  PROVE  HistoryOK' /\ ChannelOK' /\ pending' = pending
  <1>1. HistoryOK /\ ChannelOK
    BY TypeParts
  <1>2. /\ UNCHANGED <<up, sub, pushed, pending>>
        /\ wake' = wake \/ wake' = (wake \/ sub = "on")
    BY EffectTold
  <1>3. ChannelOK'
    BY <1>1, <1>2, WokenTyped
  <1> QED
    BY <1>1, <1>2, <1>3, EffectListed

\* An edit of another client.
LEMMA ElsewhereTyped ==
  ASSUME TypeOK, NEW e \in Edit, EditElsewhere(e)
  PROVE  TypeOK'
  <1>1. HistoryOK /\ ChannelOK /\ ListsOK /\ WindowOK /\ CountsOK
    BY TypeParts
  <1>2. /\ Effect(e) /\ others < MaxOthers /\ others' = others + 1
        /\ UNCHANGED <<lastId, flight, window, edits, outages>>
    BY DEF EditElsewhere
  <1>3. HistoryOK' /\ ChannelOK' /\ pending' = pending
    BY <1>2, EffectTyped
  <1>4. CountsOK'
    BY <1>1, <1>2, BoundsAssumption DEF CountsOK
  <1> QED
    BY <1>1, <1>2, <1>3, <1>4, Untouched, PartsNext DEF window

\* An edit of the window arrives, or fails to.
LEMMA ServeTyped ==
  ASSUME TypeOK, NEW e \in flight, Serve(e) \/ Lose(e)
  PROVE  TypeOK'
  <1>1. HistoryOK /\ ChannelOK /\ ListsOK /\ WindowOK /\ CountsOK
    BY TypeParts
  <1>2. e \in Edit
    BY <1>1 DEF WindowOK
  <1>3. flight' = flight \ {e} /\ UNCHANGED <<window, counts>>
    BY DEF Serve, Lose
  <1>4. WindowOK'
    BY <1>1, <1>3 DEF WindowOK, window
  <1>5. CASE Serve(e)
    <2>1. Effect(e) /\ lastId' = lastId
      BY <1>5 DEF Serve
    <2>2. HistoryOK' /\ ChannelOK' /\ pending' = pending
      BY <1>2, <2>1, EffectTyped
    <2> QED
      BY <1>1, <1>3, <1>4, <2>2, Untouched, PartsNext DEF window
  <1>6. CASE Lose(e)
    BY <1>1, <1>3, <1>4, <1>6, Untouched, PartsNext DEF Lose, daemon, channel, window
  <1> QED
    BY <1>5, <1>6

\* The daemon stops and starts, and the subscription does.
LEMMA OutageTyped ==
  ASSUME TypeOK, StopDaemon \/ StartDaemon \/ Subscribe \/ SyncEnds
  PROVE  TypeOK'
  <1>1. HistoryOK /\ ChannelOK /\ ListsOK /\ WindowOK /\ CountsOK
    BY TypeParts
  <1>2. UNCHANGED <<lastId, copied, pins, pushed, pending, flight, window, edits, others>>
    BY DEF StopDaemon, StartDaemon, Subscribe, SyncEnds, daemon, channel, counts
  <1>3. up' \in BOOLEAN /\ wake' \in BOOLEAN
    BY <1>1, Zenon DEF StopDaemon, StartDaemon, Subscribe, SyncEnds, daemon, channel, ChannelOK
  <1>4. sub' \in {"off", "on", "dead"}
    BY <1>1 DEF StopDaemon, StartDaemon, Subscribe, SyncEnds, channel, ChannelOK
  <1>5. ChannelOK'
    BY <1>1, <1>2, <1>3, <1>4 DEF ChannelOK
  <1>6. CountsOK'
    <2>1. outages' = outages \/ (outages < MaxOutages /\ outages' = outages + 1)
      BY DEF StopDaemon, StartDaemon, Subscribe, SyncEnds, counts
    <2> QED
      BY <1>1, <1>2, <2>1, BoundsAssumption DEF CountsOK
  <1> QED
    BY <1>1, <1>2, <1>5, <1>6, Untouched, PartsNext DEF window

\* A snapshot is written.
LEMMA PushTyped ==
  ASSUME TypeOK, Push
  PROVE  TypeOK'
  <1>1. HistoryOK /\ ChannelOK /\ ListsOK /\ WindowOK /\ CountsOK
    BY TypeParts
  <1>2. IsList(Snapshot) /\ Snapshot \in [pins : Seq(Ids), rest : Seq(Ids)]
    BY <1>1, SnapshotListed DEF IsList
  <1>3. /\ pushed' = Append(pushed, Snapshot) /\ wake' = FALSE /\ Len(pushed) < MaxPushed
        /\ UNCHANGED <<daemon, sub, last, pending, flight, window, counts>>
    BY DEF Push
  <1>4. /\ pushed' \in Seq([pins : Seq(Ids), rest : Seq(Ids)]) /\ Len(pushed') = Len(pushed) + 1
        /\ Len(pushed') <= MaxPushed
        /\ \A i \in DOMAIN pushed' :
             \/ i \in DOMAIN pushed /\ pushed'[i] = pushed[i]
             \/ pushed'[i] = Snapshot
    BY <1>1, <1>2, <1>3, BoundsAssumption DEF ChannelOK
  <1>5. \A i \in DOMAIN pushed' : IsList(pushed'[i])
    BY <1>1, <1>2, <1>4 DEF ChannelOK
  <1>6. ChannelOK'
    <2>1. up' \in BOOLEAN /\ wake' \in BOOLEAN
      BY <1>1, <1>3, Zenon DEF ChannelOK, daemon
    <2> QED
      BY <1>1, <1>3, <1>4, <1>5, <2>1 DEF ChannelOK, daemon
  <1> QED
    BY <1>1, <1>3, <1>6, Untouched, PartsNext DEF daemon, window

\* A snapshot is read.
LEMMA ReadTyped ==
  ASSUME TypeOK, SyncReads
  PROVE  TypeOK'
  <1>1. HistoryOK /\ ChannelOK /\ ListsOK /\ WindowOK /\ CountsOK
    BY TypeParts
  <1>2. /\ pushed # <<>> /\ pushed' = Tail(pushed)
        /\ pending' = pending \/ pending' = Head(pushed)
        /\ UNCHANGED <<daemon, sub, wake, flight, window, counts>>
    BY DEF SyncReads
  <1>3. /\ pushed' \in Seq([pins : Seq(Ids), rest : Seq(Ids)]) /\ Len(pushed') = Len(pushed) - 1
        /\ Len(pushed') <= MaxPushed /\ Head(pushed) = pushed[1] /\ 1 \in DOMAIN pushed
        /\ \A i \in DOMAIN pushed' : i + 1 \in DOMAIN pushed /\ pushed'[i] = pushed[i + 1]
    BY <1>1, <1>2, BoundsAssumption DEF ChannelOK
  <1>4. IsList(Head(pushed)) /\ \A i \in DOMAIN pushed' : IsList(pushed'[i])
    BY <1>1, <1>3 DEF ChannelOK
  <1>5. ChannelOK'
    BY <1>1, <1>2, <1>3, <1>4 DEF ChannelOK, daemon
  <1>6. ListsOK'
    BY <1>1, <1>2, <1>4 DEF ListsOK, window
  <1> QED
    BY <1>1, <1>2, <1>5, <1>6, Untouched, PartsNext DEF daemon, window

\* Whatever a frame does, it leaves the daemon and the subscription alone.
LEMMA FrameTyped ==
  ASSUME TypeOK, Drain, IsList(rows'), WindowOK', edits' \in 0 .. MaxEdits
  PROVE  TypeOK'
  <1>1. HistoryOK /\ ChannelOK /\ CountsOK
    BY TypeParts
  <1>2. pending' = NoList /\ UNCHANGED <<lastId, copied, pins, up, sub, wake, pushed, others, outages>>
    BY DEF Drain, daemon
  <1>3. ListsOK' /\ CountsOK'
    BY <1>1, <1>2 DEF ListsOK, CountsOK
  <1> QED
    BY <1>1, <1>2, <1>3, Untouched, PartsNext

\* A frame that only looks: the list is the one it took in.
LEMMA LookTyped ==
  ASSUME TypeOK, Drain, Keeps, selected' \in Nat \ {0}, focus' \in {"row", "button"},
         filter' \in Filters \cup {Everything}, UNCHANGED <<flight, open, picked, edits>>
  PROVE  TypeOK'
  <1>1. ListsOK /\ WindowOK /\ CountsOK
    BY TypeParts
  <1>2. IsList(rows')
    BY <1>1, ShownListed DEF Keeps
  <1>3. open' \in BOOLEAN /\ edited' \in BOOLEAN
    BY <1>1, Zenon DEF Keeps, WindowOK
  <1>4. WindowOK'
    BY <1>1, <1>3 DEF WindowOK
  <1> QED
    BY <1>1, <1>2, <1>4, FrameTyped DEF CountsOK

\* The frames that leave the selection where it is.
LEMMA DrawTyped ==
  ASSUME TypeOK, NEW f \in Filters \cup {Everything},
         Draw \/ Turn \/ Back \/ Type(f)
  PROVE  TypeOK'
  <1>1. ListsOK /\ WindowOK
    BY TypeParts
  <1>2. selected' = Kept \/ (Visible(Shown) # {} /\ selected' = Current)
    BY DEF Draw, Turn, Back, Type, Frame
  <1>3. selected' \in Nat \ {0}
    BY <1>1, <1>2, KeptRow, CurrentShown DEF WindowOK
  <1>4. Drain /\ Keeps /\ UNCHANGED <<flight, open, picked, edits>>
    BY DEF Draw, Turn, Back, Type, Frame
  <1>5. focus' \in {"row", "button"} /\ filter' \in Filters \cup {Everything}
    BY <1>1 DEF Draw, Turn, Back, Type, WindowOK
  <1> QED
    BY <1>3, <1>4, <1>5, LookTyped

\* The selection moves to the next visible row on either side.
LEMMA MoveTyped ==
  ASSUME TypeOK, Move
  PROVE  TypeOK'
  <1> DEFINE above == {i \in Visible(Shown) : i < Current}
             below == {i \in Visible(Shown) : i > Current}
  <1>1. ListsOK /\ WindowOK
    BY TypeParts
  <1>2. Visible(Shown) # {}
    BY DEF Move, Frame
  <1>3. Current \in Nat \ {0} /\ Visible(Shown) \subseteq Nat \ {0}
    BY <1>1, <1>2, CurrentShown, VisibleRows
  <1>4. above # {} => Max(above) \in above
    <2>1. above \in SUBSET (0 .. Current)
      BY <1>3
    <2> QED
      BY <1>3, <2>1, MaxIn
  <1>5. below # {} => Min(below) \in below
    <2>1. below \in SUBSET Nat
      BY <1>3
    <2> QED
      BY <2>1, MinIn
  <1>6. above \subseteq Nat \ {0} /\ below \subseteq Nat \ {0}
    BY <1>3
  <1>7. \/ selected' = IF above = {} THEN Current ELSE Max(above)
        \/ selected' = IF below = {} THEN Current ELSE Min(below)
    BY DEF Move
  <1> HIDE DEF above, below
  <1>8. selected' \in Nat \ {0}
    BY <1>3, <1>4, <1>5, <1>6, <1>7
  <1>9. Drain /\ Keeps /\ UNCHANGED <<flight, open, picked, edits, filter>> /\ focus' = "row"
    BY DEF Move, Frame
  <1> QED
    BY <1>1, <1>8, <1>9, LookTyped DEF WindowOK

\* An edit of the list, and what is sent for it.
LEMMA AskTyped ==
  ASSUME TypeOK, NEW op \in {"delete", "pin", "unpin", "clear"}, NEW id \in Ids \cup {NoId},
         Drain, Asks(op, id), IsList(rows'), selected' \in Nat \ {0},
         focus' = focus \/ focus' = "row", UNCHANGED <<filter, open, picked>>
  PROVE  TypeOK'
  <1>1. WindowOK /\ CountsOK
    BY TypeParts
  <1>2. edits \in 0 .. MaxEdits /\ edits' = edits + 1 /\ edits' \in 0 .. MaxEdits
    BY <1>1, BoundsAssumption DEF Asks, CountsOK
  <1>3. flight' \subseteq Edit
    BY <1>1, <1>2 DEF Asks, Edit, WindowOK
  <1>4. open' \in BOOLEAN /\ edited' \in BOOLEAN
    BY <1>1, Zenon DEF Asks, WindowOK
  <1>5. WindowOK'
    BY <1>1, <1>3, <1>4 DEF WindowOK
  <1> QED
    BY <1>2, <1>5, FrameTyped

\* A pin or unpin.
LEMMA ToggleTyped ==
  ASSUME TypeOK, Toggle
  PROVE  TypeOK'
  <1>1. ListsOK
    BY TypeParts
  <1>2. Drain /\ Visible(Shown) # {}
    BY DEF Toggle, Frame
  <1>3. Entry \in Ids
    BY <1>1, <1>2, CurrentShown
  <1>4. IsList(rows') /\ selected' \in Nat \ {0}
    BY <1>1, <1>2, ToggledRow DEF Toggle
  <1>5. UNCHANGED <<focus, filter, open, picked>>
    BY DEF Toggle
  <1>6. Asks("unpin", Entry) \/ Asks("pin", Entry)
    BY DEF Toggle
  <1> QED
    BY <1>2, <1>3, <1>4, <1>5, <1>6, AskTyped

\* A delete, and the selection it leaves.
LEMMA DeleteTyped ==
  ASSUME TypeOK, Delete
  PROVE  TypeOK'
  <1> DEFINE length == Len(List(Shown)) - 1
  <1>1. ListsOK
    BY TypeParts
  <1>2. Drain /\ Visible(Shown) # {} /\ Asks("delete", Entry)
    BY DEF Delete, Frame
  <1>3. Entry \in Ids /\ Current \in Nat \ {0} /\ Current <= Len(List(Shown))
        /\ Len(List(Shown)) \in Nat
    BY <1>1, <1>2, CurrentShown, VisibleRows
  <1>4. IsList(rows')
    BY <1>1, ShownListed, DeletedList DEF Delete
  <1>5. selected' \in Nat \ {0}
    <2>1. length \in Nat
      BY <1>3
    <2>2. selected' = IF length = 0 THEN 1 ELSE Min({Current, length})
      BY DEF Delete
    <2> HIDE DEF length
    <2>3. CASE length # 0
      <3>1. {Current, length} \in SUBSET Nat
        BY <1>3, <2>1
      <3>2. Min({Current, length}) \in {Current, length}
        BY <3>1, MinIn
      <3> QED
        BY <1>3, <2>1, <2>2, <2>3, <3>2
    <2> QED
      BY <2>2, <2>3
  <1>6. focus' = "row" /\ UNCHANGED <<filter, open, picked>>
    BY DEF Delete
  <1> QED
    BY <1>2, <1>3, <1>4, <1>5, <1>6, AskTyped

\* A clear.
LEMMA ClearTyped ==
  ASSUME TypeOK, Clear
  PROVE  TypeOK'
  <1>1. ListsOK
    BY TypeParts
  <1>2. /\ Drain /\ Asks("clear", NoId) /\ selected' = 1
        /\ UNCHANGED <<focus, filter, open, picked>>
    BY DEF Clear, Frame
  <1>3. IsList(rows')
    BY <1>1, ShownListed, PinnedList DEF Clear
  <1> QED
    BY <1>2, <1>3, AskTyped

\* The window closes.
LEMMA CloseTyped ==
  ASSUME TypeOK, Pick \/ Leave
  PROVE  TypeOK'
  <1>1. HistoryOK /\ ChannelOK /\ ListsOK /\ WindowOK /\ CountsOK
    BY TypeParts
  <1>2. /\ Close
        /\ picked' \in Ids \cup {NoId}
    <2>1. CASE Pick
      BY <1>1, <2>1, CurrentShown DEF Pick
    <2>2. CASE Leave
      BY <1>1, <2>2 DEF Leave, WindowOK
    <2> QED
      BY <2>1, <2>2
  <1>3. /\ open' = FALSE /\ sub' = "off" /\ wake' = FALSE /\ pushed' = <<>> /\ pending' = NoList
        /\ flight' = {} /\ rows' = [pins |-> <<>>, rest |-> <<>>] /\ selected' = 1
        /\ focus' = "row" /\ filter' = Everything /\ edited' = FALSE
        /\ UNCHANGED <<daemon, counts>>
    BY <1>2, Zenon DEF Close
  <1>4. IsList(rows')
    BY <1>3, EnumEmpty, ListOf
  <1>5. ChannelOK'
    <2>1. {up', wake'} \subseteq BOOLEAN
      BY <1>1, <1>3 DEF ChannelOK, daemon
    <2>2. DOMAIN pushed' = {} /\ Len(pushed') <= MaxPushed
      BY <1>3, BoundsAssumption
    <2> QED
      BY <1>3, <2>1, <2>2 DEF ChannelOK
  <1>6. ListsOK'
    BY <1>3, <1>4 DEF ListsOK
  <1>7. WindowOK'
    <2>1. {open', edited'} \subseteq BOOLEAN
      BY <1>3, Zenon
    <2> QED
      BY <1>2, <1>3, <2>1 DEF WindowOK
  <1> QED
    BY <1>1, <1>3, <1>5, <1>6, <1>7, Untouched, PartsNext DEF daemon

\* Every step keeps the types.
LEMMA NextTyped == TypeOK /\ [Next]_vars => TypeOK'
  <1> SUFFICES ASSUME TypeOK, [Next]_vars PROVE TypeOK'
    OBVIOUS
  <1>1. CASE \E id \in Ids : Copy(id)
    BY <1>1, CopyTyped
  <1>2. CASE \/ \E op \in {"delete", "pin", "unpin"}, id \in Ids :
                  EditElsewhere([op |-> op, id |-> id, n |-> 0])
             \/ EditElsewhere([op |-> "clear", id |-> NoId, n |-> 0])
    <2>1. /\ \A op \in {"delete", "pin", "unpin"}, id \in Ids : [op |-> op, id |-> id, n |-> 0] \in Edit
          /\ [op |-> "clear", id |-> NoId, n |-> 0] \in Edit
      BY BoundsAssumption DEF Edit
    <2> QED
      BY <1>2, <2>1, ElsewhereTyped
  <1>3. CASE \E e \in flight : Serve(e) \/ Lose(e)
    BY <1>3, ServeTyped
  <1>4. CASE StopDaemon \/ StartDaemon \/ Push \/ SyncThread
    BY <1>4, OutageTyped, PushTyped, ReadTyped DEF SyncThread
  <1>5. CASE Draw \/ Key
    <2>1. Everything \in Filters \cup {Everything}
      OBVIOUS
    <2> QED
      BY <1>5, <2>1, DrawTyped, MoveTyped, ToggleTyped, DeleteTyped, ClearTyped, CloseTyped DEF Key
  <1>6. CASE UNCHANGED vars
    <2>1. HistoryOK /\ ChannelOK /\ ListsOK /\ WindowOK /\ CountsOK
      BY TypeParts
    <2> QED
      BY <1>6, <2>1, Untouched, PartsNext DEF vars, daemon, channel, window
  <1> QED
    BY <1>1, <1>2, <1>3, <1>4, <1>5, <1>6 DEF Next

\* The history, the snapshots on their way and the window's list never name an
\* entry twice, and every row and edit is one of the history's ids.
THEOREM PickerTypeCorrect == Spec => []TypeOK
  BY InitTyped, NextTyped, PTL DEF Spec

-----------------------------------------------------------------------------
(* The window follows the history.                                         *)

\* What the sync thread will have received once it has read what was written.
LastSent == IF pushed = <<>> THEN last ELSE pushed[Len(pushed)]

\* A subscriber that has nothing to be woken for has been sent the history.
Announced == open /\ sub = "on" /\ ~wake => LastSent = Snapshot

\* What was received is in the channel or, unless the user changed it, in the
\* window: a snapshot that is dropped for its fingerprint was there already.
Received ==
  open /\ last # NoList =>
    pending = last \/ (pending = NoList /\ (edited \/ rows = last))

IInv == TypeOK /\ Announced /\ Received

\* What does not change the history leaves what is sent as it was.
LEMMA Resent ==
  ASSUME UNCHANGED <<copied, pins>>
  PROVE  Snapshot' = Snapshot
  BY DEF Snapshot

\* What changes neither the history nor the subscription changes nothing of this.
LEMMA AnnouncedStays ==
  ASSUME Announced, UNCHANGED <<copied, pins, sub, wake, pushed, last>>, open' => open
  PROVE  Announced'
  <1>1. Snapshot' = Snapshot /\ LastSent' = LastSent
    BY Resent DEF LastSent
  <1> QED
    BY <1>1 DEF Announced

\* Nor does what changes neither the channel nor the window.
LEMMA ReceivedStays ==
  ASSUME Received, UNCHANGED <<last, pending, window>>
  PROVE  Received'
  BY DEF Received, window

\* A change of the history wakes the subscriber.
LEMMA ChangeFollowed ==
  ASSUME IInv, UNCHANGED <<sub, pushed, last, pending, window>>,
         UNCHANGED <<copied, pins, wake>> \/ wake' = (wake \/ sub = "on")
  PROVE  Announced' /\ Received'
  <1>1. Received'
    BY ReceivedStays DEF IInv
  <1>2. Announced'
    <2>1. CASE UNCHANGED <<copied, pins, wake>>
      BY <2>1, AnnouncedStays DEF IInv, window
    <2>2. CASE wake' = (wake \/ sub = "on")
      BY <2>2, Zenon DEF Announced
    <2> QED
      BY <2>1, <2>2
  <1> QED
    BY <1>1, <1>2

\* One lemma per group of actions: copies and edits.
LEMMA DaemonFollowed ==
  ASSUME IInv,
         \/ \E id \in Ids : Copy(id)
         \/ \E e \in Edit : EditElsewhere(e)
         \/ \E e \in flight : Serve(e) \/ Lose(e)
  PROVE  Announced' /\ Received'
  <1>1. CASE \E id \in Ids : Copy(id)
    BY <1>1, ChangeFollowed DEF Copy, Changed
  <1>2. CASE \E e \in Edit : EditElsewhere(e)
    BY <1>2, ChangeFollowed, EffectTold DEF EditElsewhere
  <1>3. CASE \E e \in flight : Serve(e) \/ Lose(e)
    <2>1. PICK e \in flight : Serve(e) \/ Lose(e)
      BY <1>3
    <2>2. e \in Edit
      BY DEF IInv, TypeOK
    <2>3. CASE Serve(e)
      BY <2>2, <2>3, ChangeFollowed, EffectTold DEF Serve
    <2>4. CASE Lose(e)
      BY <2>4, ChangeFollowed DEF Lose, daemon, channel
    <2> QED
      BY <2>1, <2>3, <2>4
  <1> QED
    BY <1>1, <1>2, <1>3

\* The daemon stops and starts, and the subscription ends and begins.
LEMMA OutageFollowed ==
  ASSUME IInv, StopDaemon \/ StartDaemon \/ Subscribe \/ SyncEnds
  PROVE  Announced' /\ Received'
  <1>1. CASE StopDaemon
    <2>1. sub' # "on" /\ UNCHANGED <<last, pending, window>>
      BY <1>1 DEF StopDaemon
    <2> QED
      BY <2>1, ReceivedStays DEF IInv, Announced
  <1>2. CASE StartDaemon
    BY <1>2, ChangeFollowed DEF StartDaemon, channel
  <1>3. CASE Subscribe
    <2>1. wake' = TRUE /\ last' = NoList
      BY <1>3 DEF Subscribe
    <2> QED
      BY <2>1 DEF Announced, Received
  <1>4. CASE SyncEnds
    <2>1. sub' # "on" /\ UNCHANGED <<last, pending, window>>
      BY <1>4 DEF SyncEnds
    <2> QED
      BY <2>1, ReceivedStays DEF IInv, Announced
  <1> QED
    BY <1>1, <1>2, <1>3, <1>4

\* What is written last is the history.
LEMMA PushFollowed ==
  ASSUME IInv, Push
  PROVE  Announced' /\ Received'
  <1>1. pushed \in Seq([pins : Seq(Ids), rest : Seq(Ids)])
    BY DEF IInv, TypeOK
  <1>2. /\ pushed' = Append(pushed, Snapshot)
        /\ UNCHANGED <<daemon, sub, last, pending, flight, window, counts>>
    BY DEF Push
  <1>3. pushed' # <<>> /\ pushed'[Len(pushed')] = Snapshot
    BY <1>1, <1>2
  <1>4. Snapshot' = Snapshot
    BY <1>2, Resent DEF daemon
  <1>5. LastSent' = Snapshot'
    BY <1>3, <1>4 DEF LastSent
  <1> QED
    BY <1>2, <1>5, ReceivedStays DEF Announced, IInv

\* What is read is shown, or was received already.
LEMMA ReadFollowed ==
  ASSUME IInv, SyncReads
  PROVE  Announced' /\ Received'
  <1>1. /\ pushed \in Seq([pins : Seq(Ids), rest : Seq(Ids)]) /\ pushed # <<>>
        /\ \A i \in DOMAIN pushed : IsList(pushed[i])
    BY DEF IInv, TypeOK, SyncReads
  <1>2. /\ pushed' = Tail(pushed) /\ last' = Head(pushed)
        /\ pending' = IF last # Head(pushed) THEN Head(pushed) ELSE pending
        /\ UNCHANGED <<daemon, sub, wake, flight, window, counts>>
    BY DEF SyncReads, Fingerprint
  <1>3. Head(pushed) = pushed[1] /\ 1 \in DOMAIN pushed /\ Len(pushed) \in Nat \ {0}
    BY <1>1
  <1>0. /\ pushed' \in Seq([pins : Seq(Ids), rest : Seq(Ids)]) /\ Len(pushed') = Len(pushed) - 1
        /\ DOMAIN pushed' = 1 .. Len(pushed')
        /\ \A i \in DOMAIN pushed' : i + 1 \in DOMAIN pushed /\ pushed'[i] = pushed[i + 1]
    BY <1>1, <1>2
  <1>4. LastSent' = LastSent
    <2>1. CASE Len(pushed) = 1
      <3>1. pushed' = <<>>
        BY <1>0, <2>1
      <3> QED
        BY <1>1, <1>2, <1>3, <2>1, <3>1 DEF LastSent
    <2>2. CASE Len(pushed) # 1
      <3>1. /\ pushed' # <<>> /\ Len(pushed') = Len(pushed) - 1
            /\ pushed'[Len(pushed')] = pushed[Len(pushed)]
        <4>1. Len(pushed') \in DOMAIN pushed' /\ Len(pushed') + 1 = Len(pushed)
          BY <1>0, <1>3, <2>2
        <4>2. pushed' # <<>>
          BY <1>0, <1>3, <2>2
        <4>3. pushed'[Len(pushed')] = pushed[Len(pushed') + 1]
          BY <1>0, <4>1
        <4> QED
          BY <1>0, <4>1, <4>2, <4>3
      <3> QED
        BY <1>1, <3>1 DEF LastSent
    <2> QED
      BY <2>1, <2>2
  <1>5. Announced'
    BY <1>2, <1>4, Resent DEF IInv, Announced, daemon, window
  <1>6. Received'
    <2>1. CASE last # Head(pushed)
      BY <1>2, <2>1 DEF Received
    <2>2. CASE last = Head(pushed)
      BY <1>2, <2>2, ReceivedStays DEF IInv
    <2> QED
      BY <2>1, <2>2
  <1> QED
    BY <1>5, <1>6

\* A frame shows what was received, and an edit of the list is marked.
LEMMA FrameFollowed ==
  ASSUME IInv, NEW f \in Filters \cup {Everything},
         Draw \/ Move \/ Turn \/ Back \/ Type(f) \/ Toggle \/ Delete \/ Clear
  PROVE  Announced' /\ Received'
  <1>1. /\ Drain /\ open' = open
        /\ Keeps \/ edited' = TRUE
    BY DEF Draw, Move, Turn, Back, Type, Toggle, Delete, Clear, Frame, Asks
  <1>2. /\ pending' = NoList
        /\ UNCHANGED <<copied, pins, sub, wake, pushed, last>>
    BY <1>1 DEF Drain, daemon
  <1>3. Announced'
    BY <1>1, <1>2, AnnouncedStays DEF IInv
  <1>4. Received'
    <2>1. CASE edited' = TRUE
      BY <1>2, <2>1 DEF Received
    <2>2. CASE Keeps
      <3> SUFFICES ASSUME open, last # NoList PROVE edited' \/ rows' = last
        BY <1>1, <1>2 DEF Received
      <3>1. rows' = Shown /\ edited' = (edited /\ pending = NoList)
        BY <2>2, Zenon DEF Keeps
      <3>2. CASE pending = last
        BY <3>1, <3>2 DEF Shown
      <3>3. CASE pending = NoList /\ (edited \/ rows = last)
        BY <3>1, <3>3 DEF Shown
      <3> QED
        BY <3>2, <3>3 DEF IInv, Received
    <2> QED
      BY <1>1, <2>1, <2>2
  <1> QED
    BY <1>3, <1>4

\* The invariant holds at first.
LEMMA InitIInv == Init => IInv
  <1> SUFFICES ASSUME Init PROVE IInv
    OBVIOUS
  <1>1. sub # "on" /\ last = NoList
    BY DEF Init
  <1> QED
    BY <1>1, InitTyped DEF IInv, Announced, Received

\* Every step keeps the invariant.
LEMMA NextIInv == IInv /\ [Next]_vars => IInv'
  <1> SUFFICES ASSUME IInv, [Next]_vars PROVE Announced' /\ Received'
    BY NextTyped DEF IInv
  <1>1. CASE \E id \in Ids : Copy(id)
    BY <1>1, DaemonFollowed
  <1>2. CASE \/ \E op \in {"delete", "pin", "unpin"}, id \in Ids :
                  EditElsewhere([op |-> op, id |-> id, n |-> 0])
             \/ EditElsewhere([op |-> "clear", id |-> NoId, n |-> 0])
    <2>1. /\ \A op \in {"delete", "pin", "unpin"}, id \in Ids : [op |-> op, id |-> id, n |-> 0] \in Edit
          /\ [op |-> "clear", id |-> NoId, n |-> 0] \in Edit
      BY BoundsAssumption DEF Edit
    <2> QED
      BY <1>2, <2>1, DaemonFollowed
  <1>3. CASE \E e \in flight : Serve(e) \/ Lose(e)
    BY <1>3, DaemonFollowed
  <1>4. CASE StopDaemon \/ StartDaemon \/ Push \/ SyncThread
    BY <1>4, OutageFollowed, PushFollowed, ReadFollowed DEF SyncThread
  <1>5. CASE Draw \/ Key
    <2>1. CASE Pick \/ Leave
      <3>1. open' = FALSE
        BY <2>1, Zenon DEF Pick, Leave, Close
      <3> QED
        BY <3>1 DEF Announced, Received
    <2>2. CASE ~(Pick \/ Leave)
      <3>1. Everything \in Filters \cup {Everything}
        OBVIOUS
      <3> QED
        BY <1>5, <2>2, <3>1, FrameFollowed DEF Key
    <2> QED
      BY <2>1, <2>2
  <1>6. CASE UNCHANGED vars
    <2>1. UNCHANGED <<copied, pins, sub, wake, pushed, last, pending, window>>
      BY <1>6 DEF vars, daemon, channel
    <2> QED
      BY <2>1, ChangeFollowed
  <1> QED
    BY <1>1, <1>2, <1>3, <1>4, <1>5, <1>6 DEF Next

\* A received snapshot is a list, so the history cannot pass for none.
LEMMA IInvCurrent == IInv => UneditedIsCurrent
  <1> SUFFICES ASSUME IInv, sub = "on", ~wake, pushed = <<>>, pending = NoList, open, ~edited
               PROVE  rows = Snapshot
    BY DEF UneditedIsCurrent
  <1>1. last = Snapshot
    BY DEF IInv, Announced, LastSent
  <1>2. Snapshot # NoList
    BY SnapshotListed, NoListApart, TypeParts DEF IInv
  <1> QED
    BY <1>1, <1>2 DEF IInv, Received

\* However its wake-ups were merged, its snapshots drained and its fingerprints
\* compared: a window that was not edited and has nothing on its way to it
\* shows the daemon's history.
THEOREM UneditedListIsCurrent == Spec => []UneditedIsCurrent
  BY InitIInv, NextIInv, IInvCurrent, PTL DEF Spec

-----------------------------------------------------------------------------
(* A key acts on what was shown.                                           *)

\* What a key is meant for: the entry that had the focus, if it still has a
\* visible row, and else the first visible one.
Meant ==
  IF \E i \in Visible(Shown) : List(Shown)[i] = Focused
    THEN Focused
    ELSE List(Shown)[Min(Visible(Shown))]

\* Entries are found again by their id, as no list has one twice.
LEMMA EntryMeant ==
  ASSUME TypeOK, Visible(Shown) # {}
  PROVE  Entry = Meant
  <1> DEFINE list == List(Shown)
             seen == Visible(Shown)
  <1>1. ListsOK /\ IsList(Shown) /\ selected \in Nat \ {0}
    BY TypeParts, ShownListed DEF WindowOK
  <1>2. /\ seen \subseteq DOMAIN list /\ seen \in SUBSET Nat /\ seen \subseteq 1 .. Len(list)
        /\ \A i, j \in DOMAIN list : list[i] = list[j] => i = j
        /\ \A i \in DOMAIN list : list[i] \in Ids /\ list[i] \in Range(list)
        /\ \A x \in Range(list) : \E i \in DOMAIN list : list[i] = x
    BY <1>1, VisibleRows, ListRows
  <1>3. Min(seen) \in seen /\ \A i \in seen : Min(seen) <= i
    BY <1>2, MinIn
  <1>4. /\ Entry = IF Kept \in seen THEN list[Kept] ELSE list[Min(seen)]
        /\ Meant = IF \E i \in seen : list[i] = Focused THEN Focused ELSE list[Min(seen)]
    BY DEF Entry, Current, Meant
  <1>5. CASE pending # NoList
    <2>1. list = List(pending)
      BY <1>5 DEF Shown
    <2>2. Kept = IF Focused \in Range(list)
                   THEN CHOOSE i \in DOMAIN list : list[i] = Focused
                   ELSE 1
      BY <1>5, <2>1 DEF Kept
    <2> HIDE DEF list, seen
    <2>3. CASE Focused \in Range(list)
      <3>1. Kept \in DOMAIN list /\ list[Kept] = Focused
        <4>1. \E i \in DOMAIN list : list[i] = Focused
          BY <1>2, <2>3
        <4> QED
          BY <2>2, <2>3, <4>1
      <3>2. \A i \in seen : list[i] = Focused => i = Kept
        BY <1>2, <3>1
      <3> QED
        BY <1>4, <3>1, <3>2
    <2>4. CASE Focused \notin Range(list)
      <3>1. Kept = 1
        BY <2>2, <2>4
      <3>2. ~\E i \in seen : list[i] = Focused
        BY <1>2, <2>4
      <3>3. 1 \in seen => Min(seen) = 1
        BY <1>2, <1>3
      <3> QED
        BY <1>4, <3>1, <3>2, <3>3
    <2> QED
      BY <2>3, <2>4
  <1>6. CASE pending = NoList
    <2>1. Kept = selected
      BY <1>6 DEF Kept
    <2>2. Focused = IF selected \in DOMAIN list THEN list[selected] ELSE NoId
      BY <1>6 DEF Focused, Shown
    <2>3. NoId \notin Ids
      BY BoundsAssumption DEF NoId, Ids
    <2> HIDE DEF list, seen
    <2>4. CASE selected \in DOMAIN list
      <3>1. \A i \in seen : list[i] = Focused => i = selected
        BY <1>2, <2>2, <2>4
      <3> QED
        BY <1>4, <2>1, <2>2, <2>4, <3>1
    <2>5. CASE selected \notin DOMAIN list
      <3>1. selected \notin seen /\ ~\E i \in seen : list[i] = Focused
        BY <1>2, <2>2, <2>3, <2>5
      <3> QED
        BY <1>4, <2>1, <3>1
    <2> QED
      BY <2>4, <2>5
  <1> QED
    BY <1>5, <1>6

\* What a step asks for or picks, other than clearing.
Acted ==
  {e.id : e \in {x \in flight' \ flight : x.op # "clear"}}
    \cup (IF picked' # picked THEN {picked'} ELSE {})

\* A step that sends nothing and picks nothing does not act.
LEMMA QuietActs ==
  ASSUME flight' \subseteq flight, picked' = picked
  PROVE  Acted = {}
  BY DEF Acted

\* Every step that acts on an entry acts on the one that was meant.
LEMMA NextActs ==
  ASSUME TypeOK, [Next]_vars
  PROVE  \A id \in Acted : id = Meant
  <1>1. CASE Toggle \/ Delete
    <2>1. PICK op \in {"pin", "unpin", "delete"} : Asks(op, Entry)
      BY <1>1 DEF Toggle, Delete
    <2>2. Visible(Shown) # {} /\ picked' = picked
      BY <1>1 DEF Toggle, Delete, Frame
    <2>3. flight' \ flight \subseteq {[op |-> op, id |-> Entry, n |-> edits]}
      BY <2>1 DEF Asks
    <2>4. Acted \subseteq {Entry}
      BY <2>2, <2>3 DEF Acted
    <2> QED
      BY <2>2, <2>4, EntryMeant
  <1>2. CASE Clear
    <2>1. picked' = picked /\ flight' \ flight \subseteq {[op |-> "clear", id |-> NoId, n |-> edits]}
      BY <1>2 DEF Clear, Asks
    <2> QED
      BY <2>1 DEF Acted
  <1>3. CASE Pick
    <2>1. Visible(Shown) # {} /\ picked' = Entry /\ flight' = {}
      BY <1>3 DEF Pick, Close
    <2>2. Acted \subseteq {Entry}
      BY <2>1 DEF Acted
    <2> QED
      BY <2>1, <2>2, EntryMeant
  <1>4. CASE Draw \/ Move \/ Turn \/ Back \/ Leave \/ \E f \in Filters \cup {Everything} : Type(f)
    <2>1. flight' \subseteq flight /\ picked' = picked
      BY <1>4 DEF Draw, Move, Turn, Back, Leave, Close, Type
    <2> QED
      BY <2>1, QuietActs
  <1>5. CASE \/ \E id \in Ids : Copy(id)
             \/ \E e \in Edit : EditElsewhere(e)
             \/ \E e \in flight : Serve(e) \/ Lose(e)
             \/ StopDaemon \/ StartDaemon \/ Push \/ SyncThread
             \/ UNCHANGED vars
    <2>1. flight' \subseteq flight /\ picked' = picked
      BY <1>5 DEF Copy, EditElsewhere, Serve, Lose, StopDaemon, StartDaemon, Push,
                  SyncThread, Subscribe, SyncReads, SyncEnds, window, vars
    <2> QED
      BY <2>1, QuietActs
  <1>6. /\ \A op \in {"delete", "pin", "unpin"}, id \in Ids : [op |-> op, id |-> id, n |-> 0] \in Edit
        /\ [op |-> "clear", id |-> NoId, n |-> 0] \in Edit
    BY BoundsAssumption DEF Edit
  <1> QED
    BY <1>1, <1>2, <1>3, <1>4, <1>5, <1>6 DEF Next, Key

\* A snapshot that arrives between the screen and the key does not make the key
\* act on another entry than the focused one, as long as that one is visible.
THEOREM KeysActOnWhatWasShown == Spec => ActsOnWhatWasShown
  <1> DEFINE Act == \A id \in Acted : id = Meant
  <1>1. TypeOK /\ [Next]_vars => Act
    BY NextActs
  <1>2. [Act]_vars <=> [LET acted == {e.id : e \in {x \in flight' \ flight : x.op # "clear"}}
                                       \cup (IF picked' # picked THEN {picked'} ELSE {})
                            still == \E i \in Visible(Shown) : List(Shown)[i] = Focused
                            first == List(Shown)[Min(Visible(Shown))]
                        IN \A id \in acted : id = IF still THEN Focused ELSE first]_vars
    BY DEF Acted, Meant
  <1> HIDE DEF Act
  <1> QED
    BY <1>1, <1>2, PickerTypeCorrect, PTL DEF Spec, ActsOnWhatWasShown
=============================================================================
