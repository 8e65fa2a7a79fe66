-------------------------- MODULE CallForwardProofs --------------------------
(***************************************************************************)
(* What CallForward promises, for every number of jobs, items and          *)
(* requests: whatever they interleave, items hang where they were allowed  *)
(* to, are what they were last asked to be, and are all in a capture.      *)
(***************************************************************************)
EXTENDS CallForward, FiniteSetTheorems, SequenceTheorems, WellFoundedInduction, TLAPS

-----------------------------------------------------------------------------
(* The order of a programme: least numbers and greatest elements. *)

\* Any numbers have a least one.
LEMMA LeastNumber ==
    ASSUME NEW S, S # {}, S \subseteq Nat
    PROVE  \E m \in S : \A n \in S : m <= n
  <1>1. IsWellFoundedOn(OpToRel(<, Nat), Nat)
    BY NatLessThanWellFounded, Zenon
  <1>2. PICK m \in S : \A n \in S : ~(<<n, m>> \in OpToRel(<, Nat))
    BY <1>1, WFMin, Zenon
  <1>3. \A n \in S : ~(n < m)
    BY <1>2 DEF OpToRel
  <1> QED  BY <1>3

\* What holds at first and passes on holds up to the end.
LEMMA UpTo ==
    ASSUME NEW N \in Nat, NEW P, P \subseteq 0 .. N, 0 \in P,
           \A t \in 1 .. N : t - 1 \in P => t \in P
    PROVE  P = 0 .. N
  <1> SUFFICES ASSUME P # 0 .. N PROVE FALSE
    OBVIOUS
  <1> DEFINE S == (0 .. N) \ P
  <1>1. S # {} /\ S \subseteq Nat
    <2>1. S # {}
      BY Zenon
    <2> QED  BY <2>1
  <1>2. PICK m \in S : \A n \in S : m <= n
    BY <1>1, LeastNumber
  <1>3. m \in 1 .. N /\ m \notin P /\ m - 1 \in 0 .. N
    OBVIOUS
  <1>4. m - 1 \in P
    BY <1>2, <1>3
  <1> QED  BY <1>3, <1>4

Tops(R, T) == {m \in T : \A x \in T : x = m \/ <<x, m>> \in R}

\* A finite set in a line has a top.
LEMMA TopExists ==
    ASSUME NEW S, IsFiniteSet(S), S # {}, NEW R,
           \A x, y \in S : x = y \/ <<x, y>> \in R \/ <<y, x>> \in R,
           \A x, y, z \in S : <<x, y>> \in R /\ <<y, z>> \in R => <<x, z>> \in R
    PROVE  Tops(R, S) # {}
  <1> SUFFICES ASSUME Tops(R, S) = {} PROVE FALSE
    OBVIOUS
  <1> DEFINE Bad == {n \in Nat : \E T \in SUBSET S :
                        T # {} /\ Cardinality(T) = n /\ Tops(R, T) = {}}
  <1>1. Bad # {}
    <2>1. Cardinality(S) \in Nat
      BY FS_CardinalityType
    <2> QED  BY <2>1
  <1>2. Bad \subseteq Nat
    OBVIOUS
  <1> HIDE DEF Bad
  <1>3. PICK n \in Bad : \A k \in Bad : n <= k
    BY <1>1, <1>2, LeastNumber
  <1>4. PICK T \in SUBSET S : T # {} /\ Cardinality(T) = n /\ Tops(R, T) = {}
    BY <1>3 DEF Bad
  <1>5. PICK x \in T : TRUE
    BY <1>4
  <1>6. IsFiniteSet(T)
    BY FS_Subset
  <1>7. n \in Nat /\ Cardinality(T \ {x}) = n - 1 /\ n - 1 \in Nat
    <2>1. IsFiniteSet(T \ {x}) /\ Cardinality(T \ {x}) = Cardinality(T) - 1
      BY <1>5, <1>6, FS_RemoveElement
    <2>2. Cardinality(T \ {x}) \in Nat
      BY <2>1, FS_CardinalityType
    <2> QED  BY <1>2, <1>3, <1>4, <2>1, <2>2
  <1>8. CASE T \ {x} = {}
    <2>1. x \in Tops(R, T)
      BY <1>5, <1>8 DEF Tops
    <2> QED  BY <1>4, <2>1
  <1>9. CASE T \ {x} # {}
    <2>1. n - 1 \notin Bad
      BY <1>3, <1>7
    <2>2. Tops(R, T \ {x}) # {}
      BY <1>7, <1>9, <2>1 DEF Bad
    <2>3. PICK y \in T \ {x} : \A z \in T \ {x} : z = y \/ <<z, y>> \in R
      BY <2>2 DEF Tops
    <2>4. CASE <<x, y>> \in R
      <3>1. y \in Tops(R, T)
        BY <2>3, <2>4 DEF Tops
      <3> QED  BY <1>4, <3>1
    <2>5. CASE <<y, x>> \in R
      <3>1. \A z \in T : z = x \/ <<z, x>> \in R
        BY <1>5, <2>3, <2>5
      <3>2. x \in Tops(R, T)
        BY <1>5, <3>1 DEF Tops
      <3> QED  BY <1>4, <3>2
    <2> QED  BY <1>5, <2>3, <2>4, <2>5
  <1> QED  BY <1>8, <1>9

LEMMA MaxType ==
    ASSUME NEW S, IsFiniteSet(S), S # {}, S \subseteq Int
    PROVE  Max(S) \in S /\ \A x \in S : x <= Max(S)
  <1> DEFINE R == {p \in S \X S : p[1] < p[2]}
  <1>1. \A x, y \in S : <<x, y>> \in R <=> x < y
    OBVIOUS
  <1> HIDE DEF R
  <1>2. Tops(R, S) # {}
    <2>1. ASSUME NEW x \in S, NEW y \in S
          PROVE  x = y \/ <<x, y>> \in R \/ <<y, x>> \in R
      <3>1. x = y \/ x < y \/ y < x
        OBVIOUS
      <3> QED  BY <1>1, <3>1, Zenon
    <2>2. \A x, y, z \in S : <<x, y>> \in R /\ <<y, z>> \in R => <<x, z>> \in R
      BY <1>1
    <2> QED  BY <2>1, <2>2, TopExists
  <1>3. PICK m \in S : \A x \in S : x = m \/ <<x, m>> \in R
    BY <1>2 DEF Tops
  <1>4. ASSUME NEW x \in S PROVE m >= x
    <2>1. x = m \/ x < m
      BY <1>1, <1>3, Zenon
    <2> QED  BY <2>1
  <1>5. Max(S) \in S /\ \A x \in S : Max(S) >= x
    BY <1>4, Zenon DEF Max
  <1> QED  BY <1>5

-----------------------------------------------------------------------------
(* The order of a programme: rows sorted, walked and captured. *)

\* What the capture reads of the rows.
Rows(rows) ==
    /\ IsFiniteSet(DOMAIN rows) /\ DOMAIN rows \subseteq Nat
    /\ \A i \in DOMAIN rows : rows[i].order \in Int
    /\ NoParent \notin DOMAIN rows

IsOrdered(rows, ids, s) ==
    \A m, n \in 1 .. Cardinality(ids) : m < n => Precedes(rows, s[m], s[n])

\* ORDER BY sort_order, id can be met, so that RowOrder's CHOOSE is one.
LEMMA RowsCanBeSorted ==
    ASSUME NEW rows, Rows(rows), NEW ids \in SUBSET DOMAIN rows
    PROVE  \E s \in [1 .. Cardinality(ids) -> ids] : IsOrdered(rows, ids, s)
  <1> DEFINE Sortable(S) == \E s \in [1 .. Cardinality(S) -> S] : IsOrdered(rows, S, s)
             Bad == {n \in Nat : \E S \in SUBSET DOMAIN rows : Cardinality(S) = n /\ ~Sortable(S)}
  <1> SUFFICES ASSUME ~Sortable(ids) PROVE FALSE
    OBVIOUS
  <1>1. \A S \in SUBSET DOMAIN rows : IsFiniteSet(S) /\ Cardinality(S) \in Nat
    BY FS_Subset, FS_CardinalityType DEF Rows
  <1>2. Bad # {} /\ Bad \subseteq Nat
    BY <1>1
  <1> HIDE DEF Bad
  <1>3. PICK c \in Bad : \A k \in Bad : c <= k
    BY <1>2, LeastNumber
  <1>4. PICK S \in SUBSET DOMAIN rows : Cardinality(S) = c /\ ~Sortable(S)
    BY <1>3 DEF Bad
  <1>5. CASE S = {}
    <2>1. Cardinality(S) = 0
      BY <1>5, FS_EmptySet
    <2>2. <<>> \in [1 .. Cardinality(S) -> S] /\ IsOrdered(rows, S, <<>>)
      BY <2>1 DEF IsOrdered
    <2> QED  BY <1>4, <2>2
  <1>6. CASE S # {}
    <2> DEFINE R == {p \in S \X S : Precedes(rows, p[1], p[2])}
    <2>1. \A x, y \in S : <<x, y>> \in R <=> Precedes(rows, x, y)
      OBVIOUS
    <2> HIDE DEF R
    <2>2. \A x \in S : x \in Nat /\ rows[x].order \in Int
      BY DEF Rows
    <2>3. Tops(R, S) # {}
      <3>1. ASSUME NEW x \in S, NEW y \in S
            PROVE  x = y \/ <<x, y>> \in R \/ <<y, x>> \in R
        <4>1. x = y \/ Precedes(rows, x, y) \/ Precedes(rows, y, x)
          BY <2>2 DEF Precedes
        <4> QED  BY <2>1, <4>1, Zenon
      <3>2. \A x, y, z \in S : <<x, y>> \in R /\ <<y, z>> \in R => <<x, z>> \in R
        BY <2>1, <2>2 DEF Precedes
      <3> QED  BY <1>1, <1>6, <3>1, <3>2, TopExists
    <2>4. PICK m \in S : \A x \in S : x = m \/ Precedes(rows, x, m)
      BY <2>1, <2>3 DEF Tops
    <2> DEFINE U == S \ {m}
    <2>5. Cardinality(U) = c - 1 /\ c \in Nat /\ c - 1 \in Nat
      <3>1. IsFiniteSet(U) /\ Cardinality(U) = Cardinality(S) - 1
        BY <1>1, FS_RemoveElement
      <3>2. Cardinality(U) \in Nat
        BY <3>1, FS_CardinalityType
      <3> QED  BY <1>2, <1>3, <1>4, <3>1, <3>2
    <2>6. Sortable(U)
      <3>1. c - 1 \notin Bad
        BY <1>3, <2>5
      <3> QED  BY <2>5, <3>1 DEF Bad
    <2>7. PICK s \in [1 .. c - 1 -> U] : IsOrdered(rows, U, s)
      BY <2>5, <2>6
    <2> DEFINE t == [n \in 1 .. c |-> IF n = c THEN m ELSE s[n]]
    <2>8. t \in [1 .. c -> S]
      BY <2>5
    <2>9. IsOrdered(rows, S, t)
      <3> SUFFICES ASSUME NEW a \in 1 .. c, NEW b \in 1 .. c, a < b
                   PROVE  Precedes(rows, t[a], t[b])
        BY <1>4 DEF IsOrdered
      <3>1. a \in 1 .. c - 1 /\ t[a] = s[a] /\ s[a] \in U
        BY <2>5
      <3>2. CASE b = c
        BY <2>4, <3>1, <3>2
      <3>3. CASE b # c
        <4>1. b \in 1 .. c - 1 /\ t[b] = s[b]
          BY <2>5, <3>3
        <4> QED  BY <2>5, <2>7, <3>1, <4>1 DEF IsOrdered
      <3> QED  BY <3>2, <3>3
    <2> HIDE DEF t
    <2> QED  BY <1>4, <2>8, <2>9
  <1> QED  BY <1>5, <1>6

LEMMA RowOrderType ==
    ASSUME NEW rows, Rows(rows), NEW ids \in SUBSET DOMAIN rows
    PROVE  RowOrder(rows, ids) \in Seq(ids)
  <1>1. Cardinality(ids) \in Nat
    BY FS_Subset, FS_CardinalityType DEF Rows
  <1>2. RowOrder(rows, ids) \in [1 .. Cardinality(ids) -> ids]
    BY RowsCanBeSorted DEF RowOrder, IsOrdered
  <1> QED  BY <1>1, <1>2

LEMMA ChildrenType ==
    ASSUME NEW rows, Rows(rows), NEW p
    PROVE  ChildrenOf(rows, p) \in Seq(DOMAIN rows)
  <1> DEFINE ids == {i \in DOMAIN rows : ParentWithin(rows, i) = p}
  <1>1. ChildrenOf(rows, p) \in Seq(ids)
    BY RowOrderType DEF ChildrenOf
  <1>2. ids \in SUBSET DOMAIN rows
    OBVIOUS
  <1> HIDE DEF ids
  <1> QED  BY <1>1, <1>2, SeqMonotonic

WalkFrom(rows) == [stack |-> ChildrenOf(rows, NoParent), out |-> <<>>]

WalkOf(f, rows, n) ==
    f = [t \in 0 .. n |-> IF t = 0 THEN WalkFrom(rows) ELSE WalkStep(rows, f[t - 1])]

LEMMA WalksExist ==
    ASSUME NEW rows, NEW N \in Nat
    PROVE  \E f : WalkOf(f, rows, N)
  <1> DEFINE P == {n \in 0 .. N : \E f : WalkOf(f, rows, n)}
  <1>1. 0 \in P
    <2>1. WalkOf([t \in 0 .. 0 |-> WalkFrom(rows)], rows, 0)
      BY DEF WalkOf
    <2> QED  BY <2>1
  <1>2. ASSUME NEW n \in 1 .. N, n - 1 \in P PROVE n \in P
    <2>1. PICK f : WalkOf(f, rows, n - 1)
      BY <1>2
    <2> DEFINE g == [t \in 0 .. n |-> IF t = n THEN WalkStep(rows, f[n - 1]) ELSE f[t]]
    <2>2. \A t \in 0 .. n - 1 : f[t] = IF t = 0 THEN WalkFrom(rows) ELSE WalkStep(rows, f[t - 1])
      BY <2>1 DEF WalkOf
    <2>3. \A t \in 0 .. n : g[t] = IF t = 0 THEN WalkFrom(rows) ELSE WalkStep(rows, g[t - 1])
      BY <2>2
    <2>4. g = [t \in 0 .. n |-> g[t]]
      OBVIOUS
    <2> HIDE DEF g
    <2>5. WalkOf(g, rows, n)
      BY <2>3, <2>4 DEF WalkOf
    <2> QED  BY <2>5
  <1> HIDE DEF P
  <1>3. P \subseteq 0 .. N
    BY DEF P
  <1>4. P = 0 .. N
    BY <1>1, <1>2, <1>3, UpTo
  <1> QED  BY <1>4 DEF P

LEMMA WalkStepType ==
    ASSUME NEW rows, Rows(rows), NEW was,
           was \in [stack : Seq(DOMAIN rows), out : Seq(DOMAIN rows)]
    PROVE  WalkStep(rows, was) \in [stack : Seq(DOMAIN rows), out : Seq(DOMAIN rows)]
  <1> DEFINE D == DOMAIN rows
             head == Head(was.stack)
             kids == ChildrenOf(rows, head)
  <1>1. kids \in Seq(D)
    BY ChildrenType
  <1>2. CASE was.stack = <<>>
    BY <1>2 DEF WalkStep
  <1>3. CASE was.stack # <<>>
    <2>1. head \in D /\ Tail(was.stack) \in Seq(D)
      BY <1>3, HeadTailProperties
    <2>2. Append(was.out, head) \in Seq(D)
      BY <2>1, AppendProperties
    <2>3. kids \o Tail(was.stack) \in Seq(D)
      BY <1>1, <2>1, ConcatProperties
    <2>4. \/ WalkStep(rows, was) = [was EXCEPT !.stack = Tail(was.stack)]
          \/ WalkStep(rows, was) = [stack |-> kids \o Tail(was.stack), out |-> Append(was.out, head)]
      BY <1>3 DEF WalkStep
    <2> HIDE DEF D, head, kids
    <2>5. CASE WalkStep(rows, was) = [was EXCEPT !.stack = Tail(was.stack)]
      BY <2>1, <2>5 DEF D
    <2>6. CASE WalkStep(rows, was) = [stack |-> kids \o Tail(was.stack), out |-> Append(was.out, head)]
      <3> DEFINE a == kids \o Tail(was.stack)
                 b == Append(was.out, head)
      <3>1. a \in Seq(D) /\ b \in Seq(D) /\ WalkStep(rows, was) = [stack |-> a, out |-> b]
        BY <2>2, <2>3, <2>6
      <3> HIDE DEF a, b
      <3> QED  BY <3>1 DEF D
    <2> QED  BY <2>4, <2>5, <2>6
  <1> QED  BY <1>2, <1>3

-----------------------------------------------------------------------------
(* What a capture loses: nothing.  The walk's rows, what it has put out and  *)
(* what is on its stack one after the other, are a sequence that grows in    *)
(* the middle: where a row is put out, its children come to stand behind it. *)

Distinct(s) == \A m, n \in 1 .. Len(s) : s[m] = s[n] => m = n

\* Distinct rows are no more than there are, and when they are as many they are all.
LEMMA DistinctRows ==
    ASSUME NEW D, IsFiniteSet(D), NEW s \in Seq(D), Distinct(s)
    PROVE  /\ Len(s) <= Cardinality(D)
           /\ Len(s) = Cardinality(D) <=> \A x \in D : \E n \in 1 .. Len(s) : s[n] = x
  <1>1. Len(s) \in Nat /\ s \in [1 .. Len(s) -> D]
    BY LenProperties
  <1>2. s \in Injection(1 .. Len(s), D)
    BY <1>1 DEF Distinct, Injection, IsInjective
  <1>3. Cardinality(1 .. Len(s)) = Len(s)
    BY <1>1, FS_Interval
  <1>4. /\ Cardinality(1 .. Len(s)) <= Cardinality(D)
        /\ Cardinality(1 .. Len(s)) = Cardinality(D) <=> s \in Surjection(1 .. Len(s), D)
    BY <1>2, FS_Injection
  <1>5. s \in Surjection(1 .. Len(s), D) <=> \A x \in D : \E n \in 1 .. Len(s) : s[n] = x
    BY <1>1 DEF Surjection
  <1> QED  BY <1>3, <1>4, <1>5

\* Sorted rows are all of them, each once.
LEMMA RowsInOrder ==
    ASSUME NEW rows, Rows(rows), NEW ids \in SUBSET DOMAIN rows
    PROVE  LET s == RowOrder(rows, ids)
           IN  /\ s \in Seq(ids) /\ Len(s) = Cardinality(ids)
               /\ Distinct(s)
               /\ \A x \in ids : \E n \in 1 .. Len(s) : s[n] = x
               /\ \A m, n \in 1 .. Len(s) : m < n => Precedes(rows, s[m], s[n])
  <1> DEFINE s == RowOrder(rows, ids)
             c == Cardinality(ids)
  <1>1. IsFiniteSet(ids) /\ c \in Nat
    BY FS_Subset, FS_CardinalityType DEF Rows
  <1>2. s \in [1 .. c -> ids] /\ IsOrdered(rows, ids, s)
    BY RowsCanBeSorted DEF RowOrder, IsOrdered
  <1>3. s \in Seq(ids)
    BY RowOrderType
  <1>4. Len(s) = c
    BY <1>1, <1>2, <1>3, LenProperties
  <1>5. \A m, n \in 1 .. Len(s) : m < n => Precedes(rows, s[m], s[n])
    BY <1>2, <1>4 DEF IsOrdered
  <1>6. \A x \in ids : ~Precedes(rows, x, x)
    BY DEF Precedes, Rows
  <1> HIDE DEF s, c
  <1>7. \A n \in 1 .. Len(s) : s[n] \in ids
    BY <1>2, <1>4
  <1>8. ASSUME NEW m \in 1 .. Len(s), NEW n \in 1 .. Len(s), s[m] = s[n] PROVE m = n
    <2>1. ~(m < n) /\ ~(n < m)
      BY <1>5, <1>6, <1>7, <1>8
    <2> QED  BY <1>1, <1>4, <2>1
  <1>9. Distinct(s)
    BY <1>8 DEF Distinct
  <1>10. \A x \in ids : \E n \in 1 .. Len(s) : s[n] = x
    BY <1>1, <1>3, <1>4, <1>9, DistinctRows DEF c
  <1> QED  BY <1>3, <1>4, <1>5, <1>9, <1>10 DEF s, c

\* The children of a row, or the roots.
LEMMA ChildrenInOrder ==
    ASSUME NEW rows, Rows(rows), NEW p
    PROVE  LET k == ChildrenOf(rows, p)
           IN  /\ k \in Seq(DOMAIN rows) /\ Len(k) \in Nat /\ Distinct(k)
               /\ \A n \in 1 .. Len(k) : k[n] \in DOMAIN rows /\ ParentWithin(rows, k[n]) = p
               /\ \A x \in DOMAIN rows :
                     ParentWithin(rows, x) = p => \E n \in 1 .. Len(k) : k[n] = x
               /\ \A m, n \in 1 .. Len(k) : m < n => Precedes(rows, k[m], k[n])
  <1> DEFINE ids == {i \in DOMAIN rows : ParentWithin(rows, i) = p}
             k == ChildrenOf(rows, p)
  <1>1. /\ k \in Seq(ids) /\ Distinct(k)
        /\ \A x \in ids : \E n \in 1 .. Len(k) : k[n] = x
        /\ \A m, n \in 1 .. Len(k) : m < n => Precedes(rows, k[m], k[n])
    <2>1. ids \in SUBSET DOMAIN rows /\ k = RowOrder(rows, ids)
      BY DEF ChildrenOf
    <2> HIDE DEF ids, k
    <2> QED  BY <2>1, RowsInOrder
  <1>2. k \in Seq(DOMAIN rows)
    BY ChildrenType
  <1> HIDE DEF k
  <1>3. Len(k) \in Nat /\ \A n \in 1 .. Len(k) : k[n] \in ids
    BY <1>1, LenProperties, ElementOfSeq
  <1> QED  BY <1>1, <1>2, <1>3 DEF k

\* The first o of these rows are out, the others wait.
Walked(rows, all, o) ==
    /\ all \in Seq(DOMAIN rows) /\ o \in 0 .. Len(all)
    /\ Distinct(all)
    /\ \A x \in DOMAIN rows :
          (\E n \in 1 .. Len(all) : all[n] = x) <=>
              \/ ParentWithin(rows, x) = NoParent
              \/ \E n \in 1 .. o : all[n] = ParentWithin(rows, x)
    /\ \A m, n \in 1 .. Len(all) :
          m < n /\ ParentWithin(rows, all[m]) = ParentWithin(rows, all[n])
              => Precedes(rows, all[m], all[n])
    /\ \A n \in 1 .. Len(all) :
          \/ ParentWithin(rows, all[n]) = NoParent
          \/ \E m \in 1 .. n - 1 : all[m] = ParentWithin(rows, all[n])

LEMMA WalkedFromRoots ==
    ASSUME NEW rows, Rows(rows)
    PROVE  Walked(rows, ChildrenOf(rows, NoParent), 0)
  <1> DEFINE k == ChildrenOf(rows, NoParent)
  <1>1. /\ k \in Seq(DOMAIN rows) /\ Len(k) \in Nat /\ Distinct(k)
        /\ \A n \in 1 .. Len(k) : k[n] \in DOMAIN rows /\ ParentWithin(rows, k[n]) = NoParent
        /\ \A x \in DOMAIN rows :
              ParentWithin(rows, x) = NoParent => \E n \in 1 .. Len(k) : k[n] = x
        /\ \A m, n \in 1 .. Len(k) : m < n => Precedes(rows, k[m], k[n])
    BY ChildrenInOrder
  <1> HIDE DEF k
  <1>2. 0 \in 0 .. Len(k)
    BY <1>1
  <1>3. \A x \in DOMAIN rows :
            (\E n \in 1 .. Len(k) : k[n] = x) <=>
                \/ ParentWithin(rows, x) = NoParent
                \/ \E n \in 1 .. 0 : k[n] = ParentWithin(rows, x)
    BY <1>1
  <1>4. \A n \in 1 .. Len(k) : ParentWithin(rows, k[n]) = NoParent
    BY <1>1
  <1>5. Walked(rows, k, 0)
    BY <1>1, <1>2, <1>3, <1>4, Zenon DEF Walked
  <1> QED  BY <1>5 DEF k

\* The row at a is put out, and its children k come to stand behind it.
PutOut(all, new, a, k) ==
    /\ Len(new) = Len(all) + Len(k)
    /\ \A n \in 1 .. a : new[n] = all[n]
    /\ \A n \in 1 .. Len(k) : new[a + n] = k[n]
    /\ \A n \in a + 1 .. Len(all) : new[n + Len(k)] = all[n]

LEMMA WalkedGrows ==
    ASSUME NEW rows, Rows(rows), NEW all, NEW o, Walked(rows, all, o), o < Len(all),
           NEW new \in Seq(DOMAIN rows),
           PutOut(all, new, o + 1, ChildrenOf(rows, all[o + 1]))
    PROVE  Walked(rows, new, o + 1)
  <1> DEFINE D == DOMAIN rows
             h == all[o + 1]
             a == o + 1
             k == ChildrenOf(rows, h)
             L == Len(all)
             c == Len(k)
             Old(n, m) == m \in 1 .. L /\ new[n] = all[m] /\ n = IF m <= a THEN m ELSE m + c
             Kid(n, m) == m \in 1 .. c /\ new[n] = k[m] /\ n = a + m
  <1>1. /\ k \in Seq(DOMAIN rows) /\ c \in Nat /\ Distinct(k)
        /\ \A n \in 1 .. c : k[n] \in D /\ ParentWithin(rows, k[n]) = h
        /\ \A x \in D : ParentWithin(rows, x) = h => \E n \in 1 .. c : k[n] = x
        /\ \A m, n \in 1 .. c : m < n => Precedes(rows, k[m], k[n])
    BY ChildrenInOrder
  <1>2. all \in Seq(D) /\ L \in Nat /\ o \in Nat /\ a \in 1 .. L
    BY LenProperties DEF Walked
  <1>3. \A n \in 1 .. L : all[n] \in D
    BY <1>2, ElementOfSeq
  <1>4. h \in D /\ h # NoParent
    BY <1>2, <1>3 DEF Rows
  <1> HIDE DEF k
  <1>5. c \in Nat /\ \A n \in 1 .. c : k[n] \in D /\ ParentWithin(rows, k[n]) = h
    BY <1>1
  <1>6. /\ Len(new) = L + c
        /\ \A n \in 1 .. a : new[n] = all[n]
        /\ \A n \in 1 .. c : new[a + n] = k[n]
        /\ \A n \in a + 1 .. L : new[n + c] = all[n]
    BY DEF PutOut, k
  <1> HIDE DEF h
  <1>7. \A n \in 1 .. L : ParentWithin(rows, all[n]) # h
    <2> SUFFICES ASSUME NEW n \in 1 .. L, ParentWithin(rows, all[n]) = h PROVE FALSE
      OBVIOUS
    <2>1. PICK m \in 1 .. o : all[m] = h
      BY <1>3, <1>4 DEF Walked
    <2>2. all[m] = all[o + 1] /\ m \in 1 .. L /\ o + 1 \in 1 .. L /\ m # o + 1
      BY <1>2, <2>1 DEF h
    <2> QED  BY <2>2 DEF Walked, Distinct
  <1>8. \A n \in 1 .. Len(new) : (\E m : Old(n, m)) \/ (\E m : Kid(n, m))
    <2> SUFFICES ASSUME NEW n \in 1 .. Len(new)
                 PROVE  (\E m : Old(n, m)) \/ (\E m : Kid(n, m))
      OBVIOUS
    <2>1. CASE n <= a
      <3>1. Old(n, n)
        BY <1>2, <1>6, <2>1
      <3> QED  BY <3>1
    <2>2. CASE a < n /\ n <= a + c
      <3>1. n - a \in 1 .. c /\ a + (n - a) = n
        BY <1>2, <1>5, <2>2
      <3>2. Kid(n, n - a)
        BY <1>6, <3>1
      <3> QED  BY <3>2
    <2>3. CASE a + c < n
      <3>1. n - c \in a + 1 .. L /\ (n - c) + c = n
        BY <1>2, <1>5, <1>6, <2>3
      <3>2. new[n] = all[n - c]
        BY <1>6, <3>1
      <3>3. Old(n, n - c)
        BY <1>2, <3>1, <3>2
      <3> QED  BY <3>3
    <2> QED  BY <1>2, <1>5, <2>1, <2>2, <2>3
  <1>9. \A m \in 1 .. L : (IF m <= a THEN m ELSE m + c) \in 1 .. Len(new)
                          /\ new[IF m <= a THEN m ELSE m + c] = all[m]
    BY <1>2, <1>5, <1>6
  <1>10. \A m \in 1 .. c : a + m \in 1 .. Len(new)
    BY <1>2, <1>5, <1>6
  <1>11. Distinct(all) /\ Distinct(k)
    BY <1>1 DEF Walked
  <1>12. Distinct(new)
    <2> SUFFICES ASSUME NEW m \in 1 .. Len(new), NEW n \in 1 .. Len(new), new[m] = new[n]
                 PROVE  m = n
      BY DEF Distinct
    <2>1. ASSUME NEW x, Old(m, x), NEW y, Old(n, y) PROVE m = n
      BY <1>11, <2>1 DEF Distinct
    <2>2. ASSUME NEW x, Kid(m, x), NEW y, Kid(n, y) PROVE m = n
      BY <1>11, <2>2 DEF Distinct
    <2>3. ASSUME NEW x, Old(m, x), NEW y, Kid(n, y) PROVE FALSE
      BY <1>5, <1>7, <2>3
    <2>4. ASSUME NEW x, Kid(m, x), NEW y, Old(n, y) PROVE FALSE
      BY <1>5, <1>7, <2>4
    <2> HIDE DEF Old, Kid
    <2> QED  BY <1>8, <2>1, <2>2, <2>3, <2>4
  <1>13. ASSUME NEW x \in D
         PROVE  (\E n \in 1 .. Len(new) : new[n] = x) <=>
                    \/ ParentWithin(rows, x) = NoParent
                    \/ \E n \in 1 .. o + 1 : new[n] = ParentWithin(rows, x)
    <2>1. (\E n \in 1 .. Len(new) : new[n] = x) <=>
              (\E n \in 1 .. L : all[n] = x) \/ (\E n \in 1 .. c : k[n] = x)
      <3>1. ASSUME NEW n \in 1 .. Len(new), new[n] = x
            PROVE  (\E m \in 1 .. L : all[m] = x) \/ (\E m \in 1 .. c : k[m] = x)
        BY <1>8, <3>1
      <3>2. ASSUME NEW n \in 1 .. L, all[n] = x PROVE \E m \in 1 .. Len(new) : new[m] = x
        BY <1>9, <3>2
      <3>3. ASSUME NEW n \in 1 .. c, k[n] = x PROVE \E m \in 1 .. Len(new) : new[m] = x
        BY <1>6, <1>10, <3>3
      <3> QED  BY <3>1, <3>2, <3>3
    <2>2. (\E n \in 1 .. c : k[n] = x) <=> ParentWithin(rows, x) = h
      BY <1>1, <1>5, <1>13
    <2>3. (\E n \in 1 .. L : all[n] = x) <=>
              \/ ParentWithin(rows, x) = NoParent
              \/ \E n \in 1 .. o : all[n] = ParentWithin(rows, x)
      BY <1>13 DEF Walked
    <2>4. (\E n \in 1 .. o + 1 : new[n] = ParentWithin(rows, x)) <=>
              \/ \E n \in 1 .. o : all[n] = ParentWithin(rows, x)
              \/ ParentWithin(rows, x) = h
      <3>1. \A n \in 1 .. o : n \in 1 .. o + 1 /\ new[n] = all[n]
        BY <1>2, <1>6
      <3>2. o + 1 \in 1 .. o + 1 /\ new[o + 1] = h
        BY <1>2, <1>6 DEF h
      <3>3. \A n \in 1 .. o + 1 : n \in 1 .. o \/ n = o + 1
        BY <1>2
      <3> QED  BY <3>1, <3>2, <3>3
    <2> QED  BY <2>1, <2>2, <2>3, <2>4
  <1>14. ASSUME NEW m \in 1 .. Len(new), NEW n \in 1 .. Len(new), m < n,
                ParentWithin(rows, new[m]) = ParentWithin(rows, new[n])
         PROVE  Precedes(rows, new[m], new[n])
    <2>1. ASSUME NEW x, Old(m, x), NEW y, Old(n, y) PROVE Precedes(rows, new[m], new[n])
      <3>1. x < y
        BY <1>2, <1>5, <1>14, <2>1
      <3> QED  BY <1>14, <2>1, <3>1 DEF Walked
    <2>2. ASSUME NEW x, Kid(m, x), NEW y, Kid(n, y) PROVE Precedes(rows, new[m], new[n])
      <3>1. x < y
        BY <1>2, <1>5, <1>14, <2>2
      <3> QED  BY <1>1, <2>2, <3>1
    <2>3. ASSUME NEW x, Old(m, x), NEW y, Kid(n, y) PROVE FALSE
      BY <1>5, <1>7, <1>14, <2>3
    <2>4. ASSUME NEW x, Kid(m, x), NEW y, Old(n, y) PROVE FALSE
      BY <1>5, <1>7, <1>14, <2>4
    <2> HIDE DEF Old, Kid
    <2> QED  BY <1>8, <2>1, <2>2, <2>3, <2>4
  <1>15. ASSUME NEW n \in 1 .. Len(new), ParentWithin(rows, new[n]) # NoParent
         PROVE  \E m \in 1 .. n - 1 : new[m] = ParentWithin(rows, new[n])
    <2>1. ASSUME NEW x, Old(n, x)
          PROVE  \E m \in 1 .. n - 1 : new[m] = ParentWithin(rows, new[n])
      <3>1. PICK y \in 1 .. x - 1 : all[y] = ParentWithin(rows, all[x])
        BY <1>15, <2>1 DEF Walked
      <3> DEFINE m == IF y <= a THEN y ELSE y + c
      <3>2. y \in 1 .. L
        BY <1>2, <2>1
      <3>3. m \in 1 .. n - 1 /\ new[m] = all[y]
        <4>1. new[m] = all[y] /\ y < x /\ x \in 1 .. L
          BY <1>2, <1>9, <2>1, <3>2
        <4>2. m \in 1 .. n - 1
          BY <1>2, <1>5, <2>1, <3>2, <4>1
        <4> QED  BY <4>1, <4>2
      <3> QED  BY <2>1, <3>1, <3>3
    <2>2. ASSUME NEW x, Kid(n, x)
          PROVE  \E m \in 1 .. n - 1 : new[m] = ParentWithin(rows, new[n])
      <3>1. a \in 1 .. n - 1 /\ new[a] = h
        BY <1>2, <1>6, <2>2 DEF h
      <3> QED  BY <1>5, <2>2, <3>1
    <2> HIDE DEF Old, Kid
    <2> QED  BY <1>8, <2>1, <2>2
  <1>16. o + 1 \in 0 .. Len(new)
    BY <1>2, <1>5, <1>6
  <1> QED  BY <1>12, <1>13, <1>14, <1>15, <1>16 DEF Walked

\* What the walk has put out and stacked after t steps.
WalkedSo(rows, was, t) ==
    /\ was \in [stack : Seq(DOMAIN rows), out : Seq(DOMAIN rows)]
    /\ Walked(rows, was.out \o was.stack, Len(was.out))
    /\ was.stack = <<>> \/ Len(was.out) = t

\* The sequences of a walk, before and after.
LEMMA PutOutInTheMiddle ==
    ASSUME NEW D, NEW out \in Seq(D), NEW stack \in Seq(D), NEW k \in Seq(D),
           NEW h \in D, NEW tail \in Seq(D), Len(stack) = Len(tail) + 1, stack[1] = h,
           \A i \in 1 .. Len(tail) : tail[i] = stack[i + 1]
    PROVE  LET new == Append(out, h) \o (k \o tail)
           IN  /\ new \in Seq(D) /\ Len(Append(out, h)) = Len(out) + 1
               /\ PutOut(out \o stack, new, Len(out) + 1, k)
  <1> DEFINE o == Len(out)
             c == Len(k)
             b == Append(out, h)
             s == k \o tail
             all == out \o stack
             new == b \o s
  <1>1. o \in Nat /\ c \in Nat /\ Len(tail) \in Nat /\ Len(stack) \in Nat
    BY LenProperties
  <1>2. /\ b \in Seq(D) /\ Len(b) = o + 1 /\ b[o + 1] = h
        /\ \A i \in 1 .. o : b[i] = out[i]
    BY AppendProperties
  <1>3. /\ s \in Seq(D) /\ Len(s) = c + Len(tail)
        /\ \A i \in 1 .. c + Len(tail) : s[i] = IF i <= c THEN k[i] ELSE tail[i - c]
    BY ConcatProperties
  <1>4. /\ Len(all) = o + Len(stack)
        /\ \A i \in 1 .. o + Len(stack) : all[i] = IF i <= o THEN out[i] ELSE stack[i - o]
    BY ConcatProperties
  <1> HIDE DEF b, s
  <1>5. /\ new \in Seq(D) /\ Len(new) = Len(b) + Len(s)
        /\ \A i \in 1 .. Len(b) + Len(s) : new[i] = IF i <= Len(b) THEN b[i] ELSE s[i - Len(b)]
    <2>1. b \in Seq(D) /\ s \in Seq(D)
      BY <1>2, <1>3
    <2> QED  BY <2>1, ConcatProperties
  <1> HIDE DEF new, all, o, c
  <1>6. ASSUME NEW i \in 1 .. Len(s) PROVE new[o + 1 + i] = s[i]
    <2> DEFINE n == o + 1 + i
    <2>1. n \in 1 .. Len(b) + Len(s) /\ ~(n <= Len(b)) /\ n - Len(b) = i
      BY <1>1, <1>2, <1>3
    <2> HIDE DEF n
    <2>2. new[n] = s[i]
      BY <1>5, <2>1
    <2> QED  BY <2>2 DEF n
  <1>7. Len(new) = Len(all) + c
    BY <1>1, <1>2, <1>3, <1>4, <1>5
  <1>8. ASSUME NEW i \in 1 .. o + 1 PROVE new[i] = all[i]
    <2>1. new[i] = b[i]
      BY <1>1, <1>2, <1>3, <1>5
    <2>2. all[i] = IF i <= o THEN out[i] ELSE stack[i - o]
      BY <1>1, <1>4
    <2>3. CASE i = o + 1
      BY <1>1, <1>2, <2>1, <2>2, <2>3
    <2>4. CASE i # o + 1
      BY <1>1, <1>2, <2>1, <2>2, <2>4
    <2> QED  BY <2>3, <2>4
  <1>9. ASSUME NEW i \in 1 .. c PROVE new[o + 1 + i] = k[i]
    <2>1. new[o + 1 + i] = s[i]
      BY <1>1, <1>2, <1>3, <1>6
    <2> QED  BY <1>1, <1>3, <2>1
  <1>10. ASSUME NEW i \in o + 1 + 1 .. Len(all) PROVE new[i + c] = all[i]
    <2> DEFINE j == i - (o + 1)
    <2>1. j \in 1 .. Len(tail) /\ i + c = o + 1 + (c + j) /\ i - o = j + 1
      BY <1>1, <1>4
    <2> HIDE DEF j
    <2>2. new[o + 1 + (c + j)] = s[c + j]
      BY <1>1, <1>3, <1>6, <2>1
    <2>3. s[c + j] = tail[j]
      <3>1. c + j \in 1 .. c + Len(tail) /\ ~(c + j <= c) /\ (c + j) - c = j
        BY <1>1, <2>1
      <3> QED  BY <1>3, <3>1
    <2>4. all[i] = stack[j + 1]
      BY <1>1, <1>4, <2>1
    <2> QED  BY <2>1, <2>2, <2>3, <2>4
  <1> QED  BY <1>2, <1>5, <1>7, <1>8, <1>9, <1>10 DEF PutOut, new, all, o, c, b, s

LEMMA WalkStepPutsOut ==
    ASSUME NEW rows, Rows(rows), NEW was, NEW t \in Nat, WalkedSo(rows, was, t)
    PROVE  WalkedSo(rows, WalkStep(rows, was), t + 1)
  <1> DEFINE D == DOMAIN rows
             out == was.out
             stack == was.stack
             next == WalkStep(rows, was)
             all == out \o stack
             o == Len(out)
  <1>1. out \in Seq(D) /\ stack \in Seq(D) /\ o \in Nat /\ Walked(rows, all, o)
    BY LenProperties DEF WalkedSo
  <1>2. next \in [stack : Seq(D), out : Seq(D)]
    BY WalkStepType DEF WalkedSo
  <1>3. CASE stack = <<>>
    BY <1>3 DEF WalkedSo, WalkStep
  <1>4. CASE stack # <<>>
    <2> HIDE DEF out, stack
    <2> DEFINE h == Head(stack)
               tail == Tail(stack)
               k == ChildrenOf(rows, h)
    <2>1. /\ h \in D /\ tail \in Seq(D) /\ Len(stack) \in Nat \ {0} /\ h = stack[1]
          /\ Len(tail) = Len(stack) - 1 /\ \A i \in 1 .. Len(tail) : tail[i] = stack[i + 1]
      <3>1. Len(stack) \in Nat /\ Len(stack) # 0
        BY <1>1, <1>4, LenProperties, EmptySeq
      <3>2. h \in D /\ tail \in Seq(D) /\ Len(tail) = Len(stack) - 1
            /\ \A i \in 1 .. Len(tail) : tail[i] = stack[i + 1]
        BY <1>1, <1>4, HeadTailProperties
      <3>3. h = stack[1]
        BY <1>1, <1>4
      <3> QED  BY <3>1, <3>2, <3>3
    <2>2. /\ Len(all) = o + Len(stack)
          /\ \A i \in 1 .. o + Len(stack) : all[i] = IF i <= o THEN out[i] ELSE stack[i - o]
      BY <1>1, ConcatProperties
    <2>3. o + 1 \in 1 .. Len(all) /\ all[o + 1] = h /\ o < Len(all)
      BY <1>1, <2>1, <2>2
    <2>4. ~Contains(out, h)
      <3> SUFFICES ASSUME NEW i \in 1 .. o, out[i] = h PROVE FALSE
        BY DEF Contains
      <3>1. all[i] = all[o + 1] /\ i \in 1 .. Len(all) /\ i # o + 1
        BY <1>1, <2>1, <2>2, <2>3
      <3> HIDE DEF all
      <3> QED  BY <1>1, <2>3, <3>1 DEF Walked, Distinct
    <2>5. next = [stack |-> k \o tail, out |-> Append(out, h)]
      BY <1>4, <2>4 DEF WalkStep, out, stack
    <2>6. k \in Seq(D) /\ Len(k) \in Nat
      BY ChildrenInOrder
    <2> HIDE DEF k, h, tail, next
    <2> DEFINE new == Append(out, h) \o (k \o tail)
    <2>7. new \in Seq(D) /\ Len(Append(out, h)) = o + 1 /\ PutOut(all, new, o + 1, k)
      BY <1>1, <2>1, <2>6, PutOutInTheMiddle
    <2>8. next.out = Append(out, h) /\ next.out \o next.stack = new
      BY <2>5
    <2> HIDE DEF new, all, o
    <2>9. Walked(rows, new, o + 1)
      BY <1>1, <2>3, <2>7, WalkedGrows DEF k
    <2>10. o = t
      BY <1>4 DEF WalkedSo, o, out, stack
    <2> QED  BY <1>2, <2>7, <2>8, <2>9, <2>10 DEF WalkedSo, next
  <1> QED  BY <1>3, <1>4
\* The walk ends with nothing on its stack.
LEMMA WalkEnds ==
    ASSUME NEW rows, Rows(rows)
    PROVE  Walked(rows, Walk(rows), Len(Walk(rows)))
  <1> DEFINE D == DOMAIN rows
             N == Cardinality(D)
             f == CHOOSE g : WalkOf(g, rows, N)
  <1>1. N \in Nat
    BY FS_CardinalityType DEF Rows
  <1>2. Walk(rows) = f[N].out
    BY Zenon DEF Walk, WalkOf, WalkFrom
  <1>3. WalkOf(f, rows, N)
    BY <1>1, WalksExist
  <1> HIDE DEF N, f
  <1>4. \A t \in 0 .. N : f[t] = IF t = 0 THEN WalkFrom(rows) ELSE WalkStep(rows, f[t - 1])
    BY <1>3 DEF WalkOf
  <1> DEFINE P == {t \in 0 .. N : WalkedSo(rows, f[t], t)}
  <1>5. 0 \in P
    <2> DEFINE k == ChildrenOf(rows, NoParent)
    <2>1. k \in Seq(D) /\ Walked(rows, k, 0)
      BY ChildrenInOrder, WalkedFromRoots
    <2> HIDE DEF k
    <2>2. <<>> \o k = k /\ <<>> \in Seq(D) /\ Len(<<>>) = 0
      BY <2>1, ConcatEmptySeq, EmptySeq
    <2>3. WalkedSo(rows, WalkFrom(rows), 0)
      BY <2>1, <2>2 DEF WalkedSo, WalkFrom, k
    <2> QED  BY <1>1, <1>4, <2>3
  <1>6. ASSUME NEW t \in 1 .. N, t - 1 \in P PROVE t \in P
    <2>1. WalkedSo(rows, f[t - 1], t - 1) /\ t - 1 \in Nat /\ (t - 1) + 1 = t
      BY <1>1, <1>6
    <2>2. WalkedSo(rows, WalkStep(rows, f[t - 1]), (t - 1) + 1)
      BY <2>1, WalkStepPutsOut
    <2>3. f[t] = WalkStep(rows, f[t - 1]) /\ t \in 0 .. N
      BY <1>1, <1>4
    <2> QED  BY <2>1, <2>2, <2>3
  <1>7. P \subseteq 0 .. N
    OBVIOUS
  <1> HIDE DEF P
  <1>8. P = 0 .. N
    BY <1>1, <1>5, <1>6, <1>7, UpTo
  <1>9. WalkedSo(rows, f[N], N)
    BY <1>1, <1>8 DEF P
  <1> DEFINE out == f[N].out
             stack == f[N].stack
  <1>10. /\ out \in Seq(D) /\ stack \in Seq(D)
         /\ Walked(rows, out \o stack, Len(out))
         /\ stack = <<>> \/ Len(out) = N
    BY <1>9 DEF WalkedSo
  <1> HIDE DEF out, stack
  <1>11. stack = <<>>
    <2> SUFFICES ASSUME Len(out) = N PROVE Len(stack) = 0
      BY <1>10, EmptySeq
    <2> DEFINE all == out \o stack
    <2>1. all \in Seq(D) /\ Len(all) = Len(out) + Len(stack)
      BY <1>10, ConcatProperties
    <2>2. Distinct(all)
      BY <1>10 DEF Walked
    <2> HIDE DEF all
    <2>3. Len(all) <= N
      BY <2>1, <2>2, DistinctRows DEF N, Rows
    <2>4. Len(stack) \in Nat
      BY <1>10, LenProperties
    <2> QED  BY <1>1, <2>1, <2>3, <2>4
  <1>12. out \o stack = out
    BY <1>10, <1>11, ConcatEmptySeq
  <1> QED  BY <1>2, <1>10, <1>12 DEF out

\* What the walk does not reach is not below a root.
LEMMA WalkReaches ==
    ASSUME NEW rows, Rows(rows)
    PROVE  /\ Walk(rows) \in Seq(DOMAIN rows) /\ Distinct(Walk(rows))
           /\ \A x \in DOMAIN rows :
                 ParentWithin(rows, x) \in ToSet(Walk(rows)) \cup {NoParent} => x \in ToSet(Walk(rows))
           /\ \A x \in ToSet(Walk(rows)) : \E n \in 1 .. Len(Walk(rows)) : Walk(rows)[n] = x
  <1> DEFINE w == Walk(rows)
  <1>1. Walked(rows, w, Len(w))
    BY WalkEnds
  <1>2. w \in Seq(DOMAIN rows) /\ Distinct(w)
    BY <1>1 DEF Walked
  <1>3. DOMAIN w = 1 .. Len(w)
    BY <1>2, LenProperties
  <1> HIDE DEF w
  <1>4. \A x : x \in ToSet(w) <=> \E n \in 1 .. Len(w) : w[n] = x
    BY <1>3 DEF ToSet
  <1>5. ASSUME NEW x \in DOMAIN rows, ParentWithin(rows, x) \in ToSet(w) \cup {NoParent}
        PROVE  x \in ToSet(w)
    BY <1>1, <1>4, <1>5 DEF Walked
  <1> QED  BY <1>2, <1>4, <1>5 DEF w

\* No row is lost or doubled.
LEMMA NoRowIsLost ==
    ASSUME NEW rows, Rows(rows)
    PROVE  LET s == InTreeOrder(rows)
           IN  /\ s \in Seq(DOMAIN rows) /\ Distinct(s)
               /\ Len(s) = Cardinality(DOMAIN rows) /\ Len(s) \in Nat
               /\ \A x \in DOMAIN rows : \E n \in 1 .. Len(s) : s[n] = x
               /\ ToSet(s) = DOMAIN rows
  <1> DEFINE D == DOMAIN rows
             w == Walk(rows)
             left == D \ ToSet(w)
             r == RowOrder(rows, left)
             s == w \o r
  <1>1. /\ w \in Seq(D) /\ Distinct(w) /\ Len(w) \in Nat
        /\ \A x \in ToSet(w) : \E n \in 1 .. Len(w) : w[n] = x
    BY WalkReaches, LenProperties
  <1>2. \A n \in 1 .. Len(w) : w[n] \in ToSet(w)
    <2>1. DOMAIN w = 1 .. Len(w)
      BY <1>1, LenProperties
    <2> QED  BY <2>1 DEF ToSet
  <1>3. /\ r \in Seq(left) /\ Distinct(r) /\ Len(r) \in Nat
        /\ \A x \in left : \E n \in 1 .. Len(r) : r[n] = x
    <2>1. left \in SUBSET D
      OBVIOUS
    <2> HIDE DEF left
    <2>2. r \in Seq(left) /\ Distinct(r) /\ \A x \in left : \E n \in 1 .. Len(r) : r[n] = x
      BY <2>1, RowsInOrder
    <2> QED  BY <2>2, LenProperties
  <1>4. r \in Seq(D)
    BY <1>3, SeqMonotonic
  <1> HIDE DEF w, r
  <1>5. \A n \in 1 .. Len(r) : r[n] \in D /\ r[n] \notin ToSet(w)
    <2>1. \A n \in 1 .. Len(r) : r[n] \in left
      BY <1>3, ElementOfSeq
    <2> QED  BY <2>1
  <1>6. /\ s \in Seq(D) /\ Len(s) = Len(w) + Len(r)
        /\ \A n \in 1 .. Len(w) + Len(r) : s[n] = IF n <= Len(w) THEN w[n] ELSE r[n - Len(w)]
    BY <1>1, <1>4, ConcatProperties
  <1> HIDE DEF s
  <1>7. /\ \A n \in 1 .. Len(w) : n \in 1 .. Len(s) /\ s[n] = w[n]
        /\ \A n \in 1 .. Len(r) : Len(w) + n \in 1 .. Len(s) /\ s[Len(w) + n] = r[n]
    <2>1. ASSUME NEW n \in 1 .. Len(r)
          PROVE  Len(w) + n \in 1 .. Len(s) /\ s[Len(w) + n] = r[n]
      <3> DEFINE m == Len(w) + n
      <3>1. m \in 1 .. Len(w) + Len(r) /\ ~(m <= Len(w)) /\ m - Len(w) = n
        BY <1>1, <1>3
      <3> HIDE DEF m
      <3>2. m \in 1 .. Len(s) /\ s[m] = r[n]
        BY <1>6, <3>1
      <3> QED  BY <3>2 DEF m
    <2> QED  BY <1>1, <1>3, <1>6, <2>1
  <1>8. \A x \in D : \E n \in 1 .. Len(s) : s[n] = x
    <2> SUFFICES ASSUME NEW x \in D PROVE \E n \in 1 .. Len(s) : s[n] = x
      OBVIOUS
    <2>1. CASE x \in ToSet(w)
      <3>1. PICK n \in 1 .. Len(w) : w[n] = x
        BY <1>1, <2>1
      <3> QED  BY <1>7, <3>1
    <2>2. CASE x \notin ToSet(w)
      <3>1. PICK n \in 1 .. Len(r) : r[n] = x
        BY <1>3, <2>2
      <3> QED  BY <1>7, <3>1
    <2> QED  BY <2>1, <2>2
  <1>9. Distinct(s)
    <2> SUFFICES ASSUME NEW m \in 1 .. Len(s), NEW n \in 1 .. Len(s), s[m] = s[n] PROVE m = n
      BY DEF Distinct
    <2>1. CASE m <= Len(w) /\ n <= Len(w)
      <3>1. m \in 1 .. Len(w) /\ n \in 1 .. Len(w) /\ w[m] = w[n]
        BY <1>1, <1>3, <1>6, <2>1
      <3> QED  BY <1>1, <3>1 DEF Distinct
    <2> DEFINE i == m - Len(w)
               j == n - Len(w)
    <2>2. CASE m > Len(w) /\ n > Len(w)
      <3>1. i \in 1 .. Len(r) /\ j \in 1 .. Len(r) /\ r[i] = r[j]
        BY <1>1, <1>3, <1>6, <2>2
      <3> HIDE DEF i, j
      <3>2. i = j
        BY <1>3, <3>1 DEF Distinct
      <3> QED  BY <1>1, <1>6, <3>2 DEF i, j
    <2>3. CASE m <= Len(w) /\ n > Len(w)
      <3>1. m \in 1 .. Len(w) /\ j \in 1 .. Len(r) /\ s[m] = w[m] /\ s[n] = r[j]
        BY <1>1, <1>3, <1>6, <2>3
      <3> HIDE DEF i, j
      <3> QED  BY <1>2, <1>5, <3>1
    <2>4. CASE m > Len(w) /\ n <= Len(w)
      <3>1. n \in 1 .. Len(w) /\ i \in 1 .. Len(r) /\ s[n] = w[n] /\ s[m] = r[i]
        BY <1>1, <1>3, <1>6, <2>4
      <3> HIDE DEF i, j
      <3> QED  BY <1>2, <1>5, <3>1
    <2> QED  BY <1>1, <1>3, <1>6, <2>1, <2>2, <2>3, <2>4
  <1>10. Len(s) = Cardinality(D) /\ Len(s) \in Nat
    <2>1. IsFiniteSet(D)
      BY DEF Rows
    <2>2. Len(s) = Cardinality(D)
      BY <1>6, <1>8, <1>9, <2>1, DistinctRows
    <2> QED  BY <2>1, <2>2, FS_CardinalityType
  <1>11. ToSet(s) = D
    <2>1. DOMAIN s = 1 .. Len(s) /\ \A n \in 1 .. Len(s) : s[n] \in D
      BY <1>6, LenProperties, ElementOfSeq
    <2> QED  BY <1>8, <2>1 DEF ToSet
  <1>12. InTreeOrder(rows) = s
    BY DEF InTreeOrder, s, r, w
  <1> QED  BY <1>6, <1>8, <1>9, <1>10, <1>11, <1>12

\* What is found in a sequence.
LEMMA PositionFound ==
    ASSUME NEW S, NEW s \in Seq(S), NEW i
    PROVE  LET n == SelectInSeq(s, LAMBDA x : x = i)
           IN  /\ n = 0 \/ (n \in 1 .. Len(s) /\ s[n] = i)
               /\ n = 0 => \A k \in 1 .. Len(s) : s[k] # i
  <1> DEFINE I == {n \in 1 .. Len(s) : s[n] = i}
             n == SelectInSeq(s, LAMBDA x : x = i)
  <1>1. n = IF I # {} THEN Min(I) ELSE 0
    BY Zenon DEF SelectInSeq
  <1> HIDE DEF n
  <1>2. CASE I # {}
    <2>1. I \subseteq Nat
      OBVIOUS
    <2> HIDE DEF I
    <2>2. \E m \in I : \A x \in I : m <= x
      BY <1>2, <2>1, LeastNumber
    <2>3. Min(I) \in I
      BY <2>2, Zenon DEF Min
    <2> QED  BY <1>1, <1>2, <2>3 DEF I, n
  <1>3. CASE I = {}
    BY <1>1, <1>3 DEF n
  <1> QED  BY <1>2, <1>3

\* Rows that can be ranked are all reached by the walk.
LEMMA RankedRowsAreReached ==
    ASSUME NEW rows, Rows(rows), Acyclic(rows)
    PROVE  InTreeOrder(rows) = Walk(rows)
  <1> DEFINE D == DOMAIN rows
             w == Walk(rows)
             left == D \ ToSet(w)
             r == RowOrder(rows, left)
  <1>1. PICK rank \in [D -> 1 .. Cardinality(D)] :
            \A i \in D : ParentWithin(rows, i) # NoParent => rank[rows[i].parent] < rank[i]
    BY DEF Acyclic
  <1>2. /\ w \in Seq(D)
        /\ \A x \in D : ParentWithin(rows, x) \in ToSet(w) \cup {NoParent} => x \in ToSet(w)
    BY WalkReaches
  <1> HIDE DEF w
  <1>3. left = {}
    <2> SUFFICES ASSUME left # {} PROVE FALSE
      OBVIOUS
    <2> DEFINE ranks == {rank[x] : x \in left}
    <2>1. ranks # {} /\ ranks \subseteq Nat
      BY <1>1
    <2>2. PICK c \in ranks : \A n \in ranks : c <= n
      BY <2>1, LeastNumber
    <2>3. PICK x \in left : rank[x] = c
      BY <2>2
    <2> DEFINE p == ParentWithin(rows, x)
    <2>4. p # NoParent /\ p \notin ToSet(w)
      BY <1>2, <2>3
    <2>5. p \in D /\ p = rows[x].parent
      BY <2>4 DEF ParentWithin
    <2> HIDE DEF p
    <2>6. p \in left /\ rank[p] < rank[x]
      BY <1>1, <2>3, <2>4, <2>5 DEF p
    <2>7. rank[p] \in Nat /\ rank[x] \in Nat /\ c <= rank[p]
      BY <1>1, <2>2, <2>3, <2>6
    <2> QED  BY <2>3, <2>6, <2>7
  <1>4. r = <<>>
    <2>1. Cardinality(left) = 0 /\ left \in SUBSET D
      BY <1>3, FS_EmptySet
    <2>2. r \in Seq(left) /\ Len(r) = Cardinality(left)
      <3> HIDE DEF left
      <3> QED  BY <2>1, RowsInOrder
    <2> QED  BY <2>1, <2>2, EmptySeq
  <1> HIDE DEF left, r
  <1>5. w \o r = w
    BY <1>2, <1>4, ConcatEmptySeq
  <1>6. InTreeOrder(rows) = w \o r
    BY DEF InTreeOrder, w, r, left
  <1> QED  BY <1>5, <1>6 DEF w

LEMMA CapturesLoseNothing ==
    ASSUME NEW rows, Rows(rows)
    PROVE  CaptureIsFaithful(rows)
  <1> DEFINE D == DOMAIN rows
             s == InTreeOrder(rows)
             items == Capture(rows)
             L == Len(s)
             Position(i) == SelectInSeq(s, LAMBDA x : x = i)
  <1>1. /\ s \in Seq(D) /\ Distinct(s) /\ L = Cardinality(D) /\ L \in Nat
        /\ \A x \in D : \E n \in 1 .. L : s[n] = x
        /\ ToSet(s) = D
    BY NoRowIsLost
  <1>2. \A i : Position(i) = 0 \/ (Position(i) \in 1 .. L /\ s[Position(i)] = i)
    BY <1>1, PositionFound
  <1>3. \A i : Position(i) = 0 => \A k \in 1 .. L : s[k] # i
    BY <1>1, PositionFound
  <1>4. items = [k \in 1 .. L |->
            [local |-> k, parent |-> Position(rows[s[k]].parent),
             kind |-> rows[s[k]].kind, order |-> k - 1]]
    BY Zenon DEF Capture
  <1> HIDE DEF s, items
  <1>5. \A k \in 1 .. L : s[k] \in D
    BY <1>1, ElementOfSeq
  <1>6. ASSUME NEW k \in 1 .. L PROVE Position(s[k]) = k
    <2>1. Position(s[k]) # 0
      BY <1>3
    <2>2. Position(s[k]) \in 1 .. L /\ s[Position(s[k])] = s[k]
      BY <1>2, <2>1
    <2> HIDE DEF Position
    <2> QED  BY <1>1, <2>2 DEF Distinct
  <1> HIDE DEF Position
  <1>7. Len(items) = L /\ \A k \in 1 .. L : items[k].local = k
                                          /\ items[k].parent = Position(rows[s[k]].parent)
    BY <1>1, <1>4
  <1> DEFINE Behind(k) == Position(rows[s[k]].parent) # 0 => Position(rows[s[k]].parent) < k
  <1> HIDE DEF L
  <1>8. ParentsFirst(items) <=> \A k \in 1 .. L : Behind(k)
    <2> DEFINE Seen(k) == {items[n].local : n \in 1 .. (k - 1)}
               Fits(k) == /\ items[k].local \notin Seen(k)
                          /\ items[k].parent # 0 => items[k].parent \in Seen(k)
    <2>1. ASSUME NEW k \in 1 .. L PROVE Seen(k) = 1 .. (k - 1)
      <3>1. \A n \in 1 .. (k - 1) : items[n].local = n
        BY <1>1, <1>7
      <3> QED  BY <3>1
    <2>2. ASSUME NEW k \in 1 .. L PROVE Fits(k) <=> Behind(k)
      <3>1. Position(rows[s[k]].parent) \in 0 .. L
        BY <1>1, <1>2
      <3>2. Seen(k) = 1 .. (k - 1)
        BY <2>1
      <3> HIDE DEF Seen
      <3> QED  BY <1>1, <1>7, <3>1, <3>2
    <2>3. ParentsFirst(items) <=> \A k \in 1 .. L : Fits(k)
      BY <1>7, Zenon DEF ParentsFirst
    <2> HIDE DEF Behind, Fits
    <2> QED  BY <2>2, <2>3
  <1>9. ASSUME NEW x \in D, ParentWithin(rows, x) # NoParent
        PROVE  /\ rows[x].parent \in D /\ rows[x].parent = ParentWithin(rows, x)
               /\ \E m \in 1 .. L : Position(rows[x].parent) = m /\ s[m] = rows[x].parent
    <2>1. rows[x].parent \in D /\ rows[x].parent = ParentWithin(rows, x)
      BY <1>9 DEF ParentWithin
    <2>2. PICK m \in 1 .. L : s[m] = rows[x].parent
      BY <1>1, <2>1
    <2>3. Position(s[m]) = m
      BY <1>6
    <2> QED  BY <2>1, <2>2, <2>3
  <1>10. ASSUME ParentsFirst(items) PROVE Acyclic(rows)
    <2> DEFINE rank == [x \in D |-> Position(x)]
    <2>1. \A x \in D : Position(x) \in 1 .. L
      BY <1>1, <1>6
    <2>2. rank \in [D -> 1 .. Cardinality(D)]
      BY <1>1, <2>1
    <2>3. ASSUME NEW x \in D, ParentWithin(rows, x) # NoParent
          PROVE  rank[rows[x].parent] < rank[x]
      <3>1. PICK k \in 1 .. L : s[k] = x
        BY <1>1
      <3>2. /\ rows[x].parent \in D /\ Position(rows[x].parent) \in 1 .. L
        BY <1>9, <2>3
      <3>3. Behind(k) /\ Position(x) = k
        BY <1>6, <1>8, <1>10, <3>1
      <3> QED  BY <3>1, <3>2, <3>3
    <2> HIDE DEF rank
    <2> QED  BY <2>2, <2>3 DEF Acyclic
  <1>11. ASSUME Acyclic(rows)
         PROVE  Walked(rows, s, L)
    BY <1>11, RankedRowsAreReached, WalkEnds DEF s, L
  <1>12. ASSUME Acyclic(rows) PROVE ParentsFirst(items)
    <2> SUFFICES ASSUME NEW k \in 1 .. L, Position(rows[s[k]].parent) # 0
                 PROVE  Position(rows[s[k]].parent) < k
      BY <1>8
    <2>1. Position(rows[s[k]].parent) \in 1 .. L /\ s[Position(rows[s[k]].parent)] = rows[s[k]].parent
      BY <1>2
    <2>2. rows[s[k]].parent \in D /\ ParentWithin(rows, s[k]) = rows[s[k]].parent
      BY <1>5, <2>1 DEF ParentWithin
    <2>3. ParentWithin(rows, s[k]) # NoParent
      BY <2>2 DEF Rows
    <2>4. PICK m \in 1 .. k - 1 : s[m] = ParentWithin(rows, s[k])
      BY <1>11, <1>12, <2>3 DEF Walked, L
    <2>5. Position(s[m]) = m
      BY <1>1, <1>6
    <2> QED  BY <1>1, <2>2, <2>4, <2>5
  <1>13. ASSUME Acyclic(rows), NEW m \in 1 .. L, NEW n \in 1 .. L,
                ParentWithin(rows, s[m]) = ParentWithin(rows, s[n]),
                rows[s[m]].order < rows[s[n]].order
         PROVE  m < n
    <2>1. rows[s[m]].order \in Int /\ rows[s[n]].order \in Int
      BY <1>5 DEF Rows
    <2>2. m # n
      BY <1>13, <2>1
    <2>3. n < m => Precedes(rows, s[n], s[m])
      BY <1>11, <1>13 DEF Walked, L
    <2> QED  BY <1>1, <1>13, <2>1, <2>2, <2>3 DEF Precedes
  <1>14. Len(s) = Cardinality(D) /\ ToSet(s) = D
    BY <1>1 DEF L
  <1>15. ValidItems(items) <=> Acyclic(rows) /\ Cardinality(D) <= MaxTemplateItems
    <2>1. Len(items) = Cardinality(D)
      BY <1>1, <1>7
    <2> QED  BY <1>10, <1>12, <2>1, Zenon DEF ValidItems
  <1> QED  BY <1>13, <1>14, <1>15, Zenon DEF CaptureIsFaithful, s, items, L

\* The items of a capture and the rows they come from.
LEMMA CaptureOfRows ==
    ASSUME NEW rows, Rows(rows), \A i \in DOMAIN rows : rows[i].kind \in ItemType
    PROVE  LET ordered == InTreeOrder(rows)
               items == Capture(rows)
           IN  /\ ordered \in Seq(DOMAIN rows)
               /\ items \in Seq(TemplateItem) /\ Len(items) = Len(ordered)
               /\ \A k \in 1 .. Len(items) :
                     /\ items[k].kind = rows[ordered[k]].kind
                     /\ items[k].parent \in 0 .. Len(items)
                     /\ items[k].parent # 0 =>
                           ordered[items[k].parent] = rows[ordered[k]].parent
  <1> DEFINE ordered == InTreeOrder(rows)
             items == Capture(rows)
             Position(i) == SelectInSeq(ordered, LAMBDA x : x = i)
             L == Len(ordered)
  <1>1. ordered \in Seq(DOMAIN rows) /\ L \in Nat
    <2>1. ordered \in Seq(DOMAIN rows)
      BY NoRowIsLost
    <2> HIDE DEF ordered
    <2> QED  BY <2>1, LenProperties
  <1>2. \A i : Position(i) = 0 \/ (Position(i) \in 1 .. L /\ ordered[Position(i)] = i)
    BY <1>1, PositionFound
  <1>3. items = [k \in 1 .. L |->
            [local |-> k, parent |-> Position(rows[ordered[k]].parent),
             kind |-> rows[ordered[k]].kind, order |-> k - 1]]
    BY Zenon DEF Capture
  <1> HIDE DEF ordered, items, Position
  <1>4. \A k \in 1 .. L : ordered[k] \in DOMAIN rows
    BY <1>1, ElementOfSeq
  <1> HIDE DEF L
  <1>5. \A i : Position(i) \in 0 .. L
    BY <1>1, <1>2
  <1>6. items \in Seq(TemplateItem) /\ Len(items) = L
    <2>1. ASSUME NEW k \in 1 .. L PROVE items[k] \in TemplateItem
      <3> DEFINE n == Position(rows[ordered[k]].parent)
                 kind == rows[ordered[k]].kind
      <3>1. items[k] = [local |-> k, parent |-> n, kind |-> kind, order |-> k - 1]
        BY <1>3
      <3>2. n \in Nat /\ kind \in ItemType /\ k \in Nat /\ k - 1 \in Nat
        BY <1>1, <1>4, <1>5
      <3> HIDE DEF n, kind
      <3> QED  BY <3>1, <3>2 DEF TemplateItem
    <2>2. items = [k \in 1 .. L |-> items[k]]
      BY <1>3
    <2>3. items \in Seq(TemplateItem)
      BY <1>1, <2>1, <2>2, IsASeq
    <2> QED  BY <1>1, <2>2, <2>3, LenProperties
  <1>7. ASSUME NEW k \in 1 .. L
        PROVE  /\ items[k].kind = rows[ordered[k]].kind
               /\ items[k].parent \in 0 .. L
               /\ items[k].parent # 0 => ordered[items[k].parent] = rows[ordered[k]].parent
    <2>1. /\ items[k].kind = rows[ordered[k]].kind
          /\ items[k].parent = Position(rows[ordered[k]].parent)
      BY <1>3
    <2> QED  BY <1>2, <1>5, <2>1
  <1> QED  BY <1>1, <1>6, <1>7 DEF L, ordered, items

-----------------------------------------------------------------------------
(* The programmes of the jobs: the inductive invariant. *)

PlanLine == [kind : ItemType, parent : Items \cup {NoParent}, local : {0, 1}, order : Int \cup {NoOrder}]

PlanInput == [kind : ItemType \cup {""}, parent : Items \cup {NoParent, NoItem}, order : Int]

PlannerState == [pc : {"idle", "find", "check", "write", "done"},
         op : {"none", "create", "update", "reorder", "apply"},
         job : ProgrammeJobs \cup {NoItem}, lines : Seq(PlanLine), next : Nat,
         id : Items \cup {NoItem}, names : SUBSET Fields, input : PlanInput,
         kind : ItemType \cup {""}, stale : BOOLEAN, outdated : BOOLEAN, replace : BOOLEAN]

ProgrammeType ==
    /\ openJobs \subseteq ProgrammeJobs
    /\ item \in [Items -> Item \cup {NoItem}]
    /\ born \in 0 .. Cardinality(Items)
    /\ \A i \in Items : Held(i) => i <= born /\ item[i].job \in openJobs
    /\ plan \in [Planners -> PlannerState]
    /\ unvouched \cup undone \subseteq {i \in Items : Held(i)}
    /\ asked = [i \in Items |-> asked[i]]

\* A HEADER of the same job, over anything else.
Legal(rows, i) ==
    LET p == rows[i].parent
    IN  /\ rows[p] # NoItem /\ rows[p].job = rows[i].job
        /\ rows[p].kind = "HEADER" /\ rows[i].kind # "HEADER"

LinksHold(rows, doubted) ==
    \A i \in Items :
        rows[i] # NoItem /\ rows[i].parent # NoParent /\ i \notin doubted => Legal(rows, i)

\* parent_id refers to a row.
ParentsHold(rows) ==
    \A i \in Items :
        rows[i] # NoItem /\ rows[i].parent # NoParent => rows[rows[i].parent] # NoItem

\* A template's parents are positions of its own, vouched for but for some.
VouchedFor(t) ==
    /\ t.items \in Seq(TemplateItem) /\ t.doubtful \subseteq 1 .. Len(t.items)
    /\ \A k \in 1 .. Len(t.items) :
          /\ t.items[k].parent \in 0 .. Len(t.items)
          /\ t.items[k].parent # 0 /\ k \notin t.doubtful =>
                t.items[t.items[k].parent].kind = "HEADER" /\ t.items[k].kind # "HEADER"

TemplateHolds == template # NoItem => VouchedFor(template)

\* A parent p that was checked for an item of job j, and has not changed since.
StillSuits(rows, p, j) == rows[p] # NoItem => rows[p].kind = "HEADER" /\ rows[p].job = j

\* The lines that a create has checked, while items up to b were given out.
CreateStands(q, rows, b) ==
    q.op = "create" /\ q.pc \in {"check", "write"} =>
        /\ q.job \in ProgrammeJobs /\ Len(q.lines) \in {1, 2} /\ q.lines[1].local = 0
        /\ q.next \in 1 .. Len(q.lines) + 1
        /\ (q.pc = "write") = (q.next = Len(q.lines) + 1)
        /\ \A n \in 1 .. Len(q.lines) :
              LET p == q.lines[n].parent
              IN  /\ q.lines[n].local = 1 => p = NoParent
                  /\ n < q.next => /\ q.lines[n].local = 1 => /\ q.lines[1].kind = "HEADER"
                                                              /\ q.lines[n].kind # "HEADER"
                                   /\ p # NoParent => /\ p <= b /\ q.lines[n].kind # "HEADER"
                                                      /\ ~q.stale => StillSuits(rows, p, q.job)

\* What an update has read and checked.
UpdateStands(q, rows, b) ==
    LET p == q.input.parent
    IN  q.op = "update" /\ q.pc \in {"find", "check", "write"} =>
        /\ q.id \in Items /\ q.id <= b /\ p # NoItem
        /\ p # NoParent => p <= b
        /\ rows[q.id] # NoItem /\ ~q.outdated =>
              \A f \in Fields \ q.names : q.input[f] = rows[q.id][f]
        /\ q.pc = "check" => p # NoParent
        /\ q.pc # "find" =>
              /\ q.kind \in ItemType
              /\ q.input.kind # "" => q.kind = q.input.kind
              /\ rows[q.id] # NoItem => /\ rows[q.id].job = q.job
                                        /\ q.input.kind = "" /\ ~q.stale => rows[q.id].kind = q.kind
        /\ q.pc = "write" /\ p # NoParent =>
              /\ q.kind # "HEADER" /\ p # q.id
              /\ ~q.stale => StillSuits(rows, p, q.job)

Stands(q, rows, b) ==
    /\ CreateStands(q, rows, b) /\ UpdateStands(q, rows, b)
    /\ q.op = "reorder" /\ q.pc = "write" => q.id \in Items
    /\ q.pc = "idle" => q.next = 1

(* Parents exist (the foreign key), links are legal but for the doubtful     *)
(* ones, a template copies such links, requests stand by what they checked.  *)
ProgrammeInv ==
    /\ ProgrammeType
    /\ ParentsHold(item)
    /\ LinksHold(item, unvouched)
    /\ TemplateHolds
    /\ \A r \in Planners : Stands(plan[r], item, born)
    /\ ItemsUndoneByRacersOnly

-----------------------------------------------------------------------------
(* The programmes of the jobs: rows, places and cascades. *)

LEMMA ItemsAreNumbers ==
    /\ Items \subseteq Nat \ {0} /\ Cardinality(Items) \in Nat /\ IsFiniteSet(Items)
    /\ NoItem \notin Items /\ NoParent \notin Items /\ NoParent # NoItem
    /\ \A i \in Items : i <= Cardinality(Items)
    /\ \A i \in 1 .. Cardinality(Items) : i \in Items
  <1>1. IsFiniteSet(Items) /\ Cardinality(Items) \in Nat
    BY ItemsAreOrdered, FS_CardinalityType
  <1> DEFINE c == Cardinality(Items)
  <1>2. Items = 1 .. c
    BY ItemsAreOrdered
  <1> HIDE DEF c
  <1>3. NoItem \notin Items /\ NoParent \notin Items /\ NoParent # NoItem
    BY NoParentIsNone
  <1>4. c \in Nat
    BY <1>1 DEF c
  <1>5. \A i \in Items : i \in Nat \ {0} /\ i <= c
    BY <1>2, <1>4
  <1>6. \A i \in 1 .. c : i \in Items
    BY <1>2
  <1> QED  BY <1>1, <1>3, <1>5, <1>6 DEF c

LEMMA RowsOfAJob ==
    ASSUME item \in [Items -> Item \cup {NoItem}], NEW j
    PROVE  /\ Rows(RowsOf(j)) /\ DOMAIN RowsOf(j) = ItemsOf(j)
           /\ \A i \in ItemsOf(j) : /\ i \in Items /\ Held(i) /\ item[i].job = j
                                    /\ RowsOf(j)[i] = item[i] /\ item[i] \in Item
  <1>1. ItemsOf(j) \subseteq Items
    BY DEF ItemsOf
  <1>2. DOMAIN RowsOf(j) = ItemsOf(j) /\ \A i \in ItemsOf(j) : RowsOf(j)[i] = item[i]
    BY DEF RowsOf
  <1>3. \A i \in ItemsOf(j) : i \in Items /\ Held(i) /\ item[i].job = j /\ item[i] \in Item
    BY DEF ItemsOf, Held
  <1>4. IsFiniteSet(ItemsOf(j)) /\ ItemsOf(j) \subseteq Nat
    BY <1>1, ItemsAreNumbers, FS_Subset
  <1>5. \A i \in ItemsOf(j) : item[i].order \in Int
    BY <1>3 DEF Item
  <1>6. NoParent \notin ItemsOf(j)
    BY <1>1, ItemsAreNumbers
  <1> QED  BY <1>2, <1>3, <1>4, <1>5, <1>6 DEF Rows

LEMMA NextPlaceType ==
    ASSUME NEW rows \in [Items -> Item \cup {NoItem}], NEW j
    PROVE  NextInProgramme(rows, j) \in Int
  <1> DEFINE I == {x \in Items : rows[x] # NoItem /\ rows[x].job = j}
             O == OrdersIn(rows, j)
  <1>1. IsFiniteSet(I)
    BY ItemsAreNumbers, FS_Subset
  <1>2. O \subseteq Int
    BY DEF Item, OrdersIn
  <1>3. IsFiniteSet(O)
    <2> DEFINE f == [i \in I |-> rows[i].order]
    <2>1. f \in Surjection(I, O)
      BY DEF Surjection, OrdersIn
    <2> HIDE DEF f, I, O
    <2> QED  BY <1>1, <2>1, FS_Surjection
  <1> HIDE DEF I, O
  <1>4. O # {} => Max(O) \in Int
    BY <1>2, <1>3, MaxType
  <1> DEFINE m == Max(O)
  <1> HIDE DEF m
  <1>5. O # {} => m + 1 \in Int
    BY <1>4 DEF m
  <1> QED  BY <1>5 DEF NextInProgramme, m, O

LEMMA BelowCloses ==
    ASSUME NEW ids, ids \subseteq Items
    PROVE  /\ ids \subseteq Below(ids) /\ Below(ids) \subseteq Items
           /\ \A k \in Items : Held(k) /\ item[k].parent \in Below(ids) => k \in Below(ids)
  BY DEF Below

-----------------------------------------------------------------------------
(* The requests that stand while others write. *)

\* Rows with ids up to b change as these were written and these retyped.
Follows(rows, b, new, written, retyped) ==
    \A i \in Items :
        i <= b /\ new[i] # NoItem =>
            /\ rows[i] # NoItem /\ new[i].job = rows[i].job
            /\ i \notin retyped => new[i].kind = rows[i].kind
            /\ i \notin written => new[i] = rows[i]

\* The same request, but for what it may not know.
SameRequest(p, q) ==
    /\ p.pc = q.pc /\ p.op = q.op /\ p.job = q.job /\ p.lines = q.lines /\ p.next = q.next
    /\ p.id = q.id /\ p.names = q.names /\ p.input = q.input /\ p.kind = q.kind

LEMMA StillGivenOut ==
    ASSUME NEW i \in Items, NEW b \in Nat, NEW c \in Nat, i <= b, b <= c
    PROVE  i <= c
  <1>1. i \in Nat
    BY ItemsAreNumbers
  <1> QED  BY <1>1

\* What a request has checked outlives a commit, unless it is told otherwise.
LEMMA StillStands ==
    ASSUME NEW q \in PlannerState, NEW rows, NEW b \in Nat, Stands(q, rows, b),
           NEW new, NEW c \in Nat, b <= c, NEW written, NEW retyped,
           Follows(rows, b, new, written, retyped),
           NEW p \in PlannerState, SameRequest(p, q),
           ~p.stale => ~q.stale /\ \A i \in retyped : ~ReliesOn(q, i),
           ~p.outdated => ~q.outdated /\ (q.op = "update" => q.id \notin written)
    PROVE  Stands(p, new, c)
  <1>1. CreateStands(p, new, c)
    <2> SUFFICES ASSUME q.op = "create", q.pc \in {"check", "write"}
                 PROVE  CreateStands(p, new, c)
      BY DEF CreateStands, SameRequest
    <2>1. CreateStands(q, rows, b)
      BY DEF Stands
    <2> DEFINE L == Len(q.lines)
               parent(n) == q.lines[n].parent
    <2>2. \A n \in 1 .. L : parent(n) \in Items \cup {NoParent}
      <3>1. q.lines \in Seq(PlanLine)
        BY DEF PlannerState
      <3>2. \A n \in 1 .. L : q.lines[n] \in PlanLine
        BY <3>1, ElementOfSeq
      <3> QED  BY <3>2 DEF PlanLine
    <2>3. ASSUME NEW n \in 1 .. L, n < q.next, parent(n) # NoParent
          PROVE  parent(n) <= c /\ (~p.stale => StillSuits(new, parent(n), q.job))
      <3>1. parent(n) \in Items /\ parent(n) <= b
        BY <2>1, <2>2, <2>3 DEF CreateStands
      <3>2. parent(n) <= c
        BY <3>1, StillGivenOut
      <3>3. ASSUME ~p.stale PROVE StillSuits(new, parent(n), q.job)
        <4>1. StillSuits(rows, parent(n), q.job)
          BY <2>1, <2>3, <3>3 DEF CreateStands
        <4>2. ReliesOn(q, parent(n))
          BY <2>3 DEF ReliesOn
        <4>3. parent(n) \notin retyped
          BY <3>3, <4>2
        <4> QED  BY <3>1, <4>1, <4>3 DEF StillSuits, Follows
      <3> QED  BY <3>2, <3>3
    <2> HIDE DEF L, parent
    <2> QED  BY <2>1, <2>3 DEF CreateStands, SameRequest, L, parent
  <1>2. UpdateStands(p, new, c)
    <2> SUFFICES ASSUME q.op = "update", q.pc \in {"find", "check", "write"}
                 PROVE  UpdateStands(p, new, c)
      BY DEF UpdateStands, SameRequest
    <2> DEFINE x == q.input.parent
    <2>1. UpdateStands(q, rows, b)
      BY DEF Stands
    <2>2. q.id \in Items /\ q.id <= b /\ x \in Items \cup {NoParent, NoItem} /\ x # NoItem
      BY <2>1 DEF UpdateStands, PlannerState, PlanInput
    <2>3. q.id <= c
      BY <2>2, StillGivenOut
    <2>4. x # NoParent => x \in Items /\ x <= b /\ x <= c
      <3>1. x # NoParent => x \in Items /\ x <= b
        BY <2>1, <2>2 DEF UpdateStands
      <3> HIDE DEF x
      <3> QED  BY <3>1, StillGivenOut
    <2>5. new[q.id] # NoItem =>
             /\ rows[q.id] # NoItem /\ new[q.id].job = rows[q.id].job
             /\ ~p.outdated => new[q.id] = rows[q.id]
             /\ q.input.kind = "" /\ q.pc # "find" /\ ~p.stale => new[q.id].kind = rows[q.id].kind
      BY <2>2 DEF Follows, ReliesOn
    <2>6. ~p.stale /\ q.pc = "write" /\ x # NoParent =>
             StillSuits(rows, x, q.job) /\ StillSuits(new, x, q.job)
      BY <2>1, <2>4 DEF UpdateStands, Follows, ReliesOn, StillSuits
    <2>7. /\ new[q.id] # NoItem /\ ~p.outdated =>
                \A f \in Fields \ q.names : q.input[f] = new[q.id][f]
          /\ q.pc = "check" => x # NoParent
          /\ q.pc # "find" => /\ q.kind \in ItemType
                              /\ q.input.kind # "" => q.kind = q.input.kind
      BY <2>1, <2>5 DEF UpdateStands
    <2>8. q.pc # "find" /\ new[q.id] # NoItem =>
             /\ new[q.id].job = q.job
             /\ q.input.kind = "" /\ ~p.stale => new[q.id].kind = q.kind
      BY <2>1, <2>5 DEF UpdateStands
    <2>9. q.pc = "write" /\ x # NoParent =>
             q.kind # "HEADER" /\ x # q.id /\ (~p.stale => StillSuits(new, x, q.job))
      BY <2>1, <2>6 DEF UpdateStands
    <2> QED  BY <2>2, <2>3, <2>4, <2>7, <2>8, <2>9 DEF UpdateStands, SameRequest
  <1> QED  BY <1>1, <1>2 DEF Stands, SameRequest

\* A request that has ended, or stands where it has checked nothing.
LEMMA IdleStands ==
    ASSUME NEW q, q.pc = "done" \/ q.op = "apply", q.pc = "idle" => q.next = 1, NEW rows, NEW b
    PROVE  Stands(q, rows, b)
  BY DEF Stands, CreateStands, UpdateStands

LEMMA PlannedType == NotPlanning \in PlannerState /\ Planned \in PlannerState /\ Planned.pc = "done"
  <1>1. <<>> \in Seq(PlanLine)
    BY EmptySeq
  <1>2. NoInput \in PlanInput
    BY DEF NoInput, PlanInput
  <1>3. NotPlanning \in PlannerState
    BY <1>1, <1>2 DEF NotPlanning, PlannerState
  <1>4. Planned = [NotPlanning EXCEPT !.pc = "done"]
    BY DEF Planned
  <1> QED  BY <1>3, <1>4 DEF PlannerState

\* What the others are left with by a commit.
LEMMA OthersStand ==
    ASSUME plan \in [Planners -> PlannerState], born \in Nat,
           \A q \in Planners : Stands(plan[q], item, born),
           NEW r \in Planners, NEW written, NEW retyped, NEW new, NEW c \in Nat, born <= c,
           Follows(item, born, new, written, retyped)
    PROVE  /\ AfterWrite(r, written, retyped) \in [Planners -> PlannerState]
           /\ \A q \in Planners : Stands(AfterWrite(r, written, retyped)[q], new, c)
  <1> DEFINE after == AfterWrite(r, written, retyped)
  <1>1. after = [q \in Planners |-> after[q]] /\ after[r] = Planned
    BY DEF AfterWrite
  <1>2. ASSUME NEW q \in Planners, q # r
        PROVE  after[q] \in PlannerState /\ Stands(after[q], new, c)
    <2> DEFINE s == plan[q].stale \/ \E i \in retyped : ReliesOn(plan[q], i)
               o == plan[q].outdated \/ (plan[q].op = "update" /\ plan[q].id \in written)
    <2>1. after[q] = [plan[q] EXCEPT !.stale = s, !.outdated = o]
      BY <1>2 DEF AfterWrite
    <2>2. s \in BOOLEAN /\ o \in BOOLEAN
      OBVIOUS
    <2> DEFINE p == plan[q]
    <2>3. p \in PlannerState
      OBVIOUS
    <2> HIDE DEF s, o, p, after
    <2>4. /\ after[q] \in PlannerState /\ SameRequest(after[q], p)
          /\ after[q].stale = s /\ after[q].outdated = o
      BY <2>1, <2>2, <2>3 DEF PlannerState, SameRequest, p
    <2>5. Stands(p, item, born)
      BY DEF p
    <2>6. /\ ~s => ~p.stale /\ \A i \in retyped : ~ReliesOn(p, i)
          /\ ~o => ~p.outdated /\ (p.op = "update" => p.id \notin written)
      BY DEF s, o, p
    <2>7. /\ ~after[q].stale => ~p.stale /\ \A i \in retyped : ~ReliesOn(p, i)
          /\ ~after[q].outdated => ~p.outdated /\ (p.op = "update" => p.id \notin written)
      BY <2>4, <2>6
    <2>8. Stands(after[q], new, c)
      BY <2>3, <2>4, <2>5, <2>7, StillStands
    <2> QED  BY <2>4, <2>8
  <1>3. after[r] \in PlannerState /\ Stands(after[r], new, c)
    BY <1>1, PlannedType, IdleStands
  <1> HIDE DEF after
  <1> QED  BY <1>1, <1>2, <1>3 DEF after

\* What they are left with by a request that moves on by itself.
LEMMA OneMoves ==
    ASSUME plan \in [Planners -> PlannerState], born \in Nat,
           \A q \in Planners : Stands(plan[q], item, born),
           NEW r \in Planners, NEW moved \in PlannerState, plan' = [plan EXCEPT ![r] = moved],
           NEW new, Follows(item, born, new, {}, {}), Stands(moved, new, born)
    PROVE  /\ plan' \in [Planners -> PlannerState]
           /\ \A q \in Planners : Stands(plan'[q], new, born)
  <1>1. ASSUME NEW q \in Planners, q # r PROVE Stands(plan[q], new, born)
    <2> DEFINE p == plan[q]
    <2>1. p \in PlannerState /\ Stands(p, item, born)
      OBVIOUS
    <2> HIDE DEF p
    <2>2. SameRequest(p, p)
      BY DEF SameRequest
    <2>3. Stands(p, new, born)
      BY <2>1, <2>2, StillStands
    <2> QED  BY <2>3 DEF p
  <1>2. plan'[r] = moved /\ \A q \in Planners : q # r => plan'[q] = plan[q]
    OBVIOUS
  <1>3. plan' \in [Planners -> PlannerState]
    OBVIOUS
  <1> QED  BY <1>1, <1>2, <1>3

-----------------------------------------------------------------------------
(* Steps of a request that write nothing. *)

LEMMA RowsFollowThemselves == \A b, written, retyped : Follows(item, b, item, written, retyped)
  BY DEF Follows

LEMMA QuietStep ==
    ASSUME ProgrammeInv, NEW r \in Planners, NEW moved \in PlannerState,
           plan' = [plan EXCEPT ![r] = moved], Stands(moved, item, born), ItemsUnchanged
    PROVE  ProgrammeInv'
  <1>1. /\ plan \in [Planners -> PlannerState] /\ born \in Nat
        /\ \A q \in Planners : Stands(plan[q], item, born)
    BY ItemsAreNumbers DEF ProgrammeInv, ProgrammeType
  <1>2. /\ plan' \in [Planners -> PlannerState]
        /\ \A q \in Planners : Stands(plan'[q], item, born)
    BY <1>1, RowsFollowThemselves, OneMoves
  <1>3. /\ openJobs' = openJobs /\ item' = item /\ born' = born /\ template' = template
        /\ unvouched' = unvouched /\ asked' = asked /\ undone' = undone
    BY DEF ItemsUnchanged
  <1>4. ProgrammeType'
    BY <1>2, <1>3 DEF ProgrammeInv, ProgrammeType, Held
  <1>5. ParentsHold(item)' /\ LinksHold(item, unvouched)' /\ TemplateHolds'
    BY <1>3 DEF ProgrammeInv, TemplateHolds
  <1>6. ItemsUndoneByRacersOnly'
    BY <1>3 DEF ProgrammeInv, ItemsUndoneByRacersOnly, Held
  <1> QED  BY <1>2, <1>3, <1>4, <1>5, <1>6 DEF ProgrammeInv

LEMMA EndsQuietly ==
    ASSUME ProgrammeInv, NEW r \in Planners, EndPlan(r), ItemsUnchanged
    PROVE  ProgrammeInv'
  <1>1. Stands(Planned, item, born)
    BY PlannedType, IdleStands
  <1> QED  BY <1>1, PlannedType, QuietStep DEF EndPlan

LEMMA ProgrammeFacts ==
    ASSUME ProgrammeInv
    PROVE  /\ item \in [Items -> Item \cup {NoItem}] /\ born \in Nat
           /\ born <= Cardinality(Items) /\ openJobs \subseteq ProgrammeJobs
           /\ \A i \in Items : Held(i) => i <= born /\ item[i].job \in openJobs /\ item[i] \in Item
           /\ plan \in [Planners -> PlannerState]
           /\ \A q \in Planners : /\ plan[q] \in PlannerState /\ Stands(plan[q], item, born)
                                  /\ CreateStands(plan[q], item, born)
                                  /\ UpdateStands(plan[q], item, born)
  <1>1. born \in Nat /\ born <= Cardinality(Items)
    BY ItemsAreNumbers DEF ProgrammeInv, ProgrammeType
  <1> QED  BY <1>1 DEF ProgrammeInv, ProgrammeType, Held, Stands

LEMMA CreateItemsKeeps ==
    ASSUME ProgrammeInv, NEW r \in Planners, CreateItems(r)
    PROVE  ProgrammeInv'
  <1>1. PICK j \in openJobs, n \in {1, 2} : \E lines \in
          [1..n -> [kind : Kinds, parent : {i \in Items : Held(i)} \cup {NoParent},
                    local : {0, 1}, order : NewOrders]] :
          /\ lines[1].local = 0
          /\ \A k \in 1..n : lines[k].local = 1 => lines[k].parent = NoParent
          /\ plan' = [plan EXCEPT ![r].op = "create", ![r].pc = "check", ![r].job = j,
                                  ![r].lines = lines]
    BY DEF CreateItems
  <1>2. PICK lines \in [1..n -> [kind : Kinds, parent : {i \in Items : Held(i)} \cup {NoParent},
                                 local : {0, 1}, order : NewOrders]] :
          /\ lines[1].local = 0
          /\ \A k \in 1..n : lines[k].local = 1 => lines[k].parent = NoParent
          /\ plan' = [plan EXCEPT ![r].op = "create", ![r].pc = "check", ![r].job = j,
                                  ![r].lines = lines]
    BY <1>1
  <1> DEFINE p == plan[r]
             moved == [p EXCEPT !.op = "create", !.pc = "check", !.job = j, !.lines = lines]
  <1>3. p \in PlannerState /\ plan' = [plan EXCEPT ![r] = moved]
    BY <1>2, ProgrammeFacts
  <1>4. p.next = 1
    BY ProgrammeFacts DEF CreateItems, Stands
  <1>5. lines \in Seq(PlanLine) /\ Len(lines) = n
    <2>1. \A k \in 1..n : lines[k] \in PlanLine
      BY InputsAreTyped DEF PlanLine
    <2> QED  BY <2>1
  <1>6. j \in ProgrammeJobs
    BY ProgrammeFacts
  <1> HIDE DEF p
  <1>7. moved \in PlannerState
    BY <1>3, <1>5, <1>6 DEF PlannerState
  <1>8. Stands(moved, item, born)
    <2>1. /\ moved.op = "create" /\ moved.pc = "check" /\ moved.job = j /\ moved.lines = lines
          /\ moved.next = 1
      BY <1>3, <1>4 DEF PlannerState
    <2> HIDE DEF moved
    <2> QED  BY <1>2, <1>5, <1>6, <2>1 DEF Stands, CreateStands, UpdateStands
  <1>9. ItemsUnchanged
    BY DEF CreateItems
  <1> HIDE DEF moved
  <1> QED  BY <1>3, <1>7, <1>8, <1>9, QuietStep

LEMMA CheckLineKeeps ==
    ASSUME ProgrammeInv, NEW r \in Planners, CheckLine(r)
    PROVE  ProgrammeInv'
  <1>1. ItemsUnchanged
    BY DEF CheckLine
  <1>2. CASE EndPlan(r)
    BY <1>1, <1>2, EndsQuietly
  <1>3. CASE ~EndPlan(r)
    <2> DEFINE p == plan[r]
               L == Len(p.lines)
               k == p.next
               moved == [p EXCEPT !.next = k + 1, !.pc = IF k = L THEN "write" ELSE "check"]
               line == p.lines[k]
    <2>1. LineIsLegal(r, line) /\ plan' = [plan EXCEPT ![r] = moved]
      BY <1>3, ProgrammeFacts DEF CheckLine
    <2>2. p \in PlannerState /\ p.op = "create" /\ p.pc = "check" /\ CreateStands(p, item, born)
      BY ProgrammeFacts DEF CheckLine, AtPlan
    <2>3. p.job \in ProgrammeJobs /\ L \in {1, 2} /\ k \in 1 .. L /\ line \in PlanLine
      <3>1. L \in {1, 2} /\ k \in 1 .. L + 1 /\ k # L + 1 /\ p.job \in ProgrammeJobs
        BY <2>2 DEF CreateStands
      <3>2. p.lines \in Seq(PlanLine)
        BY <2>2 DEF PlannerState
      <3> HIDE DEF k, L
      <3>3. k \in 1 .. L
        BY <3>1
      <3>4. p.lines[k] \in PlanLine
        BY <3>2, <3>3, ElementOfSeq DEF L
      <3> QED  BY <3>1, <3>3, <3>4 DEF k
    <2>4. /\ line.local = 1 => p.lines[1].kind = "HEADER" /\ line.kind # "HEADER"
          /\ line.parent # NoParent =>
                line.parent <= born /\ line.kind # "HEADER" /\ StillSuits(item, line.parent, p.job)
      <3>1. CASE line.local # 0
        <4>1. p.lines[1].kind = "HEADER" /\ line.kind # "HEADER"
          BY <2>1, <3>1 DEF LineIsLegal, ValidParent, CanParent
        <4>2. line.parent = NoParent
          BY <2>2, <2>3, <3>1 DEF CreateStands, PlanLine
        <4> QED  BY <4>1, <4>2
      <3>2. CASE line.local = 0
        <4> SUFFICES ASSUME line.parent # NoParent
                     PROVE  /\ line.parent <= born /\ line.kind # "HEADER"
                            /\ StillSuits(item, line.parent, p.job)
          BY <3>2
        <4>1. line.parent \in Items
          BY <2>3 DEF PlanLine
        <4>2. Held(line.parent) /\ item[line.parent].job = p.job
              /\ item[line.parent].kind = "HEADER" /\ line.kind # "HEADER"
          BY <2>1, <3>2 DEF LineIsLegal, ValidParent, CanParent
        <4> QED  BY <4>1, <4>2, ProgrammeFacts DEF StillSuits
      <3> QED  BY <3>1, <3>2
    <2> HIDE DEF p
    <2>5. /\ moved \in PlannerState /\ moved.op = "create" /\ moved.job = p.job
          /\ moved.lines = p.lines /\ moved.next = k + 1 /\ moved.stale = p.stale
          /\ moved.pc = IF k = L THEN "write" ELSE "check"
      <3>1. k \in Nat /\ k + 1 \in Nat
        BY <2>3
      <3> HIDE DEF L
      <3> QED  BY <2>2, <3>1 DEF PlannerState
    <2> HIDE DEF moved
    <2>6. CreateStands(moved, item, born)
      <3>1. \A n \in 1 .. L : n < k + 1 => n < k \/ n = k
        BY <2>3
      <3>2. k + 1 \in 1 .. L + 1 /\ ((k = L) = (k + 1 = L + 1))
        BY <2>3
      <3>3. \A n \in 1 .. L :
              LET x == p.lines[n].parent
              IN  /\ p.lines[n].local = 1 => x = NoParent
                  /\ n < k + 1 =>
                        /\ p.lines[n].local = 1 => p.lines[1].kind = "HEADER" /\ p.lines[n].kind # "HEADER"
                        /\ x # NoParent => /\ x <= born /\ p.lines[n].kind # "HEADER"
                                           /\ ~p.stale => StillSuits(item, x, p.job)
        BY <2>2, <2>4, <3>1 DEF CreateStands
      <3>4. L \in {1, 2} /\ p.lines[1].local = 0 /\ p.job \in ProgrammeJobs
        BY <2>2 DEF CreateStands
      <3> QED  BY <2>5, <3>2, <3>3, <3>4 DEF CreateStands
    <2>7. Stands(moved, item, born)
      BY <2>5, <2>6 DEF Stands, UpdateStands
    <2> QED  BY <1>1, <2>1, <2>5, <2>7, QuietStep
  <1> QED  BY <1>2, <1>3

LEMMA NothingNamed == NoInput.order \in Int
  BY DEF NoInput

LEMMA PatchItemReadKeeps ==
    ASSUME ProgrammeInv, NEW r \in Planners, PatchItemRead(r)
    PROVE  ProgrammeInv'
  <1>1. PICK i \in Items, names \in SUBSET Fields,
             given \in [kind : Kinds \cup {""}, parent : Items \cup {NoParent},
                        order : Orders \cup {NoInput.order}] :
          /\ Held(i)
          /\ "order" \in names => given.order \in Orders
          /\ given.parent \in Items => Held(given.parent)
          /\ \A f \in Fields \ names : given[f] = NoInput[f]
          /\ plan' = [plan EXCEPT ![r].op = "update", ![r].pc = "find", ![r].id = i,
                        ![r].names = names, ![r].input = PatchedItem(i, names, given)]
    BY Zenon DEF PatchItemRead
  <1> DEFINE p == plan[r]
             input == PatchedItem(i, names, given)
             moved == [p EXCEPT !.op = "update", !.pc = "find", !.id = i, !.names = names,
                                !.input = input]
  <1>2. p \in PlannerState /\ plan' = [plan EXCEPT ![r] = moved]
    BY <1>1, ProgrammeFacts
  <1>3. item[i] \in Item /\ i <= born
    BY <1>1, ProgrammeFacts
  <1>4. /\ input \in PlanInput /\ input.parent # NoItem
        /\ input.parent # NoParent => input.parent \in Items
        /\ \A f \in Fields \ names : input[f] = item[i][f]
    <2>1. /\ input.kind \in {given.kind, item[i].kind} /\ input.order \in {given.order, item[i].order}
          /\ input.parent \in {given.parent, item[i].parent}
          /\ input = [kind |-> input.kind, parent |-> input.parent, order |-> input.order]
      BY DEF PatchedItem
    <2>2. input.kind \in ItemType \cup {""} /\ input.order \in Int /\ input.parent \in Items \cup {NoParent}
      <3>1. given.kind \in ItemType \cup {""} /\ given.order \in Int
            /\ given.parent \in Items \cup {NoParent}
        BY NothingNamed, InputsAreTyped
      <3>2. item[i].kind \in ItemType /\ item[i].order \in Int
            /\ item[i].parent \in Items \cup {NoParent}
        BY <1>3 DEF Item
      <3> HIDE DEF input
      <3> QED  BY <2>1, <3>1, <3>2
    <2>3. input.parent # NoItem
      BY <2>2, ItemsAreNumbers
    <2>4. \A f \in Fields \ names : input[f] = item[i][f]
      <3>1. /\ "kind" \notin names => input.kind = item[i].kind
            /\ "parent" \notin names => input.parent = item[i].parent
            /\ "order" \notin names => input.order = item[i].order
        BY DEF PatchedItem
      <3> HIDE DEF input
      <3> QED  BY <3>1 DEF Fields
    <2> HIDE DEF input
    <2> QED  BY <2>1, <2>2, <2>3, <2>4 DEF PlanInput
  <1>5. input.parent # NoParent => input.parent <= born
    <2>1. given.parent # NoParent => given.parent <= born
      BY <1>1, ProgrammeFacts
    <2>2. input.parent \in {given.parent, item[i].parent}
      BY DEF PatchedItem
    <2>3. item[i].parent # NoParent => item[i].parent <= born
      <3>1. item[i].parent # NoParent => item[i].parent \in Items /\ Held(item[i].parent)
        BY <1>1, <1>3 DEF ProgrammeInv, ParentsHold, Item, Held
      <3> QED  BY <3>1, ProgrammeFacts
    <2> QED  BY <2>1, <2>2, <2>3
  <1> HIDE DEF p, input
  <1>6. /\ moved \in PlannerState /\ moved.op = "update" /\ moved.pc = "find" /\ moved.id = i
        /\ moved.names = names /\ moved.input = input
    BY <1>2, <1>4 DEF PlannerState
  <1> HIDE DEF moved
  <1>7. Stands(moved, item, born)
    BY <1>3, <1>4, <1>5, <1>6 DEF Stands, CreateStands, UpdateStands
  <1>8. ItemsUnchanged
    BY DEF PatchItemRead
  <1> QED  BY <1>2, <1>6, <1>7, <1>8, QuietStep

LEMMA FindItemKeeps ==
    ASSUME ProgrammeInv, NEW r \in Planners, FindItem(r)
    PROVE  ProgrammeInv'
  <1> DEFINE p == plan[r]
             i == p.id
  <1>1. ItemsUnchanged
    BY DEF FindItem
  <1>2. CASE ~Held(i)
    BY <1>1, <1>2, EndsQuietly DEF FindItem
  <1>3. CASE Held(i)
    <2> DEFINE pc == IF p.input.parent = NoParent THEN "write" ELSE "check"
               kind == IF p.input.kind = "" THEN item[i].kind ELSE p.input.kind
               job == item[i].job
               moved == [p EXCEPT !.job = job, !.pc = pc, !.kind = kind]
    <2>1. p \in PlannerState /\ p.op = "update" /\ p.pc = "find" /\ UpdateStands(p, item, born)
      BY ProgrammeFacts DEF FindItem, AtPlan
    <2>2. plan' = [plan EXCEPT ![r] = moved]
      BY <1>3, ProgrammeFacts DEF FindItem
    <2>3. i \in Items /\ item[i] \in Item
      BY <1>3, <2>1, ProgrammeFacts DEF UpdateStands
    <2> HIDE DEF p
    <2>4. job \in ProgrammeJobs /\ kind \in ItemType /\ pc \in {"write", "check"}
      BY <2>1, <2>3 DEF Item, PlannerState, PlanInput
    <2>5. /\ pc = "check" => p.input.parent # NoParent
          /\ pc = "write" => p.input.parent = NoParent
          /\ p.input.kind # "" => kind = p.input.kind
          /\ p.input.kind = "" => kind = item[i].kind
      OBVIOUS
    <2> HIDE DEF job, kind, pc
    <2>6. /\ moved \in PlannerState /\ moved.op = "update" /\ moved.pc = pc /\ moved.id = i
          /\ moved.job = job /\ moved.kind = kind /\ moved.names = p.names /\ moved.input = p.input
          /\ moved.stale = p.stale /\ moved.outdated = p.outdated
      BY <2>1, <2>4 DEF PlannerState
    <2> HIDE DEF moved
    <2>7. UpdateStands(moved, item, born)
      BY <2>1, <2>3, <2>4, <2>5, <2>6 DEF UpdateStands, job
    <2>8. Stands(moved, item, born)
      BY <2>4, <2>6, <2>7 DEF Stands, CreateStands
    <2> QED  BY <1>1, <2>2, <2>6, <2>8, QuietStep
  <1> QED  BY <1>2, <1>3

LEMMA CheckParentKeeps ==
    ASSUME ProgrammeInv, NEW r \in Planners, CheckParent(r)
    PROVE  ProgrammeInv'
  <1> DEFINE q == plan[r]
             p == q.input.parent
             suits == Held(p) /\ ValidParent(q.id, q.kind, q.job, p, item[p].kind, item[p].job)
  <1>1. ItemsUnchanged
    BY DEF CheckParent
  <1>2. CASE ~suits
    BY <1>1, <1>2, EndsQuietly DEF CheckParent
  <1>3. CASE suits
    <2> DEFINE moved == [q EXCEPT !.pc = "write"]
    <2>1. q \in PlannerState /\ q.op = "update" /\ q.pc = "check" /\ UpdateStands(q, item, born)
      BY ProgrammeFacts DEF CheckParent, AtPlan
    <2>2. plan' = [plan EXCEPT ![r] = moved]
      BY <1>3, ProgrammeFacts DEF CheckParent, PlanTo
    <2>3. p # NoParent /\ p # q.id /\ q.kind # "HEADER" /\ StillSuits(item, p, q.job)
      BY <1>3, <2>1 DEF UpdateStands, ValidParent, CanParent, StillSuits
    <2> HIDE DEF q
    <2>4. /\ moved \in PlannerState /\ moved.op = "update" /\ moved.pc = "write" /\ moved.id = q.id
          /\ moved.job = q.job /\ moved.kind = q.kind /\ moved.names = q.names
          /\ moved.input = q.input /\ moved.stale = q.stale /\ moved.outdated = q.outdated
      BY <2>1 DEF PlannerState
    <2> HIDE DEF moved
    <2>5. UpdateStands(moved, item, born)
      BY <2>1, <2>3, <2>4 DEF UpdateStands
    <2>6. Stands(moved, item, born)
      BY <2>4, <2>5 DEF Stands, CreateStands
    <2> QED  BY <1>1, <2>2, <2>4, <2>6, QuietStep
  <1> QED  BY <1>2, <1>3

LEMMA ReorderFindKeeps ==
    ASSUME ProgrammeInv, NEW r \in Planners, ReorderFind(r)
    PROVE  ProgrammeInv'
  <1>1. PICK i \in Items, order \in Orders, parent \in Items \cup {NoParent, NoItem} :
          plan' = [plan EXCEPT ![r].op = "reorder", ![r].pc = "write", ![r].id = i,
                ![r].input = [NoInput EXCEPT !.parent = parent, !.order = order]]
    BY DEF ReorderFind
  <1> DEFINE q == plan[r]
             input == [NoInput EXCEPT !.parent = parent, !.order = order]
             moved == [q EXCEPT !.op = "reorder", !.pc = "write", !.id = i, !.input = input]
  <1>2. q \in PlannerState /\ plan' = [plan EXCEPT ![r] = moved]
    BY <1>1, ProgrammeFacts
  <1>3. input \in PlanInput
    BY InputsAreTyped DEF NoInput, PlanInput
  <1> HIDE DEF q, input
  <1>4. moved \in PlannerState /\ moved.op = "reorder" /\ moved.pc = "write" /\ moved.id = i
    BY <1>2, <1>3 DEF PlannerState
  <1> HIDE DEF moved
  <1>5. Stands(moved, item, born)
    BY <1>4 DEF Stands, CreateStands, UpdateStands
  <1>6. ItemsUnchanged
    BY DEF ReorderFind
  <1> QED  BY <1>2, <1>4, <1>5, <1>6, QuietStep

LEMMA ApplyFindKeeps ==
    ASSUME ProgrammeInv, NEW r \in Planners, ApplyFind(r)
    PROVE  ProgrammeInv'
  <1>1. PICK j \in openJobs, replace \in BOOLEAN :
          plan' = [plan EXCEPT ![r].op = "apply", ![r].pc = "write", ![r].job = j,
                               ![r].replace = replace]
    BY DEF ApplyFind
  <1> DEFINE q == plan[r]
             moved == [q EXCEPT !.op = "apply", !.pc = "write", !.job = j, !.replace = replace]
  <1>2. q \in PlannerState /\ plan' = [plan EXCEPT ![r] = moved] /\ j \in ProgrammeJobs
    BY <1>1, ProgrammeFacts
  <1> HIDE DEF q
  <1>3. moved \in PlannerState /\ moved.op = "apply" /\ moved.pc = "write"
    BY <1>2 DEF PlannerState
  <1> HIDE DEF moved
  <1>4. Stands(moved, item, born)
    BY <1>3, IdleStands
  <1>5. ItemsUnchanged
    BY DEF ApplyFind
  <1> QED  BY <1>2, <1>3, <1>4, <1>5, QuietStep

-----------------------------------------------------------------------------
(* Templates. *)

\* A step that leaves the rows and changes the template.
LEMMA TemplateStep ==
    ASSUME ProgrammeInv, NEW r \in Planners, EndPlan(r), TemplateHolds',
           UNCHANGED <<openJobs, item, born, unvouched, asked, undone>>
    PROVE  ProgrammeInv'
  <1>1. /\ plan \in [Planners -> PlannerState] /\ born \in Nat
        /\ \A q \in Planners : Stands(plan[q], item, born)
    BY ProgrammeFacts
  <1>2. Planned \in PlannerState /\ Stands(Planned, item, born)
    BY PlannedType, IdleStands
  <1>3. plan' = [plan EXCEPT ![r] = Planned]
    BY DEF EndPlan
  <1>4. /\ plan' \in [Planners -> PlannerState]
        /\ \A q \in Planners : Stands(plan'[q], item, born)
    BY <1>1, <1>2, <1>3, RowsFollowThemselves, OneMoves
  <1>5. ProgrammeType'
    BY <1>4 DEF ProgrammeInv, ProgrammeType, Held
  <1>6. ParentsHold(item)' /\ LinksHold(item, unvouched)'
    BY DEF ProgrammeInv
  <1>7. ItemsUndoneByRacersOnly'
    BY DEF ProgrammeInv, ItemsUndoneByRacersOnly, Held
  <1> QED  BY <1>4, <1>5, <1>6, <1>7 DEF ProgrammeInv

CopiesOf(rows, doubted) ==
    {k \in 1..Len(InTreeOrder(rows)) : InTreeOrder(rows)[k] \in doubted}

\* What a capture makes of rows that are vouched for but for some.
LEMMA CapturesHold ==
    ASSUME NEW rows, Rows(rows), NEW doubted,
           \A i \in DOMAIN rows : rows[i].kind \in ItemType,
           \A i \in DOMAIN rows : i \notin doubted /\ rows[i].parent \in DOMAIN rows =>
               rows[rows[i].parent].kind = "HEADER" /\ rows[i].kind # "HEADER",
           NEW t, t.items = Capture(rows), t.doubtful = CopiesOf(rows, doubted)
    PROVE  VouchedFor(t)
  <1> DEFINE ordered == InTreeOrder(rows)
             items == Capture(rows)
             L == Len(items)
  <1>1. /\ ordered \in Seq(DOMAIN rows)
        /\ items \in Seq(TemplateItem) /\ Len(items) = Len(ordered)
        /\ \A k \in 1 .. L :
              /\ items[k].kind = rows[ordered[k]].kind
              /\ items[k].parent \in 0 .. L
              /\ items[k].parent # 0 => ordered[items[k].parent] = rows[ordered[k]].parent
    BY CaptureOfRows, Zenon
  <1> DEFINE doubtful == {k \in 1 .. Len(ordered) : ordered[k] \in doubted}
  <1>2. t.items = items /\ t.doubtful = doubtful
    BY DEF CopiesOf
  <1> HIDE DEF ordered, items
  <1>3. \A k \in 1 .. L : ordered[k] \in DOMAIN rows
    BY <1>1, ElementOfSeq
  <1>4. ASSUME NEW k \in 1 .. L, items[k].parent # 0, k \notin doubtful
        PROVE  items[items[k].parent].kind = "HEADER" /\ items[k].kind # "HEADER"
    <2> DEFINE n == items[k].parent
               i == ordered[k]
    <2>1. n \in 1 .. L
      <3>1. n \in 0 .. L /\ n # 0
        BY <1>1, <1>4
      <3> HIDE DEF n, L
      <3> QED  BY <3>1
    <2>2. i \in DOMAIN rows /\ i \notin doubted
      BY <1>1, <1>3, <1>4
    <2>3. ordered[n] = rows[i].parent /\ ordered[n] \in DOMAIN rows
      BY <1>1, <1>3, <1>4, <2>1
    <2>4. rows[rows[i].parent].kind = "HEADER" /\ rows[i].kind # "HEADER"
      BY <2>2, <2>3
    <2> QED  BY <1>1, <2>1, <2>3, <2>4
  <1>5. doubtful \subseteq 1 .. L
    BY <1>1
  <1> HIDE DEF L, doubtful
  <1> QED  BY <1>1, <1>2, <1>4, <1>5 DEF VouchedFor, L

LEMMA CreateTemplateKeeps ==
    ASSUME ProgrammeInv, NEW r \in Planners, CreateTemplate(r)
    PROVE  ProgrammeInv'
  <1>1. PICK j \in openJobs :
          template' = IF ~ValidItems(Capture(RowsOf(j))) THEN template
                      ELSE [items |-> Capture(RowsOf(j)),
                            doubtful |-> {k \in 1..Len(InTreeOrder(RowsOf(j))) :
                                             InTreeOrder(RowsOf(j))[k] \in unvouched}]
    BY Zenon DEF CreateTemplate
  <1>2. EndPlan(r) /\ UNCHANGED <<openJobs, item, born, unvouched, asked, undone>>
    BY DEF CreateTemplate
  <1>3. CASE template' = template
    <2>1. TemplateHolds'
      BY <1>3 DEF ProgrammeInv, TemplateHolds
    <2> QED  BY <1>2, <2>1, TemplateStep
  <1>4. CASE template' # template
    <2> DEFINE rows == RowsOf(j)
    <2>1. /\ Rows(rows) /\ DOMAIN rows = ItemsOf(j)
          /\ \A i \in ItemsOf(j) : /\ i \in Items /\ Held(i) /\ item[i].job = j
                                   /\ rows[i] = item[i] /\ item[i] \in Item
      BY ProgrammeFacts, RowsOfAJob
    <2>2. template' = [items |-> Capture(rows),
                       doubtful |-> {k \in 1..Len(InTreeOrder(rows)) :
                                        InTreeOrder(rows)[k] \in unvouched}]
      BY <1>1, <1>4
    <2> HIDE DEF rows
    <2>3. \A i \in DOMAIN rows : rows[i].kind \in ItemType
      BY <2>1 DEF Item
    <2>4. ASSUME NEW i \in DOMAIN rows, i \notin unvouched, rows[i].parent \in DOMAIN rows
          PROVE  rows[rows[i].parent].kind = "HEADER" /\ rows[i].kind # "HEADER"
      <3>1. /\ i \in Items /\ Held(i) /\ rows[i] = item[i] /\ item[i].parent \in Items
            /\ rows[item[i].parent] = item[item[i].parent]
        BY <2>1, <2>4
      <3>2. Legal(item, i)
        BY <2>4, <3>1, ItemsAreNumbers DEF ProgrammeInv, LinksHold, Held
      <3> QED  BY <3>1, <3>2 DEF Legal
    <2> DEFINE t == [items |-> Capture(rows),
                     doubtful |-> {k \in 1..Len(InTreeOrder(rows)) :
                                      InTreeOrder(rows)[k] \in unvouched}]
    <2>5. VouchedFor(t)
      <3>1. t.items = Capture(rows) /\ t.doubtful = CopiesOf(rows, unvouched)
        BY DEF CopiesOf
      <3> HIDE DEF t
      <3> QED  BY <2>1, <2>3, <2>4, <3>1, CapturesHold
    <2>6. TemplateHolds'
      <3>1. template' = t
        BY <2>2
      <3> HIDE DEF t
      <3> QED  BY <2>5, <3>1 DEF TemplateHolds, VouchedFor
    <2> QED  BY <1>2, <2>6, TemplateStep
  <1> QED  BY <1>3, <1>4

LEMMA DeleteTemplateKeeps ==
    ASSUME ProgrammeInv, NEW r \in Planners, DeleteTemplate(r)
    PROVE  ProgrammeInv'
  <1>1. TemplateHolds'
    BY DEF DeleteTemplate, TemplateHolds
  <1> QED  BY <1>1, TemplateStep DEF DeleteTemplate

-----------------------------------------------------------------------------
(* Rows deleted and rows inserted. *)

\* A cascade leaves no item whose parent is gone.
LEMMA RowsWithout ==
    ASSUME ProgrammeInv, NEW gone, gone \subseteq Items,
           \A k \in Items : Held(k) /\ item[k].parent \in gone => k \in gone
    PROVE  LET rows == Without(item, gone)
           IN  /\ rows \in [Items -> Item \cup {NoItem}]
               /\ \A i \in Items : rows[i] = IF i \in gone THEN NoItem ELSE item[i]
               /\ \A i \in Items : rows[i] # NoItem => i <= born /\ item[i].job \in openJobs
                                                       /\ i \notin gone /\ rows[i] = item[i]
               /\ Follows(item, born, rows, {}, {})
               /\ ParentsHold(rows) /\ LinksHold(rows, unvouched \ gone)
               /\ unvouched \ gone \subseteq {i \in Items : rows[i] # NoItem}
               /\ undone \ gone \subseteq {i \in Items : rows[i] # NoItem}
               /\ Without(asked, gone) = [i \in Items |-> Without(asked, gone)[i]]
               /\ \A i \in Items : rows[i] # NoItem /\ i \notin undone \ gone =>
                     rows[i] = Without(asked, gone)[i]
  <1> DEFINE rows == Without(item, gone)
  <1>1. \A i \in Items : rows[i] = IF i \in gone THEN NoItem ELSE item[i]
    BY DEF Without
  <1>2. rows \in [Items -> Item \cup {NoItem}]
    BY ProgrammeFacts DEF Without
  <1>3. /\ Without(asked, gone) = [i \in Items |-> Without(asked, gone)[i]]
        /\ \A i \in Items : i \notin gone => Without(asked, gone)[i] = asked[i]
    BY DEF Without
  <1> HIDE DEF rows
  <1>4. \A i \in Items : rows[i] # NoItem => i <= born /\ item[i].job \in openJobs
                                             /\ i \notin gone /\ rows[i] = item[i]
    BY <1>1, ProgrammeFacts DEF Held
  <1>5. Follows(item, born, rows, {}, {})
    BY <1>1 DEF Follows
  <1>6. ASSUME NEW i \in Items, rows[i] # NoItem, rows[i].parent # NoParent
        PROVE  /\ rows[i].parent \in Items /\ rows[rows[i].parent] # NoItem
               /\ rows[rows[i].parent] = item[rows[i].parent]
    <2>1. rows[i] = item[i] /\ i \notin gone /\ Held(i) /\ item[i] \in Item
      BY <1>1, <1>6, ProgrammeFacts DEF Held
    <2>2. item[i].parent \in Items /\ Held(item[i].parent)
      BY <1>6, <2>1 DEF ProgrammeInv, ParentsHold, Item, Held
    <2>3. item[i].parent \notin gone
      BY <2>1
    <2> QED  BY <1>1, <2>1, <2>2, <2>3 DEF Held
  <1>7. ParentsHold(rows)
    BY <1>6 DEF ParentsHold
  <1>8. LinksHold(rows, unvouched \ gone)
    <2> SUFFICES ASSUME NEW i \in Items, rows[i] # NoItem, rows[i].parent # NoParent,
                        i \notin unvouched \ gone
                 PROVE  Legal(rows, i)
      BY DEF LinksHold
    <2>1. rows[i] = item[i] /\ item[i] # NoItem /\ i \notin unvouched
      BY <1>4
    <2>2. Legal(item, i)
      BY <2>1 DEF ProgrammeInv, LinksHold
    <2> QED  BY <1>6, <2>1, <2>2 DEF Legal
  <1>9. /\ unvouched \ gone \subseteq {i \in Items : rows[i] # NoItem}
        /\ undone \ gone \subseteq {i \in Items : rows[i] # NoItem}
    BY <1>1 DEF ProgrammeInv, ProgrammeType, Held
  <1>10. \A i \in Items : rows[i] # NoItem /\ i \notin undone \ gone =>
            rows[i] = Without(asked, gone)[i]
    BY <1>3, <1>4 DEF ProgrammeInv, ItemsUndoneByRacersOnly, Held
  <1> QED  BY <1>1, <1>2, <1>3, <1>4, <1>5, <1>7, <1>8, <1>9, <1>10 DEF rows

LEMMA RowsInserted ==
    ASSUME born \in Nat, NEW new \in Seq(Item), born + Len(new) <= Cardinality(Items)
    PROVE  /\ Len(new) \in Nat /\ Ids(new) \subseteq Items
           /\ \A k \in 1 .. Len(new) : born + k \in Ids(new) /\ born + k - born = k /\ ~(born + k <= born)
           /\ \A i \in Ids(new) : /\ i - born \in 1 .. Len(new) /\ new[i - born] \in Item
                                  /\ i = born + (i - born) /\ ~(i <= born) /\ i <= born + Len(new)
           /\ \A rows : \A i \in Items :
                 Inserted(rows, new)[i] = IF i \in Ids(new) THEN new[i - born] ELSE rows[i]
           /\ \A rows : Inserted(rows, new) = [i \in Items |-> Inserted(rows, new)[i]]
  <1> DEFINE L == Len(new)
  <1>1. L \in Nat
    BY LenProperties
  <1>2. \A k \in 1 .. L : new[k] \in Item
    BY ElementOfSeq
  <1> HIDE DEF L
  <1>3. Cardinality(Items) \in Nat /\ \A i \in 1 .. Cardinality(Items) : i \in Items
    BY ItemsAreNumbers
  <1>4. Ids(new) = born + 1 .. born + L
    BY DEF Ids, L
  <1>5. \A i \in Ids(new) : i \in 1 .. Cardinality(Items)
    BY <1>1, <1>3, <1>4 DEF L
  <1>6. \A k \in 1 .. L : born + k \in Ids(new) /\ born + k - born = k /\ ~(born + k <= born)
    BY <1>1, <1>4
  <1>7. \A i \in Ids(new) : /\ i - born \in 1 .. L /\ new[i - born] \in Item
                            /\ i = born + (i - born) /\ ~(i <= born) /\ i <= born + L
    BY <1>1, <1>2, <1>4
  <1>8. /\ \A rows : \A i \in Items :
              Inserted(rows, new)[i] = IF i \in Ids(new) THEN new[i - born] ELSE rows[i]
        /\ \A rows : Inserted(rows, new) = [i \in Items |-> Inserted(rows, new)[i]]
    BY DEF Inserted
  <1> QED  BY <1>1, <1>3, <1>5, <1>6, <1>7, <1>8 DEF L

\* Rows inserted after others were deleted, each under a row that is there or
\* comes with it.
LEMMA InsertionKeeps ==
    ASSUME ProgrammeInv, NEW r \in Planners,
           NEW rows \in [Items -> Item \cup {NoItem}], Follows(item, born, rows, {}, {}),
           \A i \in Items : rows[i] # NoItem => i <= born /\ rows[i].job \in openJobs,
           NEW unv, unv \subseteq {i \in Items : rows[i] # NoItem},
           NEW und, und \subseteq {i \in Items : rows[i] # NoItem},
           NEW want, \A i \in Items : rows[i] # NoItem /\ i \notin und => rows[i] = want[i],
           ParentsHold(rows), LinksHold(rows, unv),
           NEW new \in Seq(Item), NEW L, Len(new) = L, born + L <= Cardinality(Items),
           \A k \in 1 .. L : new[k].job \in openJobs,
           NEW doubts, doubts \subseteq 1 .. L,
           \A k \in 1 .. L : new[k].parent # NoParent =>
              \/ /\ rows[new[k].parent] # NoItem
                 /\ k \notin doubts =>
                      /\ rows[new[k].parent].kind = "HEADER" /\ new[k].kind # "HEADER"
                      /\ rows[new[k].parent].job = new[k].job
              \/ \E n \in 1 .. L :
                    /\ new[k].parent = born + n
                    /\ k \notin doubts => /\ new[n].kind = "HEADER" /\ new[k].kind # "HEADER"
                                          /\ new[n].job = new[k].job,
           item' = Inserted(rows, new), asked' = Inserted(want, new), born' = born + L,
           unvouched' = unv \cup {born + k : k \in doubts}, undone' = und,
           plan' = AfterWrite(r, {}, {}), UNCHANGED <<openJobs, template>>
    PROVE  ProgrammeInv'
  <1> DEFINE all == Inserted(rows, new)
  <1>1. /\ L \in Nat /\ Ids(new) \subseteq Items
        /\ \A k \in 1 .. L : born + k \in Ids(new) /\ born + k - born = k /\ ~(born + k <= born)
        /\ \A i \in Ids(new) : /\ i - born \in 1 .. L /\ new[i - born] \in Item
                               /\ i = born + (i - born) /\ ~(i <= born) /\ i <= born + L
        /\ \A i \in Items : all[i] = IF i \in Ids(new) THEN new[i - born] ELSE rows[i]
        /\ all = [i \in Items |-> all[i]]
        /\ \A i \in Items : asked'[i] = IF i \in Ids(new) THEN new[i - born] ELSE want[i]
        /\ asked' = [i \in Items |-> asked'[i]]
    BY ProgrammeFacts, RowsInserted
  <1>2. born \in Nat /\ born + L \in Nat /\ born <= born + L /\ born' = born + L
    BY <1>1, ProgrammeFacts
  <1>3. item' = all
    OBVIOUS
  <1> HIDE DEF all
  <1>4. \A i \in Items : i \in Ids(new) => all[i] = new[i - born] /\ all[i] \in Item /\ all[i] # NoItem
    BY <1>1, NoItemIsNoRow
  <1>5. \A i \in Items : rows[i] # NoItem => i \notin Ids(new) /\ all[i] = rows[i]
    BY <1>1
  <1>6. all \in [Items -> Item \cup {NoItem}]
    <2>1. \A i \in Items : all[i] \in Item \cup {NoItem}
      BY <1>1, <1>4
    <2> QED  BY <1>1, <2>1
  <1>7. Follows(item, born, all, {}, {})
    BY <1>1 DEF Follows
  <1>8. /\ plan' \in [Planners -> PlannerState]
        /\ \A q \in Planners : Stands(plan'[q], all, born')
    BY <1>2, <1>7, OthersStand, ProgrammeFacts
  <1>9. \A i \in Items : all[i] # NoItem => i <= born' /\ all[i].job \in openJobs
    <2> SUFFICES ASSUME NEW i \in Items, all[i] # NoItem
                 PROVE  i <= born' /\ all[i].job \in openJobs
      OBVIOUS
    <2>1. CASE i \in Ids(new)
      BY <1>1, <1>2, <1>4, <2>1
    <2>2. CASE i \notin Ids(new)
      BY <1>1, <1>2, <2>2, StillGivenOut
    <2> QED  BY <2>1, <2>2
  <1>10. ProgrammeType'
    <2>1. unvouched' \cup undone' \subseteq {i \in Items : all[i] # NoItem}
      <3>1. \A k \in doubts : born + k \in Items /\ all[born + k] # NoItem
        BY <1>1, <1>4
      <3>2. \A i \in unv \cup und : i \in Items /\ all[i] # NoItem
        BY <1>5
      <3> QED  BY <3>1, <3>2
    <2>2. born' \in 0 .. Cardinality(Items)
      BY <1>2, ItemsAreNumbers
    <2>3. openJobs' = openJobs /\ openJobs \subseteq ProgrammeJobs
      BY ProgrammeFacts
    <2> QED  BY <1>1, <1>3, <1>6, <1>8, <1>9, <2>1, <2>2, <2>3 DEF ProgrammeType, Held
  <1>11. ASSUME NEW i \in Items, all[i] # NoItem, all[i].parent # NoParent
         PROVE  all[all[i].parent] # NoItem /\ (i \notin unvouched' => Legal(all, i))
    <2>1. CASE i \notin Ids(new)
      <3>1. all[i] = rows[i] /\ rows[i] # NoItem /\ rows[i].parent # NoParent
        BY <1>1, <1>11, <2>1
      <3>2. rows[i].parent \in Items /\ rows[rows[i].parent] # NoItem
        BY <3>1 DEF ParentsHold, Item
      <3>3. all[rows[i].parent] = rows[rows[i].parent]
        BY <1>5, <3>2
      <3>4. i \notin unvouched' => Legal(rows, i)
        BY <3>1 DEF LinksHold
      <3> QED  BY <3>1, <3>2, <3>3, <3>4 DEF Legal
    <2>2. CASE i \in Ids(new)
      <3> DEFINE k == i - born
                 p == new[k].parent
      <3>1. k \in 1 .. L /\ all[i] = new[k] /\ i = born + k /\ new[k] \in Item /\ p # NoParent
        BY <1>1, <1>4, <1>11, <2>2
      <3>2. p \in Items
        BY <3>1 DEF Item
      <3>3. i \notin unvouched' => k \notin doubts
        BY <3>1
      <3> HIDE DEF k
      <3>4. CASE rows[p] # NoItem /\ (k \notin doubts =>
                      /\ rows[p].kind = "HEADER" /\ new[k].kind # "HEADER"
                      /\ rows[p].job = new[k].job)
        BY <1>5, <3>1, <3>2, <3>3, <3>4 DEF Legal
      <3>5. CASE \E n \in 1 .. L :
                    /\ p = born + n
                    /\ k \notin doubts => /\ new[n].kind = "HEADER" /\ new[k].kind # "HEADER"
                                          /\ new[n].job = new[k].job
        <4>1. PICK n \in 1 .. L :
                    /\ p = born + n
                    /\ k \notin doubts => /\ new[n].kind = "HEADER" /\ new[k].kind # "HEADER"
                                          /\ new[n].job = new[k].job
          BY <3>5
        <4>2. p \in Ids(new) /\ p - born = n
          <5>1. born + n \in Ids(new) /\ born + n - born = n
            BY <1>1
          <5>2. p = born + n
            BY <4>1
          <5> HIDE DEF p
          <5>3. p \in Ids(new)
            BY <5>1, <5>2
          <5>4. p - born = n
            <6>1. n \in Nat /\ born \in Nat
              BY <1>1, <1>2
            <6> QED  BY <5>2, <6>1
          <5> QED  BY <5>3, <5>4
        <4>3. all[p] = new[n] /\ all[p] # NoItem
          BY <1>4, <3>2, <4>2
        <4> QED  BY <3>1, <3>3, <4>1, <4>3 DEF Legal
      <3> QED  BY <3>1, <3>4, <3>5
    <2> QED  BY <2>1, <2>2
  <1>12. ParentsHold(all) /\ LinksHold(all, unvouched')
    BY <1>11 DEF ParentsHold, LinksHold
  <1>13. TemplateHolds'
    BY DEF ProgrammeInv, TemplateHolds
  <1>14. ItemsUndoneByRacersOnly'
    <2>1. \A i \in Items : all[i] # NoItem /\ i \notin und => all[i] = asked'[i]
      BY <1>1
    <2> QED  BY <1>3, <2>1 DEF ItemsUndoneByRacersOnly, Held
  <1> QED  BY <1>3, <1>8, <1>10, <1>12, <1>13, <1>14 DEF ProgrammeInv

\* Rows are deleted, and the request that asked ends.
LEMMA DropKeeps ==
    ASSUME ProgrammeInv, NEW r \in Planners, NEW ids, ids \subseteq Items, Drop(Below(ids)),
           EndPlan(r), UNCHANGED <<born, template>>, openJobs' \subseteq openJobs,
           \A i \in Items : Held(i) /\ item[i].job \notin openJobs' => i \in ids
    PROVE  ProgrammeInv'
  <1> DEFINE gone == Below(ids)
             rows == Without(item, gone)
  <1>1. /\ ids \subseteq gone /\ gone \subseteq Items
        /\ \A k \in Items : Held(k) /\ item[k].parent \in gone => k \in gone
    BY BelowCloses
  <1>2. /\ item' = rows /\ asked' = Without(asked, gone)
        /\ unvouched' = unvouched \ gone /\ undone' = undone \ gone
    BY DEF Drop
  <1> HIDE DEF gone
  <1>3. /\ rows \in [Items -> Item \cup {NoItem}]
        /\ \A i \in Items : rows[i] # NoItem => i <= born /\ item[i].job \in openJobs
                                                /\ i \notin gone /\ rows[i] = item[i]
        /\ Follows(item, born, rows, {}, {})
        /\ ParentsHold(rows) /\ LinksHold(rows, unvouched \ gone)
        /\ unvouched \ gone \subseteq {i \in Items : rows[i] # NoItem}
        /\ undone \ gone \subseteq {i \in Items : rows[i] # NoItem}
        /\ Without(asked, gone) = [i \in Items |-> Without(asked, gone)[i]]
        /\ \A i \in Items : rows[i] # NoItem /\ i \notin undone \ gone =>
              rows[i] = Without(asked, gone)[i]
    BY <1>1, RowsWithout
  <1> HIDE DEF rows
  <1>4. /\ plan' \in [Planners -> PlannerState]
        /\ \A q \in Planners : Stands(plan'[q], rows, born)
    <2>1. Planned \in PlannerState /\ Stands(Planned, rows, born)
      BY PlannedType, IdleStands
    <2>2. plan' = [plan EXCEPT ![r] = Planned]
      BY DEF EndPlan
    <2> QED  BY <1>3, <2>1, <2>2, ProgrammeFacts, OneMoves
  <1>5. \A i \in Items : rows[i] # NoItem => rows[i].job \in openJobs'
    <2> SUFFICES ASSUME NEW i \in Items, rows[i] # NoItem PROVE rows[i].job \in openJobs'
      OBVIOUS
    <2>1. rows[i] = item[i] /\ i \notin gone /\ Held(i)
      BY <1>3 DEF Held
    <2> QED  BY <1>1, <2>1
  <1>6. ProgrammeType'
    <2>1. \A i \in Items : rows[i] # NoItem => i <= born
      BY <1>3
    <2>2. born' = born /\ born \in 0 .. Cardinality(Items) /\ openJobs' \subseteq ProgrammeJobs
      BY DEF ProgrammeInv, ProgrammeType
    <2> QED  BY <1>2, <1>3, <1>4, <1>5, <2>1, <2>2 DEF ProgrammeType, Held
  <1>7. ParentsHold(item)' /\ LinksHold(item, unvouched)'
    BY <1>2, <1>3
  <1>8. TemplateHolds'
    BY DEF ProgrammeInv, TemplateHolds
  <1>9. ItemsUndoneByRacersOnly'
    BY <1>2, <1>3 DEF ItemsUndoneByRacersOnly, Held
  <1>10. \A q \in Planners : Stands(plan[q], item, born)'
    BY <1>2, <1>4
  <1> QED  BY <1>6, <1>7, <1>8, <1>9, <1>10 DEF ProgrammeInv

LEMMA DeleteItemKeeps ==
    ASSUME ProgrammeInv, NEW r \in Planners, DeleteItem(r)
    PROVE  ProgrammeInv'
  <1>1. PICK i \in Items : Drop(Below({i}))
    BY DEF DeleteItem
  <1>2. EndPlan(r) /\ UNCHANGED <<born, template>> /\ openJobs' = openJobs
    BY DEF DeleteItem
  <1>3. \A k \in Items : Held(k) /\ item[k].job \notin openJobs' => k \in {i}
    BY <1>2, ProgrammeFacts
  <1>4. {i} \subseteq Items /\ openJobs' \subseteq openJobs
    BY <1>2
  <1> QED  BY <1>1, <1>2, <1>3, <1>4, DropKeeps

LEMMA CloseJobKeeps ==
    ASSUME ProgrammeInv, NEW r \in Planners, CloseJob(r)
    PROVE  ProgrammeInv'
  <1>1. PICK j \in openJobs : openJobs' = openJobs \ {j} /\ Drop(Below(ItemsOf(j)))
    BY DEF CloseJob
  <1>2. EndPlan(r) /\ UNCHANGED <<born, template>>
    BY DEF CloseJob
  <1>3. \A k \in Items : Held(k) /\ item[k].job \notin openJobs' => k \in ItemsOf(j)
    BY <1>1, ProgrammeFacts DEF ItemsOf
  <1>4. ItemsOf(j) \subseteq Items /\ openJobs' \subseteq openJobs
    BY <1>1 DEF ItemsOf
  <1> QED  BY <1>1, <1>2, <1>3, <1>4, DropKeeps

LEMMA RowOfType ==
    ASSUME NEW line \in PlanLine, NEW j \in ProgrammeJobs,
           NEW rows \in [Items -> Item \cup {NoItem}], born + 1 \in Items
    PROVE  /\ RowOf(line, j, rows) \in Item
           /\ RowOf(line, j, rows).job = j /\ RowOf(line, j, rows).kind = line.kind
           /\ RowOf(line, j, rows).parent = IF line.local # 0 THEN born + 1 ELSE line.parent
  <1> DEFINE x == IF line.local # 0 THEN born + 1 ELSE line.parent
             o == IF line.order # NoOrder THEN line.order ELSE NextInProgramme(rows, j)
  <1>1. x \in Items \cup {NoParent} /\ line.kind \in ItemType
    BY DEF PlanLine
  <1>2. o \in Int
    BY NextPlaceType DEF PlanLine
  <1>3. RowOf(line, j, rows) = [job |-> j, kind |-> line.kind, order |-> o, parent |-> x]
    BY DEF RowOf
  <1> HIDE DEF o
  <1>4. RowOf(line, j, rows) \in Item
    BY <1>1, <1>2, <1>3 DEF Item
  <1> QED  BY <1>3, <1>4

LEMMA InsertLinesKeeps ==
    ASSUME ProgrammeInv, NEW r \in Planners, InsertLines(r)
    PROVE  ProgrammeInv'
  <1> DEFINE p == plan[r]
             lines == p.lines
             j == p.job
             first == RowOf(lines[1], j, item)
             between == Inserted(item, <<first>>)
             second == RowOf(lines[2], j, between)
             new == IF Len(lines) = 1 THEN <<first>> ELSE <<first, second>>
             may == /\ j \in openJobs
                    /\ \A n \in 1..Len(lines) : lines[n].parent # NoParent => Held(lines[n].parent)
             L == Len(lines)
  <1>1. CASE ~may
    BY <1>1, EndsQuietly DEF InsertLines
  <1>2. CASE may
    <2>1. /\ item' = Inserted(item, new) /\ asked' = Inserted(asked, new)
          /\ born' = born + Len(new)
          /\ unvouched' = IF p.stale THEN unvouched \cup Ids(new) ELSE unvouched
          /\ plan' = AfterWrite(r, {}, {})
          /\ UNCHANGED <<openJobs, template, undone>>
      BY <1>2, Zenon DEF InsertLines
    <2>2. /\ p \in PlannerState /\ p.op = "create" /\ p.pc = "write"
          /\ CreateStands(p, item, born) /\ born + L <= Cardinality(Items)
      BY ProgrammeFacts DEF InsertLines, AtPlan
    <2>3. L \in {1, 2} /\ lines[1].local = 0 /\ \A n \in 1 .. L : lines[n] \in PlanLine
      <3>1. lines \in Seq(PlanLine)
        BY <2>2 DEF PlannerState
      <3>2. L \in {1, 2} /\ lines[1].local = 0
        BY <2>2 DEF CreateStands
      <3> QED  BY <3>1, <3>2, ElementOfSeq
    <2>4. \A n \in 1 .. L : n < p.next
      BY <2>2, <2>3 DEF CreateStands
    <2>5. born \in Nat /\ born + 1 \in Items /\ j \in ProgrammeJobs
      BY <2>2, <2>3, ProgrammeFacts, ItemsAreNumbers DEF CreateStands
    <2>6. /\ first \in Item /\ first.job = j /\ first.kind = lines[1].kind
          /\ first.parent = IF lines[1].local # 0 THEN born + 1 ELSE lines[1].parent
      <3>1. lines[1] \in PlanLine
        BY <2>3
      <3> HIDE DEF lines, j
      <3> QED  BY <2>5, <3>1, RowOfType, ProgrammeFacts
    <2> HIDE DEF first
    <2>7. between \in [Items -> Item \cup {NoItem}]
      <3>1. <<first>> \in Seq(Item) /\ Len(<<first>>) = 1
        BY <2>6
      <3>2. born + 1 <= Cardinality(Items)
        BY <2>5, ItemsAreNumbers
      <3> DEFINE one == <<first>>
      <3> HIDE DEF one
      <3>3. /\ \A i \in Ids(one) : one[i - born] \in Item
            /\ \A i \in Items : Inserted(item, one)[i] = IF i \in Ids(one) THEN one[i - born] ELSE item[i]
            /\ Inserted(item, one) = [i \in Items |-> Inserted(item, one)[i]]
        <4> DEFINE n == Len(one)
        <4>1. one \in Seq(Item) /\ n = 1
          BY <3>1 DEF one
        <4>2. born + n <= Cardinality(Items) /\ born \in Nat
          BY <2>5, <3>2, <4>1
        <4>3. /\ \A i \in Ids(one) : one[i - born] \in Item
              /\ \A rows : \A i \in Items :
                    Inserted(rows, one)[i] = IF i \in Ids(one) THEN one[i - born] ELSE rows[i]
              /\ \A rows : Inserted(rows, one) = [i \in Items |-> Inserted(rows, one)[i]]
          BY <4>1, <4>2, RowsInserted, Zenon
        <4> QED  BY <4>3, Zenon
      <3>4. item \in [Items -> Item \cup {NoItem}]
        BY ProgrammeFacts
      <3>5. \A i \in Items : Inserted(item, one)[i] \in Item \cup {NoItem}
        BY <3>3, <3>4
      <3>6. between = Inserted(item, one)
        BY DEF one
      <3> HIDE DEF between
      <3> QED  BY <3>3, <3>5, <3>6
    <2> HIDE DEF between
    <2>8. L = 2 => /\ second \in Item /\ second.job = j /\ second.kind = lines[2].kind
                   /\ second.parent = IF lines[2].local # 0 THEN born + 1 ELSE lines[2].parent
      <3> SUFFICES ASSUME L = 2
                   PROVE  /\ second \in Item /\ second.job = j /\ second.kind = lines[2].kind
                          /\ second.parent = IF lines[2].local # 0 THEN born + 1 ELSE lines[2].parent
        OBVIOUS
      <3>1. lines[2] \in PlanLine
        BY <2>3
      <3> HIDE DEF lines, j
      <3> QED  BY <2>5, <2>7, <3>1, RowOfType
    <2> HIDE DEF second
    <2>9. \A n \in 1 .. L : /\ new[n] \in Item /\ new[n].job = j /\ new[n].kind = lines[n].kind
                            /\ new[n].parent = IF lines[n].local # 0 THEN born + 1 ELSE lines[n].parent
      <3>1. CASE L = 1
        BY <2>6, <3>1
      <3>2. CASE L = 2
        BY <2>6, <2>8, <3>2
      <3> QED  BY <2>3, <3>1, <3>2
    <2>10. new \in Seq(Item) /\ Len(new) = L
      <3>1. CASE L = 1
        BY <2>6, <3>1
      <3>2. CASE L = 2
        BY <2>6, <2>8, <3>2
      <3> QED  BY <2>3, <3>1, <3>2
    <2> DEFINE doubts == IF p.stale THEN 1 .. L ELSE {}
    <2> HIDE DEF new
    <2>11. ASSUME NEW n \in 1 .. L, new[n].parent # NoParent
           PROVE  \/ /\ item[new[n].parent] # NoItem
                     /\ n \notin doubts =>
                          /\ item[new[n].parent].kind = "HEADER" /\ new[n].kind # "HEADER"
                          /\ item[new[n].parent].job = new[n].job
                  \/ \E m \in 1 .. L :
                        /\ new[n].parent = born + m
                        /\ n \notin doubts => /\ new[m].kind = "HEADER" /\ new[n].kind # "HEADER"
                                              /\ new[m].job = new[n].job
      <3>1. CASE lines[n].local # 0
        <4>1. lines[1].kind = "HEADER" /\ lines[n].kind # "HEADER"
          BY <2>2, <2>3, <2>4, <3>1 DEF CreateStands, PlanLine
        <4>2. 1 \in 1 .. L
          BY <2>3
        <4> QED  BY <2>9, <3>1, <4>1, <4>2
      <3>2. CASE lines[n].local = 0
        <4> DEFINE x == lines[n].parent
        <4>1. new[n].parent = x /\ x # NoParent
          BY <2>9, <2>11, <3>2
        <4>2. lines[n].kind # "HEADER" /\ (~p.stale => StillSuits(item, x, j))
          BY <2>2, <2>4, <4>1 DEF CreateStands
        <4>3. item[x] # NoItem
          BY <1>2, <4>1 DEF Held
        <4>4. p.stale => n \in doubts
          OBVIOUS
        <4> HIDE DEF x
        <4> QED  BY <2>9, <4>1, <4>2, <4>3, <4>4 DEF StillSuits
      <3> QED  BY <3>1, <3>2
    <2>12. unvouched' = unvouched \cup {born + k : k \in doubts}
      <3>1. Ids(new) = {born + k : k \in 1 .. L}
        BY <2>2, <2>10, RowsInserted, ProgrammeFacts
      <3> QED  BY <2>1, <3>1
    <2>13. doubts \subseteq 1 .. L /\ \A n \in 1 .. L : new[n].job \in openJobs
      BY <1>2, <2>9
    <2>14. /\ \A i \in Items : item[i] # NoItem => i <= born /\ item[i].job \in openJobs
           /\ unvouched \subseteq {i \in Items : item[i] # NoItem}
           /\ undone \subseteq {i \in Items : item[i] # NoItem}
           /\ \A i \in Items : item[i] # NoItem /\ i \notin undone => item[i] = asked[i]
           /\ ParentsHold(item) /\ LinksHold(item, unvouched)
           /\ item \in [Items -> Item \cup {NoItem}]
      BY DEF ProgrammeInv, ProgrammeType, ItemsUndoneByRacersOnly, Held
    <2> HIDE DEF doubts, p
    <2>15. new \in Seq(Item) /\ born + Len(new) <= Cardinality(Items) /\ Len(new) = L
      BY <2>2, <2>10
    <2>16. born' = born + L /\ undone' = undone /\ Follows(item, born, item, {}, {})
      BY <2>1, <2>15, RowsFollowThemselves
    <2> HIDE DEF L, may, lines, j
    <2>17. born + L <= Cardinality(Items) /\ Len(new) = L /\ new \in Seq(Item)
      BY <2>15
    <2>18. /\ item' = Inserted(item, new) /\ asked' = Inserted(asked, new)
           /\ plan' = AfterWrite(r, {}, {}) /\ UNCHANGED <<openJobs, template>>
      BY <2>1
    <2> QED  BY <2>11, <2>12, <2>13, <2>14, <2>16, <2>17, <2>18, InsertionKeeps
  <1> QED  BY <1>1, <1>2

LEMMA ApplyKeeps ==
    ASSUME ProgrammeInv, NEW r \in Planners, Apply(r)
    PROVE  ProgrammeInv'
  <1> DEFINE j == plan[r].job
             items == template.items
             gone == IF plan[r].replace /\ items # <<>> THEN Below(ItemsOf(j)) ELSE {}
             rows == Without(item, gone)
             base == NextInProgramme(rows, j)
             new == [k \in 1..Len(items) |->
                        [job |-> j, kind |-> items[k].kind, order |-> base + items[k].order,
                         parent |-> IF items[k].parent = 0 THEN NoParent ELSE born + items[k].parent]]
             L == Len(items)
             doubts == template.doubtful
             may == template # NoItem /\ j \in openJobs
  <1>1. CASE ~may
    BY <1>1, EndsQuietly DEF Apply
  <1>2. CASE may
    <2>1. /\ born + L <= Cardinality(Items)
          /\ item' = Inserted(rows, new) /\ asked' = Inserted(Without(asked, gone), new)
          /\ born' = born + L
          /\ unvouched' = (unvouched \ gone) \cup {born + k : k \in doubts}
          /\ undone' = undone \ gone
          /\ plan' = AfterWrite(r, {}, {}) /\ UNCHANGED <<openJobs, template>>
      BY <1>2, Zenon DEF Apply
    <2>2. /\ items \in Seq(TemplateItem) /\ doubts \subseteq 1 .. L
          /\ \A k \in 1 .. L :
                /\ items[k].parent \in 0 .. L
                /\ items[k].parent # 0 /\ k \notin doubts =>
                      items[items[k].parent].kind = "HEADER" /\ items[k].kind # "HEADER"
      BY <1>2 DEF ProgrammeInv, TemplateHolds, VouchedFor
    <2>3. L \in Nat /\ \A k \in 1 .. L : items[k] \in TemplateItem
      <3> DEFINE s == items
      <3>1. s \in Seq(TemplateItem)
        BY <2>2
      <3> HIDE DEF s
      <3>2. Len(s) \in Nat /\ \A k \in 1 .. Len(s) : s[k] \in TemplateItem
        BY <3>1, LenProperties, ElementOfSeq
      <3> QED  BY <3>2 DEF s
    <2>4. /\ gone \subseteq Items
          /\ \A k \in Items : Held(k) /\ item[k].parent \in gone => k \in gone
      <3>1. ItemsOf(j) \subseteq Items
        BY DEF ItemsOf
      <3> QED  BY <3>1, BelowCloses
    <2>5. j \in openJobs /\ j \in ProgrammeJobs
      BY <1>2, ProgrammeFacts
    <2> HIDE DEF gone, doubts, items, may
    <2>6. /\ rows \in [Items -> Item \cup {NoItem}]
          /\ \A i \in Items : rows[i] # NoItem => i <= born /\ item[i].job \in openJobs
                                                  /\ i \notin gone /\ rows[i] = item[i]
          /\ Follows(item, born, rows, {}, {})
          /\ ParentsHold(rows) /\ LinksHold(rows, unvouched \ gone)
          /\ unvouched \ gone \subseteq {i \in Items : rows[i] # NoItem}
          /\ undone \ gone \subseteq {i \in Items : rows[i] # NoItem}
          /\ \A i \in Items : rows[i] # NoItem /\ i \notin undone \ gone =>
                rows[i] = Without(asked, gone)[i]
      BY <2>4, RowsWithout
    <2> HIDE DEF rows, j
    <2>7. base \in Int
      BY <2>6, NextPlaceType
    <2>8. born \in Nat /\ \A k \in 1 .. L : born + k \in Items
      BY <2>1, <2>3, ProgrammeFacts, ItemsAreNumbers
    <2> HIDE DEF base
    <2>9. ASSUME NEW k \in 1 .. L
          PROVE  /\ new[k] \in Item /\ new[k].job = j /\ new[k].kind = items[k].kind
                 /\ new[k].parent = IF items[k].parent = 0 THEN NoParent ELSE born + items[k].parent
      <3> DEFINE x == IF items[k].parent = 0 THEN NoParent ELSE born + items[k].parent
                 o == base + items[k].order
                 kind == items[k].kind
      <3>1. items[k].parent # 0 => items[k].parent \in 1 .. L
        BY <2>2, <2>3
      <3>2. x \in Items \cup {NoParent}
        BY <2>8, <3>1
      <3>3. kind \in ItemType /\ o \in Int
        BY <2>3, <2>7 DEF TemplateItem
      <3>4. new[k] = [job |-> j, kind |-> kind, order |-> o, parent |-> x]
        OBVIOUS
      <3> HIDE DEF x, o, kind, new
      <3>5. new[k] \in Item /\ new[k].job = j /\ new[k].kind = kind /\ new[k].parent = x
        BY <2>5, <3>2, <3>3, <3>4 DEF Item
      <3> QED  BY <3>5 DEF x, kind
    <2>10. new \in Seq(Item) /\ Len(new) = L
      <3>1. new = [k \in 1 .. L |-> new[k]]
        OBVIOUS
      <3> HIDE DEF new
      <3>2. new \in Seq(Item)
        BY <2>3, <2>9, <3>1
      <3> HIDE DEF L
      <3> QED  BY <2>3, <3>1, <3>2
    <2> HIDE DEF new
    <2>11. ASSUME NEW k \in 1 .. L, new[k].parent # NoParent
           PROVE  \E n \in 1 .. L :
                     /\ new[k].parent = born + n
                     /\ k \notin doubts => /\ new[n].kind = "HEADER" /\ new[k].kind # "HEADER"
                                           /\ new[n].job = new[k].job
      <3> DEFINE n == items[k].parent
      <3>1. n # 0 /\ new[k].parent = born + n
        BY <2>9, <2>11
      <3>2. n \in 1 .. L
        BY <2>2, <2>3, <3>1
      <3>3. k \notin doubts => items[n].kind = "HEADER" /\ items[k].kind # "HEADER"
        BY <2>2, <3>1
      <3> HIDE DEF n
      <3>4. new[n].kind = items[n].kind /\ new[n].job = j /\ new[k].kind = items[k].kind /\ new[k].job = j
        BY <2>9, <3>2
      <3> QED  BY <3>1, <3>2, <3>3, <3>4
    <2> DEFINE unv == unvouched \ gone
               und == undone \ gone
               want == Without(asked, gone)
    <2>12. /\ \A i \in Items : rows[i] # NoItem => i <= born /\ rows[i].job \in openJobs
           /\ unv \subseteq {i \in Items : rows[i] # NoItem}
           /\ und \subseteq {i \in Items : rows[i] # NoItem}
           /\ \A i \in Items : rows[i] # NoItem /\ i \notin und => rows[i] = want[i]
           /\ LinksHold(rows, unv)
      BY <2>6
    <2>13. /\ item' = Inserted(rows, new) /\ asked' = Inserted(want, new)
           /\ born' = born + L /\ unvouched' = unv \cup {born + k : k \in doubts}
           /\ undone' = und
      BY <2>1
    <2>14. \A k \in 1 .. L : new[k].job \in openJobs
      BY <2>5, <2>9
    <2>15. doubts \subseteq 1 .. L /\ born + L <= Cardinality(Items)
      BY <2>1, <2>2
    <2>16. plan' = AfterWrite(r, {}, {}) /\ UNCHANGED <<openJobs, template>>
      BY <2>1
    <2> HIDE DEF unv, und, want, L
    <2>17. \A k \in 1 .. L : new[k].parent # NoParent =>
              \/ /\ rows[new[k].parent] # NoItem
                 /\ k \notin doubts =>
                      /\ rows[new[k].parent].kind = "HEADER" /\ new[k].kind # "HEADER"
                      /\ rows[new[k].parent].job = new[k].job
              \/ \E n \in 1 .. L :
                    /\ new[k].parent = born + n
                    /\ k \notin doubts => /\ new[n].kind = "HEADER" /\ new[k].kind # "HEADER"
                                          /\ new[n].job = new[k].job
      BY <2>11
    <2>18. /\ rows \in [Items -> Item \cup {NoItem}] /\ Follows(item, born, rows, {}, {})
           /\ ParentsHold(rows)
      BY <2>6
    <2> QED
      BY <2>10, <2>12, <2>13, <2>14, <2>15, <2>16, <2>17, <2>18, InsertionKeeps
  <1> QED  BY <1>1, <1>2

-----------------------------------------------------------------------------
(* One row written. *)

\* An item rewritten, its links vouched for or not.
LEMMA WritingKeeps ==
    ASSUME ProgrammeInv, NEW r \in Planners, NEW i \in Items, Held(i),
           NEW row \in Item, row.job = item[i].job, row.parent # NoParent => Held(row.parent),
           NEW retyped, row.kind # item[i].kind => i \in retyped,
           item' = [item EXCEPT ![i] = row], plan' = AfterWrite(r, {i}, retyped),
           UNCHANGED <<openJobs, born, template>>,
           unvouched' \subseteq {k \in Items : Held(k)}, undone' \subseteq {k \in Items : Held(k)},
           \A k \in Items : k # i /\ Held(k) /\ k \notin unvouched' =>
               k \notin unvouched /\ (row.kind # "HEADER" => item[k].parent # i),
           i \notin unvouched' /\ row.parent # NoParent =>
               /\ item[row.parent].kind = "HEADER" /\ item[row.parent].job = row.job
               /\ row.kind # "HEADER" /\ row.parent # i,
           asked' = [k \in Items |-> asked'[k]],
           \A k \in Items : k # i => asked'[k] = asked[k] /\ (k \notin undone' => k \notin undone),
           i \notin undone' => asked'[i] = row
    PROVE  ProgrammeInv'
  <1> DEFINE rows == [item EXCEPT ![i] = row]
  <1>1. /\ rows \in [Items -> Item \cup {NoItem}] /\ rows[i] = row
        /\ \A k \in Items : k # i => rows[k] = item[k]
        /\ row # NoItem
    BY ProgrammeFacts, NoItemIsNoRow
  <1>2. item' = rows
    OBVIOUS
  <1> HIDE DEF rows
  <1>3. \A k \in Items : rows[k] # NoItem <=> Held(k)
    BY <1>1 DEF Held
  <1>4. Follows(item, born, rows, {i}, retyped)
    BY <1>1, <1>3 DEF Follows, Held
  <1>5. born \in Nat /\ born <= born
    BY ProgrammeFacts
  <1>6. /\ plan' \in [Planners -> PlannerState]
        /\ \A q \in Planners : Stands(plan'[q], rows, born)
    BY <1>4, <1>5, OthersStand, ProgrammeFacts
  <1>7. \A k \in Items : rows[k] # NoItem => k <= born /\ rows[k].job \in openJobs
    BY <1>1, <1>3, ProgrammeFacts
  <1>8. ProgrammeType'
    <2>1. openJobs \subseteq ProgrammeJobs /\ born \in 0 .. Cardinality(Items)
      BY DEF ProgrammeInv, ProgrammeType
    <2>2. unvouched' \cup undone' \subseteq {k \in Items : rows[k] # NoItem}
      BY <1>3
    <2>3. born' = born /\ openJobs' = openJobs
      OBVIOUS
    <2>4. \A k \in Items : item'[k] # NoItem => k <= born /\ item'[k].job \in openJobs
      BY <1>2, <1>7
    <2>5. item' \in [Items -> Item \cup {NoItem}] /\ unvouched' \cup undone' \subseteq {k \in Items : Held(k)'}
      BY <1>1, <1>2, <2>2 DEF Held
    <2>6. openJobs' \subseteq ProgrammeJobs /\ born' \in 0 .. Cardinality(Items)
      BY <2>1, <2>3
    <2>7. \A k \in Items : Held(k)' => k <= born' /\ item'[k].job \in openJobs'
      BY <2>3, <2>4 DEF Held
    <2>8. plan' \in [Planners -> PlannerState] /\ asked' = [k \in Items |-> asked'[k]]
      BY <1>6
    <2> QED  BY <2>5, <2>6, <2>7, <2>8, Zenon DEF ProgrammeType
  <1>9. ParentsHold(rows)
    <2> SUFFICES ASSUME NEW k \in Items, rows[k] # NoItem, rows[k].parent # NoParent
                 PROVE  rows[rows[k].parent] # NoItem
      BY DEF ParentsHold
    <2>1. CASE k = i
      BY <1>1, <1>3, <2>1 DEF Item
    <2>2. CASE k # i
      <3>1. rows[k] = item[k] /\ item[k] \in Item /\ item[k].parent \in Items
        BY <1>1, <1>3, <2>2, ProgrammeFacts DEF Item
      <3>2. Held(item[k].parent)
        BY <1>3, <3>1 DEF ProgrammeInv, ParentsHold, Held
      <3> QED  BY <1>3, <3>1, <3>2
    <2> QED  BY <2>1, <2>2
  <1>10. LinksHold(rows, unvouched')
    <2> SUFFICES ASSUME NEW k \in Items, rows[k] # NoItem, rows[k].parent # NoParent,
                        k \notin unvouched'
                 PROVE  Legal(rows, k)
      BY DEF LinksHold
    <2>1. CASE k = i
      <3> DEFINE p == row.parent
      <3>1. /\ p # NoParent /\ p # i /\ item[p].kind = "HEADER" /\ item[p].job = row.job
            /\ row.kind # "HEADER"
        BY <1>1, <2>1
      <3>2. p \in Items
        BY <3>1 DEF Item
      <3> HIDE DEF p
      <3>3. rows[p] = item[p] /\ rows[p] # NoItem
        BY <1>1, <1>3, <3>1, <3>2 DEF p
      <3> QED  BY <1>1, <2>1, <3>1, <3>3 DEF Legal, p
    <2>2. CASE k # i
      <3>1. rows[k] = item[k] /\ Held(k) /\ k \notin unvouched
            /\ (row.kind # "HEADER" => item[k].parent # i)
        BY <1>1, <1>3, <2>2
      <3>2. item[k].parent \in Items /\ Legal(item, k)
        BY <3>1, ProgrammeFacts DEF ProgrammeInv, LinksHold, Held, Item
      <3> DEFINE p == item[k].parent
      <3>3. p \in Items /\ Held(p) /\ item[p].job = item[k].job
            /\ item[p].kind = "HEADER" /\ item[k].kind # "HEADER"
        BY <3>2 DEF Legal, Held
      <3>4. CASE p = i
        BY <1>1, <3>1, <3>3, <3>4 DEF Legal
      <3>5. CASE p # i
        BY <1>1, <1>3, <3>1, <3>3, <3>5 DEF Legal
      <3> QED  BY <3>4, <3>5
    <2> QED  BY <2>1, <2>2
  <1>11. TemplateHolds'
    BY DEF ProgrammeInv, TemplateHolds
  <1>12. ItemsUndoneByRacersOnly'
    <2>1. \A k \in Items : rows[k] # NoItem /\ k \notin undone' => rows[k] = asked'[k]
      BY <1>1, <1>3 DEF ProgrammeInv, ItemsUndoneByRacersOnly
    <2> QED  BY <1>2, <2>1 DEF ItemsUndoneByRacersOnly, Held
  <1>13. born' = born
    OBVIOUS
  <1> QED  BY <1>2, <1>6, <1>8, <1>9, <1>10, <1>11, <1>12, <1>13 DEF ProgrammeInv

LEMMA ReorderKeeps ==
    ASSUME ProgrammeInv, NEW r \in Planners, Reorder(r)
    PROVE  ProgrammeInv'
  <1> DEFINE q == plan[r]
             i == q.id
             order == q.input.order
             parent == q.input.parent
             row == Reordered(i, order, parent)
             may == Held(i) /\ (parent \in Items => parent # i /\ Held(parent))
  <1>1. CASE ~may
    BY <1>1, EndsQuietly DEF Reorder
  <1>2. CASE may
    <2>1. /\ item' = [item EXCEPT ![i] = row]
          /\ asked' = [asked EXCEPT ![i].order = order,
                                    ![i].parent = IF parent = NoItem THEN @ ELSE parent]
          /\ unvouched' = IF parent \in Items THEN unvouched \cup {i}
                          ELSE IF parent = NoParent THEN unvouched \ {i} ELSE unvouched
          /\ plan' = AfterWrite(r, {i}, {})
          /\ UNCHANGED <<openJobs, born, template, undone>>
      BY <1>2, Zenon DEF Reorder
    <2>2. /\ i \in Items /\ item[i] \in Item /\ order \in Int
          /\ parent \in Items \cup {NoParent, NoItem}
      <3>1. q \in PlannerState /\ Stands(q, item, born) /\ q.op = "reorder" /\ q.pc = "write"
        BY ProgrammeFacts DEF Reorder, AtPlan
      <3>2. i \in Items
        BY <3>1 DEF Stands
      <3> QED  BY <1>2, <3>1, <3>2, ProgrammeFacts DEF PlannerState, PlanInput
    <2> DEFINE was == item[i]
               p == IF parent = NoItem THEN was.parent ELSE parent
    <2>3. row = [was EXCEPT !.order = order, !.parent = p]
      BY DEF Reordered
    <2>4. p \in Items \cup {NoParent} /\ was \in Item
      BY <2>2 DEF Item
    <2>5. p # NoParent => Held(p)
      BY <1>2, <2>2, <2>4, ItemsAreNumbers DEF ProgrammeInv, ParentsHold, Held, Item
    <2>6. i \notin unvouched' /\ p # NoParent =>
             /\ item[p].kind = "HEADER" /\ item[p].job = was.job
             /\ was.kind # "HEADER" /\ p # i
      <3> SUFFICES ASSUME i \notin unvouched', p # NoParent
                   PROVE  /\ item[p].kind = "HEADER" /\ item[p].job = was.job
                          /\ was.kind # "HEADER" /\ p # i
        OBVIOUS
      <3>1. parent = NoItem /\ i \notin unvouched /\ p = was.parent
        BY <2>1, <2>2, ItemsAreNumbers
      <3>2. Legal(item, i)
        BY <1>2, <2>2, <3>1 DEF ProgrammeInv, LinksHold, Held
      <3> QED  BY <3>1, <3>2 DEF Legal
    <2>7. undone \subseteq {k \in Items : Held(k)} /\ unvouched \subseteq {k \in Items : Held(k)}
          /\ asked = [k \in Items |-> asked[k]]
      BY DEF ProgrammeInv, ProgrammeType
    <2>8. unvouched' \subseteq {k \in Items : Held(k)}
      BY <1>2, <2>1, <2>2, <2>7
    <2>9. \A k \in Items : k # i /\ k \notin unvouched' => k \notin unvouched
      BY <2>1
    <2>10. i \notin undone => asked[i] = was
      BY <1>2, <2>2 DEF ProgrammeInv, ItemsUndoneByRacersOnly
    <2> HIDE DEF was, p, row
    <2>11. /\ row \in Item /\ row.job = was.job /\ row.kind = was.kind /\ row.parent = p
           /\ row.order = order
      BY <2>2, <2>3, <2>4 DEF Item
    <2>12. /\ asked' = [k \in Items |-> asked'[k]]
           /\ \A k \in Items : k # i => asked'[k] = asked[k]
           /\ asked'[i] = [asked[i] EXCEPT !.order = order,
                                           !.parent = IF parent = NoItem THEN @ ELSE parent]
      BY <2>1, <2>2, <2>7
    <2>13. i \notin undone => asked'[i] = row
      <3> SUFFICES ASSUME i \notin undone PROVE asked'[i] = row
        OBVIOUS
      <3>1. asked'[i] = [was EXCEPT !.order = order, !.parent = IF parent = NoItem THEN @ ELSE parent]
        BY <2>10, <2>12
      <3> QED  BY <2>3, <2>4, <3>1 DEF p
    <2> HIDE DEF q, i, order, parent, may
    <2>14. row.kind # item[i].kind => i \in {}
      BY <2>11 DEF was
    <2>15. \A k \in Items : k # i /\ Held(k) /\ k \notin unvouched' =>
               k \notin unvouched /\ (row.kind # "HEADER" => item[k].parent # i)
      <3> SUFFICES ASSUME NEW k \in Items, k # i, Held(k), k \notin unvouched', row.kind # "HEADER"
                   PROVE  item[k].parent # i
        BY <2>9
      <3>1. item[k].parent # NoParent => Legal(item, k)
        BY <2>9 DEF ProgrammeInv, LinksHold, Held
      <3>2. i # NoParent
        BY <2>2, ItemsAreNumbers
      <3> QED  BY <2>11, <3>1, <3>2 DEF Legal, was
    <2>16. i \notin unvouched' /\ row.parent # NoParent =>
               /\ item[row.parent].kind = "HEADER" /\ item[row.parent].job = row.job
               /\ row.kind # "HEADER" /\ row.parent # i
      BY <2>6, <2>11
    <2>17. Held(i) /\ row.job = item[i].job /\ (row.parent # NoParent => Held(row.parent))
      BY <1>2, <2>5, <2>11 DEF may, was
    <2>18. \A k \in Items : k # i => asked'[k] = asked[k] /\ (k \notin undone' => k \notin undone)
      BY <2>1, <2>12
    <2>19. (i \notin undone' => asked'[i] = row) /\ undone' \subseteq {k \in Items : Held(k)}
      BY <2>1, <2>7, <2>13
    <2>20. /\ item' = [item EXCEPT ![i] = row] /\ plan' = AfterWrite(r, {i}, {})
           /\ UNCHANGED <<openJobs, born, template>>
           /\ i \in Items /\ row \in Item /\ asked' = [k \in Items |-> asked'[k]]
      BY <2>1, <2>2, <2>11, <2>12
    <2> QED
      BY <2>8, <2>14, <2>15, <2>16, <2>17, <2>18, <2>19, <2>20, WritingKeeps
  <1> QED  BY <1>1, <1>2

LEMMA WriteItemKeeps ==
    ASSUME ProgrammeInv, NEW r \in Planners, WriteItem(r)
    PROVE  ProgrammeInv'
  <1> DEFINE q == plan[r]
             i == q.id
             to == q.input
             row == [item[i] EXCEPT !.kind = IF to.kind = "" THEN @ ELSE to.kind,
                                    !.parent = to.parent, !.order = to.order]
             Named(old) == [job |-> old.job,
                            kind |-> IF "kind" \in q.names THEN row.kind ELSE old.kind,
                            parent |-> IF "parent" \in q.names THEN row.parent ELSE old.parent,
                            order |-> IF "order" \in q.names THEN row.order ELSE old.order]
             keeps == IF row.kind = "HEADER" THEN {} ELSE {x \in Items : Held(x) /\ item[x].parent = i}
             retyped == IF row.kind # item[i].kind THEN {i} ELSE {}
             may == Held(i) /\ (to.parent # NoParent => Held(to.parent))
  <1>1. CASE ~may
    BY <1>1, EndsQuietly DEF WriteItem
  <1>2. CASE may
    <2>1. /\ item' = [item EXCEPT ![i] = row]
          /\ unvouched' = (IF q.stale /\ row.parent # NoParent
                           THEN unvouched \cup {i} ELSE unvouched \ {i}) \cup keeps
          /\ undone' = IF q.outdated THEN undone \cup {i} ELSE undone
          /\ asked' = [asked EXCEPT ![i] = IF q.outdated THEN row ELSE Named(@)]
          /\ plan' = AfterWrite(r, {i}, retyped)
          /\ UNCHANGED <<openJobs, born, template>>
      BY <1>2, Zenon DEF WriteItem
    <2>2. /\ q \in PlannerState /\ UpdateStands(q, item, born) /\ q.op = "update" /\ q.pc = "write"
      BY ProgrammeFacts DEF WriteItem, AtPlan
    <2>3. /\ i \in Items /\ item[i] \in Item /\ to \in PlanInput /\ to.parent # NoItem
      BY <1>2, <2>2, ProgrammeFacts DEF UpdateStands, PlannerState
    <2> DEFINE was == item[i]
               kind == IF to.kind = "" THEN was.kind ELSE to.kind
    <2>4. kind \in ItemType /\ to.parent \in Items \cup {NoParent} /\ to.order \in Int
      BY <2>3 DEF PlanInput, Item
    <2>5. row = [was EXCEPT !.kind = kind, !.parent = to.parent, !.order = to.order]
      OBVIOUS
    <2>6. /\ q.kind \in ItemType /\ (to.kind # "" => q.kind = to.kind) /\ was.job = q.job
          /\ to.kind = "" /\ ~q.stale => was.kind = q.kind
          /\ to.parent # NoParent => /\ q.kind # "HEADER" /\ to.parent # i
                                     /\ ~q.stale => StillSuits(item, to.parent, q.job)
          /\ ~q.outdated => \A f \in Fields \ q.names : to[f] = was[f]
      BY <1>2, <2>2 DEF UpdateStands, Held
    <2>7. Held(i) /\ (to.parent # NoParent => Held(to.parent))
      BY <1>2
    <2>8. undone \subseteq {k \in Items : Held(k)} /\ unvouched \subseteq {k \in Items : Held(k)}
          /\ asked = [k \in Items |-> asked[k]]
      BY DEF ProgrammeInv, ProgrammeType
    <2>9. i \notin undone => asked[i] = was
      BY <2>3, <2>7 DEF ProgrammeInv, ItemsUndoneByRacersOnly
    <2> DEFINE p == to.parent
               o == to.order
    <2>10. /\ row \in Item /\ row.job = was.job /\ row.kind = kind /\ row.parent = p
           /\ row.order = o
      <3> HIDE DEF was, kind, row, p, o
      <3>1. row = [was EXCEPT !.kind = kind, !.parent = p, !.order = o] /\ was \in Item
        BY <2>3, <2>5 DEF was, p, o
      <3>2. kind \in ItemType /\ p \in Items \cup {NoParent} /\ o \in Int
        BY <2>4 DEF p, o
      <3> QED  BY <3>1, <3>2 DEF Item
    <2>11. i \notin unvouched' /\ p # NoParent =>
               item[p].kind = "HEADER" /\ item[p].job = was.job /\ kind # "HEADER" /\ p # i
      <3> SUFFICES ASSUME i \notin unvouched', p # NoParent
                   PROVE  item[p].kind = "HEADER" /\ item[p].job = was.job /\ kind # "HEADER" /\ p # i
        OBVIOUS
      <3>1. ~q.stale
        BY <2>1, <2>10 DEF p
      <3>2. StillSuits(item, p, q.job) /\ q.kind # "HEADER" /\ p # i
        BY <2>6, <3>1
      <3>3. kind = q.kind
        BY <2>6, <3>1
      <3> QED  BY <2>6, <2>7, <3>2, <3>3 DEF StillSuits, Held
    <2>12. \A k \in Items : k # i /\ Held(k) /\ k \notin unvouched' =>
               k \notin unvouched /\ (row.kind # "HEADER" => item[k].parent # i)
      <3> HIDE DEF row, q, i
      <3> QED  BY <2>1
    <2>13. unvouched' \subseteq {k \in Items : Held(k)}
      <3>1. keeps \subseteq {k \in Items : Held(k)}
        OBVIOUS
      <3> HIDE DEF keeps, row, q, i
      <3> QED  BY <2>1, <2>3, <2>7, <2>8, <3>1
    <2>14. /\ asked' = [k \in Items |-> asked'[k]]
           /\ \A k \in Items : k # i => asked'[k] = asked[k]
           /\ q.outdated => asked'[i] = row
           /\ ~q.outdated => asked'[i] = Named(asked[i])
      <3> HIDE DEF row, Named, i, q
      <3> QED  BY <2>1, <2>3, <2>8
    <2>15. i \notin undone' => asked'[i] = row
      <3> SUFFICES ASSUME i \notin undone', ~q.outdated PROVE asked'[i] = row
        BY <2>14
      <3>1. asked'[i] = Named(was)
        <4>1. i \notin undone
          BY <2>1
        <4>2. asked[i] = was /\ asked'[i] = Named(asked[i])
          BY <2>9, <2>14, <4>1
        <4> HIDE DEF Named, i, was
        <4> QED  BY <4>2, Zenon
      <3>2. /\ "parent" \notin q.names => p = was.parent
            /\ "order" \notin q.names => o = was.order
            /\ "kind" \notin q.names => kind = was.kind
        BY <2>6 DEF Fields
      <3>3. row = [job |-> was.job, kind |-> kind, parent |-> p, order |-> o]
        <4> HIDE DEF row, was, kind, p, o
        <4> QED  BY <2>10 DEF Item
      <3>4. Named(was) = [job |-> was.job, kind |-> kind, parent |-> p, order |-> o]
        <4>1. /\ (IF "kind" \in q.names THEN row.kind ELSE was.kind) = kind
              /\ (IF "parent" \in q.names THEN row.parent ELSE was.parent) = p
              /\ (IF "order" \in q.names THEN row.order ELSE was.order) = o
          <5> HIDE DEF row, was, kind, p, o, q
          <5> QED  BY <2>10, <3>2
        <4> QED  BY <4>1, Zenon
      <3> QED  BY <3>1, <3>3, <3>4, Zenon
    <2>16. undone' \subseteq {k \in Items : Held(k)} /\ undone \subseteq undone'
      BY <2>1, <2>3, <2>7, <2>8
    <2>17. row.kind # item[i].kind => i \in retyped
      OBVIOUS
    <2>18. i \notin unvouched' /\ row.parent # NoParent =>
               /\ item[row.parent].kind = "HEADER" /\ item[row.parent].job = row.job
               /\ row.kind # "HEADER" /\ row.parent # i
      <3> HIDE DEF row, was, kind, p
      <3> QED  BY <2>10, <2>11
    <2>19. Held(i) /\ row.job = item[i].job /\ (row.parent # NoParent => Held(row.parent))
      <3> HIDE DEF row
      <3> QED  BY <2>7, <2>10
    <2>20. /\ item' = [item EXCEPT ![i] = row] /\ plan' = AfterWrite(r, {i}, retyped)
           /\ UNCHANGED <<openJobs, born, template>>
           /\ i \in Items /\ row \in Item /\ asked' = [k \in Items |-> asked'[k]]
      BY <2>1, <2>3, <2>10, <2>14
    <2> HIDE DEF q, i, to, row, Named, keeps, retyped, may, was, kind, p, o
    <2>21. \A k \in Items : k # i => asked'[k] = asked[k] /\ (k \notin undone' => k \notin undone)
      BY <2>14, <2>16
    <2>22. undone' \subseteq {k \in Items : Held(k)}
      BY <2>16
    <2> QED
      BY <2>12, <2>13, <2>15, <2>17, <2>18, <2>19, <2>20, <2>21, <2>22, WritingKeeps
  <1> QED  BY <1>1, <1>2

-----------------------------------------------------------------------------
(* The theorems. *)

LEMMA ProgrammeInvInit == CallForwardInit => ProgrammeInv
  <1> SUFFICES ASSUME CallForwardInit PROVE ProgrammeInv
    OBVIOUS
  <1>1. PICK n \in 0..Filed : \E f \in Programmed(n) :
          /\ item = [i \in Items |-> IF i <= n THEN f[i] ELSE NoItem]
          /\ born = n
          /\ \/ template = NoItem
             \/ n > 0 /\ template = [items |-> Capture(f), doubtful |-> {}]
    BY DEF CallForwardInit
  <1>2. PICK f \in Programmed(n) :
          /\ item = [i \in Items |-> IF i <= n THEN f[i] ELSE NoItem]
          /\ born = n
          /\ \/ template = NoItem
             \/ n > 0 /\ template = [items |-> Capture(f), doubtful |-> {}]
    BY <1>1
  <1>3. n \in Nat /\ n <= Cardinality(Items) /\ 1 .. n \subseteq Items
    <2> DEFINE c == Cardinality(Items)
    <2>1. c \in Nat /\ Filed \in 0 .. c /\ \A i \in 1 .. c : i \in Items
      BY ItemsAreOrdered, ItemsAreNumbers
    <2> HIDE DEF c
    <2>2. n \in 0 .. c
      BY <2>1
    <2> QED  BY <2>1, <2>2 DEF c
  <1>4. /\ f \in [1 .. n -> [job : {FirstJob}, kind : Kinds, parent : 1 .. n \cup {NoParent}, order : 1 .. n]]
        /\ \A i \in 1 .. n : f[i].parent # NoParent =>
              ValidParent(i, f[i].kind, FirstJob, f[i].parent, f[f[i].parent].kind, FirstJob)
    BY DEF Programmed
  <1>5. FirstJob \in ProgrammeJobs
    BY InputsAreTyped DEF FirstJob
  <1>6. \A i \in 1 .. n :
           /\ f[i] \in [job : {FirstJob}, kind : Kinds, parent : 1 .. n \cup {NoParent}, order : 1 .. n]
           /\ f[i].job = FirstJob /\ f[i].kind \in ItemType /\ f[i].order \in Int
           /\ f[i].parent \in 1 .. n \cup {NoParent}
    BY <1>3, <1>4, InputsAreTyped
  <1>7. \A i \in 1 .. n : f[i] \in Item /\ f[i] # NoItem
    <2>1. \A i \in 1 .. n : f[i] \in Item
      BY <1>3, <1>5, <1>6 DEF Item
    <2> QED  BY <2>1, NoItemIsNoRow
  <1>8. \A i \in 1 .. n : f[i].parent # NoParent =>
           /\ f[i].parent \in 1 .. n /\ f[f[i].parent].kind = "HEADER" /\ f[i].kind # "HEADER"
    BY <1>4, <1>6 DEF ValidParent, CanParent
  <1>9. \A i \in Items : /\ i \in 1 .. n => item[i] = f[i]
                         /\ i \notin 1 .. n => item[i] = NoItem
    <2>1. \A i \in Items : i \in Nat \ {0}
      BY ItemsAreNumbers
    <2> QED  BY <1>2, <1>3, <2>1
  <1>10. \A i \in Items : Held(i) => /\ i \in 1 .. n /\ item[i] = f[i] /\ item[i] \in Item
                                     /\ i <= born /\ item[i].job = FirstJob
    BY <1>2, <1>3, <1>6, <1>7, <1>9 DEF Held
  <1>11. openJobs = ProgrammeJobs /\ unvouched = {} /\ undone = {} /\ asked = item
         /\ plan = [r \in Planners |-> NotPlanning]
    BY DEF CallForwardInit
  <1>12. item \in [Items -> Item \cup {NoItem}] /\ item = [i \in Items |-> item[i]]
    <2>1. item = [i \in Items |-> item[i]]
      BY <1>2
    <2> QED  BY <1>10, <2>1 DEF Held
  <1>13. ProgrammeType
    <2>1. born \in 0 .. Cardinality(Items)
      BY <1>2, <1>3, ItemsAreNumbers
    <2>2. plan \in [Planners -> PlannerState]
      BY <1>11, PlannedType
    <2> QED  BY <1>5, <1>10, <1>11, <1>12, <2>1, <2>2 DEF ProgrammeType
  <1>14. ASSUME NEW i \in Items, item[i] # NoItem, item[i].parent # NoParent
         PROVE  Legal(item, i)
    <2>1. i \in 1 .. n /\ item[i] = f[i] /\ item[i].job = FirstJob
      BY <1>10, <1>14 DEF Held
    <2> DEFINE p == f[i].parent
    <2>2. p \in 1 .. n /\ f[p].kind = "HEADER" /\ f[i].kind # "HEADER"
      BY <1>8, <1>14, <2>1
    <2>3. item[p] = f[p] /\ f[p] # NoItem /\ f[p].job = FirstJob
      BY <1>3, <1>6, <1>7, <1>9, <2>2
    <2> QED  BY <2>1, <2>2, <2>3 DEF Legal
  <1>15. ParentsHold(item) /\ LinksHold(item, unvouched)
    BY <1>14 DEF ParentsHold, LinksHold, Legal
  <1>16. TemplateHolds
    <2>1. CASE template = NoItem
      BY <2>1 DEF TemplateHolds
    <2>2. CASE template = [items |-> Capture(f), doubtful |-> {}]
      <3>1. DOMAIN f = 1 .. n
        BY <1>4
      <3>2. Rows(f)
        <4>1. IsFiniteSet(1 .. n)
          BY <1>3, FS_Interval
        <4>2. NoParent \notin 1 .. n
          BY <1>3, ItemsAreNumbers
        <4> QED  BY <1>3, <1>6, <3>1, <4>1, <4>2 DEF Rows
      <3>3. \A i \in DOMAIN f : f[i].kind \in ItemType
        BY <1>6, <3>1
      <3>4. \A i \in DOMAIN f : i \notin {} /\ f[i].parent \in DOMAIN f =>
               f[f[i].parent].kind = "HEADER" /\ f[i].kind # "HEADER"
        BY <1>3, <1>8, <3>1, ItemsAreNumbers
      <3>5. template.items = Capture(f) /\ template.doubtful = CopiesOf(f, {})
        BY <2>2 DEF CopiesOf
      <3>6. VouchedFor(template)
        BY <3>2, <3>3, <3>4, <3>5, CapturesHold
      <3> QED  BY <3>6 DEF TemplateHolds
    <2> QED  BY <1>2, <2>1, <2>2
  <1>17. \A r \in Planners : Stands(plan[r], item, born)
    BY <1>11 DEF NotPlanning, Stands, CreateStands, UpdateStands
  <1>18. ItemsUndoneByRacersOnly
    BY <1>11 DEF ItemsUndoneByRacersOnly
  <1> QED  BY <1>13, <1>15, <1>16, <1>17, <1>18 DEF ProgrammeInv

LEMMA ProgrammeInvNext == ProgrammeInv /\ [CallForwardNext]_callForwardVars => ProgrammeInv'
  <1> SUFFICES ASSUME ProgrammeInv, [CallForwardNext]_callForwardVars PROVE ProgrammeInv'
    OBVIOUS
  <1>1. ASSUME NEW r \in Planners, FailPlan(r) PROVE ProgrammeInv'
    BY <1>1, EndsQuietly DEF FailPlan
  <1>2. CASE UNCHANGED callForwardVars
    <2>1. /\ openJobs' = openJobs /\ item' = item /\ born' = born /\ template' = template
          /\ plan' = plan /\ unvouched' = unvouched /\ asked' = asked /\ undone' = undone
      BY <1>2 DEF callForwardVars
    <2> QED  BY <2>1 DEF ProgrammeInv, ProgrammeType, TemplateHolds, ItemsUndoneByRacersOnly, Held
  <1> QED
    BY <1>1, <1>2, CreateItemsKeeps, CheckLineKeeps, InsertLinesKeeps, PatchItemReadKeeps,
       FindItemKeeps, CheckParentKeeps, WriteItemKeeps, DeleteItemKeeps, CloseJobKeeps,
       ReorderFindKeeps, ReorderKeeps, CreateTemplateKeeps, DeleteTemplateKeeps, ApplyFindKeeps,
       ApplyKeeps DEF CallForwardNext

LEMMA ProgrammeInvariant == CallForwardSpec => []ProgrammeInv
  BY ProgrammeInvInit, ProgrammeInvNext, PTL DEF CallForwardSpec

(* Every id is given out once, rows belong to open jobs, and templates and   *)
(* requests are what the service makes of its inputs.                        *)
THEOREM ProgrammesAreSound == CallForwardSpec => []CallForwardTypeOK
  <1>1. ProgrammeInv => CallForwardTypeOK
    BY DEF ProgrammeInv, ProgrammeType, TemplateHolds, VouchedFor, PlannerState, CallForwardTypeOK
  <1> QED  BY <1>1, ProgrammeInvariant, PTL

(* However creates, partial updates, reorders, deletions, purges, captures   *)
(* and applied templates interleave, an item hangs under a HEADER of its job *)
(* unless a reorder named its parent, a type changed after it was checked,   *)
(* or it is a copy of such a one.                                            *)
THEOREM LinksAreVouchedFor == CallForwardSpec => []LinksVouchedFor
  <1>1. ProgrammeInv => LinksVouchedFor
    BY DEF ProgrammeInv, LinksHold, Legal, LinksVouchedFor, ValidParent, CanParent, Held
  <1> QED  BY <1>1, ProgrammeInvariant, PTL

(* Whatever requests have made of a programme, circles of parents and        *)
(* parents on other jobs included, capturing a job as a template puts every  *)
(* row of it in once, siblings in order, and what comes out can be applied   *)
(* exactly when there is no circle and no more of them than a template may   *)
(* hold.                                                                     *)
THEOREM CapturesLoseNoRow == CallForwardSpec => []CapturesAreFaithful
  <1>1. ProgrammeInv => CapturesAreFaithful
    BY RowsOfAJob, CapturesLoseNothing DEF ProgrammeInv, ProgrammeType, CapturesAreFaithful
  <1> QED  BY <1>1, ProgrammeInvariant, PTL

(* A field that nobody named in a patch is not changed by it, but for the    *)
(* patches that write back what they read before another one wrote.          *)
THEOREM ItemsAreAsAsked == CallForwardSpec => []ItemsUndoneByRacersOnly
  <1>1. ProgrammeInv => ItemsUndoneByRacersOnly
    BY DEF ProgrammeInv
  <1> QED  BY <1>1, ProgrammeInvariant, PTL

=============================================================================
