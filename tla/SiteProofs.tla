------------------------------ MODULE SiteProofs ------------------------------
(***************************************************************************)
(* What the reports promise of each other, and that a site's parts are     *)
(* what their own specifications say: every promise of a part holds of     *)
(* Site.  For every number of jobs, lines, supervisors, entries and days.  *)
(***************************************************************************)
EXTENDS Site, FieldProofs, CallForwardProofs, ServicesProofs

-----------------------------------------------------------------------------
(* SumsOver over a finite set, taken in any order. *)

AnyOf(s) == CHOOSE x \in s : TRUE

\* g sums f up over every subset of S.
SumsOver(f, S, g) ==
    g = [s \in SUBSET S |-> IF s = {} THEN 0 ELSE f[AnyOf(s)] + g[s \ {AnyOf(s)}]]

Total(f, S) == (CHOOSE g : SumsOver(f, S, g))[S]

\* What holds of the empty set, and of a set with one element more, holds of all.
LEMMA ByOneMore ==
    ASSUME NEW S, IsFiniteSet(S), NEW G, {} \in G,
           \A s \in SUBSET S : s # {} /\ (\A x \in s : s \ {x} \in G) => s \in G
    PROVE  SUBSET S \subseteq G
  <1> SUFFICES ASSUME NEW bad \in SUBSET S, bad \notin G PROVE FALSE
    OBVIOUS
  <1> DEFINE N == {Cardinality(s) : s \in (SUBSET S) \ G}
  <1>1. N # {} /\ N \subseteq Nat
    BY FS_Subset, FS_CardinalityType
  <1>2. PICK m \in N : \A n \in N : m <= n
    BY <1>1, LeastNumber
  <1>3. PICK s \in (SUBSET S) \ G : m = Cardinality(s)
    OBVIOUS
  <1>5. IsFiniteSet(s) /\ m \in Nat
    BY <1>1, FS_Subset
  <1>6. ASSUME NEW x \in s, s \ {x} \notin G PROVE FALSE
    <2>1. Cardinality(s \ {x}) = m - 1
      BY <1>3, <1>5, FS_RemoveElement
    <2>2. m - 1 \in N
      BY <1>6, <2>1
    <2> QED  BY <2>2, <1>2, <1>5
  <1>7. s # {}
    OBVIOUS
  <1> QED  BY <1>3, <1>6, <1>7

\* The sums of two functions agree where the functions do.
LEMMA SumsOverAgree ==
    ASSUME NEW S, IsFiniteSet(S), NEW f, NEW g, NEW A, S \subseteq A, SumsOver(f, A, g),
           NEW h, NEW k, NEW B, S \subseteq B, SumsOver(h, B, k), \A x \in S : f[x] = h[x]
    PROVE  g[S] = k[S]
  <1> DEFINE G == {s \in SUBSET S : g[s] = k[s]}
  <1>1. {} \in G
    BY DEF SumsOver
  <1>2. ASSUME NEW s \in SUBSET S, s # {}, \A y \in s : s \ {y} \in G PROVE s \in G
    <2>1. AnyOf(s) \in s
      BY <1>2 DEF AnyOf
    <2>2. g[s] = f[AnyOf(s)] + g[s \ {AnyOf(s)}]
      BY <1>2 DEF SumsOver
    <2>3. k[s] = h[AnyOf(s)] + k[s \ {AnyOf(s)}]
      BY <1>2 DEF SumsOver
    <2> QED  BY <2>1, <2>2, <2>3, <1>2
  <1>3. SUBSET S \subseteq G
    <2>1. \A s \in SUBSET S : s # {} /\ (\A y \in s : s \ {y} \in G) => s \in G
      BY <1>2
    <2> HIDE DEF G
    <2> QED  BY <1>1, <2>1, ByOneMore, Zenon
  <1> QED  BY <1>3

(* There is such a function, by a least number of elements without one. *)
LEMMA SumsOverExist ==
    ASSUME NEW S, IsFiniteSet(S), NEW f, \A x \in S : f[x] \in Int
    PROVE  \E g \in [SUBSET S -> Int] : SumsOver(f, S, g)
  <1> DEFINE
        Step(g) == [s \in SUBSET S |-> IF s = {} THEN 0 ELSE f[AnyOf(s)] + g[s \ {AnyOf(s)}]]
        Good(n, g) == \A s \in SUBSET S : Cardinality(s) <= n => g[s] = Step(g)[s]
        N == Cardinality(S)
        P == {n \in 0 .. N : \E g \in [SUBSET S -> Int] : Good(n, g)}
  <1>1. N \in Nat /\ \A s \in SUBSET S : IsFiniteSet(s) /\ Cardinality(s) \in 0 .. N
    BY FS_Subset, FS_CardinalityType
  <1>2. ASSUME NEW s \in SUBSET S, s # {}
        PROVE  /\ AnyOf(s) \in s /\ f[AnyOf(s)] \in Int
               /\ Cardinality(s \ {AnyOf(s)}) = Cardinality(s) - 1
    <2>1. AnyOf(s) \in s
      BY <1>2 DEF AnyOf
    <2> QED  BY <2>1, <1>1, FS_RemoveElement
  <1>3. 0 \in P
    <2> DEFINE g == [s \in SUBSET S |-> 0]
    <2>1. \A s \in SUBSET S : Cardinality(s) <= 0 => s = {}
      BY <1>1, FS_EmptySet
    <2>2. Good(0, g) /\ g \in [SUBSET S -> Int]
      BY <2>1
    <2>3. 0 \in 0 .. N
      BY <1>1
    <2> HIDE DEF Good, N
    <2> QED  BY <2>2, <2>3
  <1>4. ASSUME NEW t \in 1 .. N, t - 1 \in P PROVE t \in P
    <2>1. PICK g \in [SUBSET S -> Int] : Good(t - 1, g)
      BY <1>4
    <2>2. Step(g) \in [SUBSET S -> Int]
      BY <1>2
    <2>3. ASSUME NEW s \in SUBSET S, Cardinality(s) <= t PROVE Step(g)[s] = Step(Step(g))[s]
      <3>1. CASE s = {}
        BY <3>1
      <3>2. CASE s # {}
        <4>1. Cardinality(s \ {AnyOf(s)}) <= t - 1 /\ s \ {AnyOf(s)} \in SUBSET S
          BY <1>1, <1>2, <2>3, <3>2
        <4>2. g[s \ {AnyOf(s)}] = Step(g)[s \ {AnyOf(s)}]
          BY <2>1, <4>1
        <4> QED  BY <4>2, <3>2
      <3> QED  BY <3>1, <3>2
    <2>4. Good(t, Step(g))
      BY <2>3
    <2> HIDE DEF Good, Step, N
    <2> QED  BY <2>2, <2>4
  <1>5. N \in P
    <2> HIDE DEF P
    <2>1. P = 0 .. N
      <3>1. P \subseteq 0 .. N  BY DEF P
      <3> HIDE DEF N
      <3> QED  BY <3>1, <1>1, <1>3, <1>4, UpTo, Zenon
    <2> QED  BY <2>1, <1>1
  <1>6. PICK g \in [SUBSET S -> Int] : Good(N, g)
    BY <1>5
  <1>7. g = Step(g)
    <2>1. \A s \in SUBSET S : g[s] = Step(g)[s]
      <3> SUFFICES ASSUME NEW s \in SUBSET S PROVE g[s] = Step(g)[s]
        OBVIOUS
      <3>1. Cardinality(s) <= N
        BY <1>1
      <3> QED  BY <3>1, <1>6
    <2>2. g = [s \in SUBSET S |-> g[s]]
      OBVIOUS
    <2> QED  BY <2>1, <2>2
  <1> QED  BY <1>7 DEF SumsOver

LEMMA TotalIsSummed ==
    ASSUME NEW S, IsFiniteSet(S), NEW f, \A x \in S : f[x] \in Int
    PROVE  \E g \in [SUBSET S -> Int] : SumsOver(f, S, g) /\ Total(f, S) = g[S]
  <1>1. PICK g \in [SUBSET S -> Int] : SumsOver(f, S, g)
    BY SumsOverExist
  <1> DEFINE h == CHOOSE k : SumsOver(f, S, k)
  <1>2. SumsOver(f, S, h)
    BY <1>1
  <1>3. Total(f, S) = h[S]
    BY DEF Total
  <1> HIDE DEF h
  <1>4. h[S] = g[S]
    BY <1>1, <1>2, SumsOverAgree
  <1> QED  BY <1>1, <1>3, <1>4

LEMMA TotalType ==
    ASSUME NEW S, IsFiniteSet(S), NEW f, \A x \in S : f[x] \in Int
    PROVE  Total(f, S) \in Int
  <1>1. PICK g \in [SUBSET S -> Int] : Total(f, S) = g[S]
    BY TotalIsSummed
  <1> QED  BY <1>1

LEMMA TotalAgrees ==
    ASSUME NEW S, IsFiniteSet(S), NEW f, NEW h,
           \A x \in S : f[x] \in Int /\ h[x] = f[x]
    PROVE  Total(h, S) = Total(f, S)
  <1>1. PICK g \in [SUBSET S -> Int] : SumsOver(f, S, g) /\ Total(f, S) = g[S]
    BY TotalIsSummed
  <1>2. PICK k \in [SUBSET S -> Int] : SumsOver(h, S, k) /\ Total(h, S) = k[S]
    BY TotalIsSummed
  <1>3. g[S] = k[S]
    BY <1>1, <1>2, SumsOverAgree
  <1> QED  BY <1>1, <1>2, <1>3

LEMMA TotalOfNone == ASSUME NEW f PROVE Total(f, {}) = 0
  <1>1. PICK g \in [SUBSET {} -> Int] : SumsOver(f, {}, g) /\ Total(f, {}) = g[{}]
    BY TotalIsSummed, FS_EmptySet
  <1> QED  BY <1>1 DEF SumsOver

\* Every element may be taken first: by one more element at a time.
LEMMA TotalOfOneMore ==
    ASSUME NEW S, IsFiniteSet(S), NEW f, \A y \in S : f[y] \in Int, NEW x \in S
    PROVE  Total(f, S) = f[x] + Total(f, S \ {x})
  <1>1. PICK g \in [SUBSET S -> Int] : SumsOver(f, S, g) /\ Total(f, S) = g[S]
    BY TotalIsSummed
  <1>2. g[{}] = 0 /\ \A s \in SUBSET S : s # {} => g[s] = f[AnyOf(s)] + g[s \ {AnyOf(s)}]
    BY <1>1 DEF SumsOver
  <1> DEFINE G == {s \in SUBSET S : \A y \in s : g[s] = f[y] + g[s \ {y}]}
  <1>3. {} \in G
    OBVIOUS
  <1>4. ASSUME NEW s \in SUBSET S, s # {}, \A y \in s : s \ {y} \in G, NEW z \in s
        PROVE  g[s] = f[z] + g[s \ {z}]
    <2> DEFINE c == AnyOf(s)
    <2>1. c \in s /\ g[s] = f[c] + g[s \ {c}]
      BY <1>2, <1>4 DEF AnyOf
    <2> HIDE DEF c
    <2>2. CASE z = c
      BY <2>1, <2>2
    <2>3. CASE z # c
      <3>1. z \in s \ {c} /\ c \in s \ {z}
        BY <2>1, <2>3, <1>4
      <3>2. g[s \ {c}] = f[z] + g[(s \ {c}) \ {z}]
        BY <1>4, <2>1, <3>1
      <3>3. g[s \ {z}] = f[c] + g[(s \ {z}) \ {c}]
        BY <1>4, <2>1, <3>1
      <3>4. (s \ {c}) \ {z} = (s \ {z}) \ {c}
        OBVIOUS
      <3>5. f[c] \in Int /\ f[z] \in Int /\ g[(s \ {z}) \ {c}] \in Int
        BY <2>1
      <3> DEFINE rest == g[(s \ {z}) \ {c}]
      <3>6. g[s] = f[c] + (f[z] + rest) /\ g[s \ {z}] = f[c] + rest
        BY <2>1, <3>2, <3>3, <3>4
      <3> HIDE DEF rest
      <3> QED  BY <3>5, <3>6 DEF rest
    <2> QED  BY <2>2, <2>3
  <1>5. S \in G
    <2>1. \A s \in SUBSET S : s # {} /\ (\A y \in s : s \ {y} \in G) => s \in G
      BY <1>4
    <2> HIDE DEF G
    <2>2. SUBSET S \subseteq G
      BY <1>3, <2>1, ByOneMore, Zenon
    <2> QED  BY <2>2
  <1>6. PICK k \in [SUBSET (S \ {x}) -> Int] :
            SumsOver(f, S \ {x}, k) /\ Total(f, S \ {x}) = k[S \ {x}]
    BY TotalIsSummed, FS_RemoveElement
  <1>7. k[S \ {x}] = g[S \ {x}]
    <2> DEFINE R == S \ {x}
    <2>1. IsFiniteSet(R) /\ R \subseteq S /\ R \subseteq R
      BY FS_RemoveElement
    <2>2. SumsOver(f, R, k) /\ SumsOver(f, S, g)
      BY <1>1, <1>6
    <2> HIDE DEF R
    <2>3. \A y \in R : f[y] = f[y]
      OBVIOUS
    <2>4. k[R] = g[R]
      BY <2>1, <2>2, <2>3, SumsOverAgree
    <2> QED  BY <2>4 DEF R
  <1> QED  BY <1>1, <1>5, <1>6, <1>7

(* A sum is bounded by its greatest member as often as there are members. *)
LEMMA TotalIsBounded ==
    ASSUME NEW S, IsFiniteSet(S), NEW b \in Int, NEW f, \A x \in S : f[x] \in Int /\ f[x] <= b
    PROVE  Total(f, S) <= b * Cardinality(S)
  <1> DEFINE G == {s \in SUBSET S : Total(f, s) <= b * Cardinality(s)}
  <1>1. {} \in G
    BY TotalOfNone, FS_EmptySet
  <1>2. ASSUME NEW s \in SUBSET S, s # {}, \A y \in s : s \ {y} \in G PROVE s \in G
    <2>1. PICK x \in s : TRUE
      BY <1>2
    <2>2. IsFiniteSet(s) /\ IsFiniteSet(s \ {x})
      BY FS_Subset, FS_RemoveElement
    <2>3. Total(f, s) = f[x] + Total(f, s \ {x}) /\ Total(f, s \ {x}) \in Int
      BY <2>2, TotalOfOneMore, TotalType
    <2>4. Total(f, s \ {x}) <= b * Cardinality(s \ {x})
      BY <1>2
    <2>5. /\ Cardinality(s) \in Nat /\ Cardinality(s \ {x}) \in Nat
          /\ Cardinality(s \ {x}) = Cardinality(s) - 1
      BY <2>2, FS_RemoveElement, FS_CardinalityType
    <2>6. b * Cardinality(s) = b * Cardinality(s \ {x}) + b
      BY <2>5
    <2>7. f[x] \in Int /\ f[x] <= b
      OBVIOUS
    <2>8. b * Cardinality(s) \in Int /\ b * Cardinality(s \ {x}) \in Int
      BY <2>5
    <2> QED  BY <2>3, <2>4, <2>6, <2>7, <2>8
  <1>3. S \in G
    <2>1. \A s \in SUBSET S : s # {} /\ (\A y \in s : s \ {y} \in G) => s \in G
      BY <1>2
    <2> HIDE DEF G
    <2>2. SUBSET S \subseteq G
      BY <1>1, <2>1, ByOneMore, Zenon
    <2> QED  BY <2>2
  <1> QED  BY <1>3

LEMMA TotalOfNaturals ==
    ASSUME NEW S, IsFiniteSet(S), NEW f, \A x \in S : f[x] \in Nat
    PROVE  Total(f, S) \in Nat
  <1> DEFINE G == {s \in SUBSET S : Total(f, s) \in Nat}
  <1>1. {} \in G
    BY TotalOfNone
  <1>2. ASSUME NEW s \in SUBSET S, s # {}, \A y \in s : s \ {y} \in G PROVE s \in G
    <2>1. PICK x \in s : TRUE
      BY <1>2
    <2>2. IsFiniteSet(s)
      BY FS_Subset
    <2>3. Total(f, s) = f[x] + Total(f, s \ {x})
      BY <2>2, TotalOfOneMore
    <2>4. Total(f, s \ {x}) \in Nat
      BY <1>2
    <2> QED  BY <2>3, <2>4
  <1>3. S \in G
    <2>1. \A s \in SUBSET S : s # {} /\ (\A y \in s : s \ {y} \in G) => s \in G
      BY <1>2
    <2> HIDE DEF G
    <2>2. SUBSET S \subseteq G
      BY <1>1, <2>1, ByOneMore, Zenon
    <2> QED  BY <2>2
  <1> QED  BY <1>3

LEMMA CountsAddUp ==
    ASSUME NEW A, IsFiniteSet(A), NEW B, IsFiniteSet(B), A \cap B = {}
    PROVE  /\ IsFiniteSet(A \cup B)
           /\ Cardinality(A \cup B) = Cardinality(A) + Cardinality(B)
  <1>1. Cardinality(A \cup B) = Cardinality(A) + Cardinality(B) - Cardinality(A \cap B)
    BY FS_Union
  <1>2. Cardinality(A) \in Nat /\ Cardinality(B) \in Nat /\ Cardinality(A \cap B) = 0
    BY FS_CardinalityType, FS_EmptySet
  <1> QED  BY <1>1, <1>2, FS_Union

\* What a set of pairs holds is what it holds for each first member.
LEMMA PairsAreSummed ==
    ASSUME NEW S, IsFiniteSet(S), NEW T, IsFiniteSet(T), NEW D \in [S -> SUBSET T],
           NEW f, \A x \in S : f[x] = Cardinality(D[x])
    PROVE  Cardinality({p \in S \X T : p[2] \in D[p[1]]}) = Total(f, S)
  <1> DEFINE Pairs(s) == {p \in S \X T : p[1] \in s /\ p[2] \in D[p[1]]}
             G == {s \in SUBSET S : Cardinality(Pairs(s)) = Total(f, s)}
  <1>1. {} \in G
    <2>1. Pairs({}) = {}
      OBVIOUS
    <2> QED  BY <2>1, TotalOfNone, FS_EmptySet
  <1>2. \A s \in SUBSET S : IsFiniteSet(Pairs(s))
    <2>1. IsFiniteSet(S \X T)
      BY FS_Product
    <2> QED  BY <2>1, FS_Subset
  <1>3. ASSUME NEW s \in SUBSET S, s # {}, \A y \in s : s \ {y} \in G PROVE s \in G
    <2>1. PICK x \in s : TRUE
      BY <1>3
    <2> DEFINE One == {x} \X D[x]
    <2>2. IsFiniteSet(D[x]) /\ IsFiniteSet(One) /\ Cardinality(One) = Cardinality(D[x])
      <3>1. IsFiniteSet(D[x])
        BY FS_Subset
      <3>2. IsFiniteSet({x}) /\ Cardinality({x}) = 1
        BY FS_Singleton
      <3>3. Cardinality(D[x]) \in Nat
        BY <3>1, FS_CardinalityType
      <3>4. IsFiniteSet(One) /\ Cardinality(One) = Cardinality({x}) * Cardinality(D[x])
        BY <3>1, <3>2, FS_Product
      <3> HIDE DEF One
      <3> QED  BY <3>1, <3>2, <3>3, <3>4
    <2>3. Pairs(s) = Pairs(s \ {x}) \cup One /\ Pairs(s \ {x}) \cap One = {}
      <3>1. \A p : p \in Pairs(s) <=> p \in Pairs(s \ {x}) \/ p \in One
        OBVIOUS
      <3>2. \A p : ~(p \in Pairs(s \ {x}) /\ p \in One)
        OBVIOUS
      <3> HIDE DEF Pairs, One
      <3> QED  BY <3>1, <3>2
    <2>4. IsFiniteSet(Pairs(s \ {x}))
      BY <1>2
    <2>5. Cardinality(Pairs(s \ {x})) = Total(f, s \ {x})
      BY <1>3
    <2>6. IsFiniteSet(s) /\ IsFiniteSet(s \ {x})
      BY FS_Subset, FS_RemoveElement
    <2>7. \A y \in S : f[y] \in Int
      BY FS_Subset, FS_CardinalityType
    <2>8. Total(f, s) = f[x] + Total(f, s \ {x})
      BY <2>6, <2>7, TotalOfOneMore
    <2> HIDE DEF Pairs, One
    <2>9. Cardinality(Pairs(s)) = Cardinality(Pairs(s \ {x})) + Cardinality(One)
      BY <2>2, <2>3, <2>4, CountsAddUp
    <2>10. Cardinality(One) \in Nat /\ Cardinality(Pairs(s \ {x})) \in Nat
      BY <2>2, <2>4, FS_CardinalityType
    <2> QED  BY <2>2, <2>5, <2>8, <2>9, <2>10
  <1>4. S \in G
    <2>1. \A s \in SUBSET S : s # {} /\ (\A y \in s : s \ {y} \in G) => s \in G
      BY <1>3
    <2> HIDE DEF G
    <2>2. SUBSET S \subseteq G
      BY <1>1, <2>1, ByOneMore, Zenon
    <2> QED  BY <2>2
  <1>5. Pairs(S) = {p \in S \X T : p[2] \in D[p[1]]}
    OBVIOUS
  <1> QED  BY <1>4, <1>5

-----------------------------------------------------------------------------
(* The working days of a span. *)

Weekdays(first, last) == {d \in first .. last : ~Weekend(d)}

LEMMA DayNumbers == FirstSaturday \in Nat /\ RecentDays \in Nat /\ Filings \in Nat
  BY ReportDays

\* Of any seven days two are a weekend.
LEMMA FiveAWeek ==
    ASSUME NEW first \in Int
    PROVE  Cardinality(Weekdays(first, first + 6)) = 5
  <1> DEFINE r == (first - FirstSaturday) % 7
             sat == first + (IF r = 0 THEN 0 ELSE 7 - r)
             sun == first + (IF r = 0 THEN 1 ELSE IF r = 1 THEN 0 ELSE 8 - r)
             week == first .. first + 6
  <1>1. FirstSaturday \in Int
    BY DayNumbers
  <1>2. r \in 0 .. 6
    BY <1>1
  <1>3. \A d \in week : (d - FirstSaturday) % 7 = IF r + (d - first) < 7 THEN r + (d - first)
                                                  ELSE r + (d - first) - 7
    BY <1>1
  <1>4. {sat, sun} \subseteq week /\ sat # sun
    <2> HIDE DEF r
    <2> QED  BY <1>2
  <1>5. \A d \in week : Weekend(d) <=> d \in {sat, sun}
    <2> SUFFICES ASSUME NEW d \in week PROVE Weekend(d) <=> d = sat \/ d = sun
      OBVIOUS
    <2>1. Weekend(d) <=> LET k == IF r + (d - first) < 7 THEN r + (d - first)
                                  ELSE r + (d - first) - 7
                         IN  k = 0 \/ k = 1
      BY <1>3 DEF Weekend
    <2> HIDE DEF r
    <2> QED  BY <2>1, <1>2
  <1> HIDE DEF sat, sun, r
  <1>6. Weekdays(first, first + 6) = (week \ {sat}) \ {sun}
    BY <1>5 DEF Weekdays
  <1>7. IsFiniteSet(week) /\ Cardinality(week) = 7
    BY FS_Interval
  <1> HIDE DEF week
  <1>8. IsFiniteSet(week \ {sat}) /\ Cardinality(week \ {sat}) = 6
    BY <1>4, <1>7, FS_RemoveElement
  <1>9. Cardinality((week \ {sat}) \ {sun}) = 5
    BY <1>4, <1>8, FS_RemoveElement
  <1> QED  BY <1>6, <1>9

LEMMA WeekdaysAddUp ==
    ASSUME NEW first \in Int, NEW mid \in Int, NEW last \in Int, first <= mid + 1, mid <= last
    PROVE  Cardinality(Weekdays(first, last)) =
               Cardinality(Weekdays(first, mid)) + Cardinality(Weekdays(mid + 1, last))
  <1> DEFINE A == Weekdays(first, mid)
             B == Weekdays(mid + 1, last)
  <1>1. Weekdays(first, last) = A \cup B /\ A \cap B = {}
    <2>1. \A d \in Int : d \in first .. last <=> d \in first .. mid \/ d \in mid + 1 .. last
      OBVIOUS
    <2>2. \A d \in Int : ~(d \in first .. mid /\ d \in mid + 1 .. last)
      OBVIOUS
    <2>3. first .. last \subseteq Int /\ first .. mid \subseteq Int /\ mid + 1 .. last \subseteq Int
      OBVIOUS
    <2> QED  BY <2>1, <2>2, <2>3, Zenon DEF Weekdays
  <1>2. IsFiniteSet(A) /\ IsFiniteSet(B)
    <2>1. IsFiniteSet(first .. mid) /\ IsFiniteSet(mid + 1 .. last)
      BY FS_Interval
    <2>2. A \subseteq first .. mid /\ B \subseteq mid + 1 .. last
      BY DEF Weekdays
    <2> QED  BY <2>1, <2>2, FS_Subset
  <1> HIDE DEF A, B
  <1>3. Cardinality(A \cup B) = Cardinality(A) + Cardinality(B)
    BY <1>1, <1>2, CountsAddUp
  <1> QED  BY <1>1, <1>3 DEF A, B

LEMMA FiveTimesTheWeeks ==
    ASSUME NEW first \in Int, NEW weeks \in Nat
    PROVE  Cardinality(Weekdays(first, first + 7 * weeks - 1)) = 5 * weeks
  <1> DEFINE Count(n) == Cardinality(Weekdays(first, first + 7 * n - 1))
             P == {n \in 0 .. weeks : Count(n) = 5 * n}
  <1>1. 0 \in P
    <2>1. Weekdays(first, first + 7 * 0 - 1) = {}
      BY DEF Weekdays
    <2> QED  BY <2>1, FS_EmptySet
  <1>2. ASSUME NEW t \in 1 .. weeks, t - 1 \in P PROVE t \in P
    <2> DEFINE mid == first + 7 * (t - 1) - 1
    <2>1. /\ mid \in Int /\ first <= mid + 1 /\ mid <= first + 7 * t - 1
          /\ first + 7 * t - 1 = (mid + 1) + 6 /\ mid + 1 \in Int /\ first + 7 * t - 1 \in Int
      OBVIOUS
    <2>2. Cardinality(Weekdays(first, mid)) = 5 * (t - 1)
      BY <1>2
    <2> HIDE DEF mid
    <2>3. Count(t) = Cardinality(Weekdays(first, mid)) + Cardinality(Weekdays(mid + 1, first + 7 * t - 1))
      BY <2>1, WeekdaysAddUp
    <2>4. Cardinality(Weekdays(mid + 1, first + 7 * t - 1)) = 5
      BY <2>1, FiveAWeek
    <2>5. Count(t) = 5 * t
      BY <2>2, <2>3, <2>4
    <2> QED  BY <2>5
  <1>3. P = 0 .. weeks
    <2>1. P \subseteq 0 .. weeks
      OBVIOUS
    <2> HIDE DEF P
    <2> QED  BY <2>1, <1>1, <1>2, UpTo, Zenon
  <1>4. weeks \in P
    <2> HIDE DEF P
    <2> QED  BY <1>3
  <1> QED  BY <1>4

(* However many weeks a span has, what is left of it is counted day by day. *)
LEMMA SpansAreCounted ==
    ASSUME NEW first \in Int, NEW last \in Int
    PROVE  WorkingDays(first, last) = Cardinality(Weekdays(first, last))
  <1>1. CASE first > last
    <2>1. Weekdays(first, last) = {}
      BY <1>1 DEF Weekdays
    <2> QED  BY <1>1, <2>1, FS_EmptySet DEF WorkingDays
  <1>2. CASE ~(first > last)
    <2> DEFINE weeks == (last - first + 1) \div 7
               mid == first + 7 * weeks - 1
    <2>1. weeks \in Nat /\ 7 * weeks <= last - first + 1
      BY <1>2
    <2>2. WorkingDays(first, last) = 5 * weeks + Cardinality(Weekdays(first + 7 * weeks, last))
      BY <1>2 DEF WorkingDays, Weekdays
    <2> HIDE DEF weeks
    <2>3. Cardinality(Weekdays(first, mid)) = 5 * weeks
      BY <2>1, FiveTimesTheWeeks
    <2>4. mid \in Int /\ mid + 1 = first + 7 * weeks /\ first <= mid + 1 /\ mid <= last
      BY <2>1
    <2> HIDE DEF mid
    <2>5. Cardinality(Weekdays(first, last)) =
              Cardinality(Weekdays(first, mid)) + Cardinality(Weekdays(mid + 1, last))
      BY <2>4, WeekdaysAddUp
    <2> QED  BY <2>2, <2>3, <2>4, <2>5
  <1> QED  BY <1>1, <1>2

-----------------------------------------------------------------------------
(* Quotients, and the grades made of them. *)

LEMMA ProductsGrow ==
    ASSUME NEW b \in Nat, NEW x \in Int, NEW y \in Int, x <= y
    PROVE  b * x <= b * y
  <1>1. PICK k \in Nat : y = x + k
    <2>1. y - x \in Nat /\ y = x + (y - x)
      OBVIOUS
    <2> QED  BY <2>1
  <1>2. b * k \in Nat /\ b * x \in Int
    OBVIOUS
  <1>3. b * y = b * x + b * k
    BY <1>1
  <1> QED  BY <1>2, <1>3

LEMMA Quotient ==
    ASSUME NEW a \in Nat, NEW b \in Nat \ {0}
    PROVE  a \div b \in Nat /\ b * (a \div b) <= a /\ a < b * (a \div b) + b
  OBVIOUS

LEMMA QuotientAtMost ==
    ASSUME NEW a \in Nat, NEW b \in Nat \ {0}, NEW k \in Int, a < b * k + b
    PROVE  a \div b <= k
  <1> DEFINE q == a \div b
  <1>1. q \in Nat /\ b * q <= a
    BY Quotient
  <1> HIDE DEF q
  <1>2. q <= k
    <2> SUFFICES ASSUME ~(q <= k) PROVE FALSE
      OBVIOUS
    <2>1. b * (k + 1) <= b * q
      BY <1>1, ProductsGrow
    <2>2. b * (k + 1) = b * k + b /\ b * k \in Int /\ b * q \in Int
      BY <1>1
    <2> QED  BY <1>1, <2>1, <2>2
  <1> QED  BY <1>2 DEF q

LEMMA QuotientAtLeast ==
    ASSUME NEW a \in Nat, NEW b \in Nat \ {0}, NEW k \in Int, b * k <= a
    PROVE  k <= a \div b
  <1> DEFINE q == a \div b
  <1>1. q \in Nat /\ a < b * q + b
    BY Quotient
  <1> HIDE DEF q
  <1>2. k <= q
    <2> SUFFICES ASSUME ~(k <= q) PROVE FALSE
      OBVIOUS
    <2>1. b * (q + 1) <= b * k
      BY <1>1, ProductsGrow
    <2>2. b * (q + 1) = b * q + b /\ b * k \in Int /\ b * q \in Int
      BY <1>1
    <2> QED  BY <1>1, <2>1, <2>2
  <1> QED  BY <1>2 DEF q

(* A rounded quotient. *)
LEMMA RoundedType ==
    ASSUME NEW a \in Nat, NEW b \in Nat \ {0}
    PROVE  RoundedDiv(a, b) \in Nat
  <1>1. 2 * a + b \in Nat /\ 2 * b \in Nat \ {0}
    OBVIOUS
  <1> QED  BY <1>1, Quotient DEF RoundedDiv

LEMMA RoundedAtMost ==
    ASSUME NEW a \in Nat, NEW b \in Nat \ {0}, NEW k \in Int, a <= k * b
    PROVE  RoundedDiv(a, b) <= k
  <1>1. k * b \in Int /\ (2 * b) * k = 2 * (k * b)
    OBVIOUS
  <1>2. 2 * a + b < (2 * b) * k + 2 * b
    <2> DEFINE p == k * b
               t == (2 * b) * k
    <2>1. p \in Int /\ t = 2 * p /\ a <= p
      BY <1>1
    <2> HIDE DEF p, t
    <2>2. 2 * a + b < t + 2 * b
      BY <2>1
    <2> QED  BY <2>2 DEF t
  <1>3. 2 * a + b \in Nat /\ 2 * b \in Nat \ {0}
    OBVIOUS
  <1> QED  BY <1>2, <1>3, QuotientAtMost DEF RoundedDiv

\* More of the same is not less.
LEMMA RoundedGrows ==
    ASSUME NEW a \in Nat, NEW c \in Nat, NEW b \in Nat \ {0}, a <= c
    PROVE  RoundedDiv(a, b) <= RoundedDiv(c, b)
  <1> DEFINE q == (2 * a + b) \div (2 * b)
  <1>1. 2 * a + b \in Nat /\ 2 * b \in Nat \ {0} /\ 2 * c + b \in Nat
    OBVIOUS
  <1>2. q \in Nat /\ (2 * b) * q <= 2 * a + b
    BY <1>1, Quotient
  <1> HIDE DEF q
  <1>3. (2 * b) * q <= 2 * c + b
    <2>1. (2 * b) * q \in Int
      BY <1>2
    <2> QED  BY <1>2, <2>1
  <1>4. q <= (2 * c + b) \div (2 * b)
    BY <1>1, <1>2, <1>3, QuotientAtLeast
  <1> QED  BY <1>4 DEF q, RoundedDiv

\* A part of more is not more.
LEMMA RoundedShrinks ==
    ASSUME NEW a \in Nat, NEW b \in Nat \ {0}, NEW c \in Nat \ {0}, b <= c
    PROVE  RoundedDiv(a, c) <= RoundedDiv(a, b)
  <1> DEFINE q == (2 * a + c) \div (2 * c)
  <1>1. /\ 2 * a + c \in Nat /\ 2 * c \in Nat \ {0}
        /\ 2 * a + b \in Nat /\ 2 * b \in Nat \ {0}
    OBVIOUS
  <1>2. q \in Nat /\ (2 * c) * q <= 2 * a + c
    BY <1>1, Quotient
  <1> HIDE DEF q
  <1>3. (2 * b) * q <= 2 * a + b
    <2>1. CASE q = 0
      BY <2>1
    <2>2. CASE q # 0
      <3>1. 2 * q - 1 \in Nat
        BY <1>2, <2>2
      <3>2. (2 * q - 1) * b <= (2 * q - 1) * c
        BY <3>1, ProductsGrow
      <3>3. (2 * q - 1) * c = (2 * c) * q - c /\ (2 * q - 1) * b = (2 * b) * q - b
        BY <1>2
      <3>4. (2 * c) * q \in Int /\ (2 * b) * q \in Int
        BY <1>2
      <3> QED  BY <1>2, <3>2, <3>3, <3>4
    <2> QED  BY <2>1, <2>2
  <1>4. q <= (2 * a + b) \div (2 * b)
    BY <1>1, <1>2, <1>3, QuotientAtLeast
  <1> QED  BY <1>4 DEF q, RoundedDiv

LEMMA MinOfTwo ==
    ASSUME NEW x \in Int, NEW y \in Int
    PROVE  Min({x, y}) = IF x <= y THEN x ELSE y
  <1> DEFINE m == IF x <= y THEN x ELSE y
  <1>1. m \in {x, y} /\ \A z \in {x, y} : m <= z
    OBVIOUS
  <1>2. \A n \in {x, y} : (\A z \in {x, y} : n <= z) => n = m
    BY <1>1
  <1> HIDE DEF m
  <1>3. Min({x, y}) = m
    BY <1>1, <1>2 DEF Min
  <1> QED  BY <1>3 DEF m

LEMMA BlankIsNoNumber == \A n \in Int : n # Blank
  BY NullIsNoValue

LEMMA PercentageType ==
    ASSUME NEW part \in Nat, NEW whole \in Nat
    PROVE  Percentage(part, whole) \in Nat /\ (part <= whole => Percentage(part, whole) \in 0 .. 100)
  <1>1. CASE whole = 0
    BY <1>1 DEF Percentage
  <1>2. CASE whole # 0
    <2>1. Percentage(part, whole) = RoundedDiv(100 * part, whole) /\ 100 * part \in Nat
      BY <1>2 DEF Percentage
    <2>2. RoundedDiv(100 * part, whole) \in Nat
      BY <1>2, <2>1, RoundedType
    <2>3. part <= whole => RoundedDiv(100 * part, whole) <= 100
      BY <1>2, RoundedAtMost
    <2> QED  BY <2>1, <2>2, <2>3
  <1> QED  BY <1>1, <1>2

LEMMA PercentageGrows ==
    ASSUME NEW part \in Nat, NEW more \in Nat, NEW whole \in Nat, part <= more
    PROVE  Percentage(part, whole) <= Percentage(more, whole)
  <1>1. CASE whole = 0
    BY <1>1 DEF Percentage
  <1>2. CASE whole # 0
    <2>1. 100 * part \in Nat /\ 100 * more \in Nat /\ 100 * part <= 100 * more
      OBVIOUS
    <2>2. RoundedDiv(100 * part, whole) <= RoundedDiv(100 * more, whole)
      BY <1>2, <2>1, RoundedGrows
    <2> QED  BY <1>2, <2>2 DEF Percentage
  <1> QED  BY <1>1, <1>2

Mark == 0 .. 100 \cup {Blank}

LEMMA RateType ==
    ASSUME NEW part \in Nat, NEW whole \in Nat, part <= whole
    PROVE  Rate(part, whole) \in Mark
  BY PercentageType DEF Rate, Mark

LEMMA ComplianceType ==
    ASSUME NEW actual \in Nat, NEW expected \in Nat
    PROVE  /\ DiaryCompliance(actual, expected) \in Mark
           /\ DiaryCompliance(actual, expected) = Blank <=> expected = 0
  <1> DEFINE p == Percentage(actual, expected)
  <1>1. p \in Nat
    BY PercentageType
  <1> HIDE DEF p
  <1>2. Min({p, 100}) \in 0 .. 100
    <2>1. Min({p, 100}) = IF p <= 100 THEN p ELSE 100
      BY <1>1, MinOfTwo
    <2> QED  BY <1>1, <2>1
  <1>3. DiaryCompliance(actual, expected) = IF expected <= 0 THEN Blank ELSE Min({p, 100})
    BY DEF DiaryCompliance, p
  <1>4. Min({p, 100}) # Blank
    BY <1>2, BlankIsNoNumber
  <1> QED  BY <1>2, <1>3, <1>4 DEF Mark

LEMMA ComplianceGrows ==
    ASSUME NEW actual \in Nat, NEW more \in Nat, NEW expected \in Nat \ {0}, actual <= more
    PROVE  DiaryCompliance(actual, expected) <= DiaryCompliance(more, expected)
  <1> DEFINE p == Percentage(actual, expected)
             q == Percentage(more, expected)
  <1>1. p \in Nat /\ q \in Nat /\ p <= q
    BY PercentageType, PercentageGrows
  <1> HIDE DEF p, q
  <1>2. Min({p, 100}) <= Min({q, 100})
    <2>1. /\ Min({p, 100}) = IF p <= 100 THEN p ELSE 100
          /\ Min({q, 100}) = IF q <= 100 THEN q ELSE 100
      BY <1>1, MinOfTwo
    <2> QED  BY <1>1, <2>1
  <1> QED  BY <1>2 DEF DiaryCompliance, p, q

LEMMA ComplianceFalls ==
    ASSUME NEW actual \in Nat, NEW expected \in Nat \ {0}, NEW more \in Nat, expected <= more
    PROVE  DiaryCompliance(actual, more) <= DiaryCompliance(actual, expected)
  <1> DEFINE p == Percentage(actual, expected)
             q == Percentage(actual, more)
  <1>1. p \in Nat /\ q \in Nat
    BY PercentageType
  <1>2. q <= p
    <2>1. 100 * actual \in Nat /\ more \in Nat \ {0}
      OBVIOUS
    <2> QED  BY <2>1, RoundedShrinks DEF Percentage
  <1> HIDE DEF p, q
  <1>3. Min({q, 100}) <= Min({p, 100})
    <2>1. /\ Min({p, 100}) = IF p <= 100 THEN p ELSE 100
          /\ Min({q, 100}) = IF q <= 100 THEN q ELSE 100
      BY <1>1, MinOfTwo
    <2> QED  BY <1>1, <1>2, <2>1
  <1> QED  BY <1>3 DEF DiaryCompliance, p, q

\* What a rate counts for, and the share of the work that is on track.
Counting(rate) == IF rate = Blank THEN 50 ELSE rate

OnTrack(total, delayed) == IF total > 0 THEN Percentage(total - delayed, total) ELSE 100

LEMMA ScoreIs ==
    ASSUME NEW completion, NEW start, NEW diary, NEW total, NEW delayed
    PROVE  PerformanceScore(completion, start, diary, total, delayed) =
               35 * Counting(completion) + 25 * Counting(start) + 25 * Counting(diary)
                   + 15 * OnTrack(total, delayed)
  BY DEF PerformanceScore, Counting, OnTrack

LEMMA CountingType ==
    ASSUME NEW rate \in Mark
    PROVE  Counting(rate) \in 0 .. 100
  BY BlankIsNoNumber DEF Counting, Mark

LEMMA OnTrackType ==
    ASSUME NEW total \in Nat, NEW delayed \in 0 .. total
    PROVE  OnTrack(total, delayed) \in 0 .. 100
  <1> DEFINE part == total - delayed
  <1>1. part \in Nat /\ part <= total
    OBVIOUS
  <1>2. OnTrack(total, delayed) = IF total > 0 THEN Percentage(part, total) ELSE 100
    BY DEF OnTrack
  <1> HIDE DEF part
  <1>3. Percentage(part, total) \in 0 .. 100
    BY <1>1, PercentageType
  <1> QED  BY <1>2, <1>3

LEMMA OnTrackFalls ==
    ASSUME NEW total \in Nat, NEW delayed \in 0 .. total, NEW more \in delayed .. total
    PROVE  OnTrack(total, more) <= OnTrack(total, delayed)
  <1>1. total - delayed \in Nat /\ total - more \in Nat /\ total - more <= total - delayed
    OBVIOUS
  <1>2. Percentage(total - more, total) <= Percentage(total - delayed, total)
    BY <1>1, PercentageGrows
  <1> QED  BY <1>2 DEF OnTrack

LEMMA ScoreType ==
    ASSUME NEW completion \in Mark, NEW start \in Mark,
           NEW diary \in Mark, NEW total \in Nat, NEW delayed \in 0 .. total
    PROVE  LET score == PerformanceScore(completion, start, diary, total, delayed)
           IN  score \in Int /\ 0 <= score /\ score <= 10000
  <1>1. Counting(completion) \in 0 .. 100 /\ Counting(start) \in 0 .. 100 /\ Counting(diary) \in 0 .. 100
    BY CountingType
  <1>2. OnTrack(total, delayed) \in 0 .. 100
    BY OnTrackType
  <1> DEFINE c == Counting(completion)
             s == Counting(start)
             d == Counting(diary)
             o == OnTrack(total, delayed)
  <1>3. PerformanceScore(completion, start, diary, total, delayed) = 35 * c + 25 * s + 25 * d + 15 * o
    BY ScoreIs
  <1>4. c \in 0 .. 100 /\ s \in 0 .. 100 /\ d \in 0 .. 100 /\ o \in 0 .. 100
    BY <1>1, <1>2
  <1> HIDE DEF c, s, d, o
  <1> QED  BY <1>3, <1>4

LEMMA ScoreFalls ==
    ASSUME NEW completion \in Mark, NEW start \in Mark,
           NEW diary \in Mark, NEW worse \in Mark,
           Counting(worse) <= Counting(diary),
           NEW total \in Nat, NEW delayed \in 0 .. total, NEW more \in delayed .. total
    PROVE  PerformanceScore(completion, start, worse, total, more) <=
               PerformanceScore(completion, start, diary, total, delayed)
  <1>1. /\ Counting(completion) \in 0 .. 100 /\ Counting(start) \in 0 .. 100
        /\ Counting(diary) \in 0 .. 100 /\ Counting(worse) \in 0 .. 100
    BY CountingType
  <1>2. more \in 0 .. total
    OBVIOUS
  <1>3. OnTrack(total, delayed) \in 0 .. 100 /\ OnTrack(total, more) \in 0 .. 100
    BY <1>2, OnTrackType
  <1>4. OnTrack(total, more) <= OnTrack(total, delayed)
    BY OnTrackFalls
  <1> DEFINE c == Counting(completion)
             s == Counting(start)
             d == Counting(diary)
             w == Counting(worse)
             o == OnTrack(total, delayed)
             m == OnTrack(total, more)
  <1>5. /\ PerformanceScore(completion, start, diary, total, delayed) = 35 * c + 25 * s + 25 * d + 15 * o
        /\ PerformanceScore(completion, start, worse, total, more) = 35 * c + 25 * s + 25 * w + 15 * m
    BY ScoreIs
  <1>6. /\ c \in Int /\ s \in Int /\ d \in Int /\ w \in Int /\ o \in Int /\ m \in Int
        /\ w <= d /\ m <= o
    BY <1>1, <1>3, <1>4
  <1> HIDE DEF c, s, d, w, o, m
  <1> QED  BY <1>5, <1>6

-----------------------------------------------------------------------------
(* The sums the reports take. *)

LEMMA SumOfMembers ==
    ASSUME NEW S, NEW f
    PROVE  MapThenSumSet(LAMBDA x : f[x], S) = Total(f, S)
  BY Zenon DEF MapThenSumSet, MapThenFoldSet, Total, SumsOver, AnyOf

LEMMA SumOfLateness ==
    ASSUME NEW S
    PROVE  MapThenSumSet(LAMBDA l : today - line[l].est_finish, S) =
               Total([l \in S |-> today - line[l].est_finish], S)
  <1> DEFINE f == [l \in S |-> today - line[l].est_finish]
             Run(g) == [s \in SUBSET S |-> IF s = {} THEN 0
                            ELSE today - line[AnyOf(s)].est_finish + g[s \ {AnyOf(s)}]]
  <1>1. ASSUME NEW s \in SUBSET S, s # {} PROVE f[AnyOf(s)] = today - line[AnyOf(s)].est_finish
    BY <1>1 DEF AnyOf
  <1>2. ASSUME NEW g PROVE SumsOver(f, S, g) <=> g = Run(g)
    <2>1. Run(g) = [s \in SUBSET S |-> IF s = {} THEN 0 ELSE f[AnyOf(s)] + g[s \ {AnyOf(s)}]]
      BY <1>1
    <2> QED  BY <2>1 DEF SumsOver
  <1>3. Total(f, S) = (CHOOSE g : g = Run(g))[S]
    BY <1>2, Zenon DEF Total
  <1> QED  BY <1>3, Zenon DEF MapThenSumSet, MapThenFoldSet, AnyOf

LEMMA SumOfDelayDays ==
    ASSUME NEW S
    PROVE  MapThenSumSet(LAMBDA l : DelayOf(l).delay_days, S) =
               Total([l \in S |-> DelayOf(l).delay_days], S)
  <1> DEFINE f == [l \in S |-> DelayOf(l).delay_days]
             Run(g) == [s \in SUBSET S |-> IF s = {} THEN 0
                            ELSE DelayOf(AnyOf(s)).delay_days + g[s \ {AnyOf(s)}]]
  <1>1. ASSUME NEW s \in SUBSET S, s # {} PROVE f[AnyOf(s)] = DelayOf(AnyOf(s)).delay_days
    BY <1>1 DEF AnyOf
  <1>2. ASSUME NEW g PROVE SumsOver(f, S, g) <=> g = Run(g)
    <2>1. Run(g) = [s \in SUBSET S |-> IF s = {} THEN 0 ELSE f[AnyOf(s)] + g[s \ {AnyOf(s)}]]
      BY <1>1
    <2> QED  BY <2>1 DEF SumsOver
  <1>3. Total(f, S) = (CHOOSE g : g = Run(g))[S]
    BY <1>2, Zenon DEF Total
  <1> QED  BY <1>3, Zenon DEF MapThenSumSet, MapThenFoldSet, AnyOf

LEMMA SumOfRain ==
    ASSUME NEW S
    PROVE  MapThenSumSet(LAMBDA i : WeatherRow(book.entries[i]).rain, S) =
               Total([i \in S |-> WeatherRow(book.entries[i]).rain], S)
  <1> DEFINE f == [i \in S |-> WeatherRow(book.entries[i]).rain]
             Run(g) == [s \in SUBSET S |-> IF s = {} THEN 0
                            ELSE WeatherRow(book.entries[AnyOf(s)]).rain + g[s \ {AnyOf(s)}]]
  <1>1. ASSUME NEW s \in SUBSET S, s # {} PROVE f[AnyOf(s)] = WeatherRow(book.entries[AnyOf(s)]).rain
    BY <1>1 DEF AnyOf
  <1>2. ASSUME NEW g PROVE SumsOver(f, S, g) <=> g = Run(g)
    <2>1. Run(g) = [s \in SUBSET S |-> IF s = {} THEN 0 ELSE f[AnyOf(s)] + g[s \ {AnyOf(s)}]]
      BY <1>1
    <2> QED  BY <2>1 DEF SumsOver
  <1>3. Total(f, S) = (CHOOSE g : g = Run(g))[S]
    BY <1>2, Zenon DEF Total
  <1> QED  BY <1>3, Zenon DEF MapThenSumSet, MapThenFoldSet, AnyOf

LEMMA SumOfSpans ==
    ASSUME NEW S, NEW q
    PROVE  MapThenSumSet(LAMBDA j : WorkingDays(JobWindow(j, q).first, JobWindow(j, q).last), S) =
               Total([j \in S |-> WorkingDays(JobWindow(j, q).first, JobWindow(j, q).last)], S)
  <1> DEFINE f == [j \in S |-> WorkingDays(JobWindow(j, q).first, JobWindow(j, q).last)]
             Run(g) == [s \in SUBSET S |-> IF s = {} THEN 0
                            ELSE WorkingDays(JobWindow(AnyOf(s), q).first, JobWindow(AnyOf(s), q).last) + g[s \ {AnyOf(s)}]]
  <1>1. ASSUME NEW s \in SUBSET S, s # {} PROVE f[AnyOf(s)] = WorkingDays(JobWindow(AnyOf(s), q).first, JobWindow(AnyOf(s), q).last)
    BY <1>1 DEF AnyOf
  <1>2. ASSUME NEW g PROVE SumsOver(f, S, g) <=> g = Run(g)
    <2>1. Run(g) = [s \in SUBSET S |-> IF s = {} THEN 0 ELSE f[AnyOf(s)] + g[s \ {AnyOf(s)}]]
      BY <1>1
    <2> QED  BY <2>1 DEF SumsOver
  <1>3. Total(f, S) = (CHOOSE g : g = Run(g))[S]
    BY <1>2, Zenon DEF Total
  <1> QED  BY <1>3, Zenon DEF MapThenSumSet, MapThenFoldSet, AnyOf

-----------------------------------------------------------------------------
(* The tables of the reports: the inductive invariant. *)

LedgerInv == ReportsInv /\ ReportsTypeOK

LEMMA LedgerTypes ==
    ASSUME LedgerInv
    PROVE  /\ line \in [Lines -> Line] /\ \A l \in Lines : Validate(line[l])
           /\ today \in 1 .. LastDay /\ dbToday \in 1 .. LastDay /\ LastDay \in Nat
           /\ book.project \in [Projects -> Project] /\ book.entries \in Seq(Entry)
           /\ book.active \subseteq Crew /\ Len(book.entries) \in Nat
           /\ \A j \in Projects : Ordered(book.project[j].start, book.project[j].finish)
  BY DatesAreDays DEF LedgerInv, ReportsInv, ReportingTypeOK, ReportsTypeOK, Tables, IsBook

LEMMA ProjectType ==
    ASSUME NEW p \in Project
    PROVE  /\ p.status \in {"active", "completed", "archived", "on_hold"}
           /\ p.start \in Dates /\ p.finish \in Dates
           /\ p.supervisor \in Crew \cup {Blank} /\ p.assigned \subseteq Crew
  BY DEF Project

LEMMA EntryType ==
    ASSUME NEW e \in Entry
    PROVE  /\ e.project \in Projects /\ e.date \in 1 .. LastDay /\ e.author \in Crew \cup {Blank}
           /\ e.notes \in Text /\ e.columns \in Text
           /\ e.condition \in {"", "fine", "rain", "storm"} /\ e.rain \in 0 .. 20
  BY DEF Entry

LEMMA LedgerInvInit == ReportsInit => LedgerInv
  <1> SUFFICES ASSUME ReportsInit PROVE LedgerInv
    OBVIOUS
  <1>1. book \in Tables /\ IsBook(book) /\ Len(book.entries) <= Filings
    BY BooksAreBooks DEF ReportsInit
  <1>2. line \in [Lines -> Line] /\ \A l \in Lines : Validate(line[l])
    BY <1>1 DEF ReportsInit, Tables, IsBook
  <1>3. today \in 1 .. LastDay /\ dbToday \in 1 .. LastDay
    BY DatesAreDays DEF ReportsInit
  <1> QED  BY <1>1, <1>2, <1>3 DEF LedgerInv, ReportsInv, ReportingTypeOK, ReportsTypeOK

LEMMA LedgerInvNext == LedgerInv /\ [ReportsNext]_reportsVars => LedgerInv'
  <1> SUFFICES ASSUME LedgerInv, [ReportsNext]_reportsVars PROVE LedgerInv'
    OBVIOUS
  <1>1. ASSUME NEW u \in Crew, NEW j \in Projects, NEW date \in Dates, FileEntry(u, j, date)
        PROVE  LedgerInv'
    <2> DEFINE e == [project |-> j, date |-> OrElse(date, today), author |-> u,
                     notes |-> [safety |-> FALSE, issues |-> ""],
                     columns |-> [safety |-> TRUE, issues |-> ""],
                     condition |-> "fine", rain |-> 0]
    <2>1. book' = [book EXCEPT !.entries = Append(book.entries, e)] /\ Len(book.entries) < Filings
          /\ UNCHANGED <<line, today, dbToday>>
      BY <1>1 DEF FileEntry
    <2>2. OrElse(date, today) \in 1 .. LastDay
      BY LedgerTypes, DatesType DEF OrElse
    <2>3. e \in Entry
      BY <2>2 DEF Entry, Text
    <2> HIDE DEF e
    <2>4. Append(book.entries, e) \in Seq(Entry) /\ Len(Append(book.entries, e)) <= Filings
      BY <2>1, <2>3, LedgerTypes, DayNumbers
    <2>5. book \in Tables /\ IsBook(book)
      BY DEF LedgerInv, ReportsTypeOK
    <2>6. /\ book' \in Tables /\ book'.project = book.project /\ book'.line = book.line
          /\ book'.entries = Append(book.entries, e)
      BY <2>1, <2>4, <2>5 DEF Tables
    <2>7. IsBook(book')
      BY <2>5, <2>6 DEF IsBook
    <2> QED  BY <2>1, <2>4, <2>6, <2>7 DEF LedgerInv, ReportsInv, ReportingTypeOK, ReportsTypeOK
  <1>2. CASE NextDay
    BY <1>2, LedgerTypes DEF NextDay, Tomorrow, LedgerInv, ReportsInv, ReportingTypeOK, ReportsTypeOK
  <1>3. CASE NextDatabaseDay
    BY <1>3, LedgerTypes
    DEF NextDatabaseDay, DatabaseMidnight, LedgerInv, ReportsInv, ReportingTypeOK, ReportsTypeOK
  <1>4. CASE UNCHANGED reportsVars
    BY <1>4 DEF reportsVars, LedgerInv, ReportsInv, ReportingTypeOK, ReportsTypeOK
  <1> QED  BY <1>1, <1>2, <1>3, <1>4 DEF ReportsNext

-----------------------------------------------------------------------------
(* Who asks about what. *)

LEMMA NoDateSet == ~IsSet(NoDate) /\ \A n \in Int : IsSet(n)
  BY NullIsNoValue DEF IsSet

Unbounded(q) == ~IsSet(q.from) /\ ~IsSet(q.to)

LEMMA Queries ==
    /\ AnyQuery.job = Blank /\ AnyQuery.supervisor = Blank /\ AnyQuery.author = Blank
    /\ Unbounded(AnyQuery)
    /\ \A u : LET q == [AnyQuery EXCEPT !.supervisor = u]
             IN  q.job = Blank /\ q.supervisor = u /\ q.author = Blank /\ Unbounded(q)
    /\ \A j : LET q == [AnyQuery EXCEPT !.job = j]
             IN  q.job = j /\ q.supervisor = Blank /\ q.author = Blank /\ Unbounded(q)
  BY NoDateSet DEF AnyQuery, Unbounded

LEMMA JobScopes ==
    /\ JobScope(Office) = Projects
    /\ \A u \in Crew : JobScope(u) = ProjectsOf(u)
    /\ \A s : JobScope(s) \subseteq Projects
  BY NamesAreNames DEF JobScope, ProjectsOf

LEMMA ReportScopes ==
    ASSUME NEW s, NEW q, Ordered(q.from, q.to)
    PROVE  /\ q.job = Blank => ReportScope(s, q) = JobScope(s)
           /\ q.job # Blank /\ q.job \in JobScope(s) => ReportScope(s, q) = {q.job}
  BY DEF ReportScope, Prepare

LEMMA UnboundedQueries ==
    ASSUME NEW q, Unbounded(q)
    PROVE  Ordered(q.from, q.to) /\ \A date : Within(date, q)
  BY DEF Unbounded, Ordered, Within

LEMMA SupervisorScopes ==
    ASSUME NEW s, NEW q, Unbounded(q), q.job = Blank
    PROVE  SupervisorJobs(s, q) =
               {j \in JobScope(s) : q.supervisor = Blank \/ Responsible(q.supervisor, j)}
  BY ReportScopes, UnboundedQueries DEF SupervisorJobs

\* The reports on lines, without a range.
LEMMA LineReports ==
    ASSUME NEW s, NEW q, Unbounded(q)
    PROVE  /\ DelayReport(s, q) = Delays \cap LinesOf(SupervisorJobs(s, q))
           /\ UpcomingReport(s, q) = UpcomingTasks \cap LinesOf(SupervisorJobs(s, q))
           /\ StageClaims(s, q) = {l \in LinesOf(SupervisorJobs(s, q)) : line[l].type = "STAGE_CLAIM"}
  BY UnboundedQueries, Zenon DEF DelayReport, UpcomingReport, StageClaims

LEMMA OwnAndFiltered ==
    ASSUME NEW u \in Crew
    PROVE  /\ SupervisorJobs(u, AnyQuery) = ProjectsOf(u)
           /\ SupervisorJobs(Office, [AnyQuery EXCEPT !.supervisor = u]) = ProjectsOf(u)
  <1>1. SupervisorJobs(u, AnyQuery) = {j \in JobScope(u) : TRUE}
    BY Queries, SupervisorScopes
  <1>2. SupervisorJobs(Office, [AnyQuery EXCEPT !.supervisor = u]) =
            {j \in JobScope(Office) : u = Blank \/ Responsible(u, j)}
    <2> DEFINE q == [AnyQuery EXCEPT !.supervisor = u]
    <2>1. Unbounded(q) /\ q.job = Blank /\ q.supervisor = u
      BY Queries
    <2> HIDE DEF q
    <2>2. SupervisorJobs(Office, q) =
              {j \in JobScope(Office) : q.supervisor = Blank \/ Responsible(q.supervisor, j)}
      BY <2>1, SupervisorScopes
    <2>3. SupervisorJobs(Office, q) = {j \in JobScope(Office) : u = Blank \/ Responsible(u, j)}
      BY <2>1, <2>2
    <2> QED  BY <2>3 DEF q
  <1>3. u # Blank
    BY NamesAreNames
  <1> QED  BY <1>1, <1>2, <1>3, JobScopes DEF ProjectsOf

\* An office's report, or a supervisor's, on all they see.
LEMMA WholeReports ==
    ASSUME NEW s
    PROVE  /\ SupervisorJobs(s, AnyQuery) = JobScope(s)
           /\ DelayReport(s, AnyQuery) = Delays \cap LinesOf(JobScope(s))
           /\ UpcomingReport(s, AnyQuery) = UpcomingTasks \cap LinesOf(JobScope(s))
  <1>1. SupervisorJobs(s, AnyQuery) = {j \in JobScope(s) : TRUE}
    BY Queries, SupervisorScopes
  <1> QED  BY <1>1, LineReports, Queries

LEMMA JobReports ==
    ASSUME NEW j \in Projects
    PROVE  LET q == [AnyQuery EXCEPT !.job = j]
           IN  /\ SupervisorJobs(Office, q) = {j}
               /\ DelayReport(Office, q) = Delays \cap LinesOf({j})
               /\ j \in JobsReported(Office, q)
  <1> DEFINE q == [AnyQuery EXCEPT !.job = j]
  <1>1. q.job = j /\ q.supervisor = Blank /\ Unbounded(q)
    BY Queries
  <1> HIDE DEF q
  <1>2. j \in JobScope(Office) /\ j # Blank
    BY JobScopes, NamesAreNames
  <1>3. ReportScope(Office, q) = {j}
    BY <1>1, <1>2, ReportScopes, UnboundedQueries
  <1>4. SupervisorJobs(Office, q) = {j}
    BY <1>1, <1>3 DEF SupervisorJobs
  <1>5. DelayReport(Office, q) = Delays \cap LinesOf({j})
    BY <1>1, <1>4, LineReports
  <1>6. j \in JobsReported(Office, q)
    BY <1>1, <1>2, <1>4 DEF JobsReported
  <1> QED  BY <1>4, <1>5, <1>6 DEF q

-----------------------------------------------------------------------------
(* What is late is late on every report. *)

\* What a line is to each of the queries.
LEMMA LineIs ==
    ASSUME LedgerInv, NEW l \in Lines
    PROVE  /\ line[l] \in Line /\ line[l].status \in CfStatus /\ Validate(line[l])
           /\ line[l].type \in {"HEADER", "TASK", "STAGE_CLAIM"}
           /\ line[l].est_start \in Dates /\ line[l].est_finish \in Dates
           /\ IsSet(line[l].est_start) => line[l].est_start \in 1 .. LastDay
           /\ IsSet(line[l].est_finish) => line[l].est_finish \in 1 .. LastDay
           /\ IsSet(line[l].est_start) /\ IsSet(line[l].est_finish)
                  => line[l].est_start <= line[l].est_finish
  <1>1. line[l] \in Line /\ Validate(line[l])
    BY LedgerTypes
  <1>2. /\ line[l].type \in {"HEADER", "TASK", "STAGE_CLAIM"} /\ line[l].status \in CfStatus
        /\ line[l].est_start \in Dates /\ line[l].est_finish \in Dates
    BY <1>1, LineType
  <1> QED  BY <1>1, <1>2, DatesType DEF Validate, Ordered

LEMMA DelaysAre ==
    ASSUME LedgerInv, NEW l \in Delays
    PROVE  /\ l \in Lines /\ line[l].est_finish \in 1 .. LastDay /\ line[l].est_finish < today
           /\ DelayOf(l).delay_days = today - line[l].est_finish
           /\ today - line[l].est_finish \in 1 .. LastDay
  <1>1. /\ l \in Lines /\ IsSet(line[l].est_finish) /\ line[l].est_finish < today
        /\ ~IsSet(line[l].actual_finish) /\ line[l].status \notin {"completed", "on_hold"}
    BY DEF Delays, PastFinish, Finished, Closed
  <1>2. line[l].est_finish \in 1 .. LastDay
    BY <1>1, LineIs
  <1>3. DelayOf(l) = DelayedBy(today - line[l].est_finish)
    BY <1>1 DEF DelayOf, ComputeDelayInfo, PastFinish
  <1>4. today - line[l].est_finish \in 1 .. LastDay
    BY <1>1, <1>2, LedgerTypes
  <1> QED  BY <1>1, <1>2, <1>3, <1>4 DEF DelayedBy

LEMMA SameDelays ==
    /\ SupervisorDelayed = Delays /\ OverdueCallForwards = Delays
    /\ DailyDelayed = JobProgressDelayed /\ OverdueByStatus = JobProgressDelayed
    /\ JobProgressDelayed = Delays \cup {l \in OverdueByStatus : Finished(l)}
    /\ Delays \cap {l \in OverdueByStatus : Finished(l)} = {}
    /\ dbToday = today => StatsOverdue = Delays
  BY DEF SupervisorDelayed, OverdueCallForwards, DailyDelayed, OverdueByStatus, JobProgressDelayed,
         Delays, StatsOverdue, Finished, Closed, IsWork, PastFinish

LEMMA LinesAreFinite ==
    ASSUME NEW S, S \subseteq Lines
    PROVE  IsFiniteSet(S) /\ Cardinality(S) \in Nat
  BY TablesAreFinite, FS_Subset, FS_CardinalityType

LEMMA DelaysAreLines == Delays \subseteq Lines /\ \A jobs : LinesOf(jobs) \subseteq Lines
  BY DEF Delays, LinesOf

\* Both reports of a supervisor's delays sum up the same days.
LEMMA SameDelayDays ==
    ASSUME LedgerInv, NEW D, D \subseteq Delays
    PROVE  MapThenSumSet(LAMBDA l : today - line[l].est_finish, D) =
               MapThenSumSet(LAMBDA l : DelayOf(l).delay_days, D)
  <1> DEFINE f == [l \in D |-> today - line[l].est_finish]
             h == [l \in D |-> DelayOf(l).delay_days]
  <1>1. IsFiniteSet(D)
    BY LinesAreFinite, DelaysAreLines
  <1>2. \A l \in D : f[l] \in Int /\ h[l] = f[l]
    BY DelaysAre
  <1>3. /\ MapThenSumSet(LAMBDA l : today - line[l].est_finish, D) = Total(f, D)
        /\ MapThenSumSet(LAMBDA l : DelayOf(l).delay_days, D) = Total(h, D)
    BY SumOfLateness, SumOfDelayDays
  <1> HIDE DEF f, h
  <1>4. Total(h, D) = Total(f, D)
    BY <1>1, <1>2, TotalAgrees
  <1> QED  BY <1>3, <1>4

LEMMA CountedDelays ==
    ASSUME NEW u, NEW q
    PROVE  LET D == SupervisorDelayed \cap LinesOf(ProjectsOf(u))
           IN  /\ SupervisorCounts(u, q).delayed = Cardinality(D)
               /\ SupervisorCounts(u, q).delay_days =
                      MapThenSumSet(LAMBDA l : today - line[l].est_finish, D)
  BY DEF SupervisorCounts

LEMMA SupervisorsDelays ==
    ASSUME LedgerInv, NEW u \in Crew
    PROVE  LET filtered == [AnyQuery EXCEPT !.supervisor = u]
               late     == DelayReport(Office, filtered)
               c        == SupervisorCounts(u, filtered)
           IN  /\ DelayReport(u, AnyQuery) = late
               /\ UpcomingReport(u, AnyQuery) = UpcomingReport(Office, filtered)
               /\ StageClaims(u, AnyQuery) = StageClaims(Office, filtered)
               /\ c.delayed = Cardinality(late)
               /\ c.delay_days = MapThenSumSet(LAMBDA l : DelayOf(l).delay_days, late)
  <1> DEFINE filtered == [AnyQuery EXCEPT !.supervisor = u]
             D == Delays \cap LinesOf(ProjectsOf(u))
  <1>1. Unbounded(filtered) /\ SupervisorJobs(Office, filtered) = ProjectsOf(u)
    BY Queries, OwnAndFiltered
  <1>2. Unbounded(AnyQuery) /\ SupervisorJobs(u, AnyQuery) = ProjectsOf(u)
    BY Queries, OwnAndFiltered
  <1> HIDE DEF filtered
  <1>3. DelayReport(Office, filtered) = D /\ DelayReport(u, AnyQuery) = D
    BY <1>1, <1>2, LineReports
  <1>4. UpcomingReport(u, AnyQuery) = UpcomingReport(Office, filtered)
    BY <1>1, <1>2, LineReports
  <1>5. StageClaims(u, AnyQuery) = StageClaims(Office, filtered)
    BY <1>1, <1>2, LineReports
  <1>6. /\ SupervisorCounts(u, filtered).delayed = Cardinality(D)
        /\ SupervisorCounts(u, filtered).delay_days =
               MapThenSumSet(LAMBDA l : today - line[l].est_finish, D)
    BY CountedDelays, SameDelays
  <1>7. SupervisorCounts(u, filtered).delay_days =
            MapThenSumSet(LAMBDA l : DelayOf(l).delay_days, D)
    BY <1>6, SameDelayDays
  <1> QED  BY <1>3, <1>4, <1>5, <1>6, <1>7 DEF filtered

\* The greatest of a set of naturals that is bounded.
LEMMA MaxExists ==
    ASSUME NEW S, S \subseteq Nat, S # {}, NEW b \in Nat, \A y \in S : y <= b
    PROVE  Max(S) \in S /\ \A y \in S : y <= Max(S)
  <1>1. \E x \in S : \A y \in S : y <= x
    BY MaxOfBounded
  <1>2. \E x \in S : \A y \in S : x >= y
    BY <1>1
  <1>3. Max(S) \in S /\ \A y \in S : Max(S) >= y
    BY <1>2 DEF Max
  <1> QED  BY <1>3

LEMMA RowOfAJob ==
    ASSUME NEW s, NEW q, NEW j \in JobsReported(s, q)
    PROVE  LET row == JobProgress(s, q)[j]
               n   == Cardinality(JobProgressDelayed \cap LinesOf({j}))
           IN  /\ row.delayed = n /\ row.health = JobHealth(n)
               /\ row.counts = [status \in CfStatus |-> Cardinality(WorkIn(j, {status}))]
               /\ row.pct = CompletionPct(Cardinality(WorkIn(j, {"completed"})),
                                          Cardinality(WorkIn(j, CfStatus)))
  BY DEF JobProgress

LEMMA DayOfAJob ==
    ASSUME NEW j \in Projects, NEW date
    PROVE  LET day == DailyReport(Office, j, date)[1]
               D   == DailyDelayed \cap LinesOf({j})
           IN  /\ day.delayed = Cardinality(D) /\ day.health = JobHealth(Cardinality(D))
               /\ day.behind = DaysBehind(D)
               /\ day.counts = [status \in {"completed", "in_progress", "not_started"} |->
                                    Cardinality(WorkIn(j, {status}))]
               /\ day.pct = CompletionPct(Cardinality(WorkIn(j, {"completed"})),
                                          Cardinality(WorkIn(j, CfStatus)))
               /\ day.planned = {l \in LinesOf({j}) : PlannedOn(l, date)}
  <1>1. DailyReport(Office, j, date)[1] = DailyProgress(j, date)
    BY JobScopes DEF DailyReport
  <1> QED  BY <1>1 DEF DailyProgress

LEMMA BehindAsItsLatest ==
    ASSUME LedgerInv, NEW D, D \subseteq JobProgressDelayed, NEW l \in D
    PROVE  today - line[l].est_finish <= DaysBehind(D)
  <1> DEFINE S == {0} \cup {today - line[k].est_finish : k \in D}
  <1>1. \A k \in D : today - line[k].est_finish \in 1 .. LastDay
    <2> SUFFICES ASSUME NEW k \in D PROVE today - line[k].est_finish \in 1 .. LastDay
      OBVIOUS
    <2>1. k \in Lines /\ IsSet(line[k].est_finish) /\ line[k].est_finish < today
      BY DEF JobProgressDelayed, PastFinish
    <2>2. line[k].est_finish \in 1 .. LastDay
      BY <2>1, LineIs
    <2> QED  BY <2>1, <2>2, LedgerTypes
  <1>2. S \subseteq Nat /\ S # {} /\ \A y \in S : y <= LastDay
    BY <1>1, LedgerTypes
  <1>3. today - line[l].est_finish \in S
    OBVIOUS
  <1> HIDE DEF S
  <1>4. \A y \in S : y <= Max(S)
    BY <1>2, MaxExists, LedgerTypes
  <1> QED  BY <1>3, <1>4 DEF S, DaysBehind

LEMMA JobsDelays ==
    ASSUME LedgerInv, NEW j \in Projects
    PROVE  LET late  == DelayReport(Office, [AnyQuery EXCEPT !.job = j])
               row   == JobProgress(Office, [AnyQuery EXCEPT !.job = j])[j]
               day   == DailyReport(Office, j, today)[1]
           IN  /\ row.delayed = Cardinality(late)
                    + Cardinality({l \in OverdueByStatus \cap LinesOf({j}) : Finished(l)})
               /\ <<day.delayed, day.health, day.pct>> = <<row.delayed, row.health, row.pct>>
               /\ \A status \in DOMAIN day.counts : day.counts[status] = row.counts[status]
               /\ \A l \in late : DelayOf(l).delay_days <= day.behind
               /\ day.planned \cap late = {}
  <1> DEFINE q    == [AnyQuery EXCEPT !.job = j]
             late == Delays \cap LinesOf({j})
             done == {l \in OverdueByStatus \cap LinesOf({j}) : Finished(l)}
             all  == JobProgressDelayed \cap LinesOf({j})
             row  == JobProgress(Office, q)[j]
             day  == DailyReport(Office, j, today)[1]
  <1>1. DelayReport(Office, q) = late /\ j \in JobsReported(Office, q)
    BY JobReports
  <1> HIDE DEF q
  <1>2. /\ row.delayed = Cardinality(all) /\ row.health = JobHealth(Cardinality(all))
        /\ row.counts = [status \in CfStatus |-> Cardinality(WorkIn(j, {status}))]
        /\ row.pct = CompletionPct(Cardinality(WorkIn(j, {"completed"})),
                                   Cardinality(WorkIn(j, CfStatus)))
    BY <1>1, RowOfAJob
  <1>3. /\ day.delayed = Cardinality(all) /\ day.health = JobHealth(Cardinality(all))
        /\ day.behind = DaysBehind(all)
        /\ day.counts = [status \in {"completed", "in_progress", "not_started"} |->
                             Cardinality(WorkIn(j, {status}))]
        /\ day.pct = CompletionPct(Cardinality(WorkIn(j, {"completed"})),
                                   Cardinality(WorkIn(j, CfStatus)))
        /\ day.planned = {l \in LinesOf({j}) : PlannedOn(l, today)}
    BY DayOfAJob, SameDelays
  <1>4. Cardinality(all) = Cardinality(late) + Cardinality(done)
    <2>1. all = late \cup done /\ late \cap done = {}
      BY SameDelays
    <2>2. IsFiniteSet(late) /\ IsFiniteSet(done)
      BY LinesAreFinite, DelaysAreLines
    <2> HIDE DEF all, late, done
    <2> QED  BY <2>1, <2>2, CountsAddUp
  <1>5. \A status \in DOMAIN day.counts : day.counts[status] = row.counts[status]
    BY <1>2, <1>3 DEF CfStatus
  <1>6. \A l \in late : DelayOf(l).delay_days <= day.behind
    <2> SUFFICES ASSUME NEW l \in late PROVE DelayOf(l).delay_days <= day.behind
      OBVIOUS
    <2>1. all \subseteq JobProgressDelayed /\ l \in all /\ l \in Delays
      BY SameDelays
    <2>2. today - line[l].est_finish <= DaysBehind(all)
      BY <2>1, BehindAsItsLatest
    <2>3. DelayOf(l).delay_days = today - line[l].est_finish
      BY <2>1, DelaysAre
    <2> QED  BY <1>3, <2>2, <2>3
  <1>7. day.planned \cap late = {}
    <2> SUFFICES ASSUME NEW l \in Delays, PlannedOn(l, today) PROVE FALSE
      BY <1>3
    <2>1. IsSet(line[l].est_finish) /\ line[l].est_finish < today
      BY DEF Delays, PastFinish
    <2>2. today <= line[l].est_finish
      BY <2>1 DEF PlannedOn
    <2> QED  BY <2>1, <2>2, DelaysAre, LedgerTypes
  <1> HIDE DEF late, done, all, row, day
  <1>8. /\ row.delayed = Cardinality(late) + Cardinality(done)
        /\ <<day.delayed, day.health, day.pct>> = <<row.delayed, row.health, row.pct>>
    BY <1>2, <1>3, <1>4
  <1> QED  BY <1>1, <1>5, <1>6, <1>7, <1>8 DEF late, done, row, day, q

LEMMA AllDelaysAgree == LedgerInv => DelaysAgree
  BY SupervisorsDelays, JobsDelays DEF DelaysAgree

-----------------------------------------------------------------------------
(* No range hides a delay, and nothing falls between the reports. *)

LEMMA HalfOpenQueries ==
    ASSUME NEW s, NEW d \in Int
    PROVE  LET upto == [AnyQuery EXCEPT !.to = d]
               from == [AnyQuery EXCEPT !.from = d]
           IN  /\ ReportScope(s, upto) = JobScope(s) /\ SupervisorJobs(s, upto) = JobScope(s)
               /\ ReportScope(s, from) = JobScope(s) /\ SupervisorJobs(s, from) = JobScope(s)
               /\ \A date : Within(date, upto) <=> IsSet(date) /\ date <= d
               /\ \A date : Within(date, from) <=> IsSet(date) /\ d <= date
               /\ upto.author = Blank /\ from.author = Blank
  <1> DEFINE upto == [AnyQuery EXCEPT !.to = d]
             from == [AnyQuery EXCEPT !.from = d]
  <1>1. /\ upto.job = Blank /\ upto.supervisor = Blank /\ upto.from = NoDate /\ upto.to = d
        /\ from.job = Blank /\ from.supervisor = Blank /\ from.from = d /\ from.to = NoDate
        /\ upto.author = Blank /\ from.author = Blank
    BY DEF AnyQuery
  <1> HIDE DEF upto, from
  <1>2. Ordered(upto.from, upto.to) /\ Ordered(from.from, from.to)
    BY <1>1, NoDateSet DEF Ordered
  <1>3. ReportScope(s, upto) = JobScope(s) /\ ReportScope(s, from) = JobScope(s)
    BY <1>1, <1>2, ReportScopes
  <1>4. SupervisorJobs(s, upto) = JobScope(s) /\ SupervisorJobs(s, from) = JobScope(s)
    BY <1>1, <1>3 DEF SupervisorJobs
  <1>5. /\ \A date : Within(date, upto) <=> IsSet(date) /\ date <= d
        /\ \A date : Within(date, from) <=> IsSet(date) /\ d <= date
    BY <1>1, NoDateSet DEF Within
  <1> QED  BY <1>1, <1>3, <1>4, <1>5 DEF upto, from

LEMMA NoRangeHides ==
    ASSUME LedgerInv, NEW s, NEW d \in PlanDates
    PROVE  LET upTo  == DelayReport(s, [AnyQuery EXCEPT !.to = d])
               since == DelayReport(s, [AnyQuery EXCEPT !.from = d + 1])
           IN  upTo \cup since = DelayReport(s, AnyQuery) /\ upTo \cap since = {}
  <1> DEFINE upTo  == DelayReport(s, [AnyQuery EXCEPT !.to = d])
             since == DelayReport(s, [AnyQuery EXCEPT !.from = d + 1])
             all   == Delays \cap LinesOf(JobScope(s))
  <1>1. d \in Int /\ d + 1 \in Int
    BY DatesAreDays
  <1>2. upTo = {l \in all : IsSet(line[l].est_finish) /\ line[l].est_finish <= d}
    BY <1>1, HalfOpenQueries DEF DelayReport
  <1>3. since = {l \in all : IsSet(line[l].est_finish) /\ d + 1 <= line[l].est_finish}
    BY <1>1, HalfOpenQueries DEF DelayReport
  <1>4. ASSUME NEW l \in all
        PROVE  /\ IsSet(line[l].est_finish)
               /\ line[l].est_finish <= d \/ d + 1 <= line[l].est_finish
               /\ ~(line[l].est_finish <= d /\ d + 1 <= line[l].est_finish)
    <2>1. line[l].est_finish \in 1 .. LastDay /\ IsSet(line[l].est_finish)
      BY DelaysAre DEF Delays, PastFinish
    <2> QED  BY <1>1, <2>1, LedgerTypes
  <1>5. DelayReport(s, AnyQuery) = all
    BY WholeReports
  <1> HIDE DEF upTo, since, all
  <1>6. upTo \cup since = all /\ upTo \cap since = {}
    BY <1>2, <1>3, <1>4
  <1> QED  BY <1>5, <1>6 DEF upTo, since

LEMMA LateOrUpcoming ==
    ASSUME LedgerInv, NEW s, NEW l \in LinesOf(JobScope(s)),
           IsWork(l), ~Closed(l), ~Finished(l), IsSet(line[l].est_finish)
    PROVE  (l \in DelayReport(s, AnyQuery)) # (l \in UpcomingReport(s, AnyQuery))
  <1>1. l \in Lines
    BY DelaysAreLines
  <1>2. l \in Delays <=> line[l].est_finish < today
    BY <1>1 DEF Delays, PastFinish
  <1>3. /\ today \in Int /\ line[l].est_finish \in Int
        /\ IsSet(line[l].est_start) => line[l].est_start \in Int /\ line[l].est_start <= line[l].est_finish
    BY <1>1, LineIs, LedgerTypes
  <1>4. l \in UpcomingTasks <=> DueFrom(line[l].est_start) \/ DueFrom(line[l].est_finish)
    BY <1>1 DEF UpcomingTasks
  <1>5. l \in UpcomingTasks <=> ~(line[l].est_finish < today)
    BY <1>3, <1>4 DEF DueFrom
  <1>6. (l \in Delays) # (l \in UpcomingTasks)
    BY <1>2, <1>5
  <1>7. /\ l \in DelayReport(s, AnyQuery) <=> l \in Delays
        /\ l \in UpcomingReport(s, AnyQuery) <=> l \in UpcomingTasks
    BY WholeReports
  <1> QED  BY <1>6, <1>7

LEMMA NoneFallsBetween == LedgerInv => NothingFallsBetween
  BY NoRangeHides, LateOrUpcoming DEF NothingFallsBetween

-----------------------------------------------------------------------------
(* The dashboard adds up. *)

LEMMA OverdueDaysAre ==
    ASSUME LedgerInv
    PROVE  /\ DOMAIN OverdueDays = OverdueCallForwards
           /\ \A l \in OverdueCallForwards : OverdueDays[l] \in 1 .. LastDay
  <1>1. /\ DOMAIN OverdueDays = OverdueCallForwards
        /\ \A l \in OverdueCallForwards : OverdueDays[l] = today - line[l].est_finish
    BY DEF OverdueDays, OverdueCallForwards
  <1> QED  BY <1>1, SameDelays, DelaysAre

LEMMA OneToFour == 1 .. 4 = {1, 2, 3, 4}
  OBVIOUS

LEMMA LastIsAdded ==
    ASSUME NEW n \in Nat \ {0}, NEW f, \A b \in 1 .. n : f[b] \in Int
    PROVE  Total(f, 1 .. n) = f[n] + Total(f, 1 .. n - 1)
  <1> DEFINE S == 1 .. n
  <1>1. IsFiniteSet(S)
    BY FS_Interval
  <1>2. n \in S /\ S \ {n} = 1 .. n - 1
    OBVIOUS
  <1> HIDE DEF S
  <1>3. \A b \in S : f[b] \in Int
    BY DEF S
  <1>4. Total(f, S) = f[n] + Total(f, S \ {n})
    BY <1>1, <1>2, <1>3, TotalOfOneMore
  <1> QED  BY <1>2, <1>4 DEF S

LEMMA FourAreSummed ==
    ASSUME NEW f, \A b \in 1 .. 4 : f[b] \in Int
    PROVE  Total(f, 1 .. 4) = f[1] + f[2] + f[3] + f[4]
  <1>1. ASSUME NEW n \in 1 .. 4 PROVE Total(f, 1 .. n) = f[n] + Total(f, 1 .. n - 1)
    <2>1. n \in Nat \ {0} /\ \A b \in 1 .. n : f[b] \in Int
      OBVIOUS
    <2> QED  BY <2>1, LastIsAdded
  <1>2. /\ Total(f, 1 .. 4) = f[4] + Total(f, 1 .. 4 - 1)
        /\ Total(f, 1 .. 3) = f[3] + Total(f, 1 .. 3 - 1)
        /\ Total(f, 1 .. 2) = f[2] + Total(f, 1 .. 2 - 1)
        /\ Total(f, 1 .. 1) = f[1] + Total(f, 1 .. 1 - 1)
    BY <1>1
  <1>3. 1 .. 4 - 1 = 1 .. 3 /\ 1 .. 3 - 1 = 1 .. 2 /\ 1 .. 2 - 1 = 1 .. 1 /\ 1 .. 1 - 1 = {}
    OBVIOUS
  <1>4. Total(f, {}) = 0
    BY TotalOfNone
  <1>5. f[1] \in Int /\ f[2] \in Int /\ f[3] \in Int /\ f[4] \in Int
    OBVIOUS
  <1> QED  BY <1>2, <1>3, <1>4, <1>5

\* A set whose members are each in one of four buckets.
LEMMA FourBuckets ==
    ASSUME NEW S, IsFiniteSet(S), NEW In, \A b \in 1 .. 4 : In[b] \subseteq S,
           \A x \in S : \E b \in 1 .. 4 : x \in In[b],
           \A a \in 1 .. 4, b \in 1 .. 4 : a # b => In[a] \cap In[b] = {}
    PROVE  Cardinality(S) = Cardinality(In[1]) + Cardinality(In[2]) + Cardinality(In[3])
                                + Cardinality(In[4])
  <1>1. \A b \in 1 .. 4 : IsFiniteSet(In[b]) /\ Cardinality(In[b]) \in Nat
    BY FS_Subset, FS_CardinalityType
  <1> DEFINE A == In[1]
             B == In[2]
             C == In[3]
             D == In[4]
  <1>2. /\ IsFiniteSet(A) /\ IsFiniteSet(B) /\ IsFiniteSet(C) /\ IsFiniteSet(D)
        /\ Cardinality(A) \in Nat /\ Cardinality(B) \in Nat
        /\ Cardinality(C) \in Nat /\ Cardinality(D) \in Nat
    BY <1>1
  <1>3. S = ((A \cup B) \cup C) \cup D
    BY OneToFour
  <1>4. A \cap B = {} /\ (A \cup B) \cap C = {} /\ ((A \cup B) \cup C) \cap D = {}
    BY OneToFour
  <1> HIDE DEF A, B, C, D
  <1>5. IsFiniteSet(A \cup B) /\ Cardinality(A \cup B) = Cardinality(A) + Cardinality(B)
    BY <1>2, <1>4, CountsAddUp
  <1>6. /\ IsFiniteSet((A \cup B) \cup C)
        /\ Cardinality((A \cup B) \cup C) = Cardinality(A \cup B) + Cardinality(C)
    BY <1>2, <1>4, <1>5, CountsAddUp
  <1>7. Cardinality(S) = Cardinality((A \cup B) \cup C) + Cardinality(D)
    BY <1>2, <1>3, <1>4, <1>6, CountsAddUp
  <1> QED  BY <1>2, <1>5, <1>6, <1>7 DEF A, B, C, D

LEMMA SeverityIs ==
    ASSUME NEW s, NEW b \in 1 .. 4
    PROVE  LET late == OverdueCallForwards \cap LinesOf(JobScope(s))
               In   == {l \in late : DelayBucket(OverdueDays[l]) = b}
           IN  /\ DelaySeverity(s)[b].count = Cardinality(In)
               /\ DelaySeverity(s)[b].avg = IF In = {} THEN 0
                      ELSE RoundedDiv(MapThenSumSet(LAMBDA l : OverdueDays[l], In), Cardinality(In))
               /\ DelaySeverity(s)[b].max = Max({0} \cup {OverdueDays[l] : l \in In})
  BY DEF DelaySeverity

LEMMA BucketsHoldTheDelays ==
    ASSUME LedgerInv, NEW s
    PROVE  LET counts == [b \in 1 .. 4 |-> DelaySeverity(s)[b].count]
           IN  MapThenSumSet(LAMBDA b : counts[b], 1 .. 4) = Cardinality(DelayReport(s, AnyQuery))
  <1> DEFINE counts == [b \in 1 .. 4 |-> DelaySeverity(s)[b].count]
             late   == OverdueCallForwards \cap LinesOf(JobScope(s))
             In     == [b \in 1 .. 4 |-> {l \in late : DelayBucket(OverdueDays[l]) = b}]
  <1>1. \A b \in 1 .. 4 : counts[b] = Cardinality(In[b])
    BY SeverityIs
  <1>2. late = DelayReport(s, AnyQuery) /\ IsFiniteSet(late)
    BY SameDelays, WholeReports, LinesAreFinite, DelaysAreLines
  <1>3. \A b \in 1 .. 4 : In[b] \subseteq late /\ Cardinality(In[b]) \in Nat
    BY <1>2, FS_Subset, FS_CardinalityType
  <1>4. \A l \in late : \E b \in 1 .. 4 : l \in In[b]
    BY DEF DelayBucket
  <1>5. \A a \in 1 .. 4, b \in 1 .. 4 : a # b => In[a] \cap In[b] = {}
    OBVIOUS
  <1>6. MapThenSumSet(LAMBDA b : counts[b], 1 .. 4) = Total(counts, 1 .. 4)
    BY SumOfMembers
  <1> HIDE DEF counts, late, In
  <1>7. Cardinality(late) = Cardinality(In[1]) + Cardinality(In[2]) + Cardinality(In[3])
                                + Cardinality(In[4])
    BY <1>2, <1>3, <1>4, <1>5, FourBuckets
  <1>8. Total(counts, 1 .. 4) = counts[1] + counts[2] + counts[3] + counts[4]
    BY <1>1, <1>3, FourAreSummed
  <1> QED  BY <1>1, <1>2, <1>6, <1>7, <1>8 DEF counts

LEMMA AverageWithinMost ==
    ASSUME LedgerInv, NEW s, NEW b \in 1 .. 4
    PROVE  DelaySeverity(s)[b].avg <= DelaySeverity(s)[b].max
  <1> DEFINE late == OverdueCallForwards \cap LinesOf(JobScope(s))
             In   == {l \in late : DelayBucket(OverdueDays[l]) = b}
             days == {0} \cup {OverdueDays[l] : l \in In}
             sum  == MapThenSumSet(LAMBDA l : OverdueDays[l], In)
             top  == Max(days)
  <1>1. /\ DelaySeverity(s)[b].avg = IF In = {} THEN 0 ELSE RoundedDiv(sum, Cardinality(In))
        /\ DelaySeverity(s)[b].max = top
    BY SeverityIs
  <1>2. \A l \in In : OverdueDays[l] \in 1 .. LastDay
    BY OverdueDaysAre
  <1>3. IsFiniteSet(In)
    BY SameDelays, LinesAreFinite, DelaysAreLines
  <1>4. top \in Nat /\ (\A l \in In : OverdueDays[l] <= top) /\ 0 <= top
    <2>1. days \subseteq Nat /\ days # {} /\ \A y \in days : y <= LastDay
      BY <1>2, LedgerTypes
    <2>2. 0 \in days /\ \A l \in In : OverdueDays[l] \in days
      OBVIOUS
    <2> HIDE DEF days
    <2> QED  BY <2>1, <2>2, MaxExists, LedgerTypes
  <1>5. sum = Total(OverdueDays, In)
    BY SumOfMembers
  <1> HIDE DEF In, top, sum
  <1>6. CASE In = {}
    BY <1>1, <1>4, <1>6
  <1>7. CASE In # {}
    <2>1. Cardinality(In) \in Nat \ {0}
      BY <1>3, <1>7, FS_CardinalityType, FS_EmptySet
    <2>2. sum <= top * Cardinality(In)
      BY <1>2, <1>3, <1>4, <1>5, TotalIsBounded
    <2>3. sum \in Nat
      BY <1>2, <1>3, <1>5, TotalOfNaturals
    <2> QED  BY <1>1, <1>4, <1>7, <2>1, <2>2, <2>3, RoundedAtMost
  <1> QED  BY <1>6, <1>7

LEMMA StatsAre ==
    ASSUME LedgerInv, NEW s
    PROVE  LET stats == DashboardStats(s)
           IN  /\ dbToday = today => stats.overdue = Cardinality(DelayReport(s, AnyQuery))
               /\ stats.open = Cardinality({l \in LinesOf(JobScope(s)) : IsWork(l) /\ ~Closed(l)})
  <1>1. /\ DashboardStats(s).overdue = Cardinality(StatsOverdue \cap LinesOf(JobScope(s)))
        /\ DashboardStats(s).open = Cardinality(OpenCallForwards \cap LinesOf(JobScope(s)))
    BY DEF DashboardStats
  <1>2. dbToday = today => StatsOverdue \cap LinesOf(JobScope(s)) = DelayReport(s, AnyQuery)
    BY SameDelays, WholeReports
  <1>3. OpenCallForwards \cap LinesOf(JobScope(s)) =
            {l \in LinesOf(JobScope(s)) : IsWork(l) /\ ~Closed(l)}
    <2>1. \A l \in Lines : line[l].status \in {"not_started", "in_progress"} <=> ~Closed(l)
      BY LineIs DEF Closed, CfStatus
    <2> QED  BY <2>1, DelaysAreLines DEF OpenCallForwards
  <1> QED  BY <1>1, <1>2, <1>3

LEMMA ActiveJobsAreReported ==
    ASSUME NEW s
    PROVE  JobsInStatus(s, {"active"}) \subseteq DOMAIN JobProgress(s, AnyQuery)
  <1>1. DOMAIN JobProgress(s, AnyQuery) = JobsReported(s, AnyQuery)
    BY DEF JobProgress
  <1> QED  BY <1>1, WholeReports DEF JobsInStatus, JobsReported

LEMMA FiltersOffered ==
    ASSUME LedgerInv
    PROVE  /\ \A s : ReportMeta(s) \subseteq CalendarFilters(s)
           /\ ReportMeta(Office) =
                  {u \in book.active : SupervisorPerformance(AnyQuery)[u].counts.jobs > 0}
  <1>1. \A s : ReportMeta(s) \subseteq CalendarFilters(s)
    BY LedgerTypes DEF ReportMeta, CalendarFilters
  <1>2. ASSUME NEW u \in book.active
        PROVE  SupervisorPerformance(AnyQuery)[u].counts.jobs > 0
                   <=> \E j \in JobScope(Office) : Responsible(u, j)
    <2>1. u \in SupervisorsReported(AnyQuery)
      BY Queries, UnboundedQueries DEF SupervisorsReported
    <2>2. SupervisorPerformance(AnyQuery)[u].counts.jobs = Cardinality(ProjectsOf(u))
      BY <2>1 DEF SupervisorPerformance, Graded, SupervisorCounts
    <2>3. IsFiniteSet(ProjectsOf(u))
      BY TablesAreFinite, FS_Subset DEF ProjectsOf
    <2>4. Cardinality(ProjectsOf(u)) > 0 <=> ProjectsOf(u) # {}
      BY <2>3, FS_CardinalityType, FS_EmptySet
    <2> QED  BY <2>2, <2>4, JobScopes DEF ProjectsOf
  <1> QED  BY <1>1, <1>2 DEF ReportMeta

LEMMA DashboardAgrees == LedgerInv => DashboardAddsUp
  <1> SUFFICES ASSUME LedgerInv PROVE DashboardAddsUp
    OBVIOUS
  <1> QED  BY BucketsHoldTheDelays, AverageWithinMost, StatsAre, ActiveJobsAreReported, FiltersOffered
           DEF DashboardAddsUp

-----------------------------------------------------------------------------
(* The calendar's bars of jobs. *)

LEMMA ProjectDates ==
    ASSUME LedgerInv, NEW j \in Projects
    PROVE  /\ IsSet(book.project[j].start) => book.project[j].start \in 1 .. LastDay
           /\ IsSet(book.project[j].finish) => book.project[j].finish \in 1 .. LastDay
           /\ IsSet(book.project[j].start) /\ IsSet(book.project[j].finish)
                  => book.project[j].start <= book.project[j].finish
           /\ book.project[j].start \in Dates /\ book.project[j].finish \in Dates
  <1>1. book.project[j] \in Project /\ Ordered(book.project[j].start, book.project[j].finish)
    BY LedgerTypes
  <1>2. book.project[j].start \in Dates /\ book.project[j].finish \in Dates
    BY <1>1, ProjectType
  <1> QED  BY <1>1, <1>2, DatesType DEF Ordered

LEMMA BarsFit == LedgerInv => JobBarsFit
  <1> SUFFICES ASSUME LedgerInv, NEW m \in Months
               PROVE  LET drawn(kind) == Calendar(Office, AnyQuery, kind, m)
                      IN  /\ drawn("all").jobs = drawn("job").jobs /\ drawn("job").lines = {}
                          /\ drawn("all").lines = drawn("claim").lines \cup drawn("task").lines
                          /\ \A j \in drawn("all").jobs :
                                LET bar == JobBar(j, m)
                                IN  /\ bar.start <= bar.finish /\ bar.start <= m.last
                                    /\ m.first <= bar.finish
    BY DEF JobBarsFit
  <1> DEFINE drawn(kind) == Calendar(Office, AnyQuery, kind, m)
             C == CalendarJobs(Office, AnyQuery)
  <1>1. ASSUME NEW kind
        PROVE  /\ drawn(kind).jobs = {j \in JobsInWindow(m) \cap C : kind \in {"all", "job"}}
               /\ drawn(kind).lines = {l \in ItemsInWindow(m) \cap LinesOf(C) :
                                          Drawn(l) /\ kind \in {"all", EventKind(l)}}
    BY DEF Calendar
  <1>2. \A l : EventKind(l) \in {"claim", "task"}
    BY DEF EventKind
  <1> HIDE DEF drawn, C
  <1>3. drawn("all").jobs = drawn("job").jobs /\ drawn("job").lines = {}
    <2>1. drawn("all").jobs = JobsInWindow(m) \cap C /\ drawn("job").jobs = JobsInWindow(m) \cap C
      BY <1>1
    <2>2. drawn("job").lines = {l \in ItemsInWindow(m) \cap LinesOf(C) :
                                   Drawn(l) /\ "job" \in {"all", EventKind(l)}}
      BY <1>1
    <2>3. \A l : "job" \notin {"all", EventKind(l)}
      BY <1>2
    <2>4. drawn("job").lines = {}
      BY <2>2, <2>3
    <2> QED  BY <2>1, <2>4
  <1>4. drawn("all").lines = drawn("claim").lines \cup drawn("task").lines
    <2> DEFINE found == {l \in ItemsInWindow(m) \cap LinesOf(C) : Drawn(l)}
    <2>1. drawn("all").lines = found
      BY <1>1
    <2>2. /\ drawn("claim").lines = {l \in found : EventKind(l) = "claim"}
          /\ drawn("task").lines = {l \in found : EventKind(l) = "task"}
      BY <1>1
    <2> HIDE DEF found
    <2> QED  BY <1>2, <2>1, <2>2
  <1>5. ASSUME NEW j \in drawn("all").jobs
        PROVE  LET bar == JobBar(j, m)
               IN  bar.start <= bar.finish /\ bar.start <= m.last /\ m.first <= bar.finish
    <2>1. /\ j \in Projects /\ IsSet(book.project[j].start) /\ book.project[j].start <= m.last
          /\ IsSet(book.project[j].finish) => m.first <= book.project[j].finish
      BY <1>1 DEF JobsInWindow
    <2>2. JobBar(j, m) = [start  |-> book.project[j].start,
                          finish |-> IF IsSet(book.project[j].finish) THEN book.project[j].finish
                                     ELSE m.last]
      BY <2>1 DEF JobBar, OrElse
    <2>3. m.first \in Int /\ m.last \in Int /\ m.first <= m.last
      BY MonthsAreWindows, MonthsAreInOrder, DatesAreDays
    <2>4. book.project[j].start \in Int /\ LastDay \in Nat
      BY <2>1, ProjectDates, DatesAreDays
    <2>5. IsSet(book.project[j].finish) =>
              book.project[j].finish \in Int /\ book.project[j].start <= book.project[j].finish
      BY <2>1, ProjectDates, DatesAreDays
    <2> QED  BY <2>1, <2>2, <2>3, <2>4, <2>5
  <1> QED  BY <1>3, <1>4, <1>5 DEF drawn

LEMMA AllReportsAgree == LedgerInv => ReportsAgree
  BY AllDelaysAgree, NoneFallsBetween, DashboardAgrees, BarsFit DEF ReportsAgree

-----------------------------------------------------------------------------
(* The reports on the diary. *)

LEMMA DayQueries ==
    ASSUME NEW q \in DayRanges, NEW u
    PROVE  /\ EntriesAsked(Office, [q EXCEPT !.supervisor = u]) = EntriesAsked(Office, q)
           /\ EntriesAsked(Office, [q EXCEPT !.author = u]) = EntriesAsked(Office, q)
           /\ [q EXCEPT !.supervisor = u].supervisor = u /\ [q EXCEPT !.author = u].author = u
           /\ q.author = Blank
  <1> DEFINE v == [q EXCEPT !.supervisor = u]
             w == [q EXCEPT !.author = u]
  <1>1. /\ v.from = q.from /\ v.to = q.to /\ v.job = q.job /\ v.supervisor = u
        /\ w.from = q.from /\ w.to = q.to /\ w.job = q.job /\ w.author = u
        /\ q.author = Blank
    <2>1. PICK a \in Dates, b \in Dates : q = DayRange(a, b)
      BY DEF DayRanges
    <2>2. q = [job |-> Blank, supervisor |-> Blank, author |-> Blank, from |-> a, to |-> b]
      BY <2>1 DEF DayRange, AnyQuery
    <2> QED  BY <2>2
  <1> HIDE DEF v, w
  <1>2. ReportScope(Office, v) = ReportScope(Office, q) /\ ReportScope(Office, w) = ReportScope(Office, q)
    BY <1>1 DEF ReportScope, Prepare
  <1>3. \A date : (Within(date, v) <=> Within(date, q)) /\ (Within(date, w) <=> Within(date, q))
    BY <1>1 DEF Within
  <1>4. /\ EntriesAsked(Office, v) = EntriesAsked(Office, q)
        /\ EntriesAsked(Office, w) = EntriesAsked(Office, q)
    BY <1>2, <1>3, Zenon DEF EntriesAsked
  <1> QED  BY <1>1, <1>4 DEF v, w

LEMMA StatusesShareOut ==
    ASSUME NEW q \in DayRanges, NEW u \in Crew
    PROVE  LET by(status) == Inspections(Office, [q EXCEPT !.supervisor = u], status)
               all == {by("issues_found"), by("clear"), by("pending")}
           IN  /\ UNION all = DiarySummary(Office, [q EXCEPT !.author = u])
               /\ \A A, B \in all : A = B \/ A \cap B = {}
  <1> DEFINE v == [q EXCEPT !.supervisor = u]
             w == [q EXCEPT !.author = u]
             rows == DiarySummary(Office, w)
             by(status) == Inspections(Office, v, status)
             all == {by("issues_found"), by("clear"), by("pending")}
  <1>1. InspectionRows(Office, v) = rows
    <2>1. /\ EntriesAsked(Office, v) = EntriesAsked(Office, q)
          /\ EntriesAsked(Office, w) = EntriesAsked(Office, q)
          /\ v.supervisor = u /\ w.author = u /\ q.author = Blank
      BY DayQueries
    <2> HIDE DEF v, w
    <2> QED  BY <2>1 DEF InspectionRows, DiarySummary
  <1> HIDE DEF v, w
  <1>2. \A status : by(status) = {i \in rows : InspectionStatus(Rolled(book.entries[i])) = status}
    BY <1>1 DEF Inspections
  <1>3. \A text : InspectionStatus(text) \in {"issues_found", "clear", "pending"}
    BY DEF InspectionStatus
  <1> HIDE DEF rows, by
  <1>4. UNION all = rows
    <2>1. UNION all = by("issues_found") \cup by("clear") \cup by("pending")
      OBVIOUS
    <2> HIDE DEF all
    <2> QED  BY <2>1, <1>2, <1>3
  <1>5. /\ by("issues_found") \cap by("clear") = {} /\ by("issues_found") \cap by("pending") = {}
        /\ by("clear") \cap by("pending") = {}
    BY <1>2
  <1>6. \A A, B \in all : A = B \/ A \cap B = {}
    BY <1>5
  <1> QED  BY <1>4, <1>6, Zenon DEF all, by, rows, v, w

LEMMA EntriesAre ==
    ASSUME LedgerInv
    PROVE  /\ DOMAIN book.entries = 1 .. Len(book.entries) /\ Len(book.entries) \in Nat
           /\ IsFiniteSet(DOMAIN book.entries)
           /\ \A i \in DOMAIN book.entries : book.entries[i] \in Entry
  <1>1. book.entries \in Seq(Entry)
    BY LedgerTypes
  <1>2. DOMAIN book.entries = 1 .. Len(book.entries) /\ Len(book.entries) \in Nat
    BY <1>1
  <1>3. IsFiniteSet(1 .. Len(book.entries))
    BY <1>2, FS_Interval
  <1> QED  BY <1>1, <1>2, <1>3

LEMMA WeatherAgrees ==
    ASSUME LedgerInv, NEW q \in DayRanges
    PROVE  LET weather == WeatherReport(Office, q)
           IN  /\ weather.rows = DiarySummary(Office, q)
               /\ \A i \in weather.rows : book.entries[i].rain > 10 =>
                     i \in weather.impact \cap weather.rainy
               /\ weather.total > 10 * Cardinality(weather.rows) => weather.impact # {}
  <1> DEFINE weather == WeatherReport(Office, q)
             rows == EntriesAsked(Office, q)
             Row(i) == WeatherRow(book.entries[i])
             f == [i \in rows |-> Row(i).rain]
  <1>1. q.author = Blank
    BY DayQueries
  <1>2. /\ weather.rows = rows
        /\ weather.impact = {i \in rows :
               WeatherImpact(Row(i).condition, Row(i).rain, Row(i).issues) # Blank}
        /\ weather.rainy = {i \in rows : WasRainy(Row(i).condition, Row(i).rain)}
        /\ weather.total = MapThenSumSet(LAMBDA i : WeatherRow(book.entries[i]).rain, rows)
    BY DEF WeatherReport
  <1>3. rows = DiarySummary(Office, q)
    BY <1>1 DEF DiarySummary
  <1>4. rows \subseteq DOMAIN book.entries
    BY DEF EntriesAsked
  <1>5. \A i \in rows : book.entries[i].rain \in 0 .. 20 /\ Row(i).rain = book.entries[i].rain
    BY <1>4, EntriesAre, EntryType DEF WeatherRow
  <1>6. weather.total = Total(f, rows)
    BY <1>2, SumOfRain
  <1> HIDE DEF weather, rows
  <1>7. ASSUME NEW i \in rows, book.entries[i].rain > 10
        PROVE  i \in weather.impact \cap weather.rainy
    <2>1. Row(i).rain > 10 /\ Row(i).rain > 0
      BY <1>5, <1>7
    <2>2. WeatherImpact(Row(i).condition, Row(i).rain, Row(i).issues) = "rainfall"
      BY <2>1 DEF WeatherImpact
    <2>3. WasRainy(Row(i).condition, Row(i).rain)
      BY <2>1 DEF WasRainy
    <2>4. "rainfall" # Blank
      BY NullIsNoValue
    <2> HIDE DEF Row
    <2> QED  BY <1>2, <2>2, <2>3, <2>4
  <1>8. ASSUME weather.total > 10 * Cardinality(rows), weather.impact = {} PROVE FALSE
    <2>1. \A i \in rows : f[i] \in Int /\ f[i] <= 10
      BY <1>5, <1>7, <1>8
    <2>2. IsFiniteSet(rows) /\ Cardinality(rows) \in Nat
      BY <1>4, EntriesAre, FS_Subset, FS_CardinalityType
    <2> HIDE DEF f
    <2>3. Total(f, rows) <= 10 * Cardinality(rows) /\ Total(f, rows) \in Int
      BY <2>1, <2>2, TotalIsBounded, TotalType
    <2> QED  BY <1>6, <1>8, <2>2, <2>3
  <1> QED  BY <1>2, <1>3, <1>7, <1>8 DEF weather

LEMMA RecentIsTheSummary ==
    ASSUME LedgerInv, NEW s
    PROVE  RecentDiary(s) = DiarySummary(s, [AnyQuery EXCEPT !.from = today - RecentDays])
  <1> DEFINE q == [AnyQuery EXCEPT !.from = today - RecentDays]
  <1>1. today - RecentDays \in Int
    BY LedgerTypes, DayNumbers
  <1>2. /\ ReportScope(s, q) = JobScope(s) /\ q.author = Blank
        /\ \A date : Within(date, q) <=> IsSet(date) /\ today - RecentDays <= date
    BY <1>1, HalfOpenQueries
  <1> HIDE DEF q
  <1>3. \A i \in DOMAIN book.entries : IsSet(book.entries[i].date)
    <2> SUFFICES ASSUME NEW i \in DOMAIN book.entries PROVE IsSet(book.entries[i].date)
      OBVIOUS
    <2>1. book.entries[i].date \in 1 .. LastDay
      BY EntriesAre, EntryType
    <2> QED  BY <2>1, LedgerTypes, NoDateSet
  <1>4. DiarySummary(s, q) = EntriesAsked(s, q)
    BY <1>2 DEF DiarySummary
  <1>5. EntriesAsked(s, q) = RecentDiary(s)
    BY <1>2, <1>3 DEF EntriesAsked, RecentDiary
  <1> QED  BY <1>4, <1>5 DEF q

(* What a supervisor is held to. *)
LEMMA WindowIs ==
    ASSUME LedgerInv, NEW j \in Projects, HasWindow(j)
    PROVE  LET p == book.project[j]
           IN  /\ JobWindow(j, AnyQuery).first = p.start /\ p.start \in 1 .. LastDay
               /\ JobWindow(j, AnyQuery).last =
                      IF IsSet(p.finish) /\ p.finish < today THEN p.finish ELSE today
  <1> DEFINE p == book.project[j]
  <1>1. /\ IsSet(p.start) => p.start \in 1 .. LastDay
        /\ IsSet(p.finish) => p.finish \in 1 .. LastDay
    BY ProjectDates
  <1>2. IsSet(p.start)
    BY DEF HasWindow
  <1>3. OrElse(p.finish, today) \in Int /\ today \in Int
    BY <1>1, LedgerTypes DEF OrElse
  <1>4. Min({today, OrElse(p.finish, today)}) =
            IF today <= OrElse(p.finish, today) THEN today ELSE OrElse(p.finish, today)
    BY <1>3, MinOfTwo
  <1>5. ~IsSet(AnyQuery.from) /\ ~IsSet(AnyQuery.to)
    BY Queries DEF Unbounded
  <1>6. /\ JobWindow(j, AnyQuery).first = p.start
        /\ JobWindow(j, AnyQuery).last = Min({today, OrElse(p.finish, today)})
    BY <1>5 DEF JobWindow
  <1> HIDE DEF p
  <1>7. Min({today, OrElse(p.finish, today)}) =
            IF IsSet(p.finish) /\ p.finish < today THEN p.finish ELSE today
    BY <1>1, <1>3, <1>4, LedgerTypes DEF OrElse
  <1> QED  BY <1>1, <1>2, <1>6, <1>7 DEF p

Due(j) == {d \in 1 .. today : DiaryDue(j, d)}

LEMMA WindowsAreDue ==
    ASSUME LedgerInv, NEW j \in Projects, HasWindow(j)
    PROVE  WorkingDays(JobWindow(j, AnyQuery).first, JobWindow(j, AnyQuery).last) =
               Cardinality(Due(j))
  <1> DEFINE first == JobWindow(j, AnyQuery).first
             last  == JobWindow(j, AnyQuery).last
             p     == book.project[j]
  <1>1. /\ first = p.start /\ p.start \in 1 .. LastDay
        /\ last = IF IsSet(p.finish) /\ p.finish < today THEN p.finish ELSE today
    BY WindowIs
  <1>2. IsSet(p.finish) => p.finish \in 1 .. LastDay
    BY ProjectDates
  <1>3. \A d : DiaryDue(j, d) <=> /\ p.start <= d /\ ~Weekend(d)
                                  /\ IsSet(p.finish) => d <= p.finish
    BY DEF DiaryDue
  <1> HIDE DEF first, last, p
  <1>4. first \in Int /\ last \in Int
    BY <1>1, <1>2, LedgerTypes
  <1>5. \A d \in Int : d \in first .. last <=> /\ d \in 1 .. today /\ p.start <= d
                                               /\ IsSet(p.finish) => d <= p.finish
    <2> SUFFICES ASSUME NEW d \in Int
                 PROVE  d \in first .. last <=> /\ d \in 1 .. today /\ p.start <= d
                                                /\ IsSet(p.finish) => d <= p.finish
      OBVIOUS
    <2>1. today \in Int /\ LastDay \in Int
      BY LedgerTypes
    <2>2. CASE IsSet(p.finish)
      BY <1>1, <1>2, <2>1, <2>2
    <2>3. CASE ~IsSet(p.finish)
      BY <1>1, <2>1, <2>3
    <2> QED  BY <2>2, <2>3
  <1>6. Due(j) = Weekdays(first, last)
    <2>1. first .. last \subseteq Int /\ 1 .. today \subseteq Int
      OBVIOUS
    <2> QED  BY <1>3, <1>5, <2>1, Zenon DEF Due, Weekdays
  <1>7. WorkingDays(first, last) = Cardinality(Weekdays(first, last))
    BY <1>4, SpansAreCounted
  <1> QED  BY <1>6, <1>7 DEF first, last

LEMMA ExpectedIsDue ==
    ASSUME LedgerInv, NEW u \in Crew
    PROVE  DaysExpected(u, AnyQuery) =
               Cardinality({day \in ProjectsOf(u) \X (1 .. today) : DiaryDue(day[1], day[2])})
  <1> DEFINE S == {j \in ProjectsOf(u) : HasWindow(j)}
             T == 1 .. today
             D == [j \in S |-> Due(j)]
             f == [j \in S |-> WorkingDays(JobWindow(j, AnyQuery).first, JobWindow(j, AnyQuery).last)]
  <1>1. DaysExpected(u, AnyQuery) = Total(f, S)
    BY SumOfSpans DEF DaysExpected
  <1>2. \A j \in S : f[j] = Cardinality(D[j])
    BY WindowsAreDue DEF ProjectsOf
  <1>3. IsFiniteSet(S) /\ IsFiniteSet(T)
    <2>1. S \subseteq Projects
      BY DEF ProjectsOf
    <2>2. today \in Int
      BY LedgerTypes
    <2>3. IsFiniteSet(T)
      BY <2>2, FS_Interval
    <2> QED  BY <2>1, <2>3, TablesAreFinite, FS_Subset
  <1>4. D \in [S -> SUBSET T]
    BY DEF Due
  <1>5. {p \in S \X T : p[2] \in D[p[1]]}
            = {day \in ProjectsOf(u) \X (1 .. today) : DiaryDue(day[1], day[2])}
    BY DEF Due, DiaryDue
  <1> HIDE DEF S, T, D, f
  <1>6. Cardinality({p \in S \X T : p[2] \in D[p[1]]}) = Total(f, S)
    BY <1>2, <1>3, <1>4, PairsAreSummed
  <1> QED  BY <1>1, <1>5, <1>6

LEMMA DaysAreFinite ==
    ASSUME LedgerInv, NEW u, NEW q
    PROVE  IsFiniteSet(DiaryDays(u, q)) /\ Cardinality(DiaryDays(u, q)) \in Nat
  <1>1. DiaryDays(u, q) \subseteq Projects \X (1 .. LastDay)
    <2> SUFFICES ASSUME NEW i \in DOMAIN book.entries
                 PROVE  book.entries[i].project \in Projects /\ book.entries[i].date \in 1 .. LastDay
      BY DEF DiaryDays, EntriesCounted
    <2>1. book.entries[i] \in Entry
      BY EntriesAre
    <2> QED  BY <2>1, EntryType
  <1>2. IsFiniteSet(1 .. LastDay)
    BY LedgerTypes, FS_Interval
  <1>3. IsFiniteSet(Projects \X (1 .. LastDay))
    BY <1>2, TablesAreFinite, FS_Product
  <1> QED  BY <1>1, <1>3, FS_Subset, FS_CardinalityType

LEMMA CountsAre ==
    ASSUME LedgerInv, NEW u, NEW q
    PROVE  LET c == SupervisorCounts(u, q)
           IN  /\ c.started \in Nat /\ c.started_on_time \in 0 .. c.started
               /\ c.finished \in Nat /\ c.finished_on_time \in 0 .. c.finished
               /\ c.tasks \in Nat /\ c.delayed \in 0 .. c.tasks
               /\ c.diary_days \in Nat
  <1>1. ASSUME NEW A, NEW B, A \subseteq B, B \subseteq Lines
        PROVE  Cardinality(B) \in Nat /\ Cardinality(A) \in 0 .. Cardinality(B)
    <2>1. IsFiniteSet(B) /\ IsFiniteSet(A)
      BY <1>1, LinesAreFinite
    <2>2. Cardinality(A) <= Cardinality(B)
      BY <1>1, <2>1, FS_Subset
    <2> QED  BY <2>1, <2>2, FS_CardinalityType
  <1>2. ASSUME NEW actual, NEW estimate
        PROVE  OnTime(u, actual, estimate) \subseteq Measured(u, actual, estimate)
               /\ Measured(u, actual, estimate) \subseteq Lines
    BY DEF OnTime, Measured, LinesOf
  <1> DEFINE late  == SupervisorDelayed \cap LinesOf(ProjectsOf(u))
             tasks == {l \in LinesOf(ProjectsOf(u)) : IsWork(l)}
  <1>3. late \subseteq tasks /\ tasks \subseteq Lines
    BY DEF SupervisorDelayed, LinesOf
  <1>4. IsFiniteSet(DiaryDays(u, q)) /\ Cardinality(DiaryDays(u, q)) \in Nat
    BY DaysAreFinite
  <1>5. LET c == SupervisorCounts(u, q)
        IN  /\ c.started = Cardinality(Measured(u, "actual_start", "est_start"))
            /\ c.started_on_time = Cardinality(OnTime(u, "actual_start", "est_start"))
            /\ c.finished = Cardinality(Measured(u, "actual_finish", "est_finish"))
            /\ c.finished_on_time = Cardinality(OnTime(u, "actual_finish", "est_finish"))
            /\ c.tasks = Cardinality(tasks) /\ c.delayed = Cardinality(late)
            /\ c.diary_days = Cardinality(DiaryDays(u, q))
    BY DEF SupervisorCounts
  <1> HIDE DEF late, tasks
  <1> QED  BY <1>1, <1>2, <1>3, <1>4, <1>5

LEMMA GradeIs ==
    ASSUME NEW u \in book.active
    PROVE  LET grade == SupervisorPerformance(AnyQuery)[u]
               c     == SupervisorCounts(u, AnyQuery)
           IN  /\ grade = Graded(c, DaysExpected(u, AnyQuery))
               /\ grade.counts = c /\ grade.expected = DaysExpected(u, AnyQuery)
               /\ grade.diary = DiaryCompliance(c.diary_days, DaysExpected(u, AnyQuery))
               /\ grade.score = PerformanceScore(Rate(c.finished_on_time, c.finished),
                                                 Rate(c.started_on_time, c.started),
                                                 grade.diary, c.tasks, c.delayed)
  <1>1. u \in SupervisorsReported(AnyQuery)
    BY Queries, UnboundedQueries DEF SupervisorsReported
  <1>2. SupervisorPerformance(AnyQuery)[u]
            = Graded(SupervisorCounts(u, AnyQuery), DaysExpected(u, AnyQuery))
    BY <1>1 DEF SupervisorPerformance
  <1> DEFINE c == SupervisorCounts(u, AnyQuery)
             n == DaysExpected(u, AnyQuery)
             grade == SupervisorPerformance(AnyQuery)[u]
  <1>3. grade = Graded(c, n)
    BY <1>2
  <1> HIDE DEF c, n, grade
  <1>4. /\ grade.counts = c /\ grade.expected = n
        /\ grade.diary = DiaryCompliance(c.diary_days, n)
        /\ grade.score = PerformanceScore(Rate(c.finished_on_time, c.finished),
                                          Rate(c.started_on_time, c.started),
                                          grade.diary, c.tasks, c.delayed)
    BY <1>3 DEF Graded
  <1> QED  BY <1>3, <1>4 DEF c, n, grade

LEMMA ExpectedType ==
    ASSUME LedgerInv, NEW u \in Crew
    PROVE  DaysExpected(u, AnyQuery) \in Nat
  <1>1. IsFiniteSet(1 .. today) /\ IsFiniteSet(ProjectsOf(u))
    <2>1. today \in Int /\ ProjectsOf(u) \subseteq Projects
      BY LedgerTypes DEF ProjectsOf
    <2>2. IsFiniteSet(1 .. today)
      BY <2>1, FS_Interval
    <2> QED  BY <2>1, <2>2, TablesAreFinite, FS_Subset
  <1>2. IsFiniteSet(ProjectsOf(u) \X (1 .. today))
    BY <1>1, FS_Product
  <1>3. IsFiniteSet({day \in ProjectsOf(u) \X (1 .. today) : DiaryDue(day[1], day[2])})
    BY <1>2, FS_Subset
  <1> QED  BY <1>3, ExpectedIsDue, FS_CardinalityType

LEMMA GradeType ==
    ASSUME LedgerInv, NEW u \in book.active
    PROVE  LET grade == SupervisorPerformance(AnyQuery)[u]
           IN  /\ grade.diary \in Mark
               /\ grade.score \in Int /\ 0 <= grade.score /\ grade.score <= 10000
  <1> DEFINE grade == SupervisorPerformance(AnyQuery)[u]
             c     == SupervisorCounts(u, AnyQuery)
             n     == DaysExpected(u, AnyQuery)
  <1>1. u \in Crew
    BY LedgerTypes
  <1>2. n \in Nat
    BY <1>1, ExpectedType
  <1>3. /\ c.started \in Nat /\ c.started_on_time \in 0 .. c.started
        /\ c.finished \in Nat /\ c.finished_on_time \in 0 .. c.finished
        /\ c.tasks \in Nat /\ c.delayed \in 0 .. c.tasks
        /\ c.diary_days \in Nat
    BY CountsAre
  <1>4. /\ grade.diary = DiaryCompliance(c.diary_days, n)
        /\ grade.score = PerformanceScore(Rate(c.finished_on_time, c.finished),
                                          Rate(c.started_on_time, c.started),
                                          grade.diary, c.tasks, c.delayed)
    BY GradeIs
  <1> HIDE DEF grade, c, n
  <1>5. grade.diary \in Mark
    BY <1>2, <1>3, <1>4, ComplianceType
  <1>6. /\ Rate(c.finished_on_time, c.finished) \in Mark
        /\ Rate(c.started_on_time, c.started) \in Mark
    BY <1>3, RateType
  <1>7. grade.score \in Int /\ 0 <= grade.score /\ grade.score <= 10000
    <2> DEFINE finished == Rate(c.finished_on_time, c.finished)
               started  == Rate(c.started_on_time, c.started)
               diary    == grade.diary
               tasks    == c.tasks
               delayed  == c.delayed
    <2>1. /\ finished \in Mark /\ started \in Mark
          /\ diary \in Mark /\ tasks \in Nat /\ delayed \in 0 .. tasks
          /\ grade.score = PerformanceScore(finished, started, diary, tasks, delayed)
      BY <1>3, <1>4, <1>5, <1>6
    <2> HIDE DEF finished, started, diary, tasks, delayed
    <2> QED  BY <2>1, ScoreType
  <1> QED  BY <1>5, <1>7 DEF grade

LEMMA RangesAre == LedgerInv => RangesAgree
  BY StatusesShareOut, WeatherAgrees DEF RangesAgree

LEMMA GradesAre == LedgerInv => GradesAreFair
  <1> SUFFICES ASSUME LedgerInv, NEW u \in book.active
               PROVE  LET grade == SupervisorPerformance(AnyQuery)[u]
                      IN  /\ grade.expected = Cardinality(
                                {day \in ProjectsOf(u) \X (1 .. today) : DiaryDue(day[1], day[2])})
                          /\ grade.diary \in 0 .. 100 \cup {Blank}
                          /\ 0 <= grade.score /\ grade.score <= 10000
    BY DEF GradesAreFair
  <1>1. u \in Crew
    BY LedgerTypes
  <1> DEFINE grade == SupervisorPerformance(AnyQuery)[u]
  <1>2. grade.expected = DaysExpected(u, AnyQuery)
    BY GradeIs, Zenon
  <1>3. DaysExpected(u, AnyQuery) =
            Cardinality({day \in ProjectsOf(u) \X (1 .. today) : DiaryDue(day[1], day[2])})
    BY <1>1, ExpectedIsDue
  <1>4. /\ grade.diary \in Mark
        /\ grade.score \in Int /\ 0 <= grade.score /\ grade.score <= 10000
    BY GradeType
  <1> HIDE DEF grade
  <1> QED  BY <1>2, <1>3, <1>4 DEF grade, Mark

LEMMA DiaryAgrees == LedgerInv => DiaryReportsAgree
  <1>1. LedgerInv => WorkingDaysAreWeekdays
    BY SpansAreCounted, LedgerTypes DEF WorkingDaysAreWeekdays, Weekdays
  <1>2. LedgerInv => \A s \in Crew \cup {Office} :
            RecentDiary(s) = DiarySummary(s, [AnyQuery EXCEPT !.from = today - RecentDays])
    BY RecentIsTheSummary
  <1> QED  BY <1>1, <1>2, RangesAre, GradesAre DEF DiaryReportsAgree

-----------------------------------------------------------------------------
(* How the grades move. *)

Late(u) == SupervisorDelayed \cap LinesOf(ProjectsOf(u))

\* A supervisor's counts and the days they are held to, free of the sums' order.
GradeCounts(u) ==
    LET In(status) == Cardinality({j \in ProjectsOf(u) : book.project[j].status = status})
    IN  [jobs       |-> Cardinality(ProjectsOf(u)),
         active     |-> In("active"),
         completed  |-> In("completed"),
         started    |-> Cardinality(Measured(u, "actual_start", "est_start")),
         started_on_time  |-> Cardinality(OnTime(u, "actual_start", "est_start")),
         finished   |-> Cardinality(Measured(u, "actual_finish", "est_finish")),
         finished_on_time |-> Cardinality(OnTime(u, "actual_finish", "est_finish")),
         tasks      |-> Cardinality({l \in LinesOf(ProjectsOf(u)) : IsWork(l)}),
         delayed    |-> Cardinality(Late(u)),
         delay_days |-> Total([l \in Late(u) |-> today - line[l].est_finish], Late(u)),
         diary_days |-> Cardinality(DiaryDays(u, AnyQuery))]

DaysHeld(u) == {day \in ProjectsOf(u) \X (1 .. today) : DiaryDue(day[1], day[2])}

AreCounts(c) ==
    /\ c.started \in Nat /\ c.started_on_time \in 0 .. c.started
    /\ c.finished \in Nat /\ c.finished_on_time \in 0 .. c.finished
    /\ c.tasks \in Nat /\ c.delayed \in 0 .. c.tasks /\ c.diary_days \in Nat

GradedAsCounted ==
    \A u \in book.active :
        /\ u \in Crew
        /\ SupervisorPerformance(AnyQuery)[u] = Graded(GradeCounts(u), Cardinality(DaysHeld(u)))
        /\ AreCounts(GradeCounts(u)) /\ IsFiniteSet(DaysHeld(u)) /\ IsFiniteSet(DiaryDays(u, AnyQuery))
        /\ \A S : S \subseteq Lines => IsFiniteSet(S) /\ Cardinality(S) \in Nat

LEMMA GradesAreCounted == LedgerInv => GradedAsCounted
  <1> SUFFICES ASSUME LedgerInv, NEW u \in book.active
               PROVE  /\ u \in Crew
                      /\ SupervisorPerformance(AnyQuery)[u] = Graded(GradeCounts(u), Cardinality(DaysHeld(u)))
                      /\ AreCounts(GradeCounts(u)) /\ IsFiniteSet(DaysHeld(u)) /\ IsFiniteSet(DiaryDays(u, AnyQuery))
                      /\ \A S : S \subseteq Lines => IsFiniteSet(S) /\ Cardinality(S) \in Nat
    BY DEF GradedAsCounted
  <1>1. u \in Crew
    BY LedgerTypes
  <1>2. GradeCounts(u) = SupervisorCounts(u, AnyQuery)
    <2>1. MapThenSumSet(LAMBDA l : today - line[l].est_finish, Late(u)) =
              Total([l \in Late(u) |-> today - line[l].est_finish], Late(u))
      BY SumOfLateness
    <2> QED  BY <2>1 DEF GradeCounts, SupervisorCounts, Late
  <1>3. DaysExpected(u, AnyQuery) = Cardinality(DaysHeld(u))
    BY <1>1, ExpectedIsDue DEF DaysHeld
  <1>4. IsFiniteSet(DaysHeld(u))
    <2>1. today \in Int /\ ProjectsOf(u) \subseteq Projects
      BY LedgerTypes DEF ProjectsOf
    <2>2. IsFiniteSet(1 .. today)
      BY <2>1, FS_Interval
    <2>3. IsFiniteSet(ProjectsOf(u))
      BY <2>1, TablesAreFinite, FS_Subset
    <2>4. IsFiniteSet(ProjectsOf(u) \X (1 .. today))
      BY <2>2, <2>3, FS_Product
    <2> QED  BY <2>4, FS_Subset DEF DaysHeld
  <1>5. IsFiniteSet(DiaryDays(u, AnyQuery))
    BY DaysAreFinite
  <1>6. AreCounts(GradeCounts(u))
    BY <1>2, CountsAre DEF AreCounts
  <1>7. SupervisorPerformance(AnyQuery)[u] = Graded(GradeCounts(u), Cardinality(DaysHeld(u)))
    BY <1>2, <1>3, GradeIs, Zenon
  <1> QED  BY <1>1, <1>4, <1>5, <1>6, <1>7, LinesAreFinite

LEMMA GradesAreCountedNext == (LedgerInv => GradedAsCounted)'
  BY GradesAreCounted, PTL

LEMMA GradesAreMadeOf ==
    ASSUME NEW c, NEW n
    PROVE  /\ Graded(c, n).expected = n /\ Graded(c, n).diary = DiaryCompliance(c.diary_days, n)
           /\ Graded(c, n).score =
                  PerformanceScore(Rate(c.finished_on_time, c.finished),
                                   Rate(c.started_on_time, c.started),
                                   DiaryCompliance(c.diary_days, n), c.tasks, c.delayed)
  BY DEF Graded

(* Counts alike but for more of the work late, more days expected or more     *)
(* days written up: what the grades say of the one that has kept up less.     *)
SameWork(c, k) ==
    /\ k.started = c.started /\ k.started_on_time = c.started_on_time
    /\ k.finished = c.finished /\ k.finished_on_time = c.finished_on_time
    /\ k.tasks = c.tasks

LEMMA ScoreFollowsTheCounts ==
    ASSUME NEW c, AreCounts(c), NEW k, AreCounts(k), SameWork(c, k), c.delayed <= k.delayed,
           NEW n \in Nat, NEW m \in Nat,
           Counting(DiaryCompliance(k.diary_days, m)) <= Counting(DiaryCompliance(c.diary_days, n))
    PROVE  Graded(k, m).score <= Graded(c, n).score
  <1> DEFINE finished == Rate(c.finished_on_time, c.finished)
             started  == Rate(c.started_on_time, c.started)
             diary    == DiaryCompliance(c.diary_days, n)
             worse    == DiaryCompliance(k.diary_days, m)
             tasks    == c.tasks
             delayed  == c.delayed
             more     == k.delayed
  <1>1. finished \in Mark /\ started \in Mark
    BY RateType DEF AreCounts
  <1>2. diary \in Mark /\ worse \in Mark
    BY ComplianceType DEF AreCounts
  <1>3. tasks \in Nat /\ delayed \in 0 .. tasks /\ more \in delayed .. tasks
    BY DEF AreCounts, SameWork
  <1>4. Counting(worse) <= Counting(diary)
    OBVIOUS
  <1>5. /\ Graded(c, n).score = PerformanceScore(finished, started, diary, tasks, delayed)
        /\ Graded(k, m).score = PerformanceScore(finished, started, worse, tasks, more)
    BY GradesAreMadeOf DEF SameWork
  <1> HIDE DEF finished, started, diary, worse, tasks, delayed, more
  <1>6. PerformanceScore(finished, started, worse, tasks, more)
            <= PerformanceScore(finished, started, diary, tasks, delayed)
    BY <1>1, <1>2, <1>3, <1>4, ScoreFalls
  <1> QED  BY <1>5, <1>6

\* More days expected of as many written up, or fewer written up of as many expected.
LEMMA ComplianceMoves ==
    ASSUME NEW days \in Nat, NEW more \in Nat, days <= more,
           NEW n \in Nat, NEW m \in Nat, n <= m
    PROVE  /\ n # 0 => Counting(DiaryCompliance(days, m)) <= Counting(DiaryCompliance(days, n))
           /\ Counting(DiaryCompliance(days, n)) <= Counting(DiaryCompliance(more, n))
  <1>1. n # 0 => Counting(DiaryCompliance(days, m)) <= Counting(DiaryCompliance(days, n))
    <2> SUFFICES ASSUME n # 0
                 PROVE  Counting(DiaryCompliance(days, m)) <= Counting(DiaryCompliance(days, n))
      OBVIOUS
    <2>1. n \in Nat \ {0} /\ m # 0
      OBVIOUS
    <2>2. DiaryCompliance(days, m) <= DiaryCompliance(days, n)
      BY <2>1, ComplianceFalls
    <2>3. DiaryCompliance(days, m) # Blank /\ DiaryCompliance(days, n) # Blank
      BY <2>1, ComplianceType
    <2> QED  BY <2>2, <2>3 DEF Counting
  <1>2. Counting(DiaryCompliance(days, n)) <= Counting(DiaryCompliance(more, n))
    <2>1. CASE n = 0
      <3>1. DiaryCompliance(days, n) = Blank /\ DiaryCompliance(more, n) = Blank
        BY <2>1, ComplianceType
      <3> QED  BY <3>1 DEF Counting
    <2>2. CASE n # 0
      <3>1. n \in Nat \ {0}
        BY <2>2
      <3>2. DiaryCompliance(days, n) <= DiaryCompliance(more, n)
        BY <3>1, ComplianceGrows
      <3>3. DiaryCompliance(more, n) # Blank /\ DiaryCompliance(days, n) # Blank
        BY <2>2, ComplianceType
      <3> QED  BY <3>2, <3>3 DEF Counting
    <2> QED  BY <2>1, <2>2
  <1> QED  BY <1>1, <1>2

CountsAreOf(u) ==
    /\ GradeCounts(u).started = Cardinality(Measured(u, "actual_start", "est_start"))
    /\ GradeCounts(u).started_on_time = Cardinality(OnTime(u, "actual_start", "est_start"))
    /\ GradeCounts(u).finished = Cardinality(Measured(u, "actual_finish", "est_finish"))
    /\ GradeCounts(u).finished_on_time = Cardinality(OnTime(u, "actual_finish", "est_finish"))
    /\ GradeCounts(u).tasks = Cardinality({l \in LinesOf(ProjectsOf(u)) : IsWork(l)})
    /\ GradeCounts(u).delayed = Cardinality(Late(u))
    /\ GradeCounts(u).diary_days = Cardinality(DiaryDays(u, AnyQuery))

LEMMA GradeCountsAre ==
    ASSUME NEW u
    PROVE  CountsAreOf(u) /\ CountsAreOf(u)'
  BY DEF CountsAreOf, GradeCounts

LEMMA MidnightMoves ==
    ASSUME LedgerInv, LedgerInv', NextDay, NEW u \in book.active
    PROVE  /\ \/ SupervisorPerformance(AnyQuery)'[u].score <= SupervisorPerformance(AnyQuery)[u].score
              \/ SupervisorPerformance(AnyQuery)[u].diary = Blank
           /\ Weekend(today') => SupervisorPerformance(AnyQuery)'[u].expected
                                     = SupervisorPerformance(AnyQuery)[u].expected
  <1>1. today' = today + 1 /\ line' = line /\ book' = book /\ today \in Nat
    BY LedgerTypes DEF NextDay, Tomorrow
  <1> DEFINE c == GradeCounts(u)
             k == GradeCounts(u)'
             n == Cardinality(DaysHeld(u))
             m == Cardinality(DaysHeld(u)')
  <1>2. GradedAsCounted /\ GradedAsCounted'
    BY GradesAreCounted, GradesAreCountedNext
  <1>3. /\ SupervisorPerformance(AnyQuery)[u] = Graded(c, n)
        /\ SupervisorPerformance(AnyQuery)'[u] = Graded(k, m)
        /\ AreCounts(c) /\ AreCounts(k)
        /\ IsFiniteSet(DaysHeld(u)) /\ IsFiniteSet(DaysHeld(u)')
    BY <1>1, <1>2 DEF GradedAsCounted, Graded, AreCounts
  <1>4. \A jobs : LinesOf(jobs)' = LinesOf(jobs)
    BY DEF LinesOf
  <1>5. /\ ProjectsOf(u)' = ProjectsOf(u) /\ Late(u) \subseteq Late(u)' /\ Late(u)' \subseteq Lines
    <2>1. ProjectsOf(u)' = ProjectsOf(u)
      BY <1>1 DEF ProjectsOf, Responsible
    <2>2. SupervisorDelayed \subseteq SupervisorDelayed'
      <3> SUFFICES ASSUME NEW l \in SupervisorDelayed PROVE l \in SupervisorDelayed'
        OBVIOUS
      <3>1. l \in Lines /\ line[l].est_finish \in 1 .. LastDay /\ line[l].est_finish < today
        BY SameDelays, DelaysAre
      <3>2. line[l].est_finish < today + 1
        BY <1>1, <3>1, LedgerTypes
      <3> QED  BY <1>1, <3>2 DEF SupervisorDelayed, IsWork, Finished, Closed, PastFinish
    <2> QED  BY <2>1, <2>2 DEF Late, LinesOf
  <1>6. /\ SameWork(c, k) /\ k.diary_days = c.diary_days
        /\ c.delayed = Cardinality(Late(u)) /\ k.delayed = Cardinality(Late(u)')
    <2>1. /\ \A actual, estimate : /\ Measured(u, actual, estimate)' = Measured(u, actual, estimate)
                                   /\ OnTime(u, actual, estimate)' = OnTime(u, actual, estimate)
          /\ {l \in LinesOf(ProjectsOf(u)) : IsWork(l)}' = {l \in LinesOf(ProjectsOf(u)) : IsWork(l)}
      BY <1>1, <1>5 DEF Measured, OnTime, LinesOf, IsWork
    <2>2. DiaryDays(u, AnyQuery)' = DiaryDays(u, AnyQuery)
      BY <1>1, <1>5 DEF DiaryDays, EntriesCounted
    <2>3. CountsAreOf(u) /\ CountsAreOf(u)'
      BY GradeCountsAre
    <2> QED  BY <2>1, <2>2, <2>3 DEF CountsAreOf, SameWork
  <1>7. c.delayed <= k.delayed
    <2>1. IsFiniteSet(Late(u)')
      BY <1>5, TablesAreFinite, FS_Subset
    <2> QED  BY <2>1, <1>5, <1>6, FS_Subset
  <1>8. DaysHeld(u) \subseteq DaysHeld(u)' /\ (Weekend(today') => DaysHeld(u)' = DaysHeld(u))
    <2>1. \A j, d : DiaryDue(j, d)' <=> DiaryDue(j, d)
      BY <1>1 DEF DiaryDue, HasWindow
    <2>2. \A d \in 1 .. today' : d \in 1 .. today \/ d = today'
      BY <1>1
    <2>3. \A j : Weekend(today') => ~DiaryDue(j, today')
      BY DEF DiaryDue
    <2>4. 1 .. today \subseteq 1 .. today'
      BY <1>1
    <2> QED  BY <1>5, <2>1, <2>2, <2>3, <2>4 DEF DaysHeld
  <1>9. n \in Nat /\ m \in Nat /\ n <= m
    BY <1>3, <1>8, FS_Subset, FS_CardinalityType
  <1> HIDE DEF c, k, n, m
  <1>10. n # 0 => Graded(k, m).score <= Graded(c, n).score
    <2> SUFFICES ASSUME n # 0 PROVE Graded(k, m).score <= Graded(c, n).score
      OBVIOUS
    <2>1. c.diary_days \in Nat
      BY <1>3 DEF AreCounts
    <2>2. Counting(DiaryCompliance(c.diary_days, m)) <= Counting(DiaryCompliance(c.diary_days, n))
      BY <1>9, <2>1, ComplianceMoves
    <2> QED  BY <1>3, <1>6, <1>7, <1>9, <2>2, ScoreFollowsTheCounts
  <1>11. n = 0 => Graded(c, n).diary = Blank
    BY <1>3, <1>9, GradesAreMadeOf, ComplianceType DEF AreCounts
  <1>12. Weekend(today') => m = n
    BY <1>8 DEF m, n
  <1>13. Graded(c, n).expected = n /\ Graded(k, m).expected = m
    BY GradesAreMadeOf
  <1> QED  BY <1>3, <1>10, <1>11, <1>12, <1>13

\* An entry of today's, or of the day it names, is one more at the end.
LEMMA EntryFiled ==
    ASSUME LedgerInv, NEW v \in Crew, NEW j \in Projects, NEW date \in Dates, FileEntry(v, j, date)
    PROVE  /\ line' = line /\ today' = today /\ book'.active = book.active
           /\ book'.project = book.project
           /\ Len(book'.entries) = Len(book.entries) + 1
           /\ DOMAIN book'.entries = 1 .. Len(book.entries) + 1
           /\ \A i \in DOMAIN book.entries : book'.entries[i] = book.entries[i]
  <1> DEFINE e == [project |-> j, date |-> OrElse(date, today), author |-> v,
                   notes |-> [safety |-> FALSE, issues |-> ""],
                   columns |-> [safety |-> TRUE, issues |-> ""],
                   condition |-> "fine", rain |-> 0]
  <1>1. /\ book' = [book EXCEPT !.entries = Append(book.entries, e)]
        /\ UNCHANGED <<line, today, dbToday>>
    BY DEF FileEntry
  <1>2. book \in Tables
    BY DEF LedgerInv, ReportsTypeOK
  <1> HIDE DEF e
  <1>3. /\ book'.entries = Append(book.entries, e) /\ book'.project = book.project
        /\ book'.active = book.active
    BY <1>1, <1>2 DEF Tables
  <1>4. book.entries \in Seq(Entry)
    BY LedgerTypes
  <1>5. /\ Len(book'.entries) = Len(book.entries) + 1
        /\ DOMAIN book'.entries = 1 .. Len(book.entries) + 1
        /\ \A i \in DOMAIN book.entries : book'.entries[i] = book.entries[i]
    BY <1>3, <1>4
  <1> QED  BY <1>1, <1>3, <1>5

LEMMA EntryMoves ==
    ASSUME LedgerInv, LedgerInv', NEW v \in Crew, NEW j \in Projects, NEW date \in Dates,
           FileEntry(v, j, date), NEW u \in book.active
    PROVE  /\ SupervisorPerformance(AnyQuery)'[u].score >= SupervisorPerformance(AnyQuery)[u].score
           /\ SecondOfItsDay(Len(book.entries))' =>
                  SupervisorPerformance(AnyQuery)'[u] = SupervisorPerformance(AnyQuery)[u]
  <1>1. /\ line' = line /\ today' = today /\ book'.active = book.active
        /\ book'.project = book.project
        /\ Len(book'.entries) = Len(book.entries) + 1
        /\ DOMAIN book'.entries = 1 .. Len(book.entries) + 1
        /\ \A i \in DOMAIN book.entries : book'.entries[i] = book.entries[i]
        /\ DOMAIN book.entries = 1 .. Len(book.entries) /\ Len(book.entries) \in Nat
    BY EntryFiled, EntriesAre
  <1> DEFINE c == GradeCounts(u)
             k == GradeCounts(u)'
             n == Cardinality(DaysHeld(u))
             m == Cardinality(DaysHeld(u)')
  <1>2. GradedAsCounted /\ GradedAsCounted'
    BY GradesAreCounted, GradesAreCountedNext
  <1>3. /\ SupervisorPerformance(AnyQuery)[u] = Graded(c, n)
        /\ SupervisorPerformance(AnyQuery)'[u] = Graded(k, m)
        /\ AreCounts(c) /\ AreCounts(k)
        /\ IsFiniteSet(DaysHeld(u)) /\ IsFiniteSet(DiaryDays(u, AnyQuery)')
    BY <1>1, <1>2 DEF GradedAsCounted, Graded, AreCounts
  <1>4. /\ ProjectsOf(u)' = ProjectsOf(u) /\ DaysHeld(u)' = DaysHeld(u) /\ Late(u)' = Late(u)
        /\ \A actual, estimate : /\ Measured(u, actual, estimate)' = Measured(u, actual, estimate)
                                 /\ OnTime(u, actual, estimate)' = OnTime(u, actual, estimate)
        /\ {l \in LinesOf(ProjectsOf(u)) : IsWork(l)}' = {l \in LinesOf(ProjectsOf(u)) : IsWork(l)}
    <2>1. ProjectsOf(u)' = ProjectsOf(u)
      BY <1>1 DEF ProjectsOf, Responsible
    <2>2. DaysHeld(u)' = DaysHeld(u)
      <3>1. \A i, d : DiaryDue(i, d)' <=> DiaryDue(i, d)
        BY <1>1 DEF DiaryDue, HasWindow
      <3> QED  BY <1>1, <2>1, <3>1 DEF DaysHeld
    <2>3. Late(u)' = Late(u)
      BY <1>1, <2>1 DEF Late, LinesOf, SupervisorDelayed, IsWork, Finished, Closed
    <2> QED  BY <1>1, <2>1, <2>2, <2>3 DEF Measured, OnTime, LinesOf, IsWork
  <1>5. ASSUME NEW p
        PROVE  /\ p \in DiaryDays(u, AnyQuery) <=>
                      \E i \in DOMAIN book.entries : /\ book.entries[i].project \in ProjectsOf(u)
                                                     /\ p = <<book.entries[i].project, book.entries[i].date>>
               /\ p \in DiaryDays(u, AnyQuery)' <=>
                      \E i \in DOMAIN book'.entries : /\ book'.entries[i].project \in ProjectsOf(u)
                                                      /\ p = <<book'.entries[i].project, book'.entries[i].date>>
    <2>1. \A day : Within(day, AnyQuery) /\ Within(day, AnyQuery)'
      BY Queries, UnboundedQueries DEF Within
    <2> QED  BY <1>4, <2>1 DEF DiaryDays, EntriesCounted
  <1>6. DiaryDays(u, AnyQuery) \subseteq DiaryDays(u, AnyQuery)'
    BY <1>1, <1>5
  <1>7. ASSUME SecondOfItsDay(Len(book.entries))'
        PROVE  DiaryDays(u, AnyQuery)' = DiaryDays(u, AnyQuery)
    <2> DEFINE z == Len(book'.entries)
    <2>1. PICK i \in 1 .. z - 1 : /\ book'.entries[i].project = book'.entries[z].project
                                  /\ book'.entries[i].date = book'.entries[z].date
      BY <1>7 DEF SecondOfItsDay
    <2>2. /\ i \in DOMAIN book.entries /\ book'.entries[i] = book.entries[i]
          /\ \A x \in DOMAIN book'.entries : x \in DOMAIN book.entries \/ x = z
      BY <1>1
    <2> HIDE DEF z
    <2>3. DiaryDays(u, AnyQuery)' \subseteq DiaryDays(u, AnyQuery)
      <3> SUFFICES ASSUME NEW p \in DiaryDays(u, AnyQuery)' PROVE p \in DiaryDays(u, AnyQuery)
        OBVIOUS
      <3>1. PICK x \in DOMAIN book'.entries : /\ book'.entries[x].project \in ProjectsOf(u)
                                              /\ p = <<book'.entries[x].project, book'.entries[x].date>>
        BY <1>5
      <3>2. CASE x \in DOMAIN book.entries
        BY <1>1, <1>5, <3>1, <3>2
      <3>3. CASE x = z
        <4>1. /\ book.entries[i].project \in ProjectsOf(u)
              /\ p = <<book.entries[i].project, book.entries[i].date>>
          BY <2>1, <2>2, <3>1, <3>3
        <4> QED  BY <1>5, <2>2, <4>1
      <3> QED  BY <2>2, <3>2, <3>3
    <2> QED  BY <1>6, <2>3
  <1>8. SecondOfItsDay(Len(book.entries))' => k = c
    BY <1>1, <1>4, <1>7 DEF GradeCounts
  <1>9. SameWork(c, k) /\ k.delayed = c.delayed /\ c.diary_days <= k.diary_days
    <2>1. CountsAreOf(u) /\ CountsAreOf(u)'
      BY GradeCountsAre
    <2>2. Cardinality(DiaryDays(u, AnyQuery)) <= Cardinality(DiaryDays(u, AnyQuery)')
      BY <1>3, <1>6, FS_Subset
    <2> QED  BY <1>4, <2>1, <2>2 DEF CountsAreOf, SameWork
  <1>10. n \in Nat /\ m = n
    BY <1>3, <1>4, FS_CardinalityType
  <1> HIDE DEF c, k, n, m
  <1>11. Graded(c, n).score <= Graded(k, n).score
    <2>1. c.diary_days \in Nat /\ k.diary_days \in Nat /\ c.delayed \in Nat
      BY <1>3 DEF AreCounts
    <2>2. Counting(DiaryCompliance(c.diary_days, n)) <= Counting(DiaryCompliance(k.diary_days, n))
      BY <1>9, <1>10, <2>1, ComplianceMoves
    <2>3. SameWork(k, c) /\ k.delayed <= c.delayed
      BY <1>9, <2>1 DEF SameWork
    <2> QED  BY <1>3, <1>10, <2>2, <2>3, ScoreFollowsTheCounts
  <1> QED  BY <1>3, <1>8, <1>10, <1>11

\* A step of either clock or of a supervisor moves the grades as it may.
\* A grade is what its counts and its days make it, in the next state too.
AsGraded ==
    \A u \in book.active :
        SupervisorPerformance(AnyQuery)[u]
            = Graded(SupervisorCounts(u, AnyQuery), DaysExpected(u, AnyQuery))

LEMMA GradesAreGraded == AsGraded
  BY GradeIs DEF AsGraded

LEMMA GradesAreGradedNext == AsGraded'
  BY GradesAreGraded, PTL

LEMMA ScoresMove == LedgerInv /\ LedgerInv' /\ [ReportsNext]_reportsVars => ScoreMove
  <1> SUFFICES ASSUME LedgerInv, LedgerInv', [ReportsNext]_reportsVars,
                      today' # today \/ book' # book, NEW u \in book.active
               PROVE  GradeMoves(SupervisorPerformance(AnyQuery)[u],
                                 Graded(SupervisorCounts(u, AnyQuery)', DaysExpected(u, AnyQuery)'))
    BY DEF ScoreMove
  <1> DEFINE is == Graded(SupervisorCounts(u, AnyQuery)', DaysExpected(u, AnyQuery)')
  <1>1. ASSUME u \in book'.active PROVE is = SupervisorPerformance(AnyQuery)'[u]
    BY <1>1, GradesAreGradedNext DEF AsGraded
  <1> HIDE DEF is
  <1>2. CASE NextDay
    <2>1. book' = book
      BY <1>2 DEF NextDay
    <2>2. is = SupervisorPerformance(AnyQuery)'[u]
      BY <1>1, <2>1
    <2>3. GradeMoves(SupervisorPerformance(AnyQuery)[u], is)
      BY <1>2, <2>1, <2>2, MidnightMoves DEF GradeMoves
    <2> QED  BY <2>3 DEF is
  <1>3. CASE NextDatabaseDay
    BY <1>3 DEF NextDatabaseDay, DatabaseMidnight
  <1>4. ASSUME NEW v \in Crew, NEW j \in Projects, NEW date \in Dates, FileEntry(v, j, date)
        PROVE  GradeMoves(SupervisorPerformance(AnyQuery)[u], is)
    <2>1. today' = today
      BY <1>4 DEF FileEntry
    <2>2. book'.active = book.active
      <3>1. book \in Tables
        BY DEF LedgerInv, ReportsTypeOK
      <3> QED  BY <1>4, <3>1 DEF FileEntry, Tables
    <2>3. is = SupervisorPerformance(AnyQuery)'[u]
      BY <1>1, <2>2
    <2> QED  BY <1>4, <2>1, <2>3, EntryMoves DEF GradeMoves
  <1>5. ReportsNext
    BY DEF reportsVars
  <1> QED  BY <1>2, <1>3, <1>4, <1>5 DEF ReportsNext, is

-----------------------------------------------------------------------------
(* A behaviour of the site is one of each of its parts. *)

\* One part moves, or none: the others are left as they are.
LEMMA OthersRest ==
    ASSUME [SiteNext]_siteVars
    PROVE  /\ focus' = focus
           /\ (focus = "assignments" /\ AssignmentsNext) \/ UNCHANGED assignmentVars
           /\ (focus = "scheduler" /\ SchedulerNext) \/ UNCHANGED schedulerVars
           /\ (focus = "callforward" /\ CallForwardNext) \/ UNCHANGED callForwardVars
           /\ (focus = "diary" /\ DiaryNext) \/ UNCHANGED diaryVars
           /\ \/ focus = "reporting" /\ ReportingNext /\ UNCHANGED book
              \/ focus = "reports" /\ ReportsNext
              \/ UNCHANGED reportVars /\ UNCHANGED book
           /\ (focus = "branding" /\ BrandingNext) \/ UNCHANGED brandingVars
           /\ (focus = "weather" /\ WeatherNext) \/ UNCHANGED weatherVars
           /\ (focus = "notifications" /\ NotificationsNext) \/ UNCHANGED notifyVars
           /\ (focus = "registration" /\ RegistrationNext) \/ UNCHANGED registrationVars
           /\ (focus = "records" /\ JobRecordsNext) \/ UNCHANGED recordVars
           /\ (focus = "extras" /\ EtosNext) \/ UNCHANGED etoVars
  <1>1. CASE SiteNext
    BY <1>1 DEF SiteNext, Others
  <1>2. CASE UNCHANGED siteVars
    BY <1>2 DEF siteVars, reportsVars, reportVars
  <1> QED  BY <1>1, <1>2


\* The reads of the dashboard start as their own specification lets them, on
\* whatever lines the tables hold.
LEMMA ReadsStart == ReportsOrReporting => ReportingInit
  BY BooksAreBooks DEF ReportsOrReporting, ReportsInit, ReportingInit, Tables, IsBook

\* Filing an entry leaves the lines and the clocks; a new day is a new day there.
LEMMA ReadsStep == ReportsNext => [ReportingNext]_reportVars
  BY DEF ReportsNext, FileEntry, ReportingNext, NextDay, NextDatabaseDay, reportVars

(* A behaviour of the site is a behaviour of each of its parts, side by side:  *)
(* assigning, scheduling, calling forward, the diary, the reads of the         *)
(* dashboard, the logo, the weather, the notifications, registering, the       *)
(* records of jobs and the extras to order share no row but those their own    *)
(* modules name.                                                               *)
THEOREM SiteIsItsParts ==
    Spec => /\ AssignmentsSpec /\ SchedulerSpec /\ CallForwardSpec /\ DiarySpec
            /\ ReportingSpec /\ BrandingSpec /\ WeatherSpec /\ NotificationsSpec
            /\ RegistrationSpec /\ JobRecordsSpec /\ EtosSpec
  <1>1. SiteInit => /\ AssignmentsInit /\ SchedulerInit /\ CallForwardInit /\ DiaryInit
                    /\ ReportingInit /\ BrandingInit /\ WeatherInit /\ NotificationsInit
                    /\ RegistrationInit /\ JobRecordsInit /\ EtosInit
    BY ReadsStart DEF SiteInit
  <1>2. [SiteNext]_siteVars =>
          /\ [AssignmentsNext]_assignmentVars /\ [SchedulerNext]_schedulerVars
          /\ [CallForwardNext]_callForwardVars /\ [DiaryNext]_diaryVars
          /\ [BrandingNext]_brandingVars /\ [WeatherNext]_weatherVars
          /\ [NotificationsNext]_notifyVars /\ [RegistrationNext]_registrationVars
          /\ [JobRecordsNext]_recordVars /\ [EtosNext]_etoVars
    BY OthersRest
  <1>3. [SiteNext]_siteVars => [ReportingNext]_reportVars
    BY OthersRest, ReadsStep
  <1> QED
    BY <1>1, <1>2, <1>3, PTL DEF Spec, AssignmentsSpec, SchedulerSpec, CallForwardSpec, DiarySpec,
       ReportingSpec, BrandingSpec, WeatherSpec, NotificationsSpec, RegistrationSpec, JobRecordsSpec,
       EtosSpec

-----------------------------------------------------------------------------
(* The tables of the reports, whichever part moves. *)

\* The book that rests is one of the books.
LEMMA RestingBook == NoReports => book \in Books
  BY AnEmptyBook DEF NoReports

LEMMA SiteLedgerInit == SiteInit => LedgerInv
  <1> SUFFICES ASSUME SiteInit PROVE LedgerInv
    OBVIOUS
  <1>1. book \in Books
    BY RestingBook DEF SiteInit, ReportsOrReporting, ReportsInit
  <1>2. ReportsTypeOK
    BY <1>1, BooksAreBooks DEF ReportsTypeOK
  <1>3. ReportsInv
    BY ReadsStart, DatesAreDays DEF SiteInit, ReportingInit, ReportsInv, ReportingTypeOK
  <1> QED  BY <1>2, <1>3 DEF LedgerInv

LEMMA SiteLedgerNext == LedgerInv /\ ReportsInv' /\ [SiteNext]_siteVars => LedgerInv'
  <1> SUFFICES ASSUME LedgerInv, ReportsInv', [SiteNext]_siteVars PROVE LedgerInv'
    OBVIOUS
  <1>1. CASE ReportsNext
    BY <1>1, LedgerInvNext
  <1>2. CASE UNCHANGED book
    BY <1>2 DEF LedgerInv, ReportsTypeOK, IsBook
  <1> QED  BY <1>1, <1>2, OthersRest

LEMMA SiteLedger == Spec => []LedgerInv
  <1>1. Spec => []ReportsInv
    BY SiteIsItsParts, ReportsInvariance, PTL
  <1> QED  BY <1>1, SiteLedgerInit, SiteLedgerNext, PTL DEF Spec

-----------------------------------------------------------------------------
(* What the site promises. *)

(* The reports' own specification, without the rest of the site: they agree on *)
(* the same rows and the same entries, and a supervisor's grade moves with the *)
(* days and the entries alone.                                                 *)
THEOREM ReportsOfOneLedger ==
    ReportsSpec => [](ReportsTypeOK /\ ReportsAgree /\ DiaryReportsAgree) /\ ScoresFollowTheDays
  <1>1. LedgerInv => ReportsTypeOK  BY DEF LedgerInv
  <1>2. LedgerInv /\ LedgerInv' /\ [ReportsNext]_reportsVars => [ScoreMove]_reportsVars
    BY ScoresMove
  <1> QED
    BY <1>1, <1>2, LedgerInvInit, LedgerInvNext, AllReportsAgree, DiaryAgrees, PTL
       DEF ReportsSpec, ScoresFollowTheDays

(* Every variable of every part holds what its table, its column, its local or *)
(* its channel can, whichever part moves and however far.                      *)
THEOREM SiteIsTyped == Spec => []SiteTypeOK
  <1>1. RegistrationSpec => []RegistrationTypeOK
    <2>1. RegistrationInv => RegistrationTypeOK  BY DEF RegistrationInv
    <2> QED  BY <2>1, RegistrationInvInit, RegistrationInvNext, PTL DEF RegistrationSpec
  <1>2. BrandingSpec => []BrandingTypeOK
    <2>1. BrandingInv => BrandingTypeOK  BY DEF BrandingInv
    <2> QED  BY <2>1, BrandingInvInit, BrandingInvNext, PTL DEF BrandingSpec
  <1>3. LedgerInv => ReportingTypeOK /\ ReportsTypeOK
    BY DEF LedgerInv, ReportsInv
  <1>4. /\ AssignmentsTypeOK /\ SchedulerTypeOK /\ CallForwardTypeOK /\ DiaryTypeOK
        /\ ReportingTypeOK /\ ReportsTypeOK /\ BrandingTypeOK /\ WeatherTypeOK
        /\ NotificationsTypeOK /\ RegistrationTypeOK /\ JobRecordsTypeOK /\ EtosTypeOK
        => SiteTypeOK
    BY DEF SiteTypeOK
  <1>5. Spec => [](AssignmentsTypeOK /\ SchedulerTypeOK /\ CallForwardTypeOK /\ DiaryTypeOK)
    BY SiteIsItsParts, SupervisorFollowsAssignments, OnlyRacersBookTheAway, ProgrammesAreSound,
       CaughtUpScreensAreCurrent, PTL
  <1>6. Spec => [](ReportingTypeOK /\ ReportsTypeOK /\ BrandingTypeOK /\ WeatherTypeOK)
    BY SiteIsItsParts, SiteLedger, <1>2, <1>3, CallsStayWithinQuota, PTL
  <1>7. Spec => [](NotificationsTypeOK /\ RegistrationTypeOK /\ JobRecordsTypeOK /\ EtosTypeOK)
    BY SiteIsItsParts, <1>1, EndpointsFollowTheirUsers, RecordTypes, NumbersGapFree, PTL
  <1> QED  BY <1>4, <1>5, <1>6, <1>7, PTL

(* The dashboard, the delay report, the progress report, the overdue list, the *)
(* supervisors' grades and the calendar tell one story of the same rows: what  *)
(* is late on one is late on all, no line falls between two of them, and their *)
(* totals add up, for every caller, filter, job and line.                      *)
THEOREM ReportsTellOneStory == Spec => [](ReportsAgree /\ SiteReportsAgree)
  <1>1. ReportsAgree => SiteReportsAgree  BY DEF SiteReportsAgree
  <1> QED  BY <1>1, AllReportsAgree, SiteLedger, PTL

(* The diary's summary, its recent entries, the days lost to weather, the      *)
(* working days a job owes a diary for and the grade of who led it count the   *)
(* same entries and the same days.                                             *)
THEOREM DiaryReportsTellOneStory == Spec => [](DiaryReportsAgree /\ SiteDiaryReportsAgree)
  <1>1. DiaryReportsAgree => SiteDiaryReportsAgree  BY DEF SiteDiaryReportsAgree
  <1> QED  BY <1>1, DiaryAgrees, SiteLedger, PTL

(* Midnight alone raises no supervisor's grade for whom a diary is due, a      *)
(* weekend owes no entry, an entry filed lowers nobody's grade, and the second *)
(* of a day changes none.                                                      *)
THEOREM GradesFollowTheDays == Spec => SiteScoresFollowTheDays
  <1>1. LedgerInv /\ LedgerInv' /\ [SiteNext]_siteVars => [focus = "reports" => ScoreMove]_siteVars
    <2> SUFFICES ASSUME LedgerInv, LedgerInv', [SiteNext]_siteVars, focus = "reports"
                 PROVE  ScoreMove
      OBVIOUS
    <2>1. [ReportsNext]_reportsVars
      BY OthersRest DEF reportsVars, reportVars
    <2> QED  BY <2>1, ScoresMove
  <1> QED  BY <1>1, SiteLedger, PTL DEF Spec, SiteScoresFollowTheDays

(* What each part promises alone it promises among the others: only racing     *)
(* edits dispute a job's supervisor or undo each other's work, nobody is away  *)
(* twice, links between items, notes and captured templates are sound, caught- *)
(* up screens are current, late is late on every read, the logo is the         *)
(* bucket's, calls stay within their quota, a browser is its last              *)
(* subscriber's, registrations run as if one by one and the extras of a job    *)
(* are numbered without a gap.                                                 *)
THEOREM PartsKeepTheirPromises ==
    Spec => /\ [](SupervisorDisputedByRacersOnly /\ StatusUndoneByRacersOnly)
            /\ [](AbsencesNeverOverlap /\ BookedWhileAwayByRacersOnly)
            /\ [](LinksVouchedFor /\ CapturesAreFaithful /\ ItemsUndoneByRacersOnly)
            /\ [](NotesInTheOrderWritten /\ ScreensSettle)
            /\ [](OverdueReadsAgree /\ BarsAreFound) /\ DelaysOnlyGrow
            /\ [](ImagesFollowTheLogo /\ QuotaIsBounded /\ EndpointIsLastSubscribers)
            /\ [](RegistrationsAreSerial /\ ProgressWithinReach /\ RecordsUndoneByRacersOnly)
            /\ []EtoNumbersGapFree
  <1>1. Spec => /\ [](SupervisorDisputedByRacersOnly /\ StatusUndoneByRacersOnly)
                /\ [](AbsencesNeverOverlap /\ BookedWhileAwayByRacersOnly)
    BY SiteIsItsParts, SupervisorFollowsAssignments, StatusStandsAsAsked, NeverAwayTwice,
       OnlyRacersBookTheAway, PTL
  <1>2. Spec => /\ [](LinksVouchedFor /\ CapturesAreFaithful /\ ItemsUndoneByRacersOnly)
                /\ [](NotesInTheOrderWritten /\ ScreensSettle)
    BY SiteIsItsParts, LinksAreVouchedFor, CapturesLoseNoRow, ItemsAreAsAsked, NotesStayInOrder,
       CaughtUpScreensAreCurrent, PTL
  <1>3. Spec => [](OverdueReadsAgree /\ BarsAreFound) /\ DelaysOnlyGrow
    BY SiteIsItsParts, ScreensAgree, CalendarFindsItsBars, LatenessOnlyGrows, PTL
  <1>4. Spec => [](ImagesFollowTheLogo /\ QuotaIsBounded /\ EndpointIsLastSubscribers)
    BY SiteIsItsParts, LogoAndBucketAgree, CallsStayWithinQuota, EndpointsFollowTheirUsers, PTL
  <1>5. Spec => [](RegistrationsAreSerial /\ ProgressWithinReach /\ RecordsUndoneByRacersOnly)
    BY SiteIsItsParts, Serial, ProgressStaysWithinReach, RecordsLoseOnlyToRacers, PTL
  <1>6. Spec => []EtoNumbersGapFree
    BY SiteIsItsParts, NumbersGapFree, PTL
  <1> QED  BY <1>1, <1>2, <1>3, <1>4, <1>5, <1>6

=============================================================================
