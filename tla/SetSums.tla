------------------------------ MODULE SetSums ------------------------------
(***************************************************************************)
(* The sum over a finite set, as MapThenSumSet computes it: it takes the   *)
(* elements in the order of CHOOSE, and the sum depends on no order.       *)
(***************************************************************************)
EXTENDS Integers, FiniteSets, FiniteSetsExt, FiniteSetTheorems,
        WellFoundedInduction, TLAPS

Picked(s) == CHOOSE x \in s : TRUE

\* g is the recursive function that computes the sums of f over the parts of S.
Sums(S, f, g) ==
    g = [s \in SUBSET S |->
           IF s = {} THEN 0 ELSE f[Picked(s)] + g[s \ {Picked(s)}]]

\* A property of sets that fails somewhere below a finite set fails at a
\* smallest set: the induction over finite sets.
LEMMA SmallestSet ==
    ASSUME NEW S, IsFiniteSet(S), NEW Bad \in SUBSET (SUBSET S), Bad # {}
    PROVE  \E A \in Bad : \A B \in Bad : ~ (B \subseteq A /\ B # A)
<1>1. Bad \subseteq FiniteSubsetsOf(S)
  BY FS_Subset DEF FiniteSubsetsOf
<1>2. PICK A \in Bad : \A B \in Bad : <<B, A>> \notin StrictSubsetOrdering(S)
  BY <1>1, FS_StrictSubsetOrderingWellFounded, WFMin
<1>3. ASSUME NEW B \in Bad, B \subseteq A, B # A
      PROVE  FALSE
  BY <1>2, <1>3 DEF StrictSubsetOrdering
<1> QED
  BY <1>3

\* Order of the natural numbers, as a relation.
Less == {p \in Nat \X Nat : p[1] < p[2]}

\* A set of natural numbers that is not empty has a smallest one.
LEMMA SmallestNumber ==
    ASSUME NEW T \in SUBSET Nat, T # {}
    PROVE  \E n \in T : \A m \in T : n <= m
<1>1. OpToRel(<, Nat) = Less
  BY DEF OpToRel, Less
<1>2. IsWellFoundedOn(Less, Nat)
  BY Zenon, <1>1, NatLessThanWellFounded
<1>3. PICK n \in T : \A m \in T : <<m, n>> \notin Less
  BY <1>2, WFMin
<1>4. ASSUME NEW m \in T
      PROVE  n <= m
  <2>1. n \in Nat /\ m \in Nat /\ <<m, n>> \notin Less
    BY <1>3
  <2> QED
    BY <2>1 DEF Less
<1> QED
  BY <1>4

\* The least and the greatest of a set of numbers.
LEMMA LeastOf ==
    ASSUME NEW S \in SUBSET Nat, S # {}
    PROVE  Min(S) \in S /\ \A y \in S : Min(S) <= y
BY SmallestNumber DEF Min

\* With a bound, it has a greatest.
LEMMA GreatestOf ==
    ASSUME NEW S \in SUBSET Nat, S # {}, NEW b \in Nat, \A y \in S : y <= b
    PROVE  Max(S) \in S /\ \A y \in S : y <= Max(S)
<1> DEFINE T == {n \in Nat : \A y \in S : y <= n}
<1>1. PICK n \in T : \A m \in T : n <= m
  <2>1. T \in SUBSET Nat /\ T # {}
    OBVIOUS
  <2> HIDE DEF T
  <2> QED
    BY <2>1, SmallestNumber
<1>2. n \in S
  <2> SUFFICES ASSUME n \notin S
               PROVE  FALSE
    OBVIOUS
  <2>1. PICK y \in S : TRUE
    OBVIOUS
  <2>2. n \in Nat /\ y \in Nat /\ y <= n /\ y # n
    OBVIOUS
  <2>3. n - 1 \in Nat
    BY <2>2
  <2>4. \A x \in S : x <= n - 1
    BY <2>2
  <2>5. n - 1 \in T
    BY <2>3, <2>4
  <2> QED
    BY <1>1, <2>2, <2>5
<1>3. \E x \in S : \A y \in S : y <= x
  BY <1>2
<1> QED
  BY <1>3 DEF Max

\* The larger and the smaller of two numbers.
LEMMA OfTwo ==
    ASSUME NEW a \in Int, NEW b \in Int
    PROVE  /\ Min({a, b}) = (IF a <= b THEN a ELSE b)
           /\ Max({a, b}) = (IF a >= b THEN a ELSE b)
<1>1. \E x \in {a, b} : \A y \in {a, b} : x <= y
  OBVIOUS
<1>2. \E x \in {a, b} : \A y \in {a, b} : x >= y
  OBVIOUS
<1>3. Min({a, b}) \in {a, b} /\ \A y \in {a, b} : Min({a, b}) <= y
  BY <1>1 DEF Min
<1>4. Max({a, b}) \in {a, b} /\ \A y \in {a, b} : Max({a, b}) >= y
  BY <1>2 DEF Max
<1> QED
  BY <1>3, <1>4

\* h follows from g by one unfolding of a recursion that takes one element of a
\* set at a time, the one that pick names, and combines it with the rest by F.
Unfolds(S, base, pick, F, g, h) ==
    h = [s \in SUBSET S |->
           IF s = {} THEN base ELSE F[<<pick[s], g[s \ {pick[s]}]>>]]

\* Such a recursion has a solution: one that is right for the sets of n elements
\* and fewer is right for those of one more after one unfolding.
LEMMA FoldExists ==
    ASSUME NEW S, IsFiniteSet(S), NEW V, NEW base \in V, NEW pick,
           NEW F \in [S \X V -> V], \A s \in SUBSET S : s # {} => pick[s] \in s
    PROVE  \E g \in [SUBSET S -> V] : Unfolds(S, base, pick, F, g, g)
<1> DEFINE Step(g) == [s \in SUBSET S |->
                         IF s = {} THEN base ELSE F[<<pick[s], g[s \ {pick[s]}]>>]]
           Right(g, n) == \A s \in SUBSET S : Cardinality(s) <= n => g[s] = Step(g)[s]
           Found(n) == \E g \in [SUBSET S -> V] : Right(g, n)
<1>1. ASSUME NEW s \in SUBSET S, s # {}
      PROVE  /\ pick[s] \in s /\ pick[s] \in S
             /\ s \ {pick[s]} \in SUBSET S
             /\ Cardinality(s) \in Nat
             /\ Cardinality(s \ {pick[s]}) = Cardinality(s) - 1
  <2>1. pick[s] \in s
    BY <1>1
  <2>2. IsFiniteSet(s)
    BY FS_Subset
  <2> QED
    BY <2>1, <2>2, FS_RemoveElement, FS_CardinalityType
<1>2. ASSUME NEW g \in [SUBSET S -> V]
      PROVE  Step(g) \in [SUBSET S -> V]
  <2>1. ASSUME NEW s \in SUBSET S, s # {}
        PROVE  F[<<pick[s], g[s \ {pick[s]}]>>] \in V
    <3>1. pick[s] \in S /\ g[s \ {pick[s]}] \in V
      BY <1>1, <2>1
    <3>2. <<pick[s], g[s \ {pick[s]}]>> \in S \X V
      BY <3>1
    <3> QED
      BY <3>2
  <2> QED
    BY <2>1
<1>3. Found(0)
  <2> DEFINE z == [s \in SUBSET S |-> base]
  <2>1. z \in [SUBSET S -> V]
    OBVIOUS
  <2>2. ASSUME NEW s \in SUBSET S, Cardinality(s) <= 0
        PROVE  s = {}
    <3>1. IsFiniteSet(s)
      BY FS_Subset
    <3> QED
      BY <3>1, <2>2, FS_CardinalityType, FS_EmptySet
  <2> QED
    BY <2>1, <2>2
<1>4. ASSUME NEW n \in Nat, Found(n)
      PROVE  Found(n + 1)
  <2>1. PICK g \in [SUBSET S -> V] : Right(g, n)
    BY <1>4
  <2> DEFINE h == Step(g)
  <2>2. h \in [SUBSET S -> V]
    BY <1>2
  <2>3. ASSUME NEW s \in SUBSET S, Cardinality(s) <= n + 1
        PROVE  h[s] = Step(h)[s]
    <3>1. CASE s = {}
      BY <3>1
    <3>2. CASE s # {}
      <4> DEFINE r == s \ {pick[s]}
      <4>1. r \in SUBSET S /\ Cardinality(r) <= n
        BY <1>1, <2>3, <3>2
      <4>2. g[r] = h[r]
        BY <2>1, <4>1
      <4>3. h[s] = F[<<pick[s], g[r]>>] /\ Step(h)[s] = F[<<pick[s], h[r]>>]
        <5> HIDE DEF h
        <5>1. Step(h)[s] = F[<<pick[s], h[r]>>]
          BY <3>2
        <5>2. h[s] = F[<<pick[s], g[r]>>]
          BY <3>2 DEF h
        <5> QED
          BY <5>1, <5>2
      <4> HIDE DEF h, r
      <4> QED
        BY <4>2, <4>3
    <3> QED
      BY <3>1, <3>2
  <2> QED
    <3> HIDE DEF h
    <3>1. Right(h, n + 1)
      BY <2>3
    <3> QED
      BY <2>2, <3>1
<1>5. \A n \in Nat : Found(n)
  <2> DEFINE Bad == {n \in Nat : ~ Found(n)}
  <2> SUFFICES Bad = {}
    BY Zenon
  <2> SUFFICES ASSUME Bad # {}
               PROVE  FALSE
    OBVIOUS
  <2> HIDE DEF Found
  <2>1. PICK n \in Bad : \A m \in Bad : n <= m
    <3>1. Bad \subseteq Nat
      OBVIOUS
    <3> HIDE DEF Bad
    <3> QED
      BY <3>1, SmallestNumber
  <2>2. n \in Nat /\ ~ Found(n)
    BY DEF Bad
  <2>3. n # 0
    BY <1>3, <2>2
  <2>4. n - 1 \in Nat /\ n - 1 \notin Bad
    BY <2>1, <2>2, <2>3
  <2>5. Found(n - 1)
    BY <2>4 DEF Bad
  <2>6. Found((n - 1) + 1)
    BY <1>4, <2>4, <2>5
  <2>7. (n - 1) + 1 = n
    BY <2>2
  <2> QED
    BY <2>2, <2>6, <2>7
<1>6. Cardinality(S) \in Nat /\ \A s \in SUBSET S : Cardinality(s) <= Cardinality(S)
  BY FS_CardinalityType, FS_Subset
<1>7. PICK g \in [SUBSET S -> V] : Right(g, Cardinality(S))
  BY <1>5, <1>6
<1>8. \A s \in SUBSET S : g[s] = Step(g)[s]
  BY <1>6, <1>7
<1>9. g = Step(g)
  BY <1>8
<1>10. Unfolds(S, base, pick, F, g, g)
  BY Zenon, <1>9 DEF Unfolds
<1> QED
  BY <1>10

\* The recursion of the sums has a solution.
LEMMA SumsExist ==
    ASSUME NEW S, IsFiniteSet(S), NEW f \in [S -> Nat]
    PROVE  \E g \in [SUBSET S -> Nat] : Sums(S, f, g)
<1> DEFINE pick == [s \in SUBSET S |-> Picked(s)]
           F == [p \in S \X Nat |-> f[p[1]] + p[2]]
<1>1. \A s \in SUBSET S : s # {} => pick[s] \in s
  BY DEF Picked
<1>2. F \in [S \X Nat -> Nat]
  OBVIOUS
<1>3. \A x \in S, v \in Nat : F[<<x, v>>] = f[x] + v
  OBVIOUS
<1>4. \A s \in SUBSET S : pick[s] = Picked(s)
  OBVIOUS
<1> HIDE DEF pick, F
<1>5. PICK g \in [SUBSET S -> Nat] : Unfolds(S, 0, pick, F, g, g)
  BY <1>1, <1>2, FoldExists
<1>6. ASSUME NEW s \in SUBSET S, s # {}
      PROVE  F[<<pick[s], g[s \ {pick[s]}]>>] = f[Picked(s)] + g[s \ {Picked(s)}]
  BY <1>1, <1>3, <1>4, <1>6
<1>7. Sums(S, f, g)
  BY <1>5, <1>6 DEF Sums, Unfolds
<1> QED
  BY <1>7

\* Two solutions agree on what both of them sum up.
LEMMA SumsAgree ==
    ASSUME NEW S, IsFiniteSet(S), NEW f, NEW g, Sums(S, f, g),
           NEW T, NEW e, NEW h, Sums(T, e, h), S \subseteq T,
           \A x \in S : f[x] = e[x]
    PROVE  \A A \in SUBSET S : g[A] = h[A]
<1> DEFINE Bad == {A \in SUBSET S : g[A] # h[A]}
<1> SUFFICES ASSUME Bad # {}
             PROVE  FALSE
  OBVIOUS
<1>1. PICK A \in Bad : \A B \in Bad : ~ (B \subseteq A /\ B # A)
  <2>1. Bad \subseteq SUBSET S
    OBVIOUS
  <2> HIDE DEF Bad
  <2> QED
    BY <2>1, SmallestSet
<1> DEFINE x == Picked(A)
           B == A \ {x}
<1>2. A \in SUBSET S /\ A \in SUBSET T /\ g[A] # h[A]
  OBVIOUS
<1>3. /\ g[A] = IF A = {} THEN 0 ELSE f[x] + g[B]
      /\ h[A] = IF A = {} THEN 0 ELSE e[x] + h[B]
  BY <1>2 DEF Sums
<1>4. A # {}
  BY <1>2, <1>3
<1>5. x \in A
  BY <1>4 DEF Picked
<1>6. B \in SUBSET S /\ B \subseteq A /\ B # A
  BY <1>2, <1>5
<1> HIDE DEF x
<1>7. g[B] = h[B]
  BY <1>1, <1>6
<1>8. f[x] = e[x]
  BY <1>2, <1>5
<1> QED
  BY <1>2, <1>3, <1>4, <1>7, <1>8

\* Whichever element is taken first, a sum is that element and the rest.
LEMMA SumsAdd ==
    ASSUME NEW S, IsFiniteSet(S), NEW f \in [S -> Nat],
           NEW g \in [SUBSET S -> Nat], Sums(S, f, g),
           NEW D \in SUBSET S, NEW z \in S, z \notin D
    PROVE  g[D \cup {z}] = g[D] + f[z]
<1>1. ASSUME NEW A \in SUBSET S
      PROVE  g[A] = IF A = {} THEN 0 ELSE f[Picked(A)] + g[A \ {Picked(A)}]
  BY DEF Sums
<1> DEFINE Bad == {A \in SUBSET S : \E y \in S \ A : g[A \cup {y}] # g[A] + f[y]}
<1> SUFFICES ASSUME Bad # {}
             PROVE  FALSE
  OBVIOUS
<1>3. PICK A \in Bad : \A B \in Bad : ~ (B \subseteq A /\ B # A)
  <2>1. Bad \subseteq SUBSET S
    OBVIOUS
  <2> HIDE DEF Bad
  <2> QED
    BY <2>1, SmallestSet
<1>4. PICK y \in S \ A : g[A \cup {y}] # g[A] + f[y]
  OBVIOUS
<1> DEFINE C == A \cup {y}
           x == Picked(C)
           B == A \ {x}
<1>5. x \in C
  BY DEF Picked
<1>6. g[C] = f[x] + g[C \ {x}]
  BY <1>1
<1>7. A \in SUBSET S /\ y \notin A /\ y \in S
  OBVIOUS
<1> HIDE DEF x
<1>8. x # y
  <2> SUFFICES ASSUME x = y
               PROVE  FALSE
    OBVIOUS
  <2>1. C \ {x} = A
    BY <1>7
  <2>2. g[C] = f[y] + g[A]
    BY <1>6, <2>1
  <2>3. g[A] \in Nat /\ f[y] \in Nat
    BY <1>7
  <2>4. g[C] = g[A] + f[y]
    BY <2>2, <2>3
  <2> QED
    BY <1>4, <2>4
<1>9. x \in A
  BY <1>5, <1>8
<1>10. /\ B \in SUBSET S /\ B \subseteq A /\ B # A
       /\ C \ {x} = B \cup {y} /\ A = B \cup {x}
       /\ x \in S \ B /\ y \in S \ B
  BY <1>7, <1>8, <1>9
<1>11. B \notin Bad
  BY <1>3, <1>10
<1>12. g[B \cup {y}] = g[B] + f[y] /\ g[B \cup {x}] = g[B] + f[x]
  BY <1>10, <1>11
<1>13. g[B] \in Nat /\ f[x] \in Nat /\ f[y] \in Nat
  BY <1>10
<1>14. g[C] = f[x] + (g[B] + f[y]) /\ g[A] = g[B] + f[x]
  BY <1>6, <1>10, <1>12
<1>15. g[C] = g[A] + f[y]
  <2> HIDE DEF B, C
  <2> QED
    BY <1>13, <1>14
<1> QED
  BY <1>4, <1>15
----------------------------------------------------------------------------
(* Sums of a function over finite sets.                                    *)

SumOver(f, S) == MapThenSumSet(LAMBDA x : f[x], S)

\* What SumOver chooses is a solution of the recursion.
LEMMA SumIsChosen ==
    ASSUME NEW f, NEW S
    PROVE  SumOver(f, S) = (CHOOSE g : Sums(S, f, g))[S]
BY DEF SumOver, MapThenSumSet, MapThenFoldSet, Sums, Picked

\* The sum over a part is what any solution for a whole says of it.
LEMMA SumIsSolved ==
    ASSUME NEW T, IsFiniteSet(T), NEW e \in [T -> Nat], NEW h, Sums(T, e, h),
           NEW f, NEW S \in SUBSET T, \A x \in S : f[x] = e[x]
    PROVE  SumOver(f, S) = h[S]
<1> DEFINE d == [x \in S |-> e[x]]
           c == CHOOSE g : Sums(S, f, g)
<1>1. IsFiniteSet(S) /\ d \in [S -> Nat]
  BY FS_Subset
<1>2. PICK g \in [SUBSET S -> Nat] : Sums(S, d, g)
  <2> HIDE DEF d
  <2> QED
    BY <1>1, SumsExist
<1>3. ASSUME NEW s \in SUBSET S, s # {}
      PROVE  f[Picked(s)] = d[Picked(s)]
  <2>1. Picked(s) \in s
    BY <1>3 DEF Picked
  <2> QED
    BY <2>1
<1>4. [s \in SUBSET S |-> IF s = {} THEN 0 ELSE f[Picked(s)] + g[s \ {Picked(s)}]]
        = [s \in SUBSET S |-> IF s = {} THEN 0 ELSE d[Picked(s)] + g[s \ {Picked(s)}]]
  <2> HIDE DEF d
  <2> QED
    BY <1>3
<1>5. Sums(S, f, g)
  BY <1>2, <1>4 DEF Sums
<1>6. Sums(S, f, c)
  BY <1>5
<1>7. c[S] = h[S]
  <2> HIDE DEF c
  <2>1. \A A \in SUBSET S : c[A] = h[A]
    BY <1>1, <1>6, SumsAgree
  <2> QED
    BY <2>1
<1> QED
  BY <1>7, SumIsChosen

\* Adding an element of a whole adds its value.
LEMMA SumOfMoreOf ==
    ASSUME NEW T, IsFiniteSet(T), NEW e, e \in [T -> Nat], NEW f, \A x \in T : f[x] = e[x],
           NEW S \in SUBSET T, NEW y \in T, y \notin S
    PROVE  /\ SumOver(f, S) \in Nat
           /\ SumOver(f, S \cup {y}) = SumOver(f, S) + f[y]
<1>1. PICK h \in [SUBSET T -> Nat] : Sums(T, e, h)
  BY SumsExist
<1>2. SumOver(f, S) = h[S]
  BY <1>1, SumIsSolved
<1>3. S \cup {y} \in SUBSET T
  OBVIOUS
<1>4. SumOver(f, S \cup {y}) = h[S \cup {y}]
  BY <1>1, <1>3, SumIsSolved
<1>5. h[S \cup {y}] = h[S] + e[y]
  BY ONLY <1>1, IsFiniteSet(T), e \in [T -> Nat], S \in SUBSET T, y \in T,
          y \notin S, SumsAdd
<1> QED
  BY <1>2, <1>4, <1>5

\* Adding an element adds its value.
LEMMA SumOfMore ==
    ASSUME NEW f, NEW S, IsFiniteSet(S), NEW y, y \notin S,
           \A x \in S \cup {y} : f[x] \in Nat
    PROVE  /\ SumOver(f, S) \in Nat
           /\ SumOver(f, S \cup {y}) = SumOver(f, S) + f[y]
<1> DEFINE T == S \cup {y}
           e == [x \in T |-> f[x]]
<1>1. IsFiniteSet(T) /\ e \in [T -> Nat]
  BY FS_AddElement
<1>2. S \in SUBSET T /\ y \in T /\ y \notin S /\ \A x \in T : f[x] = e[x]
  OBVIOUS
<1> HIDE DEF e, T
<1> QED
  BY <1>1, <1>2, SumOfMoreOf

\* The empty sum, and the type of a sum.
LEMMA SumType ==
    ASSUME NEW f, NEW S, IsFiniteSet(S), \A x \in S : f[x] \in Nat
    PROVE  SumOver(f, S) \in Nat /\ SumOver(f, {}) = 0
<1> DEFINE e == [x \in S |-> f[x]]
<1>1. e \in [S -> Nat] /\ \A x \in S : f[x] = e[x]
  OBVIOUS
<1> HIDE DEF e
<1>2. PICK h \in [SUBSET S -> Nat] : Sums(S, e, h)
  BY <1>1, SumsExist
<1>3. SumOver(f, S) = h[S]
  BY <1>1, <1>2, SumIsSolved
<1>4. SumOver(f, {}) = h[{}]
  <2>1. {} \in SUBSET S /\ \A x \in {} : f[x] = e[x]
    OBVIOUS
  <2> QED
    BY <1>1, <1>2, <2>1, SumIsSolved
<1>5. h[{}] = 0
  BY <1>2 DEF Sums
<1> QED
  BY <1>2, <1>3, <1>4, <1>5

\* A sum depends on nothing outside its set.
LEMMA SumOfEquals ==
    ASSUME NEW f, NEW e, NEW S, IsFiniteSet(S),
           \A x \in S : f[x] \in Nat /\ f[x] = e[x]
    PROVE  SumOver(f, S) = SumOver(e, S)
<1> DEFINE d == [x \in S |-> f[x]]
<1>1. d \in [S -> Nat] /\ \A x \in S : f[x] = d[x] /\ e[x] = d[x]
  OBVIOUS
<1> HIDE DEF d
<1>2. PICK h \in [SUBSET S -> Nat] : Sums(S, d, h)
  BY <1>1, SumsExist
<1>3. SumOver(f, S) = h[S]
  BY <1>1, <1>2, SumIsSolved
<1>4. SumOver(e, S) = h[S]
  BY <1>1, <1>2, SumIsSolved
<1> QED
  BY <1>3, <1>4

\* More elements give no smaller sum.
LEMMA SumOfLess ==
    ASSUME NEW f, NEW T, IsFiniteSet(T), \A x \in T : f[x] \in Nat,
           NEW S \in SUBSET T
    PROVE  SumOver(f, S) <= SumOver(f, T)
<1> DEFINE Bad == {A \in SUBSET T : S \subseteq A /\ ~ (SumOver(f, S) <= SumOver(f, A))}
<1>1. \A A \in SUBSET T : IsFiniteSet(A) /\ SumOver(f, A) \in Nat
  <2> SUFFICES ASSUME NEW A \in SUBSET T
               PROVE  IsFiniteSet(A) /\ SumOver(f, A) \in Nat
    OBVIOUS
  <2>1. IsFiniteSet(A) /\ \A x \in A : f[x] \in Nat
    BY FS_Subset
  <2> QED
    BY <2>1, SumType
<1>2. ASSUME NEW A \in SUBSET T, NEW y \in T \ A
      PROVE  SumOver(f, A \cup {y}) = SumOver(f, A) + f[y]
  <2>1. y \notin A /\ IsFiniteSet(A) /\ \A x \in A \cup {y} : f[x] \in Nat
    BY <1>1
  <2> QED
    BY <2>1, SumOfMore
<1>3. Bad = {}
  <2> SUFFICES ASSUME Bad # {}
               PROVE  FALSE
    OBVIOUS
  <2>1. PICK A \in Bad : \A B \in Bad : ~ (B \subseteq A /\ B # A)
    <3>1. Bad \subseteq SUBSET T
      OBVIOUS
    <3> HIDE DEF Bad
    <3> QED
      BY <3>1, SmallestSet
  <2>2. A \in SUBSET T /\ S \subseteq A /\ ~ (SumOver(f, S) <= SumOver(f, A))
    BY DEF Bad
  <2>3. A # S
    BY <1>1, <2>2
  <2>4. PICK y \in A : y \notin S
    BY <2>2, <2>3
  <2> DEFINE B == A \ {y}
  <2>5. B \in SUBSET T /\ S \subseteq B /\ B \subseteq A /\ B # A /\ y \in T \ B
        /\ A = B \cup {y}
    BY <2>2, <2>4
  <2>6. B \notin Bad
    BY <2>1, <2>5
  <2>7. SumOver(f, S) <= SumOver(f, B)
    BY <2>5, <2>6 DEF Bad
  <2> HIDE DEF B
  <2>8. SumOver(f, A) = SumOver(f, B) + f[y]
    BY <1>2, <2>5
  <2>9. f[y] \in Nat /\ SumOver(f, S) \in Nat /\ SumOver(f, B) \in Nat
    BY <1>1, <2>5
  <2>10. SumOver(f, S) <= SumOver(f, A)
    BY <2>7, <2>8, <2>9
  <2> QED
    BY <2>2, <2>10
<1>4. \A A \in SUBSET T : S \subseteq A => SumOver(f, S) <= SumOver(f, A)
  BY <1>3
<1> HIDE DEF Bad
<1> QED
  BY <1>4

\* It is larger by at least the value of an element that is new.
LEMMA SumOfPart ==
    ASSUME NEW f, NEW T, IsFiniteSet(T), \A x \in T : f[x] \in Nat,
           NEW S \in SUBSET T, NEW y \in T \ S
    PROVE  SumOver(f, S) + f[y] <= SumOver(f, T)
<1> DEFINE A == S \cup {y}
<1>1. IsFiniteSet(S) /\ y \notin S /\ \A x \in S \cup {y} : f[x] \in Nat
  BY FS_Subset
<1>2. SumOver(f, A) = SumOver(f, S) + f[y]
  BY <1>1, SumOfMore
<1>3. A \in SUBSET T
  OBVIOUS
<1> HIDE DEF A
<1>4. SumOver(f, A) <= SumOver(f, T)
  BY <1>3, SumOfLess
<1> QED
  BY <1>2, <1>4

\* Elements of value zero add nothing.
LEMMA SumOfZeros ==
    ASSUME NEW f, NEW T, IsFiniteSet(T), \A x \in T : f[x] \in Nat,
           NEW S \in SUBSET T, \A x \in T \ S : f[x] = 0
    PROVE  SumOver(f, T) = SumOver(f, S)
<1> DEFINE Bad == {A \in SUBSET T : S \subseteq A /\ SumOver(f, A) # SumOver(f, S)}
<1>1. \A A \in SUBSET T : IsFiniteSet(A) /\ SumOver(f, A) \in Nat
  <2> SUFFICES ASSUME NEW A \in SUBSET T
               PROVE  IsFiniteSet(A) /\ SumOver(f, A) \in Nat
    OBVIOUS
  <2>1. IsFiniteSet(A) /\ \A x \in A : f[x] \in Nat
    BY FS_Subset
  <2> QED
    BY <2>1, SumType
<1>2. ASSUME NEW A \in SUBSET T, NEW y \in T \ A
      PROVE  SumOver(f, A \cup {y}) = SumOver(f, A) + f[y]
  <2>1. y \notin A /\ IsFiniteSet(A) /\ \A x \in A \cup {y} : f[x] \in Nat
    BY <1>1
  <2> QED
    BY <2>1, SumOfMore
<1>3. Bad = {}
  <2> SUFFICES ASSUME Bad # {}
               PROVE  FALSE
    OBVIOUS
  <2>1. PICK A \in Bad : \A B \in Bad : ~ (B \subseteq A /\ B # A)
    <3>1. Bad \subseteq SUBSET T
      OBVIOUS
    <3> HIDE DEF Bad
    <3> QED
      BY <3>1, SmallestSet
  <2>2. A \in SUBSET T /\ S \subseteq A /\ SumOver(f, A) # SumOver(f, S)
    BY DEF Bad
  <2>3. PICK y \in A : y \notin S
    BY <2>2
  <2> DEFINE B == A \ {y}
  <2>4. B \in SUBSET T /\ S \subseteq B /\ B \subseteq A /\ B # A /\ y \in T \ B
        /\ A = B \cup {y}
    BY <2>2, <2>3
  <2>5. B \notin Bad
    BY <2>1, <2>4
  <2>6. SumOver(f, B) = SumOver(f, S)
    BY <2>4, <2>5 DEF Bad
  <2> HIDE DEF B
  <2>7. SumOver(f, A) = SumOver(f, B) + f[y]
    BY <1>2, <2>4
  <2>8. f[y] = 0 /\ SumOver(f, B) \in Nat
    BY <1>1, <2>3, <2>4
  <2> QED
    BY <2>2, <2>6, <2>7, <2>8
<1> HIDE DEF Bad
<1>4. T \notin Bad
  BY <1>3
<1> QED
  BY <1>4 DEF Bad

\* When one value changes, the sum changes by as much.
LEMMA SumChanges ==
    ASSUME NEW f, NEW e, NEW S, IsFiniteSet(S), NEW y \in S,
           \A x \in S : f[x] \in Nat /\ e[x] \in Nat,
           \A x \in S \ {y} : e[x] = f[x]
    PROVE  SumOver(e, S) + f[y] = SumOver(f, S) + e[y]
<1> DEFINE R == S \ {y}
<1>1. IsFiniteSet(R) /\ y \notin R /\ S = R \cup {y}
  BY FS_Subset
<1>2. \A x \in R : f[x] \in Nat /\ f[x] = e[x]
  OBVIOUS
<1>3. \A x \in R \cup {y} : f[x] \in Nat /\ e[x] \in Nat
  OBVIOUS
<1> HIDE DEF R
<1>4. SumOver(f, R) \in Nat /\ SumOver(f, S) = SumOver(f, R) + f[y]
  BY <1>1, <1>3, SumOfMore
<1>5. SumOver(e, R) \in Nat /\ SumOver(e, S) = SumOver(e, R) + e[y]
  BY <1>1, <1>3, SumOfMore
<1>6. SumOver(f, R) = SumOver(e, R)
  BY <1>1, <1>2, SumOfEquals
<1>7. f[y] \in Nat /\ e[y] \in Nat
  OBVIOUS
<1> QED
  BY <1>4, <1>5, <1>6, <1>7

\* No larger values give no larger sum.
LEMMA SumOfSmaller ==
    ASSUME NEW f, NEW e, NEW T, IsFiniteSet(T),
           \A x \in T : f[x] \in Nat /\ e[x] \in Nat /\ f[x] <= e[x]
    PROVE  SumOver(f, T) <= SumOver(e, T)
<1> DEFINE Bad == {A \in SUBSET T : ~ (SumOver(f, A) <= SumOver(e, A))}
<1>1. \A A \in SUBSET T :
        IsFiniteSet(A) /\ SumOver(f, A) \in Nat /\ SumOver(e, A) \in Nat
  <2> SUFFICES ASSUME NEW A \in SUBSET T
               PROVE  IsFiniteSet(A) /\ SumOver(f, A) \in Nat /\ SumOver(e, A) \in Nat
    OBVIOUS
  <2>1. IsFiniteSet(A) /\ \A x \in A : f[x] \in Nat /\ e[x] \in Nat
    BY FS_Subset
  <2> QED
    BY <2>1, SumType
<1>2. SumOver(f, {}) = 0 /\ SumOver(e, {}) = 0
  BY SumType
<1>3. Bad = {}
  <2> SUFFICES ASSUME Bad # {}
               PROVE  FALSE
    OBVIOUS
  <2>1. PICK A \in Bad : \A B \in Bad : ~ (B \subseteq A /\ B # A)
    <3>1. Bad \subseteq SUBSET T
      OBVIOUS
    <3> HIDE DEF Bad
    <3> QED
      BY <3>1, SmallestSet
  <2>2. A \in SUBSET T /\ ~ (SumOver(f, A) <= SumOver(e, A))
    BY DEF Bad
  <2>3. A # {}
    BY <1>2, <2>2
  <2>4. PICK y \in A : TRUE
    BY <2>3
  <2> DEFINE B == A \ {y}
  <2>5. B \in SUBSET T /\ B \subseteq A /\ B # A /\ y \notin B /\ A = B \cup {y}
    BY <2>2, <2>4
  <2>6. SumOver(f, B) <= SumOver(e, B)
    BY <2>1, <2>5 DEF Bad
  <2> HIDE DEF B
  <2>7. IsFiniteSet(B) /\ \A x \in B \cup {y} : f[x] \in Nat /\ e[x] \in Nat
    BY <1>1, <2>2, <2>5
  <2>8. SumOver(f, A) = SumOver(f, B) + f[y] /\ SumOver(e, A) = SumOver(e, B) + e[y]
    BY <2>5, <2>7, SumOfMore
  <2>9. f[y] \in Nat /\ e[y] \in Nat /\ f[y] <= e[y]
    BY <2>2
  <2>10. SumOver(f, B) \in Nat /\ SumOver(e, B) \in Nat
    BY <1>1, <2>5
  <2> QED
    BY <2>2, <2>6, <2>8, <2>9, <2>10
<1> HIDE DEF Bad
<1>4. T \notin Bad
  BY <1>3
<1> QED
  BY <1>4 DEF Bad

\* What holds of 0 and goes from each number to the next holds up to N.
LEMMA Upwards ==
    ASSUME NEW N \in Nat, NEW G \in SUBSET (0 .. N), 0 \in G,
           \A m \in 1 .. N : m - 1 \in G => m \in G
    PROVE  G = 0 .. N
<1> DEFINE T == (0 .. N) \ G
<1>1. T = {}
  <2> SUFFICES ASSUME T # {}
               PROVE  FALSE
    OBVIOUS
  <2>1. T \in SUBSET Nat
    OBVIOUS
  <2>2. PICK n \in T : \A m \in T : n <= m
    <3> HIDE DEF T
    <3> QED
      BY <2>1, SmallestNumber
  <2>3. n \in 1 .. N /\ n \notin G
    BY <2>2
  <2>4. n - 1 \notin T
    BY <2>2, <2>3
  <2>5. n - 1 \in G
    BY <2>3, <2>4
  <2> QED
    BY <2>3, <2>5
<1> QED
  BY <1>1

----------------------------------------------------------------------------
(* Sums of a field over finite sets of records.                            *)

SumOfUnits(E) == MapThenSumSet(LAMBDA x : x.units, E)

\* The sum of a field is the sum of the function that takes it.
LEMMA UnitsAreSummed ==
    ASSUME NEW E, IsFiniteSet(E), NEW u, \A x \in E : x.units \in Nat /\ u[x] = x.units
    PROVE  SumOfUnits(E) = SumOver(u, E)
<1> DEFINE Takes(g) == g = [s \in SUBSET E |->
                              IF s = {} THEN 0
                              ELSE Picked(s).units + g[s \ {Picked(s)}]]
           c == CHOOSE g : Takes(g)
           d == [x \in E |-> x.units]
<1>1. SumOfUnits(E) = c[E]
  BY DEF SumOfUnits, MapThenSumSet, MapThenFoldSet, Picked
<1>2. d \in [E -> Nat] /\ \A x \in E : u[x] = d[x]
  OBVIOUS
<1>3. ASSUME NEW g
      PROVE  Takes(g) <=> Sums(E, d, g)
  <2>1. ASSUME NEW s \in SUBSET E, s # {}
        PROVE  Picked(s).units = d[Picked(s)]
    <3>1. Picked(s) \in s
      BY <2>1 DEF Picked
    <3> QED
      BY <3>1
  <2>2. [s \in SUBSET E |-> IF s = {} THEN 0 ELSE Picked(s).units + g[s \ {Picked(s)}]]
        = [s \in SUBSET E |-> IF s = {} THEN 0 ELSE d[Picked(s)] + g[s \ {Picked(s)}]]
    <3> HIDE DEF d
    <3> QED
      BY <2>1
  <2> QED
    BY <2>2 DEF Sums
<1> HIDE DEF d
<1>4. PICK h \in [SUBSET E -> Nat] : Sums(E, d, h)
  BY <1>2, SumsExist
<1>5. Takes(h)
  <2> HIDE DEF Takes
  <2> QED
    BY <1>3, <1>4
<1>6. Takes(c)
  <2> HIDE DEF Takes
  <2> QED
    BY <1>5
<1>7. Sums(E, d, c)
  <2> HIDE DEF Takes, c
  <2> QED
    BY <1>3, <1>6
<1> HIDE DEF c
<1>8. c[E] = h[E]
  <2>1. \A A \in SUBSET E : c[A] = h[A]
    BY <1>4, <1>7, SumsAgree
  <2> QED
    BY <2>1
<1>9. SumOver(u, E) = h[E]
  BY <1>2, <1>4, SumIsSolved
<1> QED
  BY <1>1, <1>8, <1>9

\* When no two records name the same thing, and each carries what f says of the
\* thing it names, their sum is that of f over the things named.
LEMMA SumOfNamed ==
    ASSUME NEW E, IsFiniteSet(E), NEW f,
           \A x \in E : x.units \in Nat /\ f[x.deal] = x.units,
           \A x, y \in E : x.deal = y.deal => x = y
    PROVE  SumOfUnits(E) = SumOver(f, {x.deal : x \in E})
<1> DEFINE u == [x \in E |-> x.units]
           Named(A) == {x.deal : x \in A}
           Bad == {A \in SUBSET E : SumOver(u, A) # SumOver(f, Named(A))}
<1>1. \A x \in E : x.units \in Nat /\ u[x] = x.units /\ f[x.deal] = x.units
  OBVIOUS
<1> HIDE DEF u
<1>2. SumOfUnits(E) = SumOver(u, E)
  BY <1>1, UnitsAreSummed
<1>3. Bad = {}
  <2> SUFFICES ASSUME Bad # {}
               PROVE  FALSE
    OBVIOUS
  <2>1. PICK A \in Bad : \A B \in Bad : ~ (B \subseteq A /\ B # A)
    <3>1. Bad \subseteq SUBSET E
      OBVIOUS
    <3> HIDE DEF Bad
    <3> QED
      BY <3>1, SmallestSet
  <2>2. A \in SUBSET E /\ SumOver(u, A) # SumOver(f, Named(A))
    BY DEF Bad
  <2>3. A # {}
    <3> SUFFICES ASSUME A = {}
                 PROVE  FALSE
      OBVIOUS
    <3>1. Named(A) = {}
      OBVIOUS
    <3>2. SumOver(u, {}) = 0 /\ SumOver(f, {}) = 0
      <4>1. IsFiniteSet({})
        BY FS_EmptySet
      <4> QED
        BY <4>1, SumType
    <3> QED
      BY <2>2, <3>1, <3>2
  <2>4. PICK y \in A : TRUE
    BY <2>3
  <2> DEFINE B == A \ {y}
  <2>5. /\ B \in SUBSET E /\ B \subseteq A /\ B # A /\ y \notin B /\ y \in E
        /\ A = B \cup {y} /\ IsFiniteSet(B)
    <3>1. B \in SUBSET E
      BY <2>2
    <3>2. IsFiniteSet(B)
      BY <3>1, FS_Subset
    <3> QED
      BY <2>2, <2>4, <3>1, <3>2
  <2>6. B \notin Bad
    BY <2>1, <2>5
  <2>7. SumOver(u, B) = SumOver(f, Named(B))
    BY <2>5, <2>6 DEF Bad
  <2> HIDE DEF B
  <2>8. SumOver(u, B \cup {y}) = SumOver(u, B) + u[y]
    <3>1. \A x \in B \cup {y} : u[x] \in Nat
      BY <1>1, <2>5
    <3> QED
      BY <2>5, <3>1, SumOfMore
  <2>9. Named(A) = Named(B) \cup {y.deal} /\ y.deal \notin Named(B)
    BY <2>5
  <2>10. SumOver(f, Named(B) \cup {y.deal}) = SumOver(f, Named(B)) + f[y.deal]
    <3>1. IsFiniteSet(Named(B))
      <4> DEFINE g == [x \in B |-> x.deal]
      <4>1. g \in Surjection(B, Named(B))
        BY DEF Surjection
      <4> HIDE DEF g, Named
      <4> QED
        BY <2>5, <4>1, FS_Surjection
    <3>2. \A d \in Named(B) \cup {y.deal} : f[d] \in Nat
      BY <1>1, <2>5
    <3> HIDE DEF Named
    <3> QED
      BY <2>9, <3>1, <3>2, SumOfMore
  <2> QED
    BY <1>1, <2>2, <2>5, <2>7, <2>8, <2>9, <2>10
<1>4. SumOver(u, E) = SumOver(f, Named(E))
  BY <1>3
<1> QED
  BY <1>2, <1>4
=============================================================================
