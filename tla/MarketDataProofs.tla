--------------------------- MODULE MarketDataProofs ---------------------------
(***************************************************************************)
(* Theorems about the readers of market data, for any ticks, bars, bounds  *)
(* and page sizes, whatever the terminal does between two calls:           *)
(*   - a visit of the tick history delivers every tick that its range had  *)
(*     when it began, and no tick twice;                                   *)
(*   - the bootstrap of a visit and a query of bars take no answer of a    *)
(*     terminal that still synchronizes;                                   *)
(*   - the committed cursor of a realtime source passes no tick that was   *)
(*     not published.                                                      *)
(* A bag of ticks is proved about tick by tick: Copies says how often each *)
(* is in it, and every operation on bags is one on those numbers.          *)
(***************************************************************************)
EXTENDS MCMarketData, RealtimeDelivery, SetSums, SequenceTheorems

-----------------------------------------------------------------------------
(* Bags of ticks. *)

\* How often a tick is in a bag.
Copies(b, k) == IF k \in DOMAIN b THEN b[k] ELSE 0

\* A finite bag of ticks.
IsTicks(b) ==
    /\ b = [k \in DOMAIN b |-> b[k]]
    /\ IsFiniteSet(DOMAIN b) /\ DOMAIN b \subseteq Tick
    /\ \A k \in DOMAIN b : b[k] \in Nat \ {0}

\* Two bags with the same ticks are one.
LEMMA CopiesTell ==
    ASSUME NEW a, NEW b, IsTicks(a), IsTicks(b), \A k \in Tick : Copies(a, k) = Copies(b, k)
    PROVE  a = b
<1>1. DOMAIN a = DOMAIN b
  <2>1. \A k \in DOMAIN a : k \in Tick /\ a[k] # 0
    BY DEF IsTicks
  <2>2. \A k \in DOMAIN b : k \in Tick /\ b[k] # 0
    BY DEF IsTicks
  <2> QED
    BY <2>1, <2>2 DEF Copies
<1>2. \A k \in DOMAIN a : a[k] = b[k]
  BY <1>1 DEF Copies, IsTicks
<1> QED
  BY <1>1, <1>2 DEF IsTicks

\* Copies are numbers, and those of the empty bag are none.
LEMMA CopiesType ==
    ASSUME NEW b, IsTicks(b), NEW k
    PROVE  /\ Copies(b, k) \in Nat
           /\ k \in DOMAIN b <=> Copies(b, k) # 0
           /\ Copies(b, k) # 0 => k \in Tick
BY DEF Copies, IsTicks

\* The empty bag, and what makes a bag empty.
LEMMA EmptyTicks ==
    /\ IsTicks(NoTicks) /\ DOMAIN NoTicks = {}
    /\ \A k : Copies(NoTicks, k) = 0
    /\ \A b : IsTicks(b) /\ DOMAIN b = {} => b = NoTicks
BY FS_EmptySet DEF NoTicks, EmptyBag, SetToBag, Copies, IsTicks

\* A bag is empty when no tick is in it.
LEMMA NoCopies ==
    ASSUME NEW b, IsTicks(b)
    PROVE  b = NoTicks <=> \A k \in Tick : Copies(b, k) = 0
BY EmptyTicks, CopiesTell

\* One tick.
LEMMA SetTicks ==
    ASSUME NEW S, IsFiniteSet(S), S \subseteq Tick
    PROVE  /\ IsTicks(SetToBag(S)) /\ DOMAIN SetToBag(S) = S
           /\ \A k : Copies(SetToBag(S), k) = IF k \in S THEN 1 ELSE 0
BY DEF SetToBag, Copies, IsTicks

\* The sum of two bags.
LEMMA AddedTicks ==
    ASSUME NEW a, NEW b, IsTicks(a), IsTicks(b)
    PROVE  /\ IsTicks(a (+) b) /\ DOMAIN (a (+) b) = DOMAIN a \cup DOMAIN b
           /\ \A k : Copies(a (+) b, k) = Copies(a, k) + Copies(b, k)
<1>1. IsFiniteSet(DOMAIN a \cup DOMAIN b)
  BY FS_Union DEF IsTicks
<1>2. \A k \in DOMAIN a \cup DOMAIN b :
         (IF k \in DOMAIN a THEN a[k] ELSE 0) + (IF k \in DOMAIN b THEN b[k] ELSE 0) \in Nat \ {0}
  BY DEF IsTicks
<1>3. DOMAIN (a (+) b) = DOMAIN a \cup DOMAIN b
  BY DEF (+)
<1>4. \A k : Copies(a (+) b, k) = Copies(a, k) + Copies(b, k)
  BY DEF (+), Copies
<1>5. IsTicks(a (+) b)
  BY <1>1, <1>2, <1>3 DEF (+), IsTicks
<1> QED
  BY <1>3, <1>4, <1>5

\* The difference of two numbers that does not go below zero.
Rest(m, n) == IF m > n THEN m - n ELSE 0

\* The difference of two bags.
LEMMA RemovedTicks ==
    ASSUME NEW a, NEW b, IsTicks(a), IsTicks(b)
    PROVE  /\ IsTicks(a (-) b) /\ DOMAIN (a (-) b) \subseteq DOMAIN a
           /\ \A k : Copies(a (-) b, k) = Rest(Copies(a, k), Copies(b, k))
<1> DEFINE left(k) == IF k \in DOMAIN b THEN a[k] - b[k] ELSE a[k]
           more == [k \in DOMAIN a |-> left(k)]
           D == {k \in DOMAIN more : more[k] > 0}
<1>1. a (-) b = [k \in D |-> more[k]]
  BY DEF (-)
<1>2. D \subseteq DOMAIN a /\ \A k \in D : more[k] = left(k) /\ left(k) > 0 /\ left(k) \in Int
  BY DEF IsTicks
<1>3. \A k \in DOMAIN a \ D : ~ (left(k) > 0)
  OBVIOUS
<1>4. IsFiniteSet(D)
  BY <1>2, FS_Subset DEF IsTicks
<1>5. \A k : Copies(a (-) b, k) = Rest(Copies(a, k), Copies(b, k))
  <2> SUFFICES ASSUME NEW k
               PROVE  Copies(a (-) b, k) = Rest(Copies(a, k), Copies(b, k))
    OBVIOUS
  <2>1. Copies(a (-) b, k) = IF k \in D THEN left(k) ELSE 0
    BY <1>1, <1>2 DEF Copies
  <2>2. CASE k \in DOMAIN a
    BY <1>2, <1>3, <2>1, <2>2 DEF Copies, Rest, IsTicks
  <2>3. CASE k \notin DOMAIN a
    <3>1. k \notin D
      BY <1>2, <2>3
    <3> HIDE DEF D
    <3> QED
      BY <2>1, <2>3, <3>1 DEF Copies, Rest, IsTicks
  <2> QED
    BY <2>2, <2>3
<1>7. D \subseteq Tick /\ \A k \in D : more[k] \in Nat \ {0}
  BY <1>2 DEF IsTicks
<1> HIDE DEF D, more
<1>6. IsTicks(a (-) b)
  <2>1. DOMAIN (a (-) b) = D
    BY <1>1
  <2> QED
    BY <1>1, <1>4, <1>7, <2>1 DEF IsTicks
<1> QED
  BY <1>1, <1>2, <1>5, <1>6

\* The ticks of a bag that lie between two times.
LEMMA SomeTicks ==
    ASSUME NEW b, IsTicks(b), NEW lo, NEW hi
    PROVE  /\ IsTicks(Between(b, lo, hi)) /\ DOMAIN Between(b, lo, hi) \subseteq DOMAIN b
           /\ \A k : Copies(Between(b, lo, hi), k)
                       = IF k.time \in lo .. hi THEN Copies(b, k) ELSE 0
<1> DEFINE D == {k \in DOMAIN b : k.time \in lo .. hi}
<1>1. IsFiniteSet(D)
  BY FS_Subset DEF IsTicks
<1>2. Between(b, lo, hi) = [k \in D |-> b[k]]
  BY DEF Between, BagToSet
<1> QED
  BY <1>1, <1>2 DEF IsTicks, Copies

\* One bag is within another when each tick is.
LEMMA WithinTells ==
    ASSUME NEW a, NEW b, IsTicks(a), IsTicks(b)
    PROVE  a \sqsubseteq b <=> \A k \in Tick : Copies(a, k) <= Copies(b, k)
<1>1. ASSUME a \sqsubseteq b, NEW k \in Tick
      PROVE  Copies(a, k) <= Copies(b, k)
  BY <1>1 DEF \sqsubseteq, Copies, IsTicks
<1>2. ASSUME \A k \in Tick : Copies(a, k) <= Copies(b, k)
      PROVE  a \sqsubseteq b
  <2>1. ASSUME NEW k \in DOMAIN a
        PROVE  k \in DOMAIN b /\ a[k] <= b[k]
    <3>1. k \in Tick /\ a[k] \in Nat \ {0} /\ Copies(a, k) = a[k] /\ Copies(a, k) <= Copies(b, k)
      BY <1>2 DEF IsTicks, Copies
    <3> QED
      BY <3>1 DEF Copies
  <2> QED
    BY <2>1 DEF \sqsubseteq
<1> QED
  BY <1>1, <1>2

-----------------------------------------------------------------------------
(* Their sizes. *)

\* The size of a bag is the sum of its copies.
LEMMA SizeIsSum ==
    ASSUME NEW b
    PROVE  Size(b) = SumOver(b, DOMAIN b)
BY DEF Size, BagCardinality, SumOver, MapThenSumSet, MapThenFoldSet

\* A finite bag has a size.
LEMMA SizeType ==
    ASSUME NEW b, IsTicks(b)
    PROVE  Size(b) \in Nat
<1>1. IsFiniteSet(DOMAIN b) /\ \A k \in DOMAIN b : b[k] \in Nat
  BY DEF IsTicks
<1> QED
  BY <1>1, SumType, SizeIsSum

\* The empty bag has none.
LEMMA SizeOfNone ==
    Size(NoTicks) = 0
<1>1. IsFiniteSet(DOMAIN NoTicks) /\ \A k \in DOMAIN NoTicks : NoTicks[k] \in Nat
  BY EmptyTicks DEF IsTicks
<1>2. DOMAIN NoTicks = {}
  BY EmptyTicks
<1> QED
  BY <1>1, <1>2, SumType, SizeIsSum

\* Two bags without a tick in common add up.
LEMMA SizeOfBoth ==
    ASSUME NEW a, NEW b, IsTicks(a), IsTicks(b), DOMAIN a \cap DOMAIN b = {}
    PROVE  Size(a (+) b) = Size(a) + Size(b)
<1> DEFINE c == a (+) b
           A == DOMAIN a
           B == DOMAIN b
           Bad == {D \in SUBSET B : SumOver(c, A \cup D) # SumOver(c, A) + SumOver(c, D)}
<1>1. IsTicks(c) /\ DOMAIN c = A \cup B
  BY AddedTicks
<1>2. IsFiniteSet(A) /\ IsFiniteSet(B) /\ \A k \in A \cup B : c[k] \in Nat
  BY <1>1 DEF IsTicks
<1> HIDE DEF c
<1>3. Bad = {}
  <2> SUFFICES ASSUME Bad # {}
               PROVE  FALSE
    OBVIOUS
  <2>1. PICK D \in Bad : \A E \in Bad : ~ (E \subseteq D /\ E # D)
    <3>1. Bad \in SUBSET (SUBSET B)
      OBVIOUS
    <3> HIDE DEF A, B, Bad
    <3> QED
      BY <1>2, <3>1, SmallestSet
  <2>2. D \subseteq B /\ SumOver(c, A \cup D) # SumOver(c, A) + SumOver(c, D)
    OBVIOUS
  <2>3. SumOver(c, A) \in Nat /\ SumOver(c, {}) = 0
    BY <1>2, SumType
  <2>4. D # {}
    <3>1. ASSUME D = {}
          PROVE  FALSE
      <4>1. A \cup D = A
        BY <3>1
      <4> HIDE DEF A
      <4> QED
        BY <2>2, <2>3, <3>1, <4>1
    <3> QED
      BY <3>1
  <2>5. PICK k \in D : TRUE
    BY <2>4
  <2> DEFINE E == D \ {k}
  <2>6. E \in SUBSET B /\ E \subseteq D /\ E # D /\ E \notin Bad
    BY <2>1, <2>2
  <2>7. SumOver(c, A \cup E) = SumOver(c, A) + SumOver(c, E)
    BY <2>6
  <2>8. /\ IsFiniteSet(E) /\ IsFiniteSet(A \cup E) /\ k \notin E /\ k \notin A \cup E
        /\ D = E \cup {k} /\ A \cup D = (A \cup E) \cup {k}
        /\ \A x \in (A \cup E) \cup {k} : c[x] \in Nat
    <3>1. k \in B /\ k \notin A
      BY <2>2
    <3>2. IsFiniteSet(E) /\ IsFiniteSet(A \cup E)
      BY <1>2, <2>6, FS_Subset, FS_Union
    <3> QED
      BY <1>2, <2>2, <3>1, <3>2
  <2> HIDE DEF E, A, B, Bad
  <2>9. SumOver(c, D) = SumOver(c, E) + c[k] /\ SumOver(c, E) \in Nat
    BY <2>8, SumOfMore
  <2>10. SumOver(c, A \cup D) = SumOver(c, A \cup E) + c[k]
    BY <2>8, SumOfMore
  <2>11. c[k] \in Nat
    BY <2>8
  <2> QED
    BY <2>2, <2>3, <2>7, <2>9, <2>10, <2>11
<1>4. SumOver(c, A \cup B) = SumOver(c, A) + SumOver(c, B)
  BY <1>3
<1>5. \A k \in A : c[k] \in Nat /\ c[k] = a[k]
  BY <1>2 DEF c, (+), IsTicks
<1>6. \A k \in B : c[k] \in Nat /\ c[k] = b[k]
  BY <1>2 DEF c, (+), IsTicks
<1> HIDE DEF A, B
<1>7. SumOver(c, A) = SumOver(a, A) /\ SumOver(c, B) = SumOver(b, B)
  BY <1>2, <1>5, <1>6, SumOfEquals
<1> QED
  BY <1>1, <1>4, <1>7, SizeIsSum DEF A, B, c


-----------------------------------------------------------------------------
(* Their times. *)

\* A tick has a time that the history can hold.
LEMMA TickTimes ==
    ASSUME NEW k \in Tick
    PROVE  k.time \in Nat /\ 0 <= k.time /\ k.time <= MaxTime
BY PagesAssumption DEF Tick, Time

\* The latest time of a bag that is not empty.
LEMMA LastOf ==
    ASSUME NEW b, IsTicks(b), b # NoTicks
    PROVE  /\ LastTime(b) \in Nat /\ LastTime(b) <= MaxTime
           /\ \E k \in DOMAIN b : k.time = LastTime(b)
           /\ \A k \in DOMAIN b : k.time <= LastTime(b)
           /\ \A k : Copies(b, k) # 0 => k.time <= LastTime(b)
<1> DEFINE T == {k.time : k \in DOMAIN b}
<1>1. Times(b) = T
  BY DEF Times, BagToSet
<1>2. DOMAIN b # {} /\ DOMAIN b \subseteq Tick
  BY EmptyTicks DEF IsTicks
<1>3. T \in SUBSET Nat /\ T # {} /\ \A y \in T : y <= MaxTime
  BY <1>2, TickTimes
<1>4. MaxTime \in Nat
  BY PagesAssumption
<1>5. Max(T) \in T /\ \A y \in T : y <= Max(T)
  <2> HIDE DEF T
  <2> QED
    BY <1>3, <1>4, GreatestOf
<1>6. LastTime(b) = Max(T)
  BY <1>1 DEF LastTime
<1>7. LastTime(b) \in T /\ \A k \in DOMAIN b : k.time <= LastTime(b)
  <2> HIDE DEF LastTime
  <2> QED
    BY <1>5, <1>6
<1>8. \A k : Copies(b, k) # 0 => k \in DOMAIN b
  BY CopiesType
<1> HIDE DEF LastTime
<1> QED
  BY <1>3, <1>7, <1>8

\* What is said of every tick of a bag is said of its copies.
LEMMA PartIsLess ==
    ASSUME NEW b, IsTicks(b), NEW lo \in Int, NEW hi \in Int, lo <= 0, MaxTime <= hi
    PROVE  Between(b, lo, hi) = b
<1>1. IsTicks(Between(b, lo, hi))
  BY SomeTicks
<1>2. ASSUME NEW k \in Tick
      PROVE  Copies(Between(b, lo, hi), k) = Copies(b, k)
  <2>1. k.time \in lo .. hi
    BY TickTimes, PagesAssumption
  <2> QED
    BY <2>1, SomeTicks
<1> QED
  BY <1>1, <1>2, CopiesTell

\* What a draw of so many ticks out of a bag gives.
LEMMA Draw ==
    ASSUME NEW b, IsTicks(b), NEW n \in Nat, NEW s \in Draws(b, n)
    PROVE  /\ IsTicks(s) /\ DOMAIN s \subseteq DOMAIN b /\ Size(s) = n
           /\ \A k : Copies(s, k) <= Copies(b, k)
<1>1. PICK part \in SUBSET DOMAIN b : s \in [part -> 1 .. n]
  BY DEF Draws, BagToSet
<1>2. s \sqsubseteq b /\ Size(s) = n
  BY DEF Draws
<1>3. IsFiniteSet(part)
  BY FS_Subset DEF IsTicks
<1>4. IsTicks(s) /\ DOMAIN s \subseteq DOMAIN b
  BY <1>1, <1>3 DEF IsTicks
<1>5. ASSUME NEW k
      PROVE  Copies(s, k) <= Copies(b, k)
  BY <1>2, <1>4 DEF \sqsubseteq, Copies, IsTicks
<1> QED
  BY <1>2, <1>4, <1>5

\* The first n ticks: none is made up, those before the last are all there, and
\* a page that is not full is the whole.
LEMMA FirstTicks ==
    ASSUME NEW b, IsTicks(b), NEW n \in Nat \ {0}, NEW p \in First(b, n)
    PROVE  /\ IsTicks(p) /\ \A k : Copies(p, k) <= Copies(b, k)
           /\ Size(p) < n => p = b
           /\ p # NoTicks => \A k \in Tick :
                k.time < LastTime(p) => Copies(p, k) = Copies(b, k)
<1>1. CASE Size(b) <= n
  <2>1. p = b
    BY <1>1 DEF First
  <2>2. \A k : Copies(b, k) <= Copies(b, k)
    BY CopiesType
  <2> QED
    BY <2>1, <2>2
<1>2. CASE ~ (Size(b) <= n)
  <2> DEFINE C == {c \in Time : Size(Between(b, 0, c)) >= n}
             cut == Min(C)
             before == Between(b, 0, cut - 1)
             m == n - Size(before)
  <2>1. PICK s \in Draws(At(b, cut), m) : p = before (+) s
    BY <1>2 DEF First
  <2>2. C \in SUBSET Nat /\ C # {}
    <3>1. Between(b, 0, MaxTime) = b
      BY PartIsLess, PagesAssumption
    <3>2. MaxTime \in Time
      BY PagesAssumption DEF Time
    <3>3. Size(b) >= n
      BY <1>2, SizeType
    <3> QED
      BY <3>1, <3>2, <3>3 DEF Time
  <2>3. cut \in C /\ \A c \in C : cut <= c
    <3> HIDE DEF C
    <3> QED
      BY <2>2, LeastOf
  <2>4. cut \in Nat /\ cut <= MaxTime
    BY <2>3, PagesAssumption DEF Time
  <2> HIDE DEF cut
  <2>5. IsTicks(before) /\ Size(before) \in Nat /\ IsTicks(At(b, cut))
    BY SomeTicks, SizeType DEF At
  <2>6. Size(before) < n
    <3>1. CASE cut = 0
      <4>1. \A k \in Tick : Copies(before, k) = 0
        <5>1. \A k \in Tick : k.time \notin 0 .. cut - 1
          BY <3>1, TickTimes
        <5> QED
          BY <5>1, SomeTicks
      <4>2. before = NoTicks
        BY <2>5, <4>1, NoCopies
      <4> QED
        BY <4>2, SizeOfNone
    <3>2. CASE cut # 0
      <4>1. cut - 1 \in Time /\ ~ (cut <= cut - 1)
        BY <2>4, <3>2, PagesAssumption DEF Time
      <4>2. cut - 1 \notin C
        BY <2>3, <4>1
      <4> QED
        BY <2>5, <4>1, <4>2
    <3> QED
      BY <3>1, <3>2
  <2>7. m \in Nat \ {0}
    BY <2>5, <2>6
  <2>8. /\ IsTicks(s) /\ DOMAIN s \subseteq DOMAIN At(b, cut) /\ Size(s) = m
        /\ \A k : Copies(s, k) <= Copies(At(b, cut), k)
    <3> HIDE DEF m
    <3> QED
      BY <2>1, <2>5, <2>7, Draw
  <2>9. /\ \A k : Copies(before, k) = IF k.time \in 0 .. cut - 1 THEN Copies(b, k) ELSE 0
        /\ \A k : Copies(At(b, cut), k) = IF k.time \in cut .. cut THEN Copies(b, k) ELSE 0
    BY SomeTicks DEF At
  <2>10. /\ IsTicks(p) /\ DOMAIN p = DOMAIN before \cup DOMAIN s
         /\ \A k : Copies(p, k) = Copies(before, k) + Copies(s, k)
    BY <2>1, <2>5, <2>8, AddedTicks
  <2>11. /\ \A k \in DOMAIN before : k.time <= cut - 1
         /\ \A k \in DOMAIN s : k.time = cut
    <3>1. \A k \in DOMAIN before : Copies(before, k) # 0 /\ k \in Tick
      BY <2>5, CopiesType DEF IsTicks
    <3>2. \A k \in DOMAIN s : Copies(At(b, cut), k) # 0 /\ k \in Tick
      BY <2>5, <2>8, CopiesType DEF IsTicks
    <3> HIDE DEF before
    <3> QED
      BY <2>4, <2>9, <3>1, <3>2, TickTimes
  <2>12. Size(p) = n
    <3>1. DOMAIN before \cap DOMAIN s = {}
      <4>1. ASSUME NEW k \in DOMAIN before, k \in DOMAIN s
            PROVE  FALSE
        <5>1. k.time = cut /\ k.time <= cut - 1
          BY <2>11, <4>1
        <5> QED
          BY <2>4, <5>1
      <4> QED
        BY <4>1
    <3>2. Size(p) = Size(before) + Size(s)
      BY <2>1, <2>5, <2>8, <3>1, SizeOfBoth
    <3> QED
      BY <2>5, <2>8, <3>2
  <2>13. LastTime(p) = cut
    <3>1. s # NoTicks
      BY <2>7, <2>8, SizeOfNone
    <3>2. PICK k \in DOMAIN s : TRUE
      BY <2>8, <3>1, EmptyTicks
    <3>3. k \in DOMAIN p /\ k.time = cut
      BY <2>10, <2>11, <3>2
    <3>4. p # NoTicks
      BY <3>3, EmptyTicks
    <3>5. /\ LastTime(p) \in Nat
          /\ \E x \in DOMAIN p : x.time = LastTime(p)
          /\ \A x \in DOMAIN p : x.time <= LastTime(p)
      BY <2>10, <3>4, LastOf
    <3>6. PICK x \in DOMAIN p : x.time = LastTime(p)
      BY <3>5
    <3>7. x.time <= cut
      <4>1. CASE x \in DOMAIN before
        BY <2>4, <2>11, <3>5, <3>6, <4>1
      <4>2. CASE x \in DOMAIN s
        BY <2>4, <2>11, <4>2
      <4> QED
        BY <2>10, <4>1, <4>2
    <3>8. cut <= LastTime(p)
      BY <3>3, <3>5
    <3> QED
      BY <2>4, <3>5, <3>6, <3>7, <3>8
  <2>14. ASSUME NEW k
         PROVE  Copies(p, k) <= Copies(b, k)
    <3>1. /\ Copies(p, k) = Copies(before, k) + Copies(s, k)
          /\ Copies(s, k) <= Copies(At(b, cut), k)
          /\ Copies(s, k) \in Nat /\ Copies(b, k) \in Nat
      BY <2>8, <2>10, CopiesType
    <3>2. Copies(before, k) = IF k.time \in 0 .. cut - 1 THEN Copies(b, k) ELSE 0
      BY <2>9
    <3>3. Copies(At(b, cut), k) = IF k.time \in cut .. cut THEN Copies(b, k) ELSE 0
      BY <2>9
    <3>4. ~ (k.time \in 0 .. cut - 1 /\ k.time \in cut .. cut)
      BY <2>4
    <3> HIDE DEF before
    <3> QED
      BY <3>1, <3>2, <3>3, <3>4
  <2>15. ASSUME NEW k \in Tick, k.time < cut
         PROVE  Copies(p, k) = Copies(b, k)
    <3>1. k.time \in 0 .. cut - 1 /\ k.time \notin cut .. cut
      BY <2>4, <2>15, TickTimes
    <3>2. Copies(before, k) = Copies(b, k) /\ Copies(At(b, cut), k) = 0
      BY <2>9, <3>1
    <3>3. Copies(s, k) = 0
      <4>1. Copies(s, k) <= Copies(At(b, cut), k) /\ Copies(s, k) \in Nat
        BY <2>8, CopiesType
      <4> QED
        BY <3>2, <4>1
    <3>4. Copies(b, k) \in Nat
      BY CopiesType
    <3> QED
      BY <2>10, <3>2, <3>3, <3>4
  <2> HIDE DEF before, m
  <2> QED
    BY <2>10, <2>12, <2>13, <2>14, <2>15
<1> QED
  BY <1>1, <1>2


\* A page for the cursor t, of which up to n ticks were asked for.
LEMMA PageTicks ==
    ASSUME IsTicks(archive), NEW t \in Nat, NEW n \in Nat \ {0}, NEW p \in Pages(t, n)
    PROVE  /\ IsTicks(p) /\ Size(p) \in Nat
           /\ \A k : Copies(p, k) <= Copies(archive, k)
           /\ Size(p) < n => \A k \in Tick :
                t <= k.time => Copies(p, k) = Copies(archive, k)
           /\ p # NoTicks => \A k \in Tick :
                t <= k.time /\ k.time < LastTime(p) => Copies(p, k) = Copies(archive, k)
<1>1. PICK e \in Early : p \in First(Between(archive, Max({0, t - e}), MaxTime), n)
  BY DEF Pages
<1> DEFINE lo == Max({0, t - e})
           b == Between(archive, lo, MaxTime)
<1>2. e \in Nat
  BY PagesAssumption
<1>3. lo \in Nat /\ lo <= t
  <2>1. t - e \in Int /\ 0 \in Int
    BY <1>2
  <2>2. lo = IF 0 >= t - e THEN 0 ELSE t - e
    BY <2>1, OfTwo
  <2> HIDE DEF lo
  <2> QED
    BY <1>2, <2>1, <2>2
<1>4. IsTicks(b) /\ \A k : Copies(b, k) = IF k.time \in lo .. MaxTime THEN Copies(archive, k) ELSE 0
  BY SomeTicks
<1>5. \A k \in Tick : t <= k.time => Copies(b, k) = Copies(archive, k)
  <2> SUFFICES ASSUME NEW k \in Tick, t <= k.time
               PROVE  k.time \in lo .. MaxTime
    BY <1>4
  <2> HIDE DEF lo
  <2> QED
    BY <1>3, TickTimes, PagesAssumption
<1>6. \A k : Copies(b, k) <= Copies(archive, k)
  BY <1>4, CopiesType
<1> HIDE DEF b
<1>7. /\ IsTicks(p) /\ \A k : Copies(p, k) <= Copies(b, k)
      /\ Size(p) < n => p = b
      /\ p # NoTicks => \A k \in Tick :
                k.time < LastTime(p) => Copies(p, k) = Copies(b, k)
  BY <1>1, <1>4, FirstTicks DEF b
<1>8. ASSUME NEW k
      PROVE  Copies(p, k) <= Copies(archive, k)
  <2>1. Copies(p, k) <= Copies(b, k) /\ Copies(b, k) <= Copies(archive, k)
    BY <1>6, <1>7
  <2> QED
    BY <1>4, <1>7, <2>1, CopiesType
<1> QED
  BY <1>5, <1>7, <1>8, SizeType

\* What the readers take of a page: the rows from the cursor to hi that were not
\* consumed there.
LEMMA UnseenTicks ==
    ASSUME NEW p, IsTicks(p), NEW seen, IsTicks(seen), NEW at, NEW hi
    PROVE  /\ IsTicks(Unseen(p, at, seen, hi))
           /\ \A k : Copies(Unseen(p, at, seen, hi), k)
                 = Rest(IF k.time \in at .. hi THEN Copies(p, k) ELSE 0, Copies(seen, k))
BY SomeTicks, RemovedTicks DEF Unseen

\* The ticks consumed at the next cursor.
LEMMA BoundaryTicks ==
    ASSUME NEW seen, IsTicks(seen), NEW new, IsTicks(new), NEW at \in Int, NEW last \in Int
    PROVE  /\ IsTicks(BoundaryAfter(seen, at, last, new))
           /\ \A k \in Tick : Copies(BoundaryAfter(seen, at, last, new), k)
                 = (IF last = at THEN Copies(seen, k) ELSE 0)
                   + (IF k.time = last THEN Copies(new, k) ELSE 0)
<1>1. IsTicks(At(new, last)) /\ \A k : Copies(At(new, last), k)
         = IF k.time \in last .. last THEN Copies(new, k) ELSE 0
  BY SomeTicks DEF At
<1>2. \A k \in Tick : k.time \in last .. last <=> k.time = last
  BY TickTimes
<1>3. /\ IsTicks(seen (+) At(new, last))
      /\ \A k : Copies(seen (+) At(new, last), k) = Copies(seen, k) + Copies(At(new, last), k)
  BY <1>1, AddedTicks
<1>4. \A k : Copies(seen, k) \in Nat /\ Copies(new, k) \in Nat
  BY CopiesType
<1>5. CASE last = at
  BY <1>1, <1>2, <1>3, <1>4, <1>5 DEF BoundaryAfter
<1>6. CASE last # at
  BY <1>1, <1>2, <1>4, <1>6 DEF BoundaryAfter
<1> QED
  BY <1>5, <1>6

\* The terminal shows one more tick.
LEMMA ShownTicks ==
    ASSUME IsTicks(archive), NEW k \in Tick, Shown(k)
    PROVE  /\ IsTicks(archive')
           /\ \A x : Copies(archive', x) = Copies(archive, x) + IF x = k THEN 1 ELSE 0
<1>1. IsTicks(SetToBag({k})) /\ \A x : Copies(SetToBag({k}), x) = IF x \in {k} THEN 1 ELSE 0
  <2> DEFINE S == {k}
  <2>1. IsFiniteSet(S) /\ S \subseteq Tick
    BY FS_Singleton
  <2> HIDE DEF S
  <2>2. IsTicks(SetToBag(S)) /\ \A x : Copies(SetToBag(S), x) = IF x \in S THEN 1 ELSE 0
    BY ONLY <2>1, SetTicks
  <2> QED
    BY <2>2 DEF S
<1>2. archive' = archive (+) SetToBag({k})
  BY DEF Shown
<1>3. /\ IsTicks(archive (+) SetToBag({k}))
      /\ \A x : Copies(archive (+) SetToBag({k}), x) = Copies(archive, x) + Copies(SetToBag({k}), x)
  BY <1>1, AddedTicks
<1> QED
  BY <1>1, <1>2, <1>3

-----------------------------------------------------------------------------
(* The history of ticks. *)

HistoryTypes ==
    /\ IsTicks(archive) /\ IsTicks(begun) /\ IsTicks(delivered)
    /\ IsTicks(cursor.seen) /\ cursor.at \in Nat
    /\ range.from \in Nat /\ range.to \in Nat
    /\ pc = "bootstrap" => cursor.at = range.from

\* What is known of one tick: no reader has more of it than the terminal, at the
\* cursor the boundary knows what was delivered, and beyond it nothing was.
TickInv(k) ==
    /\ Copies(begun, k) <= Copies(archive, k)
    /\ Copies(delivered, k) <= Copies(archive, k)
    /\ k.time > cursor.at => Copies(delivered, k) = 0 /\ Copies(cursor.seen, k) = 0
    /\ k.time = cursor.at /\ k.time <= range.to =>
         Copies(delivered, k) = Copies(cursor.seen, k)
    /\ pc \in {"bootstrap", "page"} /\ range.from <= k.time /\ k.time <= range.to
         /\ k.time < cursor.at => Copies(begun, k) <= Copies(delivered, k)
    /\ pc = "done" /\ range.from <= k.time /\ k.time <= range.to =>
         Copies(begun, k) <= Copies(delivered, k)

HistoryInv == HistoryTypes /\ \A k \in Tick : TickInv(k)

\* The invariant says what the run checks.
LEMMA HistoryInvTells ==
    ASSUME HistoryInv
    PROVE  HistoryIsExact
<1> USE DEF HistoryInv, HistoryTypes
<1>1. NoTickTwice
  BY WithinTells DEF TickInv, NoTickTwice
<1>2. ASSUME pc = "done"
      PROVE  Between(begun, range.from, range.to) \sqsubseteq delivered
  <2> DEFINE part == Between(begun, range.from, range.to)
  <2>1. /\ IsTicks(part)
        /\ \A k : Copies(part, k) = IF k.time \in range.from .. range.to THEN Copies(begun, k) ELSE 0
    BY SomeTicks
  <2>2. ASSUME NEW k \in Tick
        PROVE  Copies(part, k) <= Copies(delivered, k)
    <3>1. Copies(delivered, k) \in Nat /\ Copies(begun, k) \in Nat
      BY CopiesType
    <3>2. k.time \in range.from .. range.to => Copies(begun, k) <= Copies(delivered, k)
      BY <1>2 DEF TickInv
    <3> QED
      BY <2>1, <3>1, <3>2
  <2> HIDE DEF part
  <2>3. part \sqsubseteq delivered
    BY <2>1, <2>2, WithinTells
  <2> QED
    BY <2>3 DEF part
<1> QED
  BY <1>1, <1>2 DEF HistoryIsExact, HistoryIsWhole

\* A start of the history reader, or none.
LEMMA HistoryStarts ==
    ASSUME IsTicks(archive), IsTicks(begun), begun \in {archive, NoTicks}, delivered = NoTicks,
           range.from \in Nat, range.to \in Nat, pc # "done",
           cursor = [at |-> range.from, seen |-> NoTicks]
    PROVE  HistoryInv
<1>1. ASSUME NEW k \in Tick
      PROVE  TickInv(k)
  <2>1. /\ Copies(archive, k) \in Nat
        /\ Copies(begun, k) = Copies(archive, k) \/ Copies(begun, k) = 0
        /\ Copies(delivered, k) = 0 /\ Copies(cursor.seen, k) = 0
    BY CopiesType, EmptyTicks
  <2>2. /\ k.time > cursor.at => Copies(delivered, k) = 0 /\ Copies(cursor.seen, k) = 0
        /\ cursor.at = range.from
    BY <2>1
  <2>3. ~ (range.from <= k.time /\ k.time < cursor.at)
    BY <2>2, TickTimes
  <2> QED
    BY <2>1, <2>2, <2>3 DEF TickInv
<1> QED
  BY <1>1, EmptyTicks DEF HistoryInv, HistoryTypes

\* The archives a run begins with are bags of ticks.
LEMMA HistoryTickIsTick ==
    /\ HistoryTick \subseteq Tick /\ IsFiniteSet(Tick)
    /\ \A A \in InitialArchives : IsTicks(A)
<1>1. 0 .. HistoryEnd \subseteq Time
  BY HistoryAssumption, PagesAssumption DEF Time
<1>2. HistoryTick \subseteq Tick
  BY <1>1 DEF HistoryTick, Tick
<1>3. IsFiniteSet(Tick)
  <2>1. IsFiniteSet(Time)
    BY PagesAssumption, FS_Interval DEF Time
  <2>2. IsFiniteSet(Time \X Payload)
    BY <2>1, PagesAssumption, FS_Product
  <2> DEFINE f == [p \in Time \X Payload |-> [time |-> p[1], payload |-> p[2]]]
  <2>3. Tick = {f[p] : p \in Time \X Payload}
    <3>1. ASSUME NEW k \in Tick
          PROVE  k \in {f[p] : p \in Time \X Payload}
      <4>1. <<k.time, k.payload>> \in Time \X Payload /\ k = f[<<k.time, k.payload>>]
        BY DEF Tick
      <4> QED
        BY <4>1
    <3>2. ASSUME NEW p \in Time \X Payload
          PROVE  f[p] \in Tick
      BY DEF Tick
    <3> HIDE DEF f
    <3> QED
      BY <3>1, <3>2
  <2>4. IsFiniteSet({f[p] : p \in Time \X Payload})
    <3>1. f \in Surjection(Time \X Payload, {f[p] : p \in Time \X Payload})
      BY DEF Surjection
    <3> HIDE DEF f
    <3> QED
      BY <2>2, <3>1, FS_Surjection
  <2> HIDE DEF f
  <2> QED
    BY <2>3, <2>4
<1>4. ASSUME NEW A \in InitialArchives
      PROVE  IsTicks(A)
  <2>1. PICK s \in SUBSET HistoryTick : A = SetToBag(s)
    BY DEF InitialArchives
  <2>2. s \subseteq Tick /\ IsFiniteSet(s)
    BY <1>2, <1>3, FS_Subset
  <2> QED
    BY <2>1, <2>2, SetTicks
<1> QED
  BY <1>2, <1>3, <1>4

\* It holds when a visit begins, and where no visit runs.
LEMMA HistoryInit ==
    MarketInit => HistoryInv
<1> SUFFICES ASSUME MarketInit
             PROVE  HistoryInv
  OBVIOUS
<1>1. CASE reader = "history"
  <2>1. archive \in InitialArchives /\ InitHistory
    BY <1>1 DEF MarketInit
  <2>2. IsTicks(archive)
    BY <2>1, HistoryTickIsTick
  <2>3. /\ range.from \in Nat /\ range.to \in Nat /\ pc \in {"bootstrap", "page"}
        /\ begun = archive /\ delivered = NoTicks
        /\ cursor = [at |-> range.from, seen |-> NoTicks]
    BY <2>1, HistoryAssumption, PagesAssumption DEF InitHistory, Starts
  <2> QED
    BY <2>2, <2>3, HistoryStarts
<1>2. CASE reader # "history"
  <2>1. archive = NoTicks /\ QuietHistory
    BY <1>2 DEF MarketInit
  <2>2. IsTicks(archive)
    BY <2>1, EmptyTicks
  <2>3. /\ range.from \in Nat /\ range.to \in Nat /\ pc = "idle"
        /\ begun = archive /\ delivered = NoTicks
        /\ cursor = [at |-> range.from, seen |-> NoTicks]
    BY <2>1 DEF QuietHistory
  <2> QED
    BY <2>2, <2>3, HistoryStarts
<1> QED
  BY <1>1, <1>2

\* More ticks at the terminal.
LEMMA HistoryGrows ==
    ASSUME HistoryInv, NEW x \in Tick, Shown(x), UNCHANGED historyVars
    PROVE  HistoryInv'
<1>1. /\ IsTicks(archive')
      /\ \A k : Copies(archive', k) = Copies(archive, k) + IF k = x THEN 1 ELSE 0
  BY ShownTicks DEF HistoryInv, HistoryTypes
<1>2. HistoryTypes'
  BY <1>1 DEF HistoryInv, HistoryTypes, historyVars
<1>3. ASSUME NEW k \in Tick
      PROVE  TickInv(k)'
  <2>1. /\ Copies(archive, k) \in Nat /\ Copies(begun, k) \in Nat /\ Copies(delivered, k) \in Nat
    BY CopiesType DEF HistoryInv, HistoryTypes
  <2>2. Copies(archive, k) <= Copies(archive', k)
    BY <1>1, <2>1
  <2>3. Copies(archive', k) \in Nat
    BY <1>1, CopiesType
  <2>4. TickInv(k)
    BY DEF HistoryInv
  <2>5. /\ Copies(begun, k) <= Copies(archive', k) /\ Copies(delivered, k) <= Copies(archive', k)
    BY <2>1, <2>2, <2>3, <2>4 DEF TickInv
  <2>6. /\ Copies(begun, k)' = Copies(begun, k) /\ Copies(delivered, k)' = Copies(delivered, k)
        /\ Copies(cursor.seen, k)' = Copies(cursor.seen, k)
        /\ cursor' = cursor /\ range' = range /\ pc' = pc
        /\ Copies(archive, k)' = Copies(archive', k)
    BY DEF historyVars, Copies
  <2> QED
    BY <2>4, <2>5, <2>6 DEF TickInv
<1> QED
  BY <1>2, <1>3 DEF HistoryInv

\* A step that only changes the position of the program: the query fails, reads
\* on, or begins to page.
LEMMA HistoryTurns ==
    ASSUME HistoryInv, UNCHANGED archive,
           UNCHANGED <<range, cursor, delivered, begun>>,
           pc' = pc \/ pc' = "failed"
    PROVE  HistoryInv'
<1>1. HistoryTypes'
  BY DEF HistoryInv, HistoryTypes
<1>2. ASSUME NEW k \in Tick
      PROVE  TickInv(k)'
  <2>1. TickInv(k)
    BY DEF HistoryInv
  <2> QED
    BY <2>1 DEF TickInv, Copies
<1> QED
  BY <1>1, <1>2 DEF HistoryInv

\* The query ends: what the terminal showed from the cursor on was delivered.
LEMMA HistoryEnds ==
    ASSUME HistoryInv, UNCHANGED archive,
           UNCHANGED <<range, cursor, delivered, begun>>,
           pc = "page", pc' = "done",
           \A k \in Tick : range.from <= k.time /\ k.time <= range.to /\ cursor.at <= k.time
              => Copies(archive, k) <= Copies(delivered, k)
    PROVE  HistoryInv'
<1>1. HistoryTypes'
  BY DEF HistoryInv, HistoryTypes
<1>2. ASSUME NEW k \in Tick
      PROVE  TickInv(k)'
  <2>1. TickInv(k)
    BY DEF HistoryInv
  <2>2. /\ Copies(archive, k) \in Nat /\ Copies(begun, k) \in Nat /\ Copies(delivered, k) \in Nat
        /\ cursor.at \in Nat /\ k.time \in Nat
    BY CopiesType, TickTimes DEF HistoryInv, HistoryTypes
  <2>3. range.from <= k.time /\ k.time <= range.to => Copies(begun, k) <= Copies(delivered, k)
    BY <2>1, <2>2 DEF TickInv
  <2> QED
    BY <2>1, <2>3 DEF TickInv, Copies
<1> QED
  BY <1>1, <1>2 DEF HistoryInv

\* The terminal's answer to one probe: the paging is to begin later.
LEMMA HistoryBeginsAgain ==
    ASSUME HistoryInv, pc = "bootstrap", pc' \in {"bootstrap", "page", "failed"},
           begun' \in {begun, archive}, UNCHANGED <<archive, range, cursor, delivered>>
    PROVE  HistoryInv'
<1>1. HistoryTypes'
  BY DEF HistoryInv, HistoryTypes
<1>2. ASSUME NEW k \in Tick
      PROVE  TickInv(k)'
  <2>1. TickInv(k) /\ k.time \in Nat /\ cursor.at = range.from /\ cursor.at \in Nat
    BY TickTimes DEF HistoryInv, HistoryTypes
  <2>2. Copies(begun', k) <= Copies(archive, k)
    <3>1. Copies(archive, k) \in Nat
      BY CopiesType DEF HistoryInv, HistoryTypes
    <3> QED
      BY <2>1, <3>1 DEF TickInv
  <2>3. ~ (range.from <= k.time /\ k.time < cursor.at)
    BY <2>1
  <2> QED
    BY <2>1, <2>2, <2>3 DEF TickInv, Copies
<1> QED
  BY <1>1, <1>2 DEF HistoryInv

\* What a reader takes of one tick of a page: a is what the terminal has, d was
\* delivered, s is known at the cursor, p is on the page.
LEMMA TakenOnce ==
    ASSUME NEW a \in Nat, NEW d \in Nat, NEW s \in Nat, NEW p \in Nat, p <= a, d <= a, d = s
    PROVE  /\ d + Rest(p, s) <= a
           /\ p = a => a <= d + Rest(p, s)
BY DEF Rest

\* visit_ticks_range takes the unseen part of a page and moves its cursor to the
\* last time of the page.
LEMMA HistoryAdvances ==
    ASSUME HistoryInv, NEW page \in Pages(cursor.at, Count), ReadAdvances(page),
           UNCHANGED archive
    PROVE  HistoryInv'
<1> DEFINE at == cursor.at
           seen == cursor.seen
           last == LastTime(page)
           new == New(page)
           short == Size(page) < Count
<1>1. /\ IsTicks(archive) /\ IsTicks(begun) /\ IsTicks(delivered) /\ IsTicks(seen)
      /\ at \in Nat /\ range.from \in Nat /\ range.to \in Nat
  BY DEF HistoryInv, HistoryTypes
<1>2. Count \in Nat \ {0}
  BY <1>1, SizeType, PagesAssumption DEF Count
<1>3. /\ page # NoTicks /\ at <= last /\ pc = "page"
      /\ delivered' = delivered (+) new
      /\ cursor' = [at |-> last, seen |-> BoundaryAfter(seen, at, last, new)]
      /\ UNCHANGED <<range, begun>>
      /\ pc' = "done" \/ pc' = pc
      /\ pc' = "done" => short
  <2>1. page # NoTicks /\ last >= at /\ pc = "page"
    BY DEF ReadAdvances
  <2>2. /\ delivered' = delivered (+) new
        /\ cursor' = [at |-> last, seen |-> BoundaryAfter(seen, at, last, new)]
        /\ UNCHANGED <<range, begun>>
    BY DEF ReadAdvances
  <2>3. (pc' = "done" /\ short) \/ pc' = pc
    BY DEF ReadAdvances
  <2>4. last \in Int /\ at \in Int
    <3>1. IsTicks(page)
      BY <1>1, <1>2, PageTicks
    <3> QED
      BY <1>1, <2>1, <3>1, LastOf
  <2> HIDE DEF last, new, short, at, seen
  <2> QED
    BY <2>1, <2>2, <2>3, <2>4
<1> HIDE DEF at, seen, short
<1>4. /\ IsTicks(page)
      /\ \A k : Copies(page, k) <= Copies(archive, k)
      /\ short => \A k \in Tick : at <= k.time => Copies(page, k) = Copies(archive, k)
      /\ \A k \in Tick : at <= k.time /\ k.time < last => Copies(page, k) = Copies(archive, k)
  BY <1>1, <1>2, <1>3, PageTicks DEF at, short
<1>5. last \in Nat /\ \A k : Copies(page, k) # 0 => k.time <= last
  BY <1>3, <1>4, LastOf
<1> HIDE DEF last
<1>6. /\ IsTicks(new)
      /\ \A k : Copies(new, k)
            = Rest(IF k.time \in at .. range.to THEN Copies(page, k) ELSE 0, Copies(seen, k))
  BY <1>1, <1>4, UnseenTicks DEF New, at, seen
<1> HIDE DEF new
<1>7. /\ IsTicks(delivered')
      /\ \A k : Copies(delivered', k) = Copies(delivered, k) + Copies(new, k)
  BY <1>1, <1>3, <1>6, AddedTicks
<1>8. cursor'.at = last /\ cursor'.seen = BoundaryAfter(seen, at, last, new)
  BY <1>3
<1>9. /\ IsTicks(cursor'.seen)
      /\ \A k \in Tick : Copies(cursor'.seen, k)
            = (IF last = at THEN Copies(seen, k) ELSE 0)
              + (IF k.time = last THEN Copies(new, k) ELSE 0)
  <2>1. at \in Int /\ last \in Int
    BY <1>1, <1>5
  <2>2. /\ IsTicks(BoundaryAfter(seen, at, last, new))
        /\ \A k \in Tick : Copies(BoundaryAfter(seen, at, last, new), k)
            = (IF last = at THEN Copies(seen, k) ELSE 0)
              + (IF k.time = last THEN Copies(new, k) ELSE 0)
    BY <1>1, <1>6, <2>1, BoundaryTicks
  <2> QED
    BY <1>8, <2>2
<1>10. HistoryTypes'
  BY <1>1, <1>3, <1>5, <1>7, <1>8, <1>9 DEF HistoryTypes
<1>11. ASSUME NEW k \in Tick
       PROVE  TickInv(k)'
  <2> DEFINE a == Copies(archive, k)
             b == Copies(begun, k)
             d == Copies(delivered, k)
             s == Copies(seen, k)
             p == Copies(page, k)
             n == Copies(new, k)
             e == Copies(delivered', k)
             z == Copies(cursor'.seen, k)
             t == k.time
  <2>1. a \in Nat /\ b \in Nat /\ d \in Nat /\ s \in Nat /\ p \in Nat /\ n \in Nat /\ t \in Nat
    BY <1>1, <1>4, <1>6, CopiesType, TickTimes
  <2>2. /\ b <= a /\ d <= a
        /\ t > at => d = 0 /\ s = 0
        /\ t = at /\ t <= range.to => d = s
        /\ range.from <= t /\ t <= range.to /\ t < at => b <= d
    BY <1>3 DEF HistoryInv, TickInv, at, seen
  <2>3. /\ p <= a
        /\ p # 0 => t <= last
        /\ short /\ at <= t => p = a
        /\ at <= t /\ t < last => p = a
    BY <1>4, <1>5
  <2>4. /\ n = Rest(IF t \in at .. range.to THEN p ELSE 0, s)
        /\ e = d + n
        /\ z = (IF last = at THEN s ELSE 0) + (IF t = last THEN n ELSE 0)
    BY <1>6, <1>7, <1>9
  <2>5. TickInv(k)' <=>
          /\ b <= a
          /\ e <= a
          /\ t > last => e = 0 /\ z = 0
          /\ t = last /\ t <= range.to => e = z
          /\ pc' \in {"bootstrap", "page"} /\ range.from <= t /\ t <= range.to
               /\ t < last => b <= e
          /\ pc' = "done" /\ range.from <= t /\ t <= range.to => b <= e
    BY <1>3, <1>8 DEF TickInv, Copies
  <2> HIDE DEF a, b, d, s, p, n, e, z, t
  <2>6. CASE t < at
    <3>1. n = 0 /\ e = d
      BY <1>1, <2>1, <2>4, <2>6 DEF Rest
    <3> QED
      BY <1>1, <1>3, <1>5, <2>1, <2>2, <2>5, <2>6, <3>1
  <2>7. CASE at <= t /\ t <= range.to
    <3>1. d = s /\ t \in at .. range.to
      BY <1>1, <2>1, <2>2, <2>7
    <3>2. n = Rest(p, s) /\ e <= a /\ (p = a => a <= e)
      BY <2>1, <2>2, <2>3, <2>4, <3>1, TakenOnce
    <3>3. t > last => e = 0 /\ z = 0
      <4> SUFFICES ASSUME t > last
                   PROVE  e = 0 /\ z = 0
        OBVIOUS
      <4>1. t > at /\ p = 0 /\ t # last
        BY <1>1, <1>3, <1>5, <2>1, <2>3
      <4>2. d = 0 /\ s = 0 /\ n = 0
        BY <2>2, <3>2, <4>1 DEF Rest
      <4> QED
        BY <2>4, <4>1, <4>2
    <3>4. t = last => e = z
      <4>1. CASE last = at
        BY <2>1, <2>4, <3>1, <4>1
      <4>2. CASE last # at /\ t = last
        <5>1. t > at
          BY <1>1, <1>3, <1>5, <4>2
        <5> QED
          BY <2>1, <2>2, <2>4, <4>2, <5>1
      <4> QED
        BY <4>1, <4>2
    <3>5. t < last => b <= e
      BY <1>1, <1>5, <2>1, <2>2, <2>3, <2>4, <2>7, <3>2
    <3>6. pc' = "done" => b <= e
      BY <1>3, <2>1, <2>2, <2>3, <2>4, <2>7, <3>2
    <3> QED
      BY <2>2, <2>5, <3>2, <3>3, <3>4, <3>5, <3>6
  <2>8. CASE at <= t /\ ~ (t <= range.to)
    <3>1. n = 0 /\ e = d
      BY <1>1, <2>1, <2>4, <2>8 DEF Rest
    <3>2. t > last => e = 0 /\ z = 0
      <4> SUFFICES ASSUME t > last
                   PROVE  e = 0 /\ z = 0
        OBVIOUS
      <4>1. t > at /\ t # last
        BY <1>1, <1>3, <1>5, <2>1
      <4> QED
        BY <2>2, <2>4, <3>1, <4>1
    <3> QED
      BY <2>2, <2>5, <2>8, <3>1, <3>2
  <2> QED
    BY <1>1, <2>1, <2>6, <2>7, <2>8
<1> QED
  BY <1>10, <1>11 DEF HistoryInv

\* An empty answer, or a stale one, from the cursor on.
LEMMA HistoryConfirmsEmpty ==
    ASSUME HistoryInv, ReadIsEmpty, UNCHANGED archive
    PROVE  HistoryInv'
<1>1. pc = "page" /\ NoTicks \in Pages(cursor.at, Count)
  BY DEF ReadIsEmpty
<1>2. UNCHANGED <<range, cursor, delivered, begun>> /\ (pc' = "done" \/ pc' = pc)
  BY DEF ReadIsEmpty, Confirming
<1>3. IsTicks(archive) /\ IsTicks(delivered) /\ cursor.at \in Nat /\ Count \in Nat \ {0}
  BY SizeType, PagesAssumption DEF HistoryInv, HistoryTypes, Count
<1>4. \A k \in Tick : cursor.at <= k.time => Copies(archive, k) = 0
  <2>1. Size(NoTicks) < Count
    BY <1>3, SizeOfNone
  <2>2. \A k \in Tick : cursor.at <= k.time => Copies(NoTicks, k) = Copies(archive, k)
    BY <1>1, <1>3, <2>1, PageTicks
  <2> QED
    BY <2>2, EmptyTicks
<1>5. CASE pc' = "done"
  <2>1. \A k \in Tick : range.from <= k.time /\ k.time <= range.to /\ cursor.at <= k.time
              => Copies(archive, k) <= Copies(delivered, k)
    BY <1>3, <1>4, CopiesType
  <2> QED
    BY <1>1, <1>2, <1>5, <2>1, HistoryEnds
<1>6. CASE pc' = pc
  BY <1>2, <1>6, HistoryTurns
<1> QED
  BY <1>2, <1>5, <1>6

\* A page that shows nothing new only counts as a confirmation.
LEMMA HistoryConfirmsStale ==
    ASSUME HistoryInv, NEW page \in Pages(cursor.at, Count), ReadIsStale(page),
           UNCHANGED archive
    PROVE  HistoryInv'
<1>1. /\ pc = "page" /\ page # NoTicks /\ LastTime(page) = cursor.at
      /\ At(New(page), cursor.at) = NoTicks /\ Size(page) < Count
  BY DEF ReadIsStale
<1>2. UNCHANGED <<range, cursor, delivered, begun>> /\ (pc' = "done" \/ pc' = pc)
  BY DEF ReadIsStale, Confirming
<1>3. /\ IsTicks(archive) /\ IsTicks(delivered) /\ IsTicks(cursor.seen)
      /\ cursor.at \in Nat /\ Count \in Nat \ {0}
  BY SizeType, PagesAssumption DEF HistoryInv, HistoryTypes, Count
<1>4. /\ IsTicks(page)
      /\ \A k \in Tick : cursor.at <= k.time => Copies(page, k) = Copies(archive, k)
  BY <1>1, <1>3, PageTicks
<1>5. \A k : Copies(page, k) # 0 => k.time <= cursor.at
  BY <1>1, <1>4, LastOf
<1>6. /\ IsTicks(New(page))
      /\ \A k : Copies(New(page), k)
          = Rest(IF k.time \in cursor.at .. range.to THEN Copies(page, k) ELSE 0,
                 Copies(cursor.seen, k))
  BY <1>3, <1>4, UnseenTicks DEF New
<1>7. ASSUME NEW k \in Tick, k.time = cursor.at
      PROVE  Copies(New(page), k) = 0
  <2>1. Copies(At(New(page), cursor.at), k)
          = IF k.time \in cursor.at .. cursor.at THEN Copies(New(page), k) ELSE 0
    BY <1>6, SomeTicks DEF At
  <2>2. Copies(At(New(page), cursor.at), k) = 0
    BY <1>1, EmptyTicks
  <2>3. k.time \in cursor.at .. cursor.at
    BY <1>3, <1>7
  <2> QED
    BY <2>1, <2>2, <2>3
<1>8. ASSUME NEW k \in Tick, range.from <= k.time, k.time <= range.to, cursor.at <= k.time
      PROVE  Copies(archive, k) <= Copies(delivered, k)
  <2>1. /\ Copies(archive, k) = Copies(page, k) /\ Copies(page, k) \in Nat
        /\ Copies(delivered, k) \in Nat /\ Copies(cursor.seen, k) \in Nat
        /\ k.time \in Nat /\ range.to \in Nat
    BY <1>3, <1>4, <1>8, CopiesType, TickTimes DEF HistoryInv, HistoryTypes
  <2>2. CASE k.time = cursor.at
    <3>1. Copies(delivered, k) = Copies(cursor.seen, k)
      BY <1>8, <2>2 DEF HistoryInv, TickInv
    <3>2. Copies(New(page), k) = 0 /\ k.time \in cursor.at .. range.to
      BY <1>3, <1>7, <1>8, <2>1, <2>2
    <3>3. Rest(Copies(page, k), Copies(cursor.seen, k)) = 0
      BY <1>6, <3>2
    <3> QED
      BY <2>1, <3>1, <3>3 DEF Rest
  <2>3. CASE k.time # cursor.at
    <3>1. ~ (k.time <= cursor.at)
      BY <1>3, <1>8, <2>1, <2>3
    <3>2. Copies(page, k) = 0
      BY <1>5, <3>1
    <3> QED
      BY <2>1, <3>2
  <2> QED
    BY <2>2, <2>3
<1>9. CASE pc' = "done"
  BY <1>1, <1>2, <1>8, <1>9, HistoryEnds
<1>10. CASE pc' = pc
  BY <1>2, <1>10, HistoryTurns
<1> QED
  BY <1>2, <1>9, <1>10

\* What a probe does to the position of the program.
LEMMA ProbesGoOn ==
    ASSUME pc = "bootstrap"
    PROVE  /\ \A b : Goes(b) => pc' \in {"failed", "bootstrap"}
           /\ \A b : GoesOn(b) => pc' \in {"failed", "bootstrap"}
<1>1. \A b : Goes(b) => pc' \in {"failed", "bootstrap"}
  BY DEF Goes
<1> QED
  BY <1>1 DEF GoesOn, Fails

\* The probes of the bootstrap deliver nothing.
LEMMA HistoryProbes ==
    ASSUME HistoryInv, pc = "bootstrap", UNCHANGED archive,
           ProbeIsTransient \/ \E p \in Pages(Candidate, 1) : Probe(p)
    PROVE  HistoryInv'
<1>1. CASE ProbeIsTransient
  <2>1. pc' \in {"failed", "bootstrap"} /\ UNCHANGED <<range, cursor, delivered, begun>>
    BY <1>1, ProbesGoOn DEF ProbeIsTransient
  <2> QED
    BY <2>1, HistoryBeginsAgain
<1>2. CASE \E p \in Pages(Candidate, 1) : Probe(p)
  <2>1. PICK p \in Pages(Candidate, 1) : Probe(p)
    BY <1>2
  <2>2. begun' = archive /\ UNCHANGED <<range, cursor, delivered>>
    BY <2>1 DEF Probe
  <2>3. pc' \in {"failed", "bootstrap", "page"}
    BY <2>1, ProbesGoOn DEF Probe
  <2> QED
    BY <2>2, <2>3, HistoryBeginsAgain
<1> QED
  BY <1>1, <1>2

\* Every step of a visit keeps the invariant.
LEMMA HistoryReads ==
    ASSUME HistoryInv, ReadStep, UNCHANGED archive
    PROVE  HistoryInv'
<1>1. CASE ProbeFails
  <2>1. UNCHANGED <<range, cursor, delivered, begun>> /\ pc' = "failed"
    BY <1>1 DEF ProbeFails, Fails
  <2> QED
    BY <2>1, HistoryTurns
<1>2. CASE ProbeIsTransient
  BY <1>2, HistoryProbes DEF ProbeIsTransient
<1>3. CASE pc = "bootstrap" /\ \E p \in Pages(Candidate, 1) : Probe(p)
  BY <1>3, HistoryProbes
<1>4. CASE ReadFails
  <2>1. UNCHANGED <<range, cursor, delivered, begun>> /\ pc' = "failed"
    BY <1>4 DEF ReadFails, Fails
  <2> QED
    BY <2>1, HistoryTurns
<1>5. CASE ReadIsPartial
  <2>1. UNCHANGED <<range, cursor, delivered, begun>> /\ (pc' = pc \/ pc' = "failed")
    BY <1>5 DEF ReadIsPartial
  <2> QED
    BY <2>1, HistoryTurns
<1>6. CASE ReadIsEmpty
  BY <1>6, HistoryConfirmsEmpty
<1>7. ASSUME NEW p \in Pages(cursor.at, Count), ReadIsRefused(p)
      PROVE  HistoryInv'
  <2>1. UNCHANGED <<range, cursor, delivered, begun>> /\ pc' = "failed"
    BY <1>7 DEF ReadIsRefused, Fails
  <2> QED
    BY <2>1, HistoryTurns
<1>8. ASSUME NEW p \in Pages(cursor.at, Count), ReadIsStale(p)
      PROVE  HistoryInv'
  BY <1>8, HistoryConfirmsStale
<1>9. ASSUME NEW p \in Pages(cursor.at, Count), ReadAdvances(p)
      PROVE  HistoryInv'
  BY <1>9, HistoryAdvances
<1> QED
  BY <1>1, <1>2, <1>3, <1>4, <1>5, <1>6, <1>7, <1>8, <1>9 DEF ReadStep

\* The poller, too, only sees its terminal grow.
LEMMA PollerShows ==
    ASSUME PollStep
    PROVE  UNCHANGED archive \/ \E k \in Tick : Shown(k)
<1>1. [time: Time, payload: Arriving] \subseteq Tick
  BY PollerAssumption DEF Tick
<1> QED
  BY <1>1 DEF PollStep, ClockTicks, TickArrives, EpochBegins, ReadForward, ReadTail,
     ForwardFails, TailFails, ReadIsFatal, EpochIsEmpty, EpochCommits

\* So does every step of the readers and of the terminal.
LEMMA HistoryInvIsInductive ==
    ASSUME HistoryInv, [MarketNext]_marketVars
    PROVE  HistoryInv'
<1>1. ASSUME UNCHANGED historyVars, UNCHANGED archive
      PROVE  HistoryInv'
  <2>1. UNCHANGED <<archive, range, cursor, delivered, begun>> /\ pc' = pc
    BY <1>1 DEF historyVars
  <2> QED
    BY <2>1, HistoryTurns
<1>2. CASE UNCHANGED marketVars
  BY <1>1, <1>2 DEF marketVars
<1>3. CASE HistoryQuery
  <2>1. CASE QueryNext
    BY <2>1, HistoryReads DEF QueryNext
  <2>2. CASE TickSynchronized
    <3>1. PICK k \in HistoryTick : Shown(k)
      BY <2>2 DEF TickSynchronized
    <3>2. k \in Tick /\ UNCHANGED historyVars
      BY <2>2, HistoryTickIsTick DEF TickSynchronized
    <3> QED
      BY <3>1, <3>2, HistoryGrows
  <2> QED
    BY <1>3, <2>1, <2>2 DEF HistoryQuery
<1>4. CASE Poller
  <2>1. PollStep /\ UNCHANGED historyVars
    BY <1>4 DEF Poller
  <2> QED
    BY <1>1, <2>1, PollerShows, HistoryGrows
<1>5. CASE Rates
  BY <1>1, <1>5 DEF Rates
<1> QED
  BY <1>2, <1>3, <1>4, <1>5 DEF MarketNext

\* visit_ticks_range: a visit that completes has delivered every tick its range
\* had when it began, as often as the terminal had it, and at no time a tick more
\* often than the archive has it, whatever page sizes, stale pages, arrivals and
\* retries come between.
THEOREM HistoryIsExactAlways ==
    MarketSpec => []HistoryIsExact
<1>1. HistoryInv /\ [MarketNext]_marketVars => HistoryInv'
  BY HistoryInvIsInductive
<1>2. HistoryInv => HistoryIsExact
  BY HistoryInvTells
<1> QED
  BY <1>1, <1>2, HistoryInit, PTL DEF MarketSpec

-----------------------------------------------------------------------------
(* The bootstrap. *)

Probed == [search: Nat, step: Nat, stalled: Nat, confirmed: Int, target: Int, count: Nat]

\* Another target and another count of stalled probes.
LEMMA StalledIsProbed ==
    ASSUME NEW b \in Probed, NEW t \in Int, NEW n \in Nat
    PROVE  LET m == [b EXCEPT !.target = t, !.stalled = n]
           IN  m \in Probed /\ m.search = b.search /\ m.target = t
BY DEF Probed

\* A probe that stalled.
LEMMA StalledProbe ==
    ASSUME NEW b \in Probed
    PROVE  Stalled(b) \in Probed /\ Stalled(b).search = b.search /\ Stalled(b).target = None
<1>1. Stalled(b) = [b EXCEPT !.target = None, !.stalled = b.stalled + 1]
  BY DEF Stalled
<1>2. None \in Int /\ b.stalled + 1 \in Nat
  BY DEF None, Probed
<1>3. LET m == [b EXCEPT !.target = None, !.stalled = b.stalled + 1]
      IN  m \in Probed /\ m.search = b.search /\ m.target = None
  BY <1>2, StalledIsProbed
<1> QED
  BY <1>1, <1>3

\* The earliest time a probe has confirmed.
LEMMA LeastConfirmed ==
    ASSUME NEW b \in Probed, NEW o \in Nat
    PROVE  (IF b.confirmed = None THEN o ELSE Min({b.confirmed, o})) \in Int
<1>1. b.confirmed \in Int
  BY DEF Probed
<1>2. Min({b.confirmed, o}) = IF b.confirmed <= o THEN b.confirmed ELSE o
  BY <1>1, OfTwo
<1> QED
  BY <1>1, <1>2

\* A probe whose answer was empty.
LEMMA EmptiedProbe ==
    ASSUME NEW b \in Probed, NEW c \in Nat, Doubled(b.step) \in Nat
    PROVE  /\ Emptied(b, c) \in Probed /\ Emptied(b, c).target = None
           /\ Emptied(b, c).search = c \/ Emptied(b, c).search = b.search
<1>1. CASE c < b.search
  <2>1. Emptied(b, c) = [b EXCEPT !.target = None, !.search = c, !.stalled = 0,
                                  !.step = Doubled(b.step)]
    BY <1>1 DEF Emptied
  <2>2. None \in Int
    BY DEF None
  <2>3. LET m == [b EXCEPT !.target = None, !.search = c, !.stalled = 0,
                           !.step = Doubled(b.step)]
        IN  m \in Probed /\ m.search = c /\ m.target = None
    BY ONLY b \in Probed, c \in Nat, Doubled(b.step) \in Nat, <2>2 DEF Probed
  <2> QED
    BY <2>1, <2>3
<1>2. CASE ~ (c < b.search)
  <2>1. Emptied(b, c) = Stalled(b)
    BY <1>2 DEF Emptied
  <2> QED
    BY <2>1, StalledProbe
<1> QED
  BY <1>1, <1>2

\* A probe that saw an earlier time.
LEMMA MovedProbe ==
    ASSUME NEW b \in Probed, NEW c \in Nat, NEW o \in Nat, Doubled(b.step) \in Nat,
           range.from \in Nat
    PROVE  /\ Moved(b, c, o) \in Probed
           /\ Moved(b, c, o).search = IF o <= range.from THEN range.from ELSE o
           /\ Moved(b, c, o).target = IF o <= range.from \/ c = range.from THEN o ELSE None
<1> DEFINE least == IF b.confirmed = None THEN o ELSE Min({b.confirmed, o})
           search == IF o <= range.from THEN range.from ELSE o
           target == IF o <= range.from \/ c = range.from THEN o ELSE None
           step == Doubled(b.step)
<1>1. least \in Int /\ search \in Nat /\ target \in Int /\ step \in Nat
  BY LeastConfirmed DEF None
<1>2. Moved(b, c, o) = [b EXCEPT !.confirmed = least, !.search = search, !.stalled = 0,
                                 !.target = target, !.step = step]
  BY DEF Moved
<1> HIDE DEF least, search, target, step
<1>3. LET m == [b EXCEPT !.confirmed = least, !.search = search, !.stalled = 0,
                         !.target = target, !.step = step]
      IN  m \in Probed /\ m.search = search /\ m.target = target
  BY ONLY b \in Probed, <1>1 DEF Probed
<1> QED
  BY <1>2, <1>3 DEF search, target

\* A probe that saw the time it asked for.
LEMMA StoodProbe ==
    ASSUME NEW b \in Probed, NEW c \in Nat, NEW o \in Nat
    PROVE  /\ Stood(b, c, o) \in Probed /\ Stood(b, c, o).search = b.search
           /\ Stood(b, c, o).target = IF c = range.from /\ AnchorGapIsBounded(o)
                                      THEN o ELSE None
<1> DEFINE least == IF b.confirmed = None THEN o ELSE Min({b.confirmed, o})
           target == IF c = range.from /\ AnchorGapIsBounded(o) THEN o ELSE None
           stalls == b.stalled + 1
<1>1. least \in Int /\ target \in Int /\ stalls \in Nat
  BY LeastConfirmed DEF None, Probed
<1>2. Stood(b, c, o) = [b EXCEPT !.confirmed = least, !.target = target, !.stalled = stalls]
  BY DEF Stood
<1> HIDE DEF least, target, stalls
<1>3. LET m == [b EXCEPT !.confirmed = least, !.target = target, !.stalled = stalls]
      IN  m \in Probed /\ m.search = b.search /\ m.target = target
  BY ONLY b \in Probed, <1>1 DEF Probed
<1> QED
  BY <1>2, <1>3 DEF target

\* What a probe is to confirm is what the one before it saw.
BootstrapInv ==
    /\ range.from \in Nat /\ cursor.at \in Nat
    /\ probe \in Probed
    /\ pc = "bootstrap" => /\ probe.search >= range.from
                           /\ probe.target # None => sightings[2] = probe.target
    /\ BootstrapIsConfirmed

\* The candidate lies between the start of the range and the search.
LEMMA CandidateLies ==
    ASSUME BootstrapInv, pc = "bootstrap"
    PROVE  Candidate \in Nat /\ range.from <= Candidate /\ Candidate <= probe.search
<1>1. /\ range.from \in Nat /\ probe.search \in Nat /\ probe.step \in Nat
      /\ range.from <= probe.search
  BY DEF BootstrapInv, Probed
<1> DEFINE room == Max({0, probe.search - range.from})
           back == Min({probe.step, room})
<1>2. room = probe.search - range.from
  <2>1. 0 \in Int /\ probe.search - range.from \in Int /\ 0 <= probe.search - range.from
    BY <1>1
  <2>2. room = IF 0 >= probe.search - range.from THEN 0 ELSE probe.search - range.from
    BY <2>1, OfTwo
  <2> HIDE DEF room
  <2> QED
    BY <2>1, <2>2
<1> HIDE DEF room
<1>3. back = IF probe.step <= room THEN probe.step ELSE room
  BY <1>1, <1>2, OfTwo
<1> HIDE DEF back
<1>4. back \in Nat /\ back <= probe.search - range.from
  BY <1>1, <1>2, <1>3
<1>5. Candidate = probe.search - back
  BY DEF Candidate, back, room
<1> QED
  BY <1>1, <1>4, <1>5

\* The steps of a probe stay numbers when they are doubled and halved.
LEMMA StepsAreNumbers ==
    ASSUME NEW s \in Nat
    PROVE  Doubled(s) \in Nat /\ Max({MinimumStep, s \div 2}) \in Nat
<1> DEFINE twice == s * 2
           half == s \div 2
<1>1. InitialStep \in Nat /\ MinimumStep \in Nat
  BY HistoryAssumption
<1>2. twice \in Int /\ twice >= 0
  OBVIOUS
<1>3. half \in Int /\ half >= 0
  OBVIOUS
<1>6. Doubled(s) = IF s < InitialStep THEN Min({InitialStep, twice}) ELSE s
  BY DEF Doubled
<1> HIDE DEF twice, half
<1>4. Min({InitialStep, twice}) = IF InitialStep <= twice THEN InitialStep ELSE twice
  BY <1>1, <1>2, OfTwo
<1>5. Max({MinimumStep, half}) = IF MinimumStep >= half THEN MinimumStep ELSE half
  BY <1>1, <1>3, OfTwo
<1>7. Max({MinimumStep, half}) \in Nat
  BY <1>1, <1>3, <1>5
<1>8. Doubled(s) \in Nat
  BY <1>1, <1>2, <1>4, <1>6
<1> QED
  BY <1>7, <1>8 DEF half

\* The probes of a query that goes on keep what they are to confirm.
LEMMA GoesOnKeeps ==
    ASSUME NEW b \in Probed, Goes(b) \/ GoesOn(b), probe \in Probed
    PROVE  /\ probe' \in Probed /\ pc' \in {"failed", "bootstrap"}
           /\ pc' = "bootstrap" => probe'.search = b.search /\ probe'.target = b.target
<1>1. ASSUME NEW c \in Probed, Goes(c)
      PROVE  /\ probe' \in Probed /\ pc' \in {"failed", "bootstrap"}
             /\ probe'.search = c.search /\ probe'.target = c.target
  BY <1>1 DEF Goes, Probed
<1>2. /\ Halved(b) \in Probed
      /\ Halved(b).search = b.search /\ Halved(b).target = b.target
  <2>1. Max({MinimumStep, b.step \div 2}) \in Nat
    BY StepsAreNumbers DEF Probed
  <2> QED
    BY <2>1 DEF Halved, Probed
<1>3. CASE Goes(b)
  BY <1>1, <1>3
<1>4. CASE GoesOn(b)
  <2>1. CASE GivesUp(Halved(b))
    BY <1>4, <2>1 DEF GoesOn, Fails
  <2>2. CASE ~ GivesUp(Halved(b))
    <3>1. Goes(Halved(b))
      BY <1>4, <2>2 DEF GoesOn
    <3> QED
      BY <1>1, <1>2, <3>1
  <2> QED
    BY <2>1, <2>2
<1> QED
  BY <1>3, <1>4

\* The oldest tick of an answer that counts is no older than the candidate.
LEMMA OldestOf ==
    ASSUME NEW page, IsTicks(page), NEW c \in Nat, Times(Between(page, c, MaxTime)) # {}
    PROVE  LET oldest == Min(Times(Between(page, c, MaxTime)))
           IN  oldest \in Nat /\ c <= oldest
<1> DEFINE valid == Between(page, c, MaxTime)
<1>1. /\ IsTicks(valid)
      /\ \A k : Copies(valid, k) = IF k.time \in c .. MaxTime THEN Copies(page, k) ELSE 0
  BY SomeTicks
<1>2. ASSUME NEW t \in Times(valid)
      PROVE  t \in Nat /\ c <= t
  <2>1. PICK k \in DOMAIN valid : t = k.time
    BY DEF Times, BagToSet
  <2>2. k \in Tick /\ Copies(valid, k) # 0
    BY <1>1, <2>1, CopiesType
  <2>3. k.time \in c .. MaxTime
    BY <1>1, <2>2
  <2> QED
    BY <2>1, <2>2, <2>3, TickTimes
<1>3. Times(valid) \in SUBSET Nat
  BY <1>2
<1>4. Min(Times(valid)) \in Times(valid)
  BY <1>3, LeastOf
<1> QED
  BY <1>2, <1>4

\* A probe that is not transient.
LEMMA BootstrapProbes ==
    ASSUME BootstrapInv, pc = "bootstrap", IsTicks(archive),
           NEW page \in Pages(Candidate, 1), Probe(page)
    PROVE  BootstrapInv'
<1> DEFINE c == Candidate
           valid == Between(page, c, MaxTime)
           oldest == Min(Times(valid))
<1>1. /\ probe \in Probed /\ range.from \in Nat /\ cursor.at \in Nat
      /\ range.from <= probe.search
      /\ probe.target # None => sightings[2] = probe.target
  BY DEF BootstrapInv, Probed
<1>2. /\ probe.search \in Nat /\ probe.step \in Nat /\ probe.target \in Int
      /\ probe.stalled + 1 \in Nat
      /\ Doubled(probe.step) \in Nat
  <2>1. /\ probe.search \in Nat /\ probe.step \in Nat /\ probe.target \in Int
        /\ probe.stalled + 1 \in Nat
    BY <1>1 DEF Probed
  <2> QED
    BY <2>1, StepsAreNumbers
<1>3. c \in Nat /\ range.from <= c /\ c <= probe.search
  BY CandidateLies
<1>4. IsTicks(page)
  BY <1>3, PageTicks
<1>5. range' = range /\ cursor' = cursor
  BY DEF Probe
<1>6. Times(valid) # {} => oldest \in Nat /\ c <= oldest
  BY <1>3, <1>4, OldestOf
<1>7. /\ Times(valid) = {} => GoesOn(Emptied(probe, c)) /\ Sights(None)
      /\ Times(valid) # {} => Sights(IF c = range.from THEN oldest ELSE None)
      /\ Times(valid) # {} /\ oldest < probe.search => Goes(Moved(probe, c, oldest))
      /\ Times(valid) # {} /\ ~ (oldest < probe.search) /\ Confirms(probe, c, oldest)
           => pc' = "page" /\ probe' = probe
      /\ Times(valid) # {} /\ ~ (oldest < probe.search) /\ ~ Confirms(probe, c, oldest)
           => GoesOn(Stood(probe, c, oldest))
  BY DEF Probe
<1> HIDE DEF c, oldest, valid
<1>8. \A t : Sights(t) => sightings' = <<sightings[2], t>>
  BY DEF Sights
<1>9. ASSUME NEW b \in Probed, Goes(b) \/ GoesOn(b), range.from <= b.search,
             b.target # None => sightings'[2] = b.target
      PROVE  BootstrapInv'
  <2>1. /\ probe' \in Probed /\ pc' \in {"failed", "bootstrap"}
        /\ pc' = "bootstrap" => probe'.search = b.search /\ probe'.target = b.target
    BY <1>1, <1>9, GoesOnKeeps
  <2>2. b.search \in Nat
    BY DEF Probed
  <2> QED
    BY <1>1, <1>5, <1>9, <2>1, <2>2 DEF BootstrapInv, BootstrapIsConfirmed
<1>15. probe \in Probed /\ Doubled(probe.step) \in Nat
  BY <1>1, <1>2
<1>10. CASE Times(valid) = {}
  <2> DEFINE b == Emptied(probe, c)
  <2>1. b \in Probed /\ b.target = None /\ (b.search = c \/ b.search = probe.search)
    BY <1>3, <1>15, EmptiedProbe
  <2>2. GoesOn(b)
    BY <1>7, <1>10
  <2> HIDE DEF b
  <2>3. range.from <= b.search
    BY <1>1, <1>3, <2>1
  <2> QED
    BY <1>9, <2>1, <2>2, <2>3
<1>11. CASE Times(valid) # {} /\ oldest < probe.search
  <2> DEFINE b == Moved(probe, c, oldest)
  <2>1. oldest \in Nat /\ c <= oldest
    BY <1>6, <1>11
  <2>2. range.from \in Nat
    BY <1>1
  <2>3. /\ b \in Probed
        /\ b.search = IF oldest <= range.from THEN range.from ELSE oldest
        /\ b.target = IF oldest <= range.from \/ c = range.from THEN oldest ELSE None
    BY <1>3, <1>15, <2>1, <2>2, MovedProbe
  <2>4. Goes(b)
    BY <1>7, <1>11
  <2> HIDE DEF b
  <2>5. range.from <= b.search /\ (b.target # None => c = range.from /\ b.target = oldest)
    BY <1>3, <2>1, <2>2, <2>3
  <2>6. sightings' = <<sightings[2], IF c = range.from THEN oldest ELSE None>>
    BY <1>7, <1>8, <1>11
  <2>7. b.target # None => sightings'[2] = b.target
    BY <2>5, <2>6
  <2> QED
    BY <1>9, <2>3, <2>4, <2>5, <2>7
<1>12. CASE Times(valid) # {} /\ ~ (oldest < probe.search) /\ ~ Confirms(probe, c, oldest)
  <2> DEFINE b == Stood(probe, c, oldest)
  <2>1. oldest \in Nat
    BY <1>6, <1>12
  <2>2. /\ b \in Probed /\ b.search = probe.search
        /\ b.target = IF c = range.from /\ AnchorGapIsBounded(oldest) THEN oldest ELSE None
    BY <1>3, <1>15, <2>1, StoodProbe
  <2>3. GoesOn(b)
    BY <1>7, <1>12
  <2> HIDE DEF b
  <2>4. range.from <= b.search /\ (b.target # None => c = range.from /\ b.target = oldest)
    BY <1>1, <2>2
  <2>5. sightings' = <<sightings[2], IF c = range.from THEN oldest ELSE None>>
    BY <1>7, <1>8, <1>12
  <2>6. b.target # None => sightings'[2] = b.target
    BY <2>4, <2>5
  <2> QED
    BY <1>9, <2>2, <2>3, <2>4, <2>6
<1>13. CASE Times(valid) # {} /\ ~ (oldest < probe.search) /\ Confirms(probe, c, oldest)
  <2>1. pc' = "page" /\ probe' = probe
    BY <1>7, <1>13
  <2>2. c = range.from /\ probe.target = oldest /\ AnchorGapIsBounded(oldest)
    BY <1>13 DEF Confirms
  <2>3. oldest \in Nat /\ oldest # None
    BY <1>6, <1>13 DEF None
  <2>4. sightings' = <<sightings[2], oldest>>
    BY <1>7, <1>8, <1>13, <2>2
  <2>5. sightings[2] = oldest
    BY <1>1, <2>2, <2>3
  <2>6. sightings'[1] = oldest /\ sightings'[2] = oldest
    BY <2>4, <2>5
  <2>7. AnchorGapIsBounded(sightings[2])'
    BY <1>5, <2>2, <2>6 DEF AnchorGapIsBounded
  <2>8. BootstrapIsConfirmed'
    BY <2>1, <2>3, <2>6, <2>7 DEF BootstrapIsConfirmed
  <2> QED
    BY <1>1, <1>5, <2>1, <2>8 DEF BootstrapInv
<1> QED
  BY <1>10, <1>11, <1>12, <1>13

\* A transient answer stalls the probe and confirms nothing.
LEMMA BootstrapWaits ==
    ASSUME BootstrapInv, ProbeIsTransient
    PROVE  BootstrapInv'
<1> DEFINE b == Stalled(probe)
<1>1. /\ probe \in Probed /\ range.from \in Nat /\ pc = "bootstrap"
      /\ range.from <= probe.search /\ cursor.at \in Nat
      /\ UNCHANGED <<range, cursor>> /\ GoesOn(b)
  BY DEF BootstrapInv, Probed, ProbeIsTransient
<1>2. b \in Probed /\ b.search = probe.search /\ b.target = None
  BY <1>1, StalledProbe
<1> HIDE DEF b
<1>3. /\ probe' \in Probed /\ pc' \in {"failed", "bootstrap"}
      /\ pc' = "bootstrap" => probe'.search = b.search /\ probe'.target = b.target
  BY <1>1, <1>2, GoesOnKeeps
<1> QED
  BY <1>1, <1>2, <1>3 DEF BootstrapInv, BootstrapIsConfirmed

\* Every other step: the query fails, or pages.
LEMMA BootstrapStays ==
    ASSUME BootstrapInv, range' = range, probe' = probe, sightings' = sightings, cursor'.at \in Nat,
           pc' = pc \/ pc' = "failed" \/ (pc' = "done" /\ pc = "page")
    PROVE  BootstrapInv'
BY DEF BootstrapInv, BootstrapIsConfirmed, AnchorGapIsBounded

\* Every step of a visit keeps the invariant of the bootstrap.
LEMMA BootstrapReads ==
    ASSUME HistoryInv, BootstrapInv, ReadStep, UNCHANGED archive
    PROVE  BootstrapInv'
<1> USE DEF Fails, Confirming
<1>0. cursor.at \in Nat /\ IsTicks(archive) /\ IsTicks(cursor.seen)
  BY DEF HistoryInv, HistoryTypes
<1>1. CASE ProbeFails
  <2>1. UNCHANGED <<range, probe, sightings>> /\ cursor' = cursor /\ pc' = "failed"
    BY <1>1 DEF ProbeFails
  <2>2. cursor'.at \in Nat
    BY <1>0, <2>1
  <2> QED
    BY <2>1, <2>2, BootstrapStays
<1>2. CASE ProbeIsTransient
  BY <1>2, BootstrapWaits
<1>3. CASE pc = "bootstrap" /\ \E p \in Pages(Candidate, 1) : Probe(p)
  BY <1>0, <1>3, BootstrapProbes
<1>4. CASE ReadFails
  <2>1. UNCHANGED <<range, probe, sightings>> /\ cursor' = cursor /\ pc' = "failed"
    BY <1>4 DEF ReadFails
  <2>2. cursor'.at \in Nat
    BY <1>0, <2>1
  <2> QED
    BY <2>1, <2>2, BootstrapStays
<1>5. CASE ReadIsPartial
  <2>1. UNCHANGED <<range, probe, sightings>> /\ cursor' = cursor /\ (pc' = pc \/ pc' = "failed")
    BY <1>5 DEF ReadIsPartial
  <2>2. cursor'.at \in Nat
    BY <1>0, <2>1
  <2> QED
    BY <2>1, <2>2, BootstrapStays
<1>6. CASE ReadIsEmpty
  <2>1. /\ UNCHANGED <<range, probe, sightings>> /\ cursor' = cursor
        /\ pc' = pc \/ (pc' = "done" /\ pc = "page")
    BY <1>6 DEF ReadIsEmpty
  <2>2. cursor'.at \in Nat
    BY <1>0, <2>1
  <2> QED
    BY <2>1, <2>2, BootstrapStays
<1>7. ASSUME NEW p \in Pages(cursor.at, Count), ReadIsRefused(p)
      PROVE  BootstrapInv'
  <2>1. UNCHANGED <<range, probe, sightings>> /\ cursor' = cursor /\ pc' = "failed"
    BY <1>7 DEF ReadIsRefused
  <2>2. cursor'.at \in Nat
    BY <1>0, <2>1
  <2> QED
    BY <2>1, <2>2, BootstrapStays
<1>8. ASSUME NEW p \in Pages(cursor.at, Count), ReadIsStale(p)
      PROVE  BootstrapInv'
  <2>1. /\ UNCHANGED <<range, probe, sightings>> /\ cursor' = cursor
        /\ pc' = pc \/ (pc' = "done" /\ pc = "page")
    BY <1>8 DEF ReadIsStale
  <2>2. cursor'.at \in Nat
    BY <1>0, <2>1
  <2> QED
    BY <2>1, <2>2, BootstrapStays
<1>9. ASSUME NEW p \in Pages(cursor.at, Count), ReadAdvances(p)
      PROVE  BootstrapInv'
  <2>1. HistoryInv'
    BY <1>9, HistoryAdvances
  <2>2. cursor'.at \in Nat
    BY <2>1 DEF HistoryInv, HistoryTypes
  <2>3. /\ UNCHANGED <<range, probe, sightings>>
        /\ pc' = pc \/ (pc' = "done" /\ pc = "page")
    BY <1>9 DEF ReadAdvances
  <2> QED
    BY <2>2, <2>3, BootstrapStays
<1> QED
  BY <1>1, <1>2, <1>3, <1>4, <1>5, <1>6, <1>7, <1>8, <1>9 DEF ReadStep

\* It holds when a visit begins.
LEMMA BootstrapInit ==
    MarketInit => BootstrapInv
<1> SUFFICES ASSUME MarketInit
             PROVE  BootstrapInv
  OBVIOUS
<1>1. ASSUME NEW n \in Nat
      PROVE  NewProbe(n) \in Probed /\ NewProbe(n).search = n
             /\ NewProbe(n).target = None /\ NewProbe(n).count = 0
  BY HistoryAssumption DEF NewProbe, Probed, None
<1>2. CASE reader = "history"
  <2>1. PICK r \in [from: 0 .. HistoryEnd, to: 0 .. HistoryEnd], now_ \in 0 .. HistoryEnd :
           /\ range = r /\ pc = Starts(r, now_)
           /\ probe = NewProbe(Min({r.to, now_}))
           /\ cursor = [at |-> r.from, seen |-> NoTicks]
    BY <1>2 DEF MarketInit, InitHistory
  <2>2. r.from \in Nat /\ r.to \in Nat /\ now_ \in Nat
    BY HistoryAssumption, PagesAssumption
  <2>3. Min({r.to, now_}) = IF r.to <= now_ THEN r.to ELSE now_
    BY <2>2, OfTwo
  <2> DEFINE m == Min({r.to, now_})
  <2>4. m \in Nat
    BY <2>2, <2>3
  <2>5. pc \in {"bootstrap", "page"} /\ (pc = "bootstrap" => m > r.from)
    BY <2>1 DEF Starts
  <2> HIDE DEF m
  <2>6. probe \in Probed /\ probe.search = m /\ probe.target = None /\ probe.count = 0
    BY <1>1, <2>1, <2>4 DEF m
  <2>7. BootstrapIsConfirmed
    BY <2>6 DEF BootstrapIsConfirmed
  <2> QED
    BY <2>1, <2>2, <2>4, <2>5, <2>6, <2>7 DEF BootstrapInv
<1>3. CASE reader # "history"
  <2>1. /\ range = [from |-> 0, to |-> 0] /\ pc = "idle" /\ probe = NewProbe(0)
        /\ cursor = [at |-> 0, seen |-> NoTicks]
    BY <1>3 DEF MarketInit, QuietHistory
  <2> QED
    BY <1>1, <2>1 DEF BootstrapInv, BootstrapIsConfirmed
<1> QED
  BY <1>2, <1>3

-----------------------------------------------------------------------------
(* The bars. *)

QueryFields == {"pc", "candidate", "have", "saw", "failures", "probes", "status",
                "result", "previous", "last"}

RatesInv ==
    /\ DOMAIN query = QueryFields
    /\ asked.from \in Nat /\ asked.to \in Nat
    /\ \A b \in bars : b.time \in Nat
    /\ query.have => query.candidate = query.last
    /\ query.status = "complete" =>
         /\ query.pc = "done"
         /\ query.last = query.previous /\ query.result = query.last.rows
         /\ Covered(query.last)
         /\ \A b \in query.result : b.time \in asked.from .. asked.to

\* The rows of an answer are those of the range.
LEMMA AnswersRows ==
    ASSUME NEW raw
    PROVE  \A b \in AnswerOf(raw).rows : b.time \in asked.from .. asked.to
BY DEF AnswerOf

\* What \div and % mean for a number that is not zero.
LEMMA Divided ==
    ASSUME NEW n \in Nat, NEW p \in Nat \ {0}
    PROVE  /\ n \div p \in Nat /\ n % p \in 0 .. p - 1
           /\ n = p * (n \div p) + (n % p)
OBVIOUS

\* Multiples grow with their factor.
LEMMA MultiplesGrow ==
    ASSUME NEW p \in Nat \ {0}, NEW a \in Int, NEW b \in Int, a <= b
    PROVE  p * a <= p * b
<1>1. b - a \in Nat
  OBVIOUS
<1>2. p * (b - a) >= 0
  BY <1>1
<1>3. p * (b - a) = p * b - p * a
  OBVIOUS
<1>4. p * a \in Int /\ p * b \in Int
  OBVIOUS
<1> QED
  BY <1>2, <1>3, <1>4

\* The aligned times of a range lie between its two boundary bars.
LEMMA BoundaryBars ==
    ASSUME NEW t \in Nat, asked.from \in Nat, asked.to \in Nat, Period \in Nat \ {0},
           asked.from <= t, t <= asked.to, t % Period = 0
    PROVE  FirstBar <= t /\ t <= LastBar
<1> DEFINE p == Period
           q == t \div p
           up == asked.from + p - 1
           c == up \div p
           d == asked.to \div p
<1>1. p \in Nat \ {0} /\ up \in Nat
  OBVIOUS
<1>2. q \in Nat /\ t = p * q
  BY Divided
<1>3. c \in Nat /\ up % p \in 0 .. p - 1 /\ up = p * c + (up % p)
  <2> HIDE DEF p, up
  <2> QED
    BY <1>1, Divided
<1>4. d \in Nat /\ asked.to % p \in 0 .. p - 1 /\ asked.to = p * d + (asked.to % p)
  <2> HIDE DEF p
  <2> QED
    BY <1>1, Divided
<1>5. FirstBar = c * p /\ LastBar = d * p
  BY DEF FirstBar, LastBar
<1>6. asked.from <= t /\ t <= asked.to /\ up = asked.from + p - 1
  OBVIOUS
<1> HIDE DEF p, q, up, c, d
<1>7. c <= q
  <2> SUFFICES ASSUME ~ (c <= q)
               PROVE  FALSE
    OBVIOUS
  <2>1. q + 1 <= c
    BY <1>2, <1>3
  <2>2. p * (q + 1) <= p * c
    BY <1>1, <1>2, <1>3, <2>1, MultiplesGrow
  <2>3. p * (q + 1) = p * q + p /\ p * q \in Int /\ p * c \in Int
    BY <1>1, <1>2, <1>3
  <2> QED
    BY <1>1, <1>2, <1>3, <1>6, <2>2, <2>3
<1>8. q <= d
  <2> SUFFICES ASSUME ~ (q <= d)
               PROVE  FALSE
    OBVIOUS
  <2>1. d + 1 <= q
    BY <1>2, <1>4
  <2>2. p * (d + 1) <= p * q
    BY <1>1, <1>2, <1>4, <2>1, MultiplesGrow
  <2>3. p * (d + 1) = p * d + p /\ p * q \in Int /\ p * d \in Int
    BY <1>1, <1>2, <1>4
  <2> QED
    BY <1>1, <1>2, <1>4, <1>6, <2>2, <2>3
<1>9. p * c <= p * q /\ p * q <= p * d
  BY <1>1, <1>2, <1>3, <1>4, <1>7, <1>8, MultiplesGrow
<1>10. c * p = p * c /\ d * p = p * d
  BY <1>1, <1>3, <1>4
<1> QED
  BY <1>2, <1>5, <1>9, <1>10

\* The invariant of a query of bars says what the run checks.
LEMMA RatesInvTells ==
    ASSUME RatesInv
    PROVE  RatesAreConfirmed
<1> SUFFICES ASSUME query.status = "complete"
             PROVE  /\ query.last = query.previous
                    /\ query.result = query.last.rows
                    /\ \A t \in asked.from .. asked.to :
                         t % Period = 0 =>
                            /\ t >= Min(BarTimes(query.result))
                            /\ t <= Max(BarTimes(query.result))
  BY DEF RatesAreConfirmed
<1> DEFINE T == BarTimes(query.result)
<1>1. /\ query.last = query.previous /\ query.result = query.last.rows
      /\ Covered(query.last)
      /\ \A b \in query.result : b.time \in asked.from .. asked.to
      /\ asked.from \in Nat /\ asked.to \in Nat
  BY DEF RatesInv
<1>2. Period \in Nat \ {0} /\ FirstBar \in T /\ LastBar \in T
  BY <1>1, RatesAssumption DEF Covered
<1>3. T \in SUBSET Nat /\ T # {} /\ \A y \in T : y <= asked.to
  BY <1>1, <1>2 DEF BarTimes
<1> HIDE DEF T
<1>4. Min(T) \in T /\ \A y \in T : Min(T) <= y
  BY <1>3, LeastOf
<1>5. Max(T) \in T /\ \A y \in T : y <= Max(T)
  BY <1>1, <1>3, GreatestOf
<1>6. ASSUME NEW t \in asked.from .. asked.to, t % Period = 0
      PROVE  t >= Min(T) /\ t <= Max(T)
  <2>1. t \in Nat /\ asked.from <= t /\ t <= asked.to
    BY <1>1
  <2>2. FirstBar <= t /\ t <= LastBar
    BY <1>1, <1>2, <1>6, <2>1, BoundaryBars
  <2>3. FirstBar \in Nat /\ LastBar \in Nat /\ Min(T) \in Nat /\ Max(T) \in Nat
    BY <1>2, <1>3, <1>4, <1>5
  <2>4. Min(T) <= FirstBar /\ LastBar <= Max(T)
    BY <1>2, <1>4, <1>5
  <2> HIDE DEF FirstBar, LastBar
  <2> QED
    BY <2>1, <2>2, <2>3, <2>4
<1> QED
  BY <1>1, <1>6 DEF T

\* It holds before the first answer.
LEMMA RatesInit ==
    MarketInit => RatesInv
<1> SUFFICES ASSUME MarketInit
             PROVE  RatesInv
  OBVIOUS
<1>1. CASE InitRates
  BY <1>1, RatesAssumption DEF InitRates, RatesInv, NewQuery, QueryFields
<1>2. CASE QuietRates
  BY <1>2 DEF QuietRates, RatesInv, NewQuery, QueryFields
<1> QED
  BY <1>1, <1>2 DEF MarketInit

\* What the end of a budget does to a query.
LEMMA SpentKeeps ==
    ASSUME NEW q, DOMAIN q = QueryFields, q.status # "complete"
    PROVE  /\ DOMAIN Spent(q) = QueryFields /\ Spent(q).status # "complete"
           /\ Spent(q).have = q.have /\ Spent(q).candidate = q.candidate
           /\ Spent(q).last = q.last
BY DEF Spent, QueryFields

\* A query that is not complete claims nothing.
LEMMA RatesGoOn ==
    ASSUME RatesInv, UNCHANGED <<bars, asked>>, DOMAIN query' = QueryFields,
           query'.status # "complete", query'.have => query'.candidate = query'.last
    PROVE  RatesInv'
BY DEF RatesInv

\* query_rates keeps it with every answer, transient, partial or complete.
LEMMA RatesSteps ==
    ASSUME RatesInv, RatesNext
    PROVE  RatesInv'
<1>1. ASSUME NEW raw, RatesTransient(raw)
      PROVE  RatesInv'
  <2> DEFINE q == [query EXCEPT !.failures = @ + 1, !.saw = @ \/ raw # {}]
  <2>1. query' = Spent(q) /\ UNCHANGED <<bars, asked>> /\ query.pc = "read"
    BY <1>1 DEF RatesTransient
  <2>2. /\ DOMAIN q = QueryFields /\ q.status = query.status
        /\ q.have = query.have /\ q.candidate = query.candidate /\ q.last = query.last
    BY DEF RatesInv, QueryFields
  <2>3. q.status # "complete"
    BY <2>1, <2>2 DEF RatesInv
  <2> HIDE DEF q
  <2>4. /\ DOMAIN Spent(q) = QueryFields /\ Spent(q).status # "complete"
        /\ Spent(q).have = q.have /\ Spent(q).candidate = q.candidate
        /\ Spent(q).last = q.last
    BY <2>2, <2>3, SpentKeeps
  <2>5. query.have => query.candidate = query.last
    BY DEF RatesInv
  <2> QED
    BY <2>1, <2>2, <2>4, <2>5, RatesGoOn
<1>2. ASSUME NEW raw, RatesAnswer(raw)
      PROVE  RatesInv'
  <2> DEFINE a == AnswerOf(raw)
             read == [query EXCEPT !.saw = @ \/ raw # {}, !.candidate = a,
                              !.have = TRUE, !.result = a.rows,
                              !.previous = query.last, !.last = a]
             done == [read EXCEPT !.pc = "done",
                               !.status = IF Covered(a) THEN "complete" ELSE "partial"]
             more == [read EXCEPT !.probes = @ + 1]
  <2>1. /\ query.pc = "read" /\ UNCHANGED <<bars, asked>>
        /\ query' = IF ~ query.have THEN read
                    ELSE IF Stable(query.candidate, a) THEN done
                    ELSE Spent(more)
    BY <1>2 DEF RatesAnswer
  <2>2. \A b \in a.rows : b.time \in asked.from .. asked.to
    BY AnswersRows
  <2> HIDE DEF a
  <2>3. /\ DOMAIN read = QueryFields /\ read.status = query.status
        /\ read.candidate = a /\ read.have = TRUE /\ read.result = a.rows
        /\ read.previous = query.last /\ read.last = a
    BY DEF RatesInv, QueryFields
  <2>4. query.status # "complete"
    BY <2>1 DEF RatesInv
  <2> HIDE DEF read
  <2>5. CASE ~ query.have
    BY <2>1, <2>3, <2>4, <2>5, RatesGoOn
  <2>6. CASE query.have /\ Stable(query.candidate, a)
    <3>1. /\ DOMAIN done = QueryFields /\ done.pc = "done"
          /\ done.status = IF Covered(a) THEN "complete" ELSE "partial"
          /\ done.candidate = a /\ done.result = a.rows
          /\ done.previous = query.last /\ done.last = a
      BY <2>3 DEF QueryFields
    <3>2. query' = done
      BY <2>1, <2>6
    <3>3. query.last = a
      BY <2>6 DEF RatesInv, Stable
    <3> HIDE DEF done
    <3>5. asked' = asked /\ bars' = bars
      BY <2>1
    <3> QED
      BY <2>2, <3>1, <3>2, <3>3, <3>5 DEF RatesInv, Covered, FirstBar, LastBar
  <2>7. CASE query.have /\ ~ Stable(query.candidate, a)
    <3>1. /\ DOMAIN more = QueryFields /\ more.status = query.status
          /\ more.have = TRUE /\ more.candidate = a /\ more.last = a
      BY <2>3 DEF QueryFields
    <3>2. query' = Spent(more)
      BY <2>1, <2>7
    <3> HIDE DEF more
    <3>3. /\ DOMAIN Spent(more) = QueryFields /\ Spent(more).status # "complete"
          /\ Spent(more).candidate = more.candidate /\ Spent(more).last = more.last
      BY <2>4, <3>1, SpentKeeps
    <3> QED
      BY <2>1, <3>1, <3>2, <3>3, RatesGoOn
  <2> QED
    BY <2>5, <2>6, <2>7
<1>3. CASE RatesFail
  <2>1. /\ query' = [query EXCEPT !.pc = "failed", !.status = "fatal"]
        /\ UNCHANGED <<bars, asked>>
    BY <1>3 DEF RatesFail
  <2>2. /\ DOMAIN query' = QueryFields /\ query'.status = "fatal"
        /\ query'.have = query.have /\ query'.candidate = query.candidate
        /\ query'.last = query.last
    BY <2>1 DEF RatesInv, QueryFields
  <2>3. query.have => query.candidate = query.last
    BY DEF RatesInv
  <2> QED
    BY <2>1, <2>2, <2>3, RatesGoOn
<1>4. ASSUME NEW b \in [time: BarTime, value: Value], BarChanges(b)
      PROVE  RatesInv'
  <2>1. b.time \in Nat
    BY RatesAssumption
  <2>2. /\ bars' = {x \in bars : x.time # b.time} \cup {b}
        /\ asked' = asked /\ query' = query
    BY <1>4 DEF BarChanges
  <2> QED
    BY <2>1, <2>2 DEF RatesInv, Covered, FirstBar, LastBar
<1> QED
  BY <1>1, <1>2, <1>3, <1>4 DEF RatesNext, RatesStep

-----------------------------------------------------------------------------
AnswersInv == HistoryInv /\ BootstrapInv /\ RatesInv

\* Both invariants, and the one of the visit that they read, are inductive.
LEMMA AnswersInvIsInductive ==
    ASSUME AnswersInv, [MarketNext]_marketVars
    PROVE  AnswersInv'
<1>1. HistoryInv'
  BY HistoryInvIsInductive DEF AnswersInv
<1>2. ASSUME UNCHANGED historyVars
      PROVE  BootstrapInv'
  <2>1. /\ range' = range /\ probe' = probe /\ sightings' = sightings
        /\ cursor' = cursor /\ pc' = pc
    BY <1>2 DEF historyVars
  <2>2. cursor'.at \in Nat
    BY <2>1 DEF AnswersInv, BootstrapInv
  <2> QED
    BY <2>1, <2>2, BootstrapStays DEF AnswersInv
<1>3. ASSUME UNCHANGED ratesVars
      PROVE  RatesInv'
  BY <1>3 DEF AnswersInv, RatesInv, ratesVars, Covered, FirstBar, LastBar
<1>4. CASE UNCHANGED marketVars
  BY <1>1, <1>2, <1>3, <1>4 DEF AnswersInv, marketVars
<1>5. CASE HistoryQuery
  <2>1. RatesInv'
    BY <1>3, <1>5 DEF HistoryQuery
  <2>2. CASE QueryNext
    <3>1. BootstrapInv'
      BY <2>2, BootstrapReads DEF AnswersInv, QueryNext
    <3> QED
      BY <1>1, <2>1, <3>1 DEF AnswersInv
  <2>3. CASE TickSynchronized
    <3>1. BootstrapInv'
      BY <1>2, <2>3 DEF TickSynchronized
    <3> QED
      BY <1>1, <2>1, <3>1 DEF AnswersInv
  <2> QED
    BY <1>5, <2>2, <2>3 DEF HistoryQuery
<1>6. CASE Poller
  BY <1>1, <1>2, <1>3, <1>6 DEF AnswersInv, Poller
<1>7. CASE Rates
  <2>1. RatesNext /\ UNCHANGED historyVars
    BY <1>7 DEF Rates
  <2>2. RatesInv'
    BY <2>1, RatesSteps DEF AnswersInv
  <2> QED
    BY <1>1, <1>2, <2>1, <2>2 DEF AnswersInv
<1> QED
  BY <1>4, <1>5, <1>6, <1>7 DEF MarketNext

\* The bootstrap of visit_ticks_range and query_rates: a visit begins only at a
\* time that repeated probes confirmed, and a query of bars completes only with
\* two equal answers in a row that cover the range asked for: the first answers
\* of a terminal that still synchronizes are never taken for its history.
THEOREM AnswersAreConfirmedAlways ==
    MarketSpec => []AnswersAreConfirmed
<1>1. MarketInit => AnswersInv
  BY HistoryInit, BootstrapInit, RatesInit DEF AnswersInv
<1>2. AnswersInv /\ [MarketNext]_marketVars => AnswersInv'
  BY AnswersInvIsInductive
<1>3. AnswersInv => AnswersAreConfirmed
  BY RatesInvTells DEF AnswersInv, AnswersAreConfirmed, BootstrapInv
<1> QED
  BY <1>1, <1>2, <1>3, PTL DEF MarketSpec

-----------------------------------------------------------------------------
(* The poller of a realtime source. *)

\* The ticks of any cut of a bag are ticks.
LEMMA CutTicks ==
    ASSUME NEW b, IsTicks(b), NEW n \in Int, NEW p \in First(b, n)
    PROVE  IsTicks(p)
<1>1. CASE Size(b) <= n
  BY <1>1 DEF First
<1>2. CASE ~ (Size(b) <= n)
  <2> DEFINE cut == Min({c \in Time : Size(Between(b, 0, c)) >= n})
             before == Between(b, 0, cut - 1)
             m == n - Size(before)
  <2>1. PICK s \in Draws(At(b, cut), m) : p = before (+) s
    BY <1>2 DEF First
  <2> HIDE DEF cut
  <2>2. IsTicks(before) /\ IsTicks(At(b, cut))
    BY SomeTicks DEF At
  <2>3. Size(before) \in Nat
    BY <2>2, SizeType
  <2>4. m \in Int
    BY <2>3
  <2> HIDE DEF before, m
  <2>5. IsTicks(s)
    <3>1. PICK part \in SUBSET DOMAIN At(b, cut) : s \in [part -> 1 .. m]
      BY <2>1 DEF Draws, BagToSet
    <3>2. IsFiniteSet(part)
      BY <2>2, FS_Subset DEF IsTicks
    <3> QED
      BY <2>2, <2>4, <3>1, <3>2 DEF IsTicks
  <2> QED
    BY <2>1, <2>2, <2>5, AddedTicks
<1> QED
  BY <1>1, <1>2

EpochFields == {"phase", "horizon", "start", "overlap", "old", "at", "seen", "forward",
                "complete", "tail", "tailSeen", "reconcile", "reconciled", "ok",
                "partial", "upstream", "exhausted"}

SourceFields == {"initial", "committed", "observed", "recover", "overlap", "snapshot",
                 "rewrites", "status"}

EpochTypes(e) ==
    /\ DOMAIN e = EpochFields
    /\ IsTicks(e.seen) /\ IsTicks(e.forward)
    /\ IsTicks(e.old) /\ IsTicks(e.tailSeen) /\ IsTicks(e.reconcile)
    /\ e.horizon \in Nat /\ e.at \in Nat /\ e.tail \in Nat /\ e.overlap \in Nat
    /\ {e.complete, e.ok, e.partial, e.upstream} \subseteq BOOLEAN

\* One tick, in an epoch.  What was consumed at its cursor is in the archive and
\* was or will be published; what is owed before the cursor was read forward, and
\* what is owed at it can still be read.
EpochTick(e, k) ==
    /\ k.time # e.at => Copies(e.seen, k) = 0
    /\ Copies(e.seen, k) <= Copies(archive, k)
    /\ Copies(e.seen, k) <= Copies(published, k) + Copies(e.forward, k)
    /\ k.time < e.at => Copies(owed, k) <= Copies(e.forward, k)
    /\ k.time = e.at => Copies(owed, k) + Copies(e.seen, k)
                          <= Copies(archive, k) + Copies(e.forward, k)

EpochInv(e) ==
    /\ source.initial <= e.at /\ e.at <= e.horizon /\ e.horizon <= now
    /\ source.observed.at <= e.horizon
    /\ e.upstream => e.partial \/ ~ e.ok
    /\ e.seen = NoTicks => /\ e.at = source.initial
                           /\ source.observed.at # None => ~ e.complete
    /\ \A k \in Tick : EpochTick(e, k)

CursorType(c) ==
    /\ c.at \in Nat \cup {None} /\ IsTicks(c.seen)
    /\ c.at <= now
    /\ c.at = None => c.seen = NoTicks
    /\ c.at # None => c.seen # NoTicks /\ source.initial <= c.at

\* One tick, at a cursor from which the next epoch may begin.
CursorTick(c, k) ==
    /\ k.time # c.at => Copies(c.seen, k) = 0
    /\ Copies(c.seen, k) <= Copies(archive, k)
    /\ Copies(c.seen, k) <= Copies(published, k)
    /\ k.time < c.at => Copies(owed, k) = 0
    /\ k.time = c.at => Copies(owed, k) + Copies(c.seen, k) <= Copies(archive, k)

CursorInv(c) == \A k \in Tick : CursorTick(c, k)

SourceTypes ==
    /\ DOMAIN source = SourceFields
    /\ source.initial \in Nat /\ now \in Nat /\ source.initial <= now
    /\ source.overlap \in Nat /\ IsTicks(source.snapshot)
    /\ source.recover \in BOOLEAN
    /\ CursorType(source.committed) /\ CursorType(source.observed)
    /\ IsTicks(archive) /\ IsTicks(published) /\ IsTicks(owed)

\* One tick, in the world: nothing is owed from before the reading began.
WorldTick(k) ==
    /\ Copies(published, k) <= Copies(archive, k)
    /\ Copies(owed, k) <= Copies(archive, k)
    /\ k.time < source.initial => Copies(owed, k) = 0

PollerInv ==
    /\ SourceTypes
    /\ EpochTypes(epoch)
    /\ \A k \in Tick : WorldTick(k)
    /\ CursorInv(source.committed)
    /\ source.observed.at # None /\ ~ source.recover => CursorInv(source.observed)
    /\ source.observed.at # None =>
         \E k \in Tick : k.time = source.observed.at /\ Copies(archive, k) # 0
    /\ epoch.phase # "idle" => EpochInv(epoch)

\* The invariant says what the run checks.
LEMMA PollerInvTells ==
    ASSUME PollerInv
    PROVE  CursorPassesNothing
<1>1. /\ IsTicks(owed) /\ IsTicks(published) /\ IsTicks(source.committed.seen)
      /\ source.committed.at \in Nat \cup {None}
  BY DEF PollerInv, SourceTypes, CursorType
<1>2. \A k \in Tick : CursorTick(source.committed, k)
  BY DEF PollerInv, CursorInv
<1>3. source.committed.seen \sqsubseteq published
  BY <1>1, <1>2, WithinTells DEF CursorTick
<1>4. /\ IsTicks(Between(owed, 0, source.committed.at - 1))
      /\ \A k : Copies(Between(owed, 0, source.committed.at - 1), k)
            = IF k.time \in 0 .. source.committed.at - 1 THEN Copies(owed, k) ELSE 0
  BY <1>1, SomeTicks
<1>5. ASSUME NEW k \in Tick
      PROVE  Copies(Between(owed, 0, source.committed.at - 1), k) = 0
  <2>1. CASE k.time \in 0 .. source.committed.at - 1
    <3>1. k.time < source.committed.at
      BY <1>1, <2>1, TickTimes DEF None
    <3> QED
      BY <1>2, <1>4, <2>1, <3>1 DEF CursorTick
  <2>2. CASE k.time \notin 0 .. source.committed.at - 1
    BY <1>4, <2>2
  <2> QED
    BY <2>1, <2>2
<1>6. Between(owed, 0, source.committed.at - 1) = NoTicks
  BY <1>4, <1>5, NoCopies
<1> QED
  BY <1>3, <1>6 DEF CursorPassesNothing

\* No epoch is well-typed.
LEMMA NoEpochTypes ==
    EpochTypes(NoEpoch) /\ NoEpoch.phase = "idle"
BY EmptyTicks, PollerAssumption DEF NoEpoch, EpochTypes, EpochFields

\* A source without a cursor owes nothing and has seen nothing.
LEMMA NoCursorHolds ==
    ASSUME IsTicks(archive), IsTicks(published), IsTicks(owed)
    PROVE  CursorInv(NoCursor)
<1>2. ASSUME NEW k \in Tick
      PROVE  CursorTick(NoCursor, k)
  <2>1. /\ Copies(archive, k) \in Nat /\ Copies(published, k) \in Nat
        /\ Copies(NoTicks, k) = 0 /\ k.time \in Nat
    BY CopiesType, EmptyTicks, TickTimes
  <2> QED
    BY <2>1 DEF CursorTick, NoCursor, None
<1> QED
  BY <1>2 DEF CursorInv

\* The invariant holds before the first poll.
LEMMA PollerInit ==
    MarketInit => PollerInv
<1> SUFFICES ASSUME MarketInit
             PROVE  PollerInv
  OBVIOUS
<1>1. HistoryInv
  BY HistoryInit
<1>2. IsTicks(archive) /\ IsTicks(NoTicks) /\ \A k : Copies(NoTicks, k) = 0
  BY <1>1, EmptyTicks DEF HistoryInv, HistoryTypes
<1>3. /\ now = 1 /\ source = NewSource(1) /\ epoch = NoEpoch
      /\ published = NoTicks /\ owed = NoTicks
  BY DEF MarketInit, InitPoller
<1>4. /\ DOMAIN source = SourceFields
      /\ source.initial = 1 /\ source.committed = NoCursor /\ source.observed = NoCursor
      /\ source.overlap \in Nat /\ source.snapshot = NoTicks /\ source.recover = FALSE
  BY <1>3, PollerAssumption DEF NewSource, SourceFields
<1>5. CursorType(NoCursor)
  BY <1>2, <1>3 DEF CursorType, NoCursor, None
<1>6. SourceTypes
  <2>1. CursorType(source.committed) /\ CursorType(source.observed)
    BY <1>4, <1>5
  <2>2. source.initial \in Nat /\ now \in Nat /\ source.initial <= now
    BY <1>3, <1>4
  <2>3. IsTicks(published) /\ IsTicks(owed) /\ IsTicks(source.snapshot)
    BY <1>2, <1>3, <1>4
  <2> QED
    BY <1>2, <1>4, <2>1, <2>2, <2>3 DEF SourceTypes
<1>7. CursorInv(NoCursor)
  <2>1. IsTicks(archive) /\ IsTicks(published) /\ IsTicks(owed)
    BY <1>2, <1>3
  <2> QED
    BY <2>1, NoCursorHolds
<1>8. ASSUME NEW k \in Tick
      PROVE  WorldTick(k)
  <2>1. Copies(archive, k) \in Nat
    BY <1>2, CopiesType
  <2> QED
    BY <1>2, <1>3, <2>1 DEF WorldTick
<1>9. NoCursor.at = None
  BY DEF NoCursor
<1> QED
  BY <1>3, <1>4, <1>6, <1>7, <1>8, <1>9, NoEpochTypes DEF PollerInv


-----------------------------------------------------------------------------
(* The world goes on. *)

\* What the counts of a tick are.
LEMMA PollerCounts ==
    ASSUME PollerInv, NEW k \in Tick
    PROVE  /\ Copies(archive, k) \in Nat /\ Copies(published, k) \in Nat
           /\ Copies(owed, k) \in Nat /\ Copies(source.committed.seen, k) \in Nat
           /\ Copies(source.observed.seen, k) \in Nat
           /\ Copies(epoch.seen, k) \in Nat /\ Copies(epoch.forward, k) \in Nat
           /\ k.time \in Nat /\ epoch.at \in Nat /\ source.initial \in Nat
           /\ source.committed.at \in Int /\ source.observed.at \in Int
<1>1. /\ IsTicks(archive) /\ IsTicks(published) /\ IsTicks(owed)
      /\ IsTicks(source.committed.seen) /\ IsTicks(source.observed.seen)
      /\ IsTicks(epoch.seen) /\ IsTicks(epoch.forward)
      /\ epoch.at \in Nat /\ source.initial \in Nat
      /\ source.committed.at \in Nat \cup {None} /\ source.observed.at \in Nat \cup {None}
  BY DEF PollerInv, SourceTypes, CursorType, EpochTypes
<1> QED
  BY <1>1, CopiesType, TickTimes DEF None

\* The reading is at no cursor that is past its position.
LEMMA PositionIsLast ==
    ASSUME PollerInv
    PROVE  /\ Position \in Int
           /\ source.initial <= Position /\ source.committed.at <= Position
           /\ source.observed.at <= Position
           /\ epoch.phase # "idle" => epoch.at <= Position
<1> DEFINE S == {source.initial, source.committed.at, source.observed.at}
                \cup IF epoch.phase = "idle" THEN {} ELSE {epoch.at}
<1>1. /\ source.initial \in Int /\ source.committed.at \in Int
      /\ source.observed.at \in Int /\ epoch.at \in Int
  BY DEF PollerInv, SourceTypes, CursorType, EpochTypes, None
<1>2. \E x \in {source.initial, source.committed.at, source.observed.at} :
         \A y \in {source.initial, source.committed.at, source.observed.at} : x >= y
  BY <1>1
<1>3. \E x \in S : \A y \in S : x >= y
  BY <1>1, <1>2
<1>4. Max(S) \in S /\ \A y \in S : Max(S) >= y
  BY <1>3 DEF Max
<1> HIDE DEF S
<1>5. Position = Max(S)
  BY DEF S, Position
<1> QED
  BY <1>1, <1>4, <1>5 DEF S

\* The clock and the archive go on: what is new is owed only ahead of the reading.
LEMMA WorldGrows ==
    ASSUME PollerInv, UNCHANGED <<source, epoch, published>>,
           now' \in Nat, now <= now', IsTicks(archive'), IsTicks(owed'),
           \A k \in Tick :
             /\ Copies(archive, k) <= Copies(archive, k)'
             /\ Copies(owed, k)' + Copies(archive, k) <= Copies(owed, k) + Copies(archive, k)'
             /\ k.time < Position => Copies(owed, k)' = Copies(owed, k)
    PROVE  PollerInv'
<1>1. /\ source.initial \in Nat /\ now \in Nat /\ source.initial <= now
      /\ CursorType(source.committed) /\ CursorType(source.observed)
  BY DEF PollerInv, SourceTypes
<1>2. CursorType(source.committed)' /\ CursorType(source.observed)'
  BY <1>1 DEF CursorType, None
<1>3. SourceTypes'
  BY <1>1, <1>2 DEF PollerInv, SourceTypes
<1>4. EpochTypes(epoch)'
  BY DEF PollerInv, EpochTypes
<1>5. ASSUME NEW k \in Tick
      PROVE  /\ WorldTick(k)'
             /\ CursorTick(source.committed, k) => CursorTick(source.committed, k)'
             /\ CursorTick(source.observed, k) => CursorTick(source.observed, k)'
             /\ epoch.phase # "idle" /\ EpochTick(epoch, k) => EpochTick(epoch, k)'
             /\ Copies(archive, k) # 0 => Copies(archive, k)' # 0
  <2>1. Copies(archive, k)' \in Nat /\ Copies(owed, k)' \in Nat
    BY CopiesType
  <2> DEFINE a == Copies(archive, k)
             z == Copies(archive, k)'
             o == Copies(owed, k)
             w == Copies(owed, k)'
             u == Copies(published, k)
  <2>2. a \in Nat /\ z \in Nat /\ o \in Nat /\ w \in Nat /\ u \in Nat /\ Copies(published, k)' = u
    BY <2>1, PollerCounts
  <2>3. a <= z /\ w + a <= o + z /\ (k.time < Position => w = o)
    OBVIOUS
  <2>4. /\ source.initial \in Int /\ source.committed.at \in Int /\ source.observed.at \in Int
        /\ epoch.at \in Int /\ k.time \in Int
        /\ Copies(source.committed.seen, k) \in Nat /\ Copies(source.observed.seen, k) \in Nat
        /\ Copies(epoch.seen, k) \in Nat /\ Copies(epoch.forward, k) \in Nat
    BY PollerCounts
  <2>5. WorldTick(k)
    BY DEF PollerInv
  <2> HIDE DEF a, z, o, w, u
  <2>6. ASSUME NEW at \in Int, at <= Position, NEW s \in Nat, NEW f \in Nat
        PROVE  /\ s <= a => s <= z
               /\ k.time < at => w = o
               /\ o + s <= a + f => w + s <= z + f
    BY <2>2, <2>3, <2>4, <2>6, PositionIsLast
  <2>7. WorldTick(k)'
    <3>1. u <= a /\ o <= a /\ (k.time < source.initial => o = 0)
      BY <2>5 DEF WorldTick, a, o, u
    <3>2. u <= z /\ w <= z /\ (k.time < source.initial => w = 0)
      BY <2>2, <2>3, <2>4, <3>1, PositionIsLast
    <3> QED
      BY <2>2, <3>2 DEF WorldTick, z, w
  <2>8. ASSUME NEW c, c.at \in Int, c.at <= Position, Copies(c.seen, k) \in Nat,
               CursorTick(c, k)
        PROVE  /\ k.time # c.at => Copies(c.seen, k) = 0
               /\ Copies(c.seen, k) <= z /\ Copies(c.seen, k) <= u
               /\ k.time < c.at => w = 0
               /\ k.time = c.at => w + Copies(c.seen, k) <= z
    <3>1. /\ k.time # c.at => Copies(c.seen, k) = 0
          /\ Copies(c.seen, k) <= a /\ Copies(c.seen, k) <= u
          /\ k.time < c.at => o = 0
          /\ k.time = c.at => o + Copies(c.seen, k) <= a
      BY <2>8 DEF CursorTick, a, o, u
    <3> QED
      BY <2>2, <2>3, <2>8, <3>1, <2>4, PositionIsLast
  <2>9. CursorTick(source.committed, k) => CursorTick(source.committed, k)'
    <3> SUFFICES ASSUME CursorTick(source.committed, k)
                 PROVE  CursorTick(source.committed, k)'
      OBVIOUS
    <3> DEFINE c == source.committed
    <3>1. c.at \in Int /\ c.at <= Position /\ Copies(c.seen, k) \in Nat /\ CursorTick(c, k)
      BY <2>4, PositionIsLast
    <3>2. c' = c
      OBVIOUS
    <3> HIDE DEF c
    <3>3. /\ k.time # c.at => Copies(c.seen, k) = 0
          /\ Copies(c.seen, k) <= z /\ Copies(c.seen, k) <= u
          /\ k.time < c.at => w = 0
          /\ k.time = c.at => w + Copies(c.seen, k) <= z
      BY <2>8, <3>1
    <3>4. CursorTick(c, k)'
      BY <2>2, <3>2, <3>3 DEF CursorTick, z, w
    <3> QED
      BY <3>4 DEF c
  <2>10. CursorTick(source.observed, k) => CursorTick(source.observed, k)'
    <3> SUFFICES ASSUME CursorTick(source.observed, k)
                 PROVE  CursorTick(source.observed, k)'
      OBVIOUS
    <3> DEFINE c == source.observed
    <3>1. c.at \in Int /\ c.at <= Position /\ Copies(c.seen, k) \in Nat /\ CursorTick(c, k)
      BY <2>4, PositionIsLast
    <3>2. c' = c
      OBVIOUS
    <3> HIDE DEF c
    <3>3. /\ k.time # c.at => Copies(c.seen, k) = 0
          /\ Copies(c.seen, k) <= z /\ Copies(c.seen, k) <= u
          /\ k.time < c.at => w = 0
          /\ k.time = c.at => w + Copies(c.seen, k) <= z
      BY <2>8, <3>1
    <3>4. CursorTick(c, k)'
      BY <2>2, <3>2, <3>3 DEF CursorTick, z, w
    <3> QED
      BY <3>4 DEF c
  <2>11. epoch.phase # "idle" /\ EpochTick(epoch, k) => EpochTick(epoch, k)'
    <3> SUFFICES ASSUME epoch.phase # "idle", EpochTick(epoch, k)
                 PROVE  EpochTick(epoch, k)'
      OBVIOUS
    <3>1. epoch.at <= Position
      BY PositionIsLast
    <3>2. /\ k.time # epoch.at => Copies(epoch.seen, k) = 0
          /\ Copies(epoch.seen, k) <= a
          /\ Copies(epoch.seen, k) <= u + Copies(epoch.forward, k)
          /\ k.time < epoch.at => o <= Copies(epoch.forward, k)
          /\ k.time = epoch.at => o + Copies(epoch.seen, k) <= a + Copies(epoch.forward, k)
      BY DEF EpochTick, a, o, u
    <3>3. /\ Copies(epoch.seen, k) <= z
          /\ k.time < epoch.at => w <= Copies(epoch.forward, k)
          /\ k.time = epoch.at => w + Copies(epoch.seen, k) <= z + Copies(epoch.forward, k)
      BY <2>2, <2>3, <2>4, <2>6, <3>1, <3>2
    <3>4. /\ Copies(epoch.seen, k)' = Copies(epoch.seen, k)
          /\ Copies(epoch.forward, k)' = Copies(epoch.forward, k) /\ epoch.at' = epoch.at
      OBVIOUS
    <3> QED
      BY <2>2, <3>2, <3>3, <3>4 DEF EpochTick, z, w
  <2>12. a # 0 => z # 0
    BY <2>2, <2>3
  <2> QED
    BY <2>7, <2>9, <2>10, <2>11, <2>12 DEF a, z
<1>6. CursorInv(source.committed)'
  <2>1. \A k \in Tick : CursorTick(source.committed, k)'
    BY <1>5 DEF PollerInv, CursorInv
  <2> QED
    BY <2>1 DEF CursorInv
<1>7. (source.observed.at # None /\ ~ source.recover => CursorInv(source.observed))'
  <2> SUFFICES ASSUME source.observed.at # None, ~ source.recover
               PROVE  CursorInv(source.observed)'
    OBVIOUS
  <2>1. \A k \in Tick : CursorTick(source.observed, k)'
    BY <1>5 DEF PollerInv, CursorInv
  <2> QED
    BY <2>1 DEF CursorInv
<1>8. (source.observed.at # None =>
         \E k \in Tick : k.time = source.observed.at /\ Copies(archive, k) # 0)'
  <2> SUFFICES ASSUME source.observed.at # None
               PROVE  \E k \in Tick : k.time = source.observed.at /\ Copies(archive, k)' # 0
    OBVIOUS
  <2>1. PICK k \in Tick : k.time = source.observed.at /\ Copies(archive, k) # 0
    BY DEF PollerInv
  <2> QED
    BY <1>5, <2>1
<1>9. (epoch.phase # "idle" => EpochInv(epoch))'
  <2> SUFFICES ASSUME epoch.phase # "idle"
               PROVE  EpochInv(epoch)'
    OBVIOUS
  <2>1. EpochInv(epoch) /\ epoch.horizon \in Nat
    BY DEF PollerInv, EpochTypes
  <2>2. \A k \in Tick : EpochTick(epoch, k)'
    BY <1>5, <2>1 DEF EpochInv
  <2>3. epoch.horizon <= now'
    BY <1>1, <2>1 DEF EpochInv
  <2> QED
    BY <2>1, <2>2, <2>3 DEF EpochInv
<1>10. \A k \in Tick : WorldTick(k)'
  BY <1>5
<1> QED
  BY <1>3, <1>4, <1>6, <1>7, <1>8, <1>9, <1>10 DEF PollerInv

\* The clock.
LEMMA PollerClock ==
    ASSUME PollerInv, ClockTicks
    PROVE  PollerInv'
<1>1. /\ now \in Nat /\ IsTicks(archive) /\ IsTicks(owed)
  BY DEF PollerInv, SourceTypes
<1>2. /\ now' = now + 1 /\ UNCHANGED <<source, epoch, published>>
      /\ archive' = archive /\ owed' = owed
  BY DEF ClockTicks
<1>3. ASSUME NEW k \in Tick
      PROVE  /\ Copies(archive, k) <= Copies(archive, k)'
             /\ Copies(owed, k)' + Copies(archive, k) <= Copies(owed, k) + Copies(archive, k)'
             /\ k.time < Position => Copies(owed, k)' = Copies(owed, k)
  BY <1>2, PollerCounts
<1>4. now' \in Nat /\ now <= now' /\ IsTicks(archive') /\ IsTicks(owed')
  BY <1>1, <1>2
<1> QED
  BY <1>2, <1>3, <1>4, WorldGrows

\* A tick becomes visible, ahead of the reading or behind it.
LEMMA PollerSees ==
    ASSUME PollerInv, NEW k \in Tick, Shown(k), UNCHANGED <<now, source, epoch, published>>,
           \/ owed' = owed
           \/ k.time >= Position /\ owed' = owed (+) SetToBag({k})
    PROVE  PollerInv'
<1>1. /\ now \in Nat /\ IsTicks(archive) /\ IsTicks(owed)
  BY DEF PollerInv, SourceTypes
<1>2. /\ IsTicks(archive')
      /\ \A x : Copies(archive', x) = Copies(archive, x) + IF x = k THEN 1 ELSE 0
  BY <1>1, ShownTicks
<1>3. IsTicks(SetToBag({k})) /\ \A x : Copies(SetToBag({k}), x) = IF x \in {k} THEN 1 ELSE 0
  BY FS_Singleton, SetTicks
<1>4. /\ IsTicks(owed (+) SetToBag({k}))
      /\ \A x : Copies(owed (+) SetToBag({k}), x) = Copies(owed, x) + Copies(SetToBag({k}), x)
  BY <1>1, <1>3, AddedTicks
<1>5. ASSUME NEW x \in Tick
      PROVE  /\ Copies(archive, x) <= Copies(archive, x)'
             /\ Copies(owed, x)' + Copies(archive, x) <= Copies(owed, x) + Copies(archive, x)'
             /\ x.time < Position => Copies(owed, x)' = Copies(owed, x)
  <2>1. /\ Copies(archive, x) \in Nat /\ Copies(owed, x) \in Nat /\ x.time \in Nat /\ Position \in Int
    BY PollerCounts, PositionIsLast
  <2>2. Copies(archive, x)' = Copies(archive, x) + IF x = k THEN 1 ELSE 0
    BY <1>2
  <2>3. CASE owed' = owed
    <3>1. Copies(owed, x)' = Copies(owed, x)
      BY <2>3
    <3> QED
      BY <2>1, <2>2, <3>1
  <2>4. CASE k.time >= Position /\ owed' = owed (+) SetToBag({k})
    <3>1. Copies(owed, x)' = Copies(owed, x) + IF x = k THEN 1 ELSE 0
      BY <1>3, <1>4, <2>4
    <3>2. x.time < Position => x # k
      BY <2>1, <2>4
    <3> QED
      BY <2>1, <2>2, <3>1, <3>2
  <2> QED
    BY <2>3, <2>4
<1>6. IsTicks(owed')
  BY <1>1, <1>4
<1>7. now' \in Nat /\ now <= now'
  BY <1>1
<1> QED
  BY <1>2, <1>5, <1>6, <1>7, WorldGrows

\* A tick that arrives is owed from the position of the source on.
LEMMA PollerArrives ==
    ASSUME PollerInv, NEW k \in Tick, TickArrives(k)
    PROVE  PollerInv'
<1>1. /\ Shown(k) /\ UNCHANGED <<now, source, epoch, published>>
      /\ owed' = IF k.time >= Position THEN owed (+) SetToBag({k}) ELSE owed
  BY DEF TickArrives
<1>2. \/ owed' = owed
      \/ k.time >= Position /\ owed' = owed (+) SetToBag({k})
  BY <1>1
<1> QED
  BY <1>1, <1>2, PollerSees

\* A step of an epoch that only reads.
LEMMA PollerReads ==
    ASSUME PollerInv, UNCHANGED <<archive, now, source, published, owed>>,
           EpochTypes(epoch'), epoch'.phase # "idle" => EpochInv(epoch')
    PROVE  PollerInv'
<1>1. SourceTypes' /\ EpochTypes(epoch)'
  BY DEF PollerInv, SourceTypes, CursorType, EpochTypes
<1>2. \A k \in Tick : WorldTick(k)'
  BY DEF PollerInv, WorldTick
<1>3. /\ CursorInv(source.committed)'
      /\ (source.observed.at # None /\ ~ source.recover => CursorInv(source.observed))'
  BY DEF PollerInv, CursorInv, CursorTick
<1>4. (source.observed.at # None =>
         \E k \in Tick : k.time = source.observed.at /\ Copies(archive, k) # 0)'
  BY DEF PollerInv
<1>5. (epoch.phase # "idle" => EpochInv(epoch))'
  BY DEF EpochInv, EpochTick
<1> QED
  BY <1>1, <1>2, <1>3, <1>4, <1>5 DEF PollerInv

\* An epoch begins at the cursor of the source.
LEMMA PollerBegins ==
    ASSUME PollerInv, EpochBegins
    PROVE  PollerInv'
<1> DEFINE c == Cursor
           e == epoch'
<1>1. CursorInv(c) /\ CursorType(c)
  BY DEF PollerInv, SourceTypes, Cursor
<1>2. /\ source.initial \in Nat /\ now \in Nat /\ source.initial <= now /\ source.overlap \in Nat
      /\ IsTicks(source.snapshot) /\ source.observed.at <= now
  BY DEF PollerInv, SourceTypes, CursorType
<1>3. /\ DOMAIN e = EpochFields
      /\ e.horizon = now /\ e.at = (IF c.at = None THEN source.initial ELSE c.at)
      /\ e.seen = c.seen /\ e.overlap = source.overlap /\ e.old = source.snapshot
      /\ e.tail = 0 /\ e.tailSeen = NoTicks /\ e.reconcile = NoTicks /\ e.forward = NoTicks
      /\ e.complete = FALSE /\ e.ok = TRUE /\ e.partial = FALSE /\ e.upstream = FALSE
  BY DEF EpochBegins, NoEpoch, EpochFields
<1>4. UNCHANGED <<archive, now, source, published, owed>>
  BY DEF EpochBegins
<1> HIDE DEF c, e
<1>5. c.at \in Nat \cup {None} /\ IsTicks(c.seen)
  BY <1>1 DEF CursorType
<1>6. e.at \in Nat
  BY <1>2, <1>3, <1>5
<1>7. EpochTypes(e)
  <2>1. {e.complete, e.ok, e.partial, e.upstream} \subseteq BOOLEAN
    BY <1>3
  <2>2. IsTicks(e.seen) /\ IsTicks(e.forward) /\ IsTicks(e.old) /\ IsTicks(e.tailSeen)
        /\ IsTicks(e.reconcile)
    BY <1>2, <1>3, <1>5, EmptyTicks
  <2>3. e.horizon \in Nat /\ e.tail \in Nat /\ e.overlap \in Nat
    BY <1>2, <1>3
  <2> QED
    BY <1>3, <1>6, <2>1, <2>2, <2>3 DEF EpochTypes
<1>8. /\ source.initial <= e.at /\ e.at <= e.horizon
      /\ e.seen = NoTicks => e.at = source.initial
  BY <1>1, <1>2, <1>3, <1>5 DEF CursorType, None
<1>9. ASSUME NEW k \in Tick
      PROVE  EpochTick(e, k)
  <2>1. /\ Copies(archive, k) \in Nat /\ Copies(published, k) \in Nat
        /\ Copies(owed, k) \in Nat /\ Copies(c.seen, k) \in Nat
        /\ Copies(NoTicks, k) = 0 /\ k.time \in Nat
    BY <1>5, PollerCounts, CopiesType, EmptyTicks
  <2>2. WorldTick(k) /\ CursorTick(c, k)
    BY <1>1 DEF PollerInv, CursorInv
  <2>3. CASE c.at = None
    <3>1. c.seen = NoTicks /\ e.at = source.initial
      BY <1>1, <1>3, <2>3 DEF CursorType
    <3> QED
      BY <1>2, <1>3, <2>1, <2>2, <3>1 DEF EpochTick, WorldTick
  <2>4. CASE c.at # None
    <3>1. e.at = c.at
      BY <1>3, <2>4
    <3> QED
      BY <1>3, <1>6, <2>1, <2>2, <3>1 DEF EpochTick, CursorTick
  <2> QED
    BY <2>3, <2>4
<1>10. EpochInv(e)
  BY <1>2, <1>3, <1>8, <1>9 DEF EpochInv
<1> QED
  BY <1>4, <1>7, <1>10, PollerReads DEF e

-----------------------------------------------------------------------------
(* The forward pass. *)

\* A record of the same forward reading.
LEMMA EpochCarries ==
    ASSUME NEW e, NEW d, EpochInv(e), d.horizon = e.horizon, d.at = e.at, d.seen = e.seen,
           d.forward = e.forward,
           d.complete = e.complete \/ d.seen # NoTicks \/ source.observed.at = None,
           d.upstream => d.partial \/ ~ d.ok
    PROVE  EpochInv(d)
BY DEF EpochInv, EpochTick

\* The tick that an observed cursor stands on is still there.
LEMMA ObservedIsThere ==
    ASSUME PollerInv, NEW e, EpochInv(e), e.seen = NoTicks,
           \A k \in Tick : e.at <= k.time /\ k.time <= e.horizon => Copies(archive, k) = 0
    PROVE  source.observed.at = None
<1> SUFFICES ASSUME source.observed.at # None
             PROVE  FALSE
  OBVIOUS
<1>1. PICK k \in Tick : k.time = source.observed.at /\ Copies(archive, k) # 0
  BY DEF PollerInv
<1>2. e.at = source.initial /\ source.observed.at <= e.horizon
  BY DEF EpochInv
<1>3. source.initial <= source.observed.at
  BY DEF PollerInv, SourceTypes, CursorType
<1> QED
  BY <1>1, <1>2, <1>3

\* What the forward pass meets of one tick: a is what the archive has, u was
\* published, o is owed, f is in the epoch, s is known at the cursor, p is on the
\* page and n is taken of it.
Meets(a, u, o, f, s, p, n, t, at, last, hi) ==
    /\ at <= last /\ last <= hi /\ p <= a /\ o <= a
    /\ t # at => s = 0
    /\ s <= a /\ s <= u + f
    /\ t < at => o <= f
    /\ t = at => o + s <= a + f
    /\ at <= t /\ t < last => p = a
    /\ n = Rest(IF t \in at .. hi THEN p ELSE 0, s)

\* z of it is known at the next cursor.
Leaves(a, u, o, f, z, t, last) ==
    /\ t # last => z = 0
    /\ z <= a /\ z <= u + f
    /\ t < last => o <= f
    /\ t = last => o + z <= a + f

\* A forward page, for one tick: a what the archive has of it, u what was
\* published, o what is owed, f what the epoch collected, s what the cursor has
\* seen, p what the page shows, n what of that is new; t is the time of the
\* tick, at and last the cursor before and after the page.
LEMMA ForwardTick ==
    ASSUME NEW a \in Nat, NEW u \in Nat, NEW o \in Nat, NEW f \in Nat, NEW s \in Nat,
           NEW p \in Nat, NEW n \in Nat, NEW t \in Nat, NEW at \in Nat, NEW last \in Nat,
           NEW hi \in Nat, Meets(a, u, o, f, s, p, n, t, at, last, hi)
    PROVE  Leaves(a, u, o, f + n,
                  (IF last = at THEN s ELSE 0) + (IF t = last THEN n ELSE 0), t, last)
<1> USE DEF Meets, Leaves
<1> DEFINE z == (IF last = at THEN s ELSE 0) + (IF t = last THEN n ELSE 0)
<1>1. CASE t < at
  <2>1. n = 0 /\ z = 0 /\ t < last
    BY <1>1 DEF Rest
  <2> HIDE DEF z
  <2> QED
    BY <1>1, <2>1
<1>2. CASE at <= t /\ t <= hi
  <2>1. n = Rest(p, s)
    BY <1>2
  <2>2. CASE last = at
    <3>1. z = s + (IF t = last THEN n ELSE 0)
      BY <2>2
    <3> HIDE DEF z
    <3> QED
      BY <1>2, <2>1, <2>2, <3>1 DEF Rest
  <2>3. CASE last # at
    <3>1. z = IF t = last THEN n ELSE 0
      BY <2>3
    <3> HIDE DEF z
    <3> QED
      BY <1>2, <2>1, <2>3, <3>1 DEF Rest
  <2> QED
    BY <2>2, <2>3
<1>3. CASE hi < t
  <2>1. n = 0 /\ s = 0 /\ z = 0 /\ t # last /\ ~ (t < last)
    BY <1>3 DEF Rest
  <2> HIDE DEF z
  <2> QED
    BY <1>3, <2>1
<1> QED
  BY <1>1, <1>2, <1>3

\* Only the forward ticks of a record grow.
LEMMA ForwardMore ==
    ASSUME PollerInv, NEW e, NEW d, EpochTypes(e), EpochInv(e), NEW b, IsTicks(b),
           d.horizon = e.horizon, d.at = e.at, d.seen = e.seen,
           d.forward = e.forward (+) b,
           d.complete = e.complete \/ d.seen # NoTicks \/ source.observed.at = None,
           d.upstream => d.partial \/ ~ d.ok
    PROVE  EpochInv(d)
<1>1. IsTicks(e.forward) /\ IsTicks(e.seen)
  BY DEF EpochTypes
<1>2. \A k : Copies(e.forward (+) b, k) = Copies(e.forward, k) + Copies(b, k)
  BY <1>1, AddedTicks
<1>3. ASSUME NEW k \in Tick
      PROVE  EpochTick(d, k)
  <2>1. /\ Copies(e.forward, k) \in Nat /\ Copies(b, k) \in Nat /\ Copies(e.seen, k) \in Nat
        /\ Copies(archive, k) \in Nat /\ Copies(published, k) \in Nat /\ Copies(owed, k) \in Nat
    BY <1>1, CopiesType, PollerCounts
  <2>2. EpochTick(e, k)
    BY DEF EpochInv
  <2>3. Copies(d.forward, k) = Copies(e.forward, k) + Copies(b, k)
    BY <1>2
  <2> QED
    BY <2>1, <2>2, <2>3 DEF EpochTick
<1> QED
  BY <1>3 DEF EpochInv

\* A page of which the cursor goes to the last row.
LEMMA ForwardOn ==
    ASSUME PollerInv, NEW e, NEW d, EpochTypes(e), EpochInv(e),
           NEW page, IsTicks(page), NEW last \in Nat, e.at <= last, last <= e.horizon,
           \A k \in Tick : /\ Copies(page, k) <= Copies(archive, k)
                           /\ e.at <= k.time /\ k.time < last =>
                                Copies(page, k) = Copies(archive, k),
           NEW new, new = Unseen(page, e.at, e.seen, e.horizon),
           d.horizon = e.horizon, d.at = last, d.seen = BoundaryAfter(e.seen, e.at, last, new),
           d.forward = e.forward (+) new, d.seen # NoTicks,
           d.upstream => d.partial \/ ~ d.ok
    PROVE  EpochInv(d)
<1>1. IsTicks(e.forward) /\ IsTicks(e.seen) /\ e.at \in Nat /\ e.horizon \in Nat
  BY DEF EpochTypes
<1>2. /\ IsTicks(new)
      /\ \A k : Copies(new, k)
           = Rest(IF k.time \in e.at .. e.horizon THEN Copies(page, k) ELSE 0, Copies(e.seen, k))
  BY <1>1, UnseenTicks
<1>3. \A k : Copies(e.forward (+) new, k) = Copies(e.forward, k) + Copies(new, k)
  <2>1. IsTicks(e.forward) /\ IsTicks(new)
    BY <1>1, <1>2
  <2> QED
    BY ONLY <2>1, AddedTicks
<1>4. \A k \in Tick : Copies(d.seen, k)
           = (IF last = e.at THEN Copies(e.seen, k) ELSE 0)
             + (IF k.time = last THEN Copies(new, k) ELSE 0)
  BY <1>1, <1>2, BoundaryTicks
<1>5. ASSUME NEW k \in Tick
      PROVE  EpochTick(d, k)
  <2> DEFINE a == Copies(archive, k)
             u == Copies(published, k)
             o == Copies(owed, k)
             f == Copies(e.forward, k)
             s == Copies(e.seen, k)
             p == Copies(page, k)
             n == Copies(new, k)
             z == Copies(d.seen, k)
  <2>1. a \in Nat /\ u \in Nat /\ o \in Nat /\ f \in Nat /\ s \in Nat /\ p \in Nat /\ n \in Nat
    BY <1>1, <1>2, CopiesType, PollerCounts
  <2>2. k.time \in Nat
    BY TickTimes
  <2>3. EpochTick(e, k) /\ WorldTick(k)
    BY DEF EpochInv, PollerInv
  <2>4. /\ k.time # e.at => s = 0
        /\ s <= a /\ s <= u + f
        /\ k.time < e.at => o <= f
        /\ k.time = e.at => o + s <= a + f
        /\ o <= a
    BY <2>3 DEF EpochTick, WorldTick
  <2>5. p <= a /\ (e.at <= k.time /\ k.time < last => p = a)
    OBVIOUS
  <2>6. n = Rest(IF k.time \in e.at .. e.horizon THEN p ELSE 0, s)
    BY <1>2
  <2>7. z = (IF last = e.at THEN s ELSE 0) + (IF k.time = last THEN n ELSE 0)
    BY <1>4
  <2>8. Copies(d.forward, k) = f + n
    BY <1>3
  <2>9. /\ k.time # last => z = 0
        /\ z <= a /\ z <= u + (f + n)
        /\ k.time < last => o <= f + n
        /\ k.time = last => o + z <= a + (f + n)
    <3> DEFINE t == k.time
               at == e.at
               hi == e.horizon
    <3>1. t \in Nat /\ at \in Nat /\ hi \in Nat /\ last \in Nat /\ at <= last /\ last <= hi
      BY <1>1, <2>2
    <3>2. Meets(a, u, o, f, s, p, n, t, at, last, hi)
      BY <2>4, <2>5, <2>6 DEF Meets
    <3>4. z = (IF last = at THEN s ELSE 0) + (IF t = last THEN n ELSE 0)
      BY <2>7
    <3> HIDE DEF a, u, o, f, s, p, n, z, t, at, hi
    <3>5. Leaves(a, u, o, f + n, z, t, last)
      BY ONLY <2>1, <3>1, <3>2, <3>4, ForwardTick
    <3> QED
      BY <3>5 DEF t, Leaves
  <2> QED
    BY <2>8, <2>9 DEF EpochTick
<1>6. source.initial <= last
  <2>1. source.initial \in Nat /\ source.initial <= e.at
    BY DEF EpochInv, PollerInv, SourceTypes
  <2> QED
    BY <1>1, <2>1
<1> QED
  BY <1>5, <1>6 DEF EpochInv

\* What a page of the forward pass shows.
LEMMA ForwardPage ==
    ASSUME PollerInv, NEW e, EpochTypes(e), EpochInv(e),
           NEW count \in Nat \ {0}, NEW page \in Pages(e.at, count)
    PROVE  LET rows == Between(page, e.at, e.horizon)
               new == Unseen(page, e.at, e.seen, e.horizon)
               last == LastTime(rows)
           IN  /\ IsTicks(page) /\ IsTicks(new) /\ IsTicks(rows)
               /\ \A k \in Tick : Copies(page, k) <= Copies(archive, k)
               /\ rows = NoTicks => new = NoTicks
               /\ rows = NoTicks /\ (page = NoTicks \/ LastTime(page) > e.horizon) =>
                    e.seen # NoTicks \/ source.observed.at = None
               /\ rows # NoTicks =>
                    /\ last \in Nat /\ e.at <= last /\ last <= e.horizon
                    /\ \A k \in Tick : e.at <= k.time /\ k.time < last =>
                                         Copies(page, k) = Copies(archive, k)
                    /\ last = e.at /\ At(new, last) = NoTicks =>
                         new = NoTicks /\ e.seen # NoTicks
                    /\ last # e.at \/ At(new, last) # NoTicks =>
                         BoundaryAfter(e.seen, e.at, last, new) # NoTicks
<1> DEFINE rows == Between(page, e.at, e.horizon)
           new == Unseen(page, e.at, e.seen, e.horizon)
           last == LastTime(rows)
<1>1. /\ IsTicks(e.seen) /\ e.at \in Nat /\ e.horizon \in Nat /\ IsTicks(archive)
  BY DEF EpochTypes, PollerInv, SourceTypes
<1>2. /\ IsTicks(page) /\ Size(page) \in Nat
      /\ \A k : Copies(page, k) <= Copies(archive, k)
      /\ Size(page) < count => \A k \in Tick :
           e.at <= k.time => Copies(page, k) = Copies(archive, k)
      /\ page # NoTicks => \A k \in Tick :
           e.at <= k.time /\ k.time < LastTime(page) => Copies(page, k) = Copies(archive, k)
  BY <1>1, PageTicks
<1>3. /\ IsTicks(new)
      /\ \A k : Copies(new, k)
           = Rest(IF k.time \in e.at .. e.horizon THEN Copies(page, k) ELSE 0, Copies(e.seen, k))
  BY <1>1, <1>2, UnseenTicks
<1>4. /\ IsTicks(rows)
      /\ \A k : Copies(rows, k) = IF k.time \in e.at .. e.horizon THEN Copies(page, k) ELSE 0
  BY <1>2, SomeTicks
<1>5. ASSUME NEW k \in Tick
      PROVE  /\ Copies(new, k) = Rest(Copies(rows, k), Copies(e.seen, k))
             /\ Copies(rows, k) \in Nat /\ Copies(e.seen, k) \in Nat /\ k.time \in Nat
             /\ Copies(page, k) \in Nat /\ Copies(new, k) \in Nat
  BY <1>1, <1>2, <1>3, <1>4, CopiesType, TickTimes
<1> HIDE DEF rows, new
<1>6. rows = NoTicks => new = NoTicks
  <2> SUFFICES ASSUME rows = NoTicks
               PROVE  \A k \in Tick : Copies(new, k) = 0
    BY <1>3, NoCopies
  <2> QED
    BY <1>5, EmptyTicks DEF Rest
<1>7. ASSUME rows = NoTicks, page = NoTicks \/ LastTime(page) > e.horizon
      PROVE  e.seen # NoTicks \/ source.observed.at = None
  <2>1. ASSUME NEW k \in Tick, e.at <= k.time, k.time <= e.horizon
        PROVE  Copies(archive, k) = 0
    <3>1. Copies(page, k) = 0
      <4>1. Copies(rows, k) = 0
        BY <1>7, EmptyTicks
      <4> QED
        BY <1>1, <1>4, <1>5, <2>1, <4>1
    <3>2. CASE page = NoTicks
      <4>1. Size(page) < count
        BY <3>2, SizeOfNone
      <4> QED
        BY <1>2, <2>1, <3>1, <4>1
    <3>3. CASE page # NoTicks
      <4>1. LastTime(page) > e.horizon /\ LastTime(page) \in Nat
        BY <1>2, <1>7, <3>3, LastOf
      <4>2. k.time < LastTime(page)
        BY <1>1, <1>5, <2>1, <4>1
      <4> QED
        BY <1>2, <2>1, <3>1, <3>3, <4>2
    <3> QED
      BY <3>2, <3>3
  <2> QED
    BY <2>1, ObservedIsThere
<1>8. ASSUME rows # NoTicks
      PROVE  /\ last \in Nat /\ e.at <= last /\ last <= e.horizon
             /\ \A k \in Tick : e.at <= k.time /\ k.time < last =>
                                  Copies(page, k) = Copies(archive, k)
             /\ last = e.at /\ At(new, last) = NoTicks =>
                  new = NoTicks /\ e.seen # NoTicks
             /\ last # e.at \/ At(new, last) # NoTicks =>
                  BoundaryAfter(e.seen, e.at, last, new) # NoTicks
  <2>1. /\ last \in Nat /\ \E k \in DOMAIN rows : k.time = last
        /\ \A k : Copies(rows, k) # 0 => k.time <= last
    BY <1>4, <1>8, LastOf
  <2> HIDE DEF last
  <2>2. PICK k \in DOMAIN rows : k.time = last
    BY <2>1
  <2>3. k \in Tick /\ Copies(rows, k) # 0
    BY <1>4, CopiesType
  <2>4. k.time \in e.at .. e.horizon /\ Copies(page, k) = Copies(rows, k)
    BY <1>4, <2>3
  <2>5. e.at <= last /\ last <= e.horizon
    BY <1>1, <2>1, <2>2, <2>4
  <2>6. page # NoTicks
    BY <2>3, <2>4, EmptyTicks
  <2>7. LastTime(page) \in Nat /\ last <= LastTime(page)
    BY <1>2, <2>2, <2>3, <2>4, <2>6, LastOf
  <2>8. ASSUME NEW x \in Tick, e.at <= x.time, x.time < last
        PROVE  Copies(page, x) = Copies(archive, x)
    <3>1. x.time < LastTime(page)
      BY <1>5, <2>1, <2>7, <2>8
    <3> QED
      BY <1>2, <2>6, <2>8, <3>1
  <2>9. IsTicks(At(new, last)) /\ \A x : Copies(At(new, last), x)
            = IF x.time \in last .. last THEN Copies(new, x) ELSE 0
    BY <1>3, SomeTicks DEF At
  <2>10. ASSUME last = e.at, At(new, last) = NoTicks
         PROVE  new = NoTicks /\ e.seen # NoTicks
    <3>1. ASSUME NEW x \in Tick
          PROVE  Copies(new, x) = 0
      <4>1. CASE x.time = last
        <5>1. Copies(At(new, last), x) = Copies(new, x)
          BY <2>1, <2>9, <4>1
        <5> QED
          BY <2>10, <5>1, EmptyTicks
      <4>2. CASE x.time # last
        <5>1. Copies(rows, x) = 0
          BY <1>1, <1>4, <1>5, <2>1, <2>10, <4>2
        <5> QED
          BY <1>5, <5>1 DEF Rest
      <4> QED
        BY <4>1, <4>2
    <3>2. new = NoTicks
      BY <1>3, <3>1, NoCopies
    <3>3. Copies(e.seen, k) # 0
      <4>1. Copies(new, k) = 0 /\ Copies(new, k) = Rest(Copies(rows, k), Copies(e.seen, k))
        BY <1>5, <2>3, <3>1
      <4> QED
        BY <1>5, <2>3, <4>1 DEF Rest
    <3> QED
      BY <3>2, <3>3, EmptyTicks
  <2>11. ASSUME last # e.at \/ At(new, last) # NoTicks
         PROVE  BoundaryAfter(e.seen, e.at, last, new) # NoTicks
    <3>1. \E x \in Tick : x.time = last /\ Copies(new, x) # 0
      <4>1. CASE last # e.at
        <5>1. EpochTick(e, k)
          BY <2>3 DEF EpochInv
        <5>2. Copies(e.seen, k) = 0
          BY <2>2, <4>1, <5>1 DEF EpochTick
        <5>3. Copies(new, k) # 0
          BY <1>5, <2>3, <5>2 DEF Rest
        <5> QED
          BY <2>2, <2>3, <5>3
      <4>2. CASE At(new, last) # NoTicks
        <5>1. PICK x \in Tick : Copies(At(new, last), x) # 0
          BY <2>9, <4>2, NoCopies
        <5>2. x.time = last /\ Copies(new, x) # 0
          BY <1>5, <2>1, <2>9, <5>1
        <5> QED
          BY <5>2
      <4> QED
        BY <2>11, <4>1, <4>2
    <3>2. PICK x \in Tick : x.time = last /\ Copies(new, x) # 0
      BY <3>1
    <3>3. Copies(BoundaryAfter(e.seen, e.at, last, new), x)
            = (IF last = e.at THEN Copies(e.seen, x) ELSE 0)
              + (IF x.time = last THEN Copies(new, x) ELSE 0)
      BY <1>1, <1>3, <2>1, BoundaryTicks
    <3>4. Copies(BoundaryAfter(e.seen, e.at, last, new), x) # 0
      BY <1>5, <3>2, <3>3
    <3> QED
      BY <3>4, EmptyTicks
  <2> QED
    BY <2>1, <2>5, <2>8, <2>10, <2>11
<1> QED
  BY <1>2, <1>3, <1>4, <1>6, <1>7, <1>8 DEF rows, new

\* A record goes to the tail.
LEMMA TailFields ==
    ASSUME NEW e, DOMAIN e = EpochFields
    PROVE  LET d == ToTail(e)
           IN  /\ DOMAIN d = EpochFields /\ d.phase = "tail"
               /\ d.tail = WindowFrom(e, e.horizon)
               /\ d.horizon = e.horizon /\ d.at = e.at /\ d.seen = e.seen
               /\ d.forward = e.forward /\ d.old = e.old /\ d.tailSeen = e.tailSeen
               /\ d.reconcile = e.reconcile /\ d.overlap = e.overlap
               /\ d.complete = e.complete /\ d.ok = e.ok
               /\ d.partial = e.partial /\ d.upstream = e.upstream
BY DEF ToTail, EpochFields

\* An epoch that goes on to its tail keeps the invariant.
LEMMA TailKeeps ==
    ASSUME PollerInv, NEW e, EpochTypes(e), EpochInv(e)
    PROVE  EpochTypes(ToTail(e)) /\ EpochInv(ToTail(e))
<1> DEFINE d == ToTail(e)
<1>1. /\ DOMAIN d = EpochFields /\ d.phase = "tail"
      /\ d.tail = WindowFrom(e, e.horizon)
      /\ d.horizon = e.horizon /\ d.at = e.at /\ d.seen = e.seen
      /\ d.forward = e.forward /\ d.old = e.old /\ d.tailSeen = e.tailSeen
      /\ d.reconcile = e.reconcile /\ d.overlap = e.overlap
      /\ d.complete = e.complete /\ d.ok = e.ok
      /\ d.partial = e.partial /\ d.upstream = e.upstream
  BY TailFields DEF EpochTypes
<1>2. WindowFrom(e, e.horizon) \in Nat
  <2>1. source.initial \in Nat /\ e.horizon \in Nat /\ e.overlap \in Nat
    BY DEF EpochTypes, PollerInv, SourceTypes
  <2> DEFINE m == e.horizon - e.overlap
             n == source.initial
  <2>2. m \in Int /\ n \in Nat
    BY <2>1
  <2>3. WindowFrom(e, e.horizon) = Max({n, m})
    BY DEF WindowFrom
  <2> HIDE DEF m, n
  <2>4. n \in Int /\ m \in Int
    BY <2>2
  <2>5. Max({n, m}) = IF n >= m THEN n ELSE m
    BY ONLY <2>4, OfTwo
  <2> QED
    BY <2>2, <2>3, <2>5
<1> HIDE DEF d
<1>3. EpochTypes(d)
  <2>1. d.tail \in Nat
    BY <1>1, <1>2
  <2> QED
    BY <1>1, <2>1 DEF EpochTypes
<1>4. EpochInv(d)
  <2>1. d.upstream => d.partial \/ ~ d.ok
    BY <1>1 DEF EpochInv
  <2> QED
    BY <1>1, <2>1, EpochCarries
<1> QED
  BY <1>3, <1>4 DEF d

\* The status of an answer with rows: what came of a transient one is partial.
LEMMA MarkedKeeps ==
    ASSUME PollerInv, epoch.phase # "idle", NEW status \in {"clean", "transient"}
    PROVE  LET e == Marked(epoch, status)
           IN  /\ EpochTypes(e) /\ EpochInv(e) /\ e.phase = epoch.phase
               /\ e.at = epoch.at /\ e.seen = epoch.seen /\ e.horizon = epoch.horizon
               /\ e.tail = epoch.tail /\ e.tailSeen = epoch.tailSeen
<1> DEFINE e == Marked(epoch, status)
<1>1. EpochTypes(epoch) /\ EpochInv(epoch)
  BY DEF PollerInv
<1>2. DOMAIN epoch = EpochFields /\ {epoch.partial, epoch.upstream} \subseteq BOOLEAN
  BY <1>1 DEF EpochTypes
<1>3. /\ DOMAIN e = EpochFields /\ e.phase = epoch.phase
      /\ e.horizon = epoch.horizon /\ e.at = epoch.at /\ e.seen = epoch.seen
      /\ e.forward = epoch.forward /\ e.old = epoch.old /\ e.tailSeen = epoch.tailSeen
      /\ e.reconcile = epoch.reconcile /\ e.overlap = epoch.overlap /\ e.tail = epoch.tail
      /\ e.complete = epoch.complete /\ e.ok = epoch.ok
      /\ e.partial = (epoch.partial \/ status = "transient")
      /\ e.upstream = (epoch.upstream \/ status # "clean")
  BY <1>2 DEF Marked, EpochFields
<1> HIDE DEF e
<1>4. EpochTypes(e)
  <2>1. {e.complete, e.ok, e.partial, e.upstream} \subseteq BOOLEAN
    <3>1. e.partial \in BOOLEAN /\ e.upstream \in BOOLEAN
      BY <1>2, <1>3
    <3>2. e.complete \in BOOLEAN /\ e.ok \in BOOLEAN
      BY <1>1, <1>3 DEF EpochTypes
    <3> QED
      BY <3>1, <3>2
  <2> QED
    BY <1>1, <1>3, <2>1 DEF EpochTypes
<1>5. e.upstream => e.partial \/ ~ e.ok
  BY <1>1, <1>3 DEF EpochInv
<1>6. EpochInv(e)
  BY <1>1, <1>3, <1>5, EpochCarries
<1> QED
  BY <1>3, <1>4, <1>6 DEF e

\* One page of the forward pass.
LEMMA ForwardedKeeps ==
    ASSUME PollerInv, NEW e, EpochTypes(e), EpochInv(e), e.phase = "forward",
           NEW count \in Nat \ {0}, NEW page \in Pages(e.at, count)
    PROVE  EpochTypes(Forwarded(e, page, count)) /\ EpochInv(Forwarded(e, page, count))
<1> DEFINE rows == Between(page, e.at, e.horizon)
           new == Unseen(page, e.at, e.seen, e.horizon)
           last == IF rows = NoTicks THEN e.at - 1 ELSE LastTime(rows)
           after == page # NoTicks /\ LastTime(page) > e.horizon
           read == [e EXCEPT !.forward = @ (+) new]
           next == [read EXCEPT !.at = last,
                                !.seen = BoundaryAfter(e.seen, e.at, last, new)]
<1>1. /\ DOMAIN e = EpochFields /\ e.at \in Nat /\ e.horizon \in Nat
      /\ IsTicks(e.seen) /\ IsTicks(e.forward)
      /\ e.upstream => e.partial \/ ~ e.ok
  BY DEF EpochTypes, EpochInv
<1>2. /\ IsTicks(page) /\ IsTicks(new) /\ IsTicks(rows)
      /\ \A k \in Tick : Copies(page, k) <= Copies(archive, k)
      /\ rows = NoTicks => new = NoTicks
      /\ rows = NoTicks /\ (page = NoTicks \/ LastTime(page) > e.horizon) =>
           e.seen # NoTicks \/ source.observed.at = None
      /\ rows # NoTicks =>
           /\ LastTime(rows) \in Nat /\ e.at <= LastTime(rows) /\ LastTime(rows) <= e.horizon
           /\ \A k \in Tick : e.at <= k.time /\ k.time < LastTime(rows) =>
                                Copies(page, k) = Copies(archive, k)
           /\ LastTime(rows) = e.at /\ At(new, LastTime(rows)) = NoTicks =>
                new = NoTicks /\ e.seen # NoTicks
           /\ LastTime(rows) # e.at \/ At(new, LastTime(rows)) # NoTicks =>
                BoundaryAfter(e.seen, e.at, LastTime(rows), new) # NoTicks
  BY ForwardPage
<1>3. IsTicks(e.forward (+) new) /\ (new = NoTicks => e.forward (+) new = e.forward)
  <2>1. /\ IsTicks(e.forward (+) new)
        /\ \A k : Copies(e.forward (+) new, k) = Copies(e.forward, k) + Copies(new, k)
    BY <1>1, <1>2, AddedTicks
  <2>2. ASSUME new = NoTicks
        PROVE  e.forward (+) new = e.forward
    <3>1. \A k \in Tick : Copies(e.forward (+) new, k) = Copies(e.forward, k)
      BY <1>1, <2>1, <2>2, EmptyTicks, CopiesType
    <3> QED
      BY <1>1, <2>1, <3>1, CopiesTell
  <2> QED
    BY <2>1, <2>2
<1>4. rows = NoTicks <=> last < e.at
  <2>1. e.at - 1 < e.at
    BY <1>1
  <2>2. rows # NoTicks => ~ (LastTime(rows) < e.at)
    BY <1>1, <1>2
  <2> HIDE DEF rows
  <2> QED
    BY <2>1, <2>2
<1>5. page = NoTicks => rows = NoTicks
  <2> SUFFICES ASSUME page = NoTicks
               PROVE  \A k \in Tick : Copies(rows, k) = 0
    BY <1>2, NoCopies
  <2>1. \A k : Copies(rows, k) = IF k.time \in e.at .. e.horizon THEN Copies(page, k) ELSE 0
    BY <1>2, SomeTicks
  <2> QED
    BY <2>1, EmptyTicks
<1> HIDE DEF rows, new
\* A record that reads nothing new and may be complete.
<1>6. ASSUME NEW d, d = [e EXCEPT !.complete = d.complete, !.forward = @ (+) new],
             d.complete \in BOOLEAN, new = NoTicks,
             d.complete => e.seen # NoTicks \/ source.observed.at = None
      PROVE  EpochTypes(ToTail(d)) /\ EpochInv(ToTail(d))
  <2>1. /\ DOMAIN d = EpochFields
        /\ d.horizon = e.horizon /\ d.at = e.at /\ d.seen = e.seen
        /\ d.forward = e.forward (+) new /\ d.old = e.old /\ d.tailSeen = e.tailSeen
        /\ d.reconcile = e.reconcile /\ d.overlap = e.overlap /\ d.tail = e.tail
        /\ d.ok = e.ok /\ d.partial = e.partial /\ d.upstream = e.upstream
    BY <1>1, <1>6 DEF EpochFields
  <2>2. d.forward = e.forward
    BY <1>3, <1>6, <2>1
  <2>3. EpochTypes(d)
    <3>1. {d.complete, d.ok, d.partial, d.upstream} \subseteq BOOLEAN
      BY <1>6, <2>1 DEF EpochTypes
    <3> QED
      BY <2>1, <2>2, <3>1 DEF EpochTypes
  <2>4. EpochInv(d)
    <3>1. \A k \in Tick : EpochTick(d, k)
      BY <2>1, <2>2 DEF EpochInv, EpochTick
    <3>2. d.seen = NoTicks =>
             /\ d.at = source.initial
             /\ source.observed.at # None => ~ d.complete
      BY <1>6, <2>1 DEF EpochInv
    <3> QED
      BY <2>1, <3>1, <3>2 DEF EpochInv
  <2> QED
    BY <2>3, <2>4, TailKeeps
\* A record whose cursor moved.
<1>7. ASSUME NEW d, rows # NoTicks, d = next \/ d = [next EXCEPT !.complete = TRUE],
             ~ (last = e.at /\ At(new, last) = NoTicks)
      PROVE  EpochTypes(d) /\ EpochInv(d)
  <2>1. last = LastTime(rows) /\ last \in Nat /\ e.at <= last /\ last <= e.horizon
    BY <1>2, <1>7
  <2> HIDE DEF last
  <2>2. /\ DOMAIN d = EpochFields
        /\ d.horizon = e.horizon /\ d.at = last /\ d.seen = BoundaryAfter(e.seen, e.at, last, new)
        /\ d.forward = e.forward (+) new /\ d.old = e.old /\ d.tailSeen = e.tailSeen
        /\ d.reconcile = e.reconcile /\ d.overlap = e.overlap /\ d.tail = e.tail
        /\ d.ok = e.ok /\ d.partial = e.partial /\ d.upstream = e.upstream
        /\ d.complete = e.complete \/ d.complete = TRUE
    BY <1>1, <1>7 DEF EpochFields
  <2>3. IsTicks(BoundaryAfter(e.seen, e.at, last, new))
    BY <1>1, <1>2, <2>1, BoundaryTicks
  <2>4. EpochTypes(d)
    <3>1. {d.complete, d.ok, d.partial, d.upstream} \subseteq BOOLEAN
      BY <2>2 DEF EpochTypes
    <3> QED
      BY <1>3, <2>1, <2>2, <2>3, <3>1 DEF EpochTypes
  <2>5. d.seen # NoTicks
    BY <1>2, <1>7, <2>1, <2>2
  <2>6. \A k \in Tick : /\ Copies(page, k) <= Copies(archive, k)
                        /\ e.at <= k.time /\ k.time < last =>
                             Copies(page, k) = Copies(archive, k)
    BY <1>2, <1>7, <2>1
  <2>7. d.upstream => d.partial \/ ~ d.ok
    BY <1>1, <2>2
  <2>8. new = Unseen(page, e.at, e.seen, e.horizon)
    BY DEF new
  <2>9. EpochInv(d)
    BY <1>2, <2>1, <2>2, <2>5, <2>6, <2>7, <2>8, ForwardOn
  <2> QED
    BY <2>4, <2>9
<1>8. CASE page = NoTicks
  <2> DEFINE d == [e EXCEPT !.complete = TRUE]
             g == [e EXCEPT !.complete = TRUE, !.forward = @ (+) new]
  <2>1. new = NoTicks
    BY <1>2, <1>5, <1>8
  <2>2. /\ g.complete = TRUE
        /\ g = [e EXCEPT !.complete = g.complete, !.forward = @ (+) new]
    BY <1>1 DEF EpochFields
  <2>3. g = d
    BY <1>1, <1>3, <2>1 DEF EpochFields
  <2>4. EpochTypes(ToTail(g)) /\ EpochInv(ToTail(g))
    <3> HIDE DEF g
    <3> QED
      BY <1>2, <1>5, <1>6, <1>8, <2>1, <2>2
  <2>5. Forwarded(e, page, count) = ToTail(d)
    BY <1>8 DEF Forwarded
  <2> QED
    BY <2>3, <2>4, <2>5
<1>9. CASE page # NoTicks /\ last < e.at
  <2> DEFINE d == [read EXCEPT !.complete = after]
  <2>1. new = NoTicks
    BY <1>2, <1>4, <1>9
  <2>2. /\ d.complete = after /\ after \in BOOLEAN
        /\ d = [e EXCEPT !.complete = after, !.forward = @ (+) new]
    BY <1>1 DEF EpochFields
  <2>3. after => e.seen # NoTicks \/ source.observed.at = None
    BY <1>2, <1>4, <1>9
  <2>4. EpochTypes(ToTail(d)) /\ EpochInv(ToTail(d))
    <3> HIDE DEF d, after
    <3> QED
      BY <1>6, <2>1, <2>2, <2>3
  <2>5. Forwarded(e, page, count) = ToTail(d)
    BY <1>9 DEF Forwarded, rows, new
  <2> QED
    BY <2>4, <2>5
<1>10. CASE page # NoTicks /\ ~ (last < e.at) /\ last = e.at /\ At(new, last) = NoTicks
  <2> DEFINE d == [read EXCEPT !.complete = TRUE]
  <2>1. new = NoTicks /\ e.seen # NoTicks
    BY <1>2, <1>4, <1>10
  <2>2. /\ d.complete = TRUE
        /\ d = [e EXCEPT !.complete = TRUE, !.forward = @ (+) new]
    BY <1>1 DEF EpochFields
  <2>4. EpochTypes(ToTail(d)) /\ EpochInv(ToTail(d))
    <3> HIDE DEF d
    <3> QED
      BY <1>6, <2>1, <2>2
  <2>5. Forwarded(e, page, count) = ToTail(d)
    BY <1>10 DEF Forwarded, rows, new
  <2> QED
    BY <2>4, <2>5
<1>11. CASE /\ page # NoTicks /\ ~ (last < e.at) /\ ~ (last = e.at /\ At(new, last) = NoTicks)
            /\ after \/ Size(page) < count
  <2> DEFINE d == [next EXCEPT !.complete = TRUE]
  <2>1. EpochTypes(d) /\ EpochInv(d)
    BY <1>4, <1>7, <1>11
  <2>2. Forwarded(e, page, count) = ToTail(d)
    BY <1>11 DEF Forwarded, rows, new
  <2> QED
    BY <2>1, <2>2, TailKeeps
<1>12. CASE /\ page # NoTicks /\ ~ (last < e.at) /\ ~ (last = e.at /\ At(new, last) = NoTicks)
            /\ ~ (after \/ Size(page) < count)
  <2>1. EpochTypes(next) /\ EpochInv(next)
    BY <1>4, <1>7, <1>12
  <2>2. Forwarded(e, page, count) = next
    BY <1>12 DEF Forwarded, rows, new
  <2> QED
    BY <2>1, <2>2
<1> QED
  BY <1>8, <1>9, <1>10, <1>11, <1>12

-----------------------------------------------------------------------------
(* The steps of an epoch. *)

\* A record of the same forward reading, of which the overlap window goes on.
LEMMA TailReads ==
    ASSUME PollerInv, NEW e, NEW d, EpochTypes(e), EpochInv(e),
           DOMAIN d = EpochFields,
           d.horizon = e.horizon, d.at = e.at, d.seen = e.seen, d.forward = e.forward,
           d.old = e.old, d.overlap = e.overlap, d.complete = e.complete,
           IsTicks(d.reconcile), IsTicks(d.tailSeen), d.tail \in Nat,
           d.ok \in BOOLEAN, d.partial \in BOOLEAN, d.upstream \in BOOLEAN,
           d.upstream => d.partial \/ ~ d.ok
    PROVE  EpochTypes(d) /\ EpochInv(d)
<1>1. {d.complete, d.ok, d.partial, d.upstream} \subseteq BOOLEAN
  BY DEF EpochTypes
<1>2. EpochTypes(d)
  BY <1>1 DEF EpochTypes
<1>3. EpochInv(d)
  BY EpochCarries
<1> QED
  BY <1>2, <1>3

\* An epoch that goes on to its commit keeps it.
LEMMA CommitKeeps ==
    ASSUME PollerInv, NEW e, EpochTypes(e), EpochInv(e)
    PROVE  EpochTypes(ToCommit(e)) /\ EpochInv(ToCommit(e))
<1> DEFINE d == ToCommit(e)
<1>1. /\ DOMAIN d = EpochFields
      /\ d.horizon = e.horizon /\ d.at = e.at /\ d.seen = e.seen
      /\ d.forward = e.forward /\ d.old = e.old /\ d.tailSeen = e.tailSeen /\ d.tail = e.tail
      /\ d.reconcile = e.reconcile /\ d.overlap = e.overlap
      /\ d.complete = e.complete /\ d.ok = e.ok
      /\ d.partial = e.partial /\ d.upstream = e.upstream
  BY DEF ToCommit, EpochTypes, EpochFields
<1> HIDE DEF d
<1>2. /\ IsTicks(e.reconcile) /\ IsTicks(e.tailSeen) /\ e.tail \in Nat
      /\ e.ok \in BOOLEAN /\ e.partial \in BOOLEAN /\ e.upstream \in BOOLEAN
      /\ e.upstream => e.partial \/ ~ e.ok
  BY DEF EpochTypes, EpochInv
<1>3. EpochTypes(d) /\ EpochInv(d)
  BY <1>1, <1>2, TailReads
<1> QED
  BY <1>3 DEF d

\* An answer without rows.
LEMMA RefusedKeeps ==
    ASSUME PollerInv, NEW e, EpochTypes(e), EpochInv(e), NEW transient \in BOOLEAN
    PROVE  EpochTypes(Refused(e, transient)) /\ EpochInv(Refused(e, transient))
<1> DEFINE d == Refused(e, transient)
<1>1. e.upstream \in BOOLEAN
  BY DEF EpochTypes
<1>2. /\ DOMAIN d = EpochFields
      /\ d.horizon = e.horizon /\ d.at = e.at /\ d.seen = e.seen
      /\ d.forward = e.forward /\ d.old = e.old /\ d.tailSeen = e.tailSeen /\ d.tail = e.tail
      /\ d.reconcile = e.reconcile /\ d.overlap = e.overlap
      /\ d.complete = e.complete /\ d.ok = FALSE
      /\ d.partial = transient /\ d.upstream = (e.upstream \/ transient)
  BY DEF Refused, EpochTypes, EpochFields
<1> HIDE DEF d
<1>3. /\ IsTicks(e.reconcile) /\ IsTicks(e.tailSeen) /\ e.tail \in Nat
  BY DEF EpochTypes
<1>4. /\ d.ok \in BOOLEAN /\ d.partial \in BOOLEAN /\ d.upstream \in BOOLEAN
      /\ d.upstream => d.partial \/ ~ d.ok
  BY <1>1, <1>2
<1>5. EpochTypes(d) /\ EpochInv(d)
  BY <1>2, <1>3, <1>4, TailReads
<1> QED
  BY <1>5 DEF d

\* A forward page that could not be read.
LEMMA PollerForwardFails ==
    ASSUME PollerInv, NEW transient \in BOOLEAN, ForwardFails(transient)
    PROVE  PollerInv'
<1>1. EpochTypes(epoch) /\ EpochInv(epoch)
  BY DEF PollerInv, ForwardFails
<1>2. /\ epoch' = ToTail(Refused(epoch, transient))
      /\ UNCHANGED <<archive, now, source, published, owed>>
  BY DEF ForwardFails
<1>3. EpochTypes(epoch') /\ EpochInv(epoch')
  BY <1>1, <1>2, RefusedKeeps, TailKeeps
<1> QED
  BY <1>2, <1>3, PollerReads

\* A tail page that could not be read.
LEMMA PollerTailFails ==
    ASSUME PollerInv, NEW transient \in BOOLEAN, TailFails(transient)
    PROVE  PollerInv'
<1>1. EpochTypes(epoch) /\ EpochInv(epoch)
  BY DEF PollerInv, TailFails
<1>2. /\ epoch' = ToCommit(Refused(epoch, transient))
      /\ UNCHANGED <<archive, now, source, published, owed>>
  BY DEF TailFails
<1>3. EpochTypes(epoch') /\ EpochInv(epoch')
  BY <1>1, <1>2, RefusedKeeps, CommitKeeps
<1> QED
  BY <1>2, <1>3, PollerReads

\* The rows that a reader asks for.
LEMMA PageCount ==
    ASSUME NEW b, IsTicks(b)
    PROVE  PageSize + Size(b) \in Nat \ {0}
BY SizeType, PagesAssumption

\* A page of the forward pass, with an answer that is clean or transient.
LEMMA PollerReadsForward ==
    ASSUME PollerInv, NEW status \in {"clean", "transient"}, ReadForward(status)
    PROVE  PollerInv'
<1> DEFINE count == PageSize + Size(epoch.seen)
           e == Marked(epoch, status)
<1>1. PICK page \in Pages(epoch.at, count) :
        /\ epoch.phase = "forward"
        /\ IF Exhausts(e, e.forward, Unseen(page, e.at, e.seen, e.horizon))
           THEN \E cut \in First(Unseen(page, e.at, e.seen, e.horizon), Budget - Size(e.forward)) :
                  epoch' = ToTail([e EXCEPT !.forward = @ (+) cut,
                                            !.partial = TRUE,
                                            !.exhausted = TRUE])
           ELSE epoch' = Forwarded(e, page, count)
        /\ UNCHANGED <<archive, now, source, published, owed>>
  BY DEF ReadForward
<1>2. IsTicks(epoch.seen) /\ epoch.at \in Nat /\ IsTicks(archive)
  BY DEF PollerInv, EpochTypes, SourceTypes
<1>3. count \in Nat \ {0}
  BY <1>2, PageCount
<1>4. /\ EpochTypes(e) /\ EpochInv(e) /\ e.phase = "forward"
      /\ e.at = epoch.at /\ e.seen = epoch.seen
  BY <1>1, MarkedKeeps
<1> HIDE DEF e, count
<1>5. IsTicks(page)
  BY <1>2, <1>3, PageTicks
<1> DEFINE new == Unseen(page, e.at, e.seen, e.horizon)
<1>6. IsTicks(new)
  BY <1>2, <1>4, <1>5, UnseenTicks
<1> HIDE DEF new
<1>7. CASE Exhausts(e, e.forward, new)
  <2>1. PICK cut \in First(new, Budget - Size(e.forward)) :
          epoch' = ToTail([e EXCEPT !.forward = @ (+) cut,
                                    !.partial = TRUE, !.exhausted = TRUE])
    BY <1>1, <1>7 DEF new
  <2>2. IsTicks(e.forward) /\ e.ok \in BOOLEAN /\ e.upstream \in BOOLEAN /\ DOMAIN e = EpochFields
    BY <1>4 DEF EpochTypes
  <2>3. Budget - Size(e.forward) \in Int
    BY <2>2, SizeType, PollerAssumption
  <2>4. IsTicks(cut)
    <3> DEFINE n == Budget - Size(e.forward)
    <3>1. n \in Int /\ cut \in First(new, n)
      BY <2>3
    <3> HIDE DEF n
    <3> QED
      BY <1>6, <3>1, CutTicks
  <2>5. IsTicks(e.forward (+) cut)
    BY <2>2, <2>4, AddedTicks
  <2> DEFINE d == [e EXCEPT !.forward = @ (+) cut, !.partial = TRUE, !.exhausted = TRUE]
  <2>6. /\ DOMAIN d = EpochFields
        /\ d.horizon = e.horizon /\ d.at = e.at /\ d.seen = e.seen
        /\ d.forward = e.forward (+) cut /\ d.old = e.old /\ d.tailSeen = e.tailSeen
        /\ d.tail = e.tail /\ d.reconcile = e.reconcile /\ d.overlap = e.overlap
        /\ d.complete = e.complete /\ d.ok = e.ok
        /\ d.partial = TRUE /\ d.upstream = e.upstream
    BY <2>2 DEF EpochFields
  <2> HIDE DEF d
  <2>7. EpochTypes(d)
    <3>1. {d.complete, d.ok, d.partial, d.upstream} \subseteq BOOLEAN
      BY <1>4, <2>6 DEF EpochTypes
    <3> QED
      BY <1>4, <2>5, <2>6, <3>1 DEF EpochTypes
  <2>8. EpochInv(d)
    BY <1>4, <2>4, <2>6, ForwardMore
  <2>9. EpochTypes(epoch') /\ EpochInv(epoch')
    BY <2>1, <2>7, <2>8, TailKeeps DEF d
  <2> QED
    BY <1>1, <2>9, PollerReads
<1>8. CASE ~ Exhausts(e, e.forward, new)
  <2>1. epoch' = Forwarded(e, page, count)
    BY <1>1, <1>8 DEF new
  <2>2. page \in Pages(e.at, count)
    BY <1>4
  <2>3. EpochTypes(epoch') /\ EpochInv(epoch')
    BY <1>3, <1>4, <2>1, <2>2, ForwardedKeeps
  <2> QED
    BY <1>1, <2>3, PollerReads
<1> QED
  BY <1>7, <1>8

\* A page of the overlap window.
LEMMA ReconciledKeeps ==
    ASSUME PollerInv, NEW e, EpochTypes(e), EpochInv(e), e.phase = "tail",
           NEW page, IsTicks(page), NEW count
    PROVE  EpochTypes(Reconciled(e, page, count)) /\ EpochInv(Reconciled(e, page, count))
<1> DEFINE new == Unseen(page, e.tail, e.tailSeen, e.horizon)
           last == LastTime(page)
           read == [e EXCEPT !.reconcile = @ (+) new]
           next == [read EXCEPT !.tail = last,
                                !.tailSeen = BoundaryAfter(e.tailSeen, e.tail, last, new)]
<1>1. /\ DOMAIN e = EpochFields /\ e.tail \in Nat
      /\ IsTicks(e.tailSeen) /\ IsTicks(e.reconcile)
      /\ e.ok \in BOOLEAN /\ e.partial \in BOOLEAN /\ e.upstream \in BOOLEAN
      /\ e.upstream => e.partial \/ ~ e.ok
  BY DEF EpochTypes, EpochInv
<1>2. IsTicks(new)
  BY <1>1, UnseenTicks
<1>3. IsTicks(e.reconcile (+) new)
  BY <1>1, <1>2, AddedTicks
<1> HIDE DEF new
<1>4. ASSUME NEW d, DOMAIN d = EpochFields,
             d.horizon = e.horizon, d.at = e.at, d.seen = e.seen, d.forward = e.forward,
             d.old = e.old, d.overlap = e.overlap, d.complete = e.complete, d.ok = e.ok,
             d.reconcile = e.reconcile (+) new \/ d.reconcile = e.reconcile,
             IsTicks(d.tailSeen), d.tail \in Nat,
             \/ d.partial = e.partial /\ d.upstream = e.upstream
             \/ d.partial = TRUE /\ d.upstream = TRUE
      PROVE  EpochTypes(d) /\ EpochInv(d)
  <2>1. /\ d.ok \in BOOLEAN /\ d.partial \in BOOLEAN /\ d.upstream \in BOOLEAN
        /\ d.upstream => d.partial \/ ~ d.ok
    BY <1>1, <1>4
  <2>2. IsTicks(d.reconcile)
    BY <1>1, <1>3, <1>4
  <2> QED
    BY <1>4, <2>1, <2>2, TailReads
<1>5. CASE page = NoTicks
  <2> DEFINE d == [e EXCEPT !.reconciled = TRUE]
  <2>1. Reconciled(e, page, count) = ToCommit(d)
    BY <1>5 DEF Reconciled
  <2>2. /\ DOMAIN d = EpochFields
        /\ d.horizon = e.horizon /\ d.at = e.at /\ d.seen = e.seen /\ d.forward = e.forward
        /\ d.old = e.old /\ d.overlap = e.overlap /\ d.complete = e.complete /\ d.ok = e.ok
        /\ d.reconcile = e.reconcile /\ d.tailSeen = e.tailSeen /\ d.tail = e.tail
        /\ d.partial = e.partial /\ d.upstream = e.upstream
    BY <1>1 DEF EpochFields
  <2> HIDE DEF d
  <2>3. EpochTypes(d) /\ EpochInv(d)
    BY <1>1, <1>4, <2>2
  <2> QED
    BY <2>1, <2>3, CommitKeeps
<1>6. CASE page # NoTicks /\ last < e.tail
  <2> DEFINE d == [read EXCEPT !.partial = TRUE, !.upstream = TRUE]
  <2>1. Reconciled(e, page, count) = ToCommit(d)
    BY <1>6 DEF Reconciled, new
  <2>2. /\ DOMAIN d = EpochFields
        /\ d.horizon = e.horizon /\ d.at = e.at /\ d.seen = e.seen /\ d.forward = e.forward
        /\ d.old = e.old /\ d.overlap = e.overlap /\ d.complete = e.complete /\ d.ok = e.ok
        /\ d.reconcile = e.reconcile (+) new /\ d.tailSeen = e.tailSeen /\ d.tail = e.tail
        /\ d.partial = TRUE /\ d.upstream = TRUE
    BY <1>1 DEF EpochFields
  <2> HIDE DEF d
  <2>3. EpochTypes(d) /\ EpochInv(d)
    BY <1>1, <1>4, <2>2
  <2> QED
    BY <2>1, <2>3, CommitKeeps
<1>7. CASE page # NoTicks /\ ~ (last < e.tail) /\ last = e.tail /\ At(new, last) = NoTicks
  <2> DEFINE d == [read EXCEPT !.reconciled = TRUE]
  <2>1. Reconciled(e, page, count) = ToCommit(d)
    BY <1>7 DEF Reconciled, new
  <2>2. /\ DOMAIN d = EpochFields
        /\ d.horizon = e.horizon /\ d.at = e.at /\ d.seen = e.seen /\ d.forward = e.forward
        /\ d.old = e.old /\ d.overlap = e.overlap /\ d.complete = e.complete /\ d.ok = e.ok
        /\ d.reconcile = e.reconcile (+) new /\ d.tailSeen = e.tailSeen /\ d.tail = e.tail
        /\ d.partial = e.partial /\ d.upstream = e.upstream
    BY <1>1 DEF EpochFields
  <2> HIDE DEF d
  <2>3. EpochTypes(d) /\ EpochInv(d)
    BY <1>1, <1>4, <2>2
  <2> QED
    BY <2>1, <2>3, CommitKeeps
<1>8. CASE page # NoTicks /\ ~ (last < e.tail) /\ ~ (last = e.tail /\ At(new, last) = NoTicks)
  <2>1. last \in Nat
    BY <1>8, LastOf
  <2> HIDE DEF last
  <2>2. IsTicks(BoundaryAfter(e.tailSeen, e.tail, last, new))
    BY <1>1, <1>2, <2>1, BoundaryTicks
  <2>3. ASSUME NEW d, d = next \/ d = [next EXCEPT !.reconciled = TRUE]
        PROVE  EpochTypes(d) /\ EpochInv(d)
    <3>1. /\ DOMAIN d = EpochFields
          /\ d.horizon = e.horizon /\ d.at = e.at /\ d.seen = e.seen /\ d.forward = e.forward
          /\ d.old = e.old /\ d.overlap = e.overlap /\ d.complete = e.complete /\ d.ok = e.ok
          /\ d.reconcile = e.reconcile (+) new
          /\ d.tailSeen = BoundaryAfter(e.tailSeen, e.tail, last, new) /\ d.tail = last
          /\ d.partial = e.partial /\ d.upstream = e.upstream
      BY <1>1, <2>3 DEF EpochFields
    <3>2. IsTicks(d.tailSeen) /\ d.tail \in Nat
      BY <2>1, <2>2, <3>1
    <3> QED
      BY <1>4, <3>1, <3>2
  <2>4. CASE Size(page) < count \/ last > e.horizon
    <3>1. Reconciled(e, page, count) = ToCommit([next EXCEPT !.reconciled = TRUE])
      BY <1>8, <2>4 DEF Reconciled, new, last
    <3> QED
      BY <2>3, <3>1, CommitKeeps
  <2>5. CASE ~ (Size(page) < count \/ last > e.horizon)
    <3>1. Reconciled(e, page, count) = next
      BY <1>8, <2>5 DEF Reconciled, new, last
    <3> QED
      BY <2>3, <3>1
  <2> QED
    BY <2>4, <2>5
<1> QED
  BY <1>5, <1>6, <1>7, <1>8

\* A tail page that was read, up to the budget of the epoch.
LEMMA PollerReadsTail ==
    ASSUME PollerInv, NEW status \in {"clean", "transient"}, ReadTail(status)
    PROVE  PollerInv'
<1> DEFINE count == PageSize + Size(epoch.tailSeen)
           e == Marked(epoch, status)
<1>1. PICK page \in Pages(epoch.tail, count) :
        /\ epoch.phase = "tail"
        /\ IF Exhausts(e, e.reconcile, Unseen(page, e.tail, e.tailSeen, e.horizon))
           THEN \E cut \in First(Unseen(page, e.tail, e.tailSeen, e.horizon),
                                 Budget - Size(e.reconcile)) :
                  epoch' = ToCommit([e EXCEPT !.reconcile = @ (+) cut,
                                              !.partial = TRUE,
                                              !.exhausted = TRUE])
           ELSE epoch' = Reconciled(e, page, count)
        /\ UNCHANGED <<archive, now, source, published, owed>>
  BY DEF ReadTail
<1>2. IsTicks(epoch.tailSeen) /\ epoch.tail \in Nat /\ IsTicks(archive)
  BY DEF PollerInv, EpochTypes, SourceTypes
<1>3. count \in Nat \ {0}
  BY <1>2, PageCount
<1>4. /\ EpochTypes(e) /\ EpochInv(e) /\ e.phase = "tail"
      /\ e.tail = epoch.tail /\ e.tailSeen = epoch.tailSeen
  BY <1>1, MarkedKeeps
<1> HIDE DEF e, count
<1>5. IsTicks(page)
  BY <1>2, <1>3, PageTicks
<1> DEFINE new == Unseen(page, e.tail, e.tailSeen, e.horizon)
<1>6. IsTicks(new)
  BY <1>2, <1>4, <1>5, UnseenTicks
<1> HIDE DEF new
<1>7. CASE Exhausts(e, e.reconcile, new)
  <2>1. PICK cut \in First(new, Budget - Size(e.reconcile)) :
          epoch' = ToCommit([e EXCEPT !.reconcile = @ (+) cut,
                                      !.partial = TRUE, !.exhausted = TRUE])
    BY <1>1, <1>7 DEF new
  <2>2. /\ IsTicks(e.reconcile) /\ e.ok \in BOOLEAN /\ e.upstream \in BOOLEAN
        /\ DOMAIN e = EpochFields /\ IsTicks(e.tailSeen) /\ e.tail \in Nat
    BY <1>4 DEF EpochTypes
  <2>3. Budget - Size(e.reconcile) \in Int
    BY <2>2, SizeType, PollerAssumption
  <2>4. IsTicks(cut)
    <3> DEFINE n == Budget - Size(e.reconcile)
    <3>1. n \in Int /\ cut \in First(new, n)
      BY <2>3
    <3> HIDE DEF n
    <3> QED
      BY <1>6, <3>1, CutTicks
  <2>5. IsTicks(e.reconcile (+) cut)
    BY <2>2, <2>4, AddedTicks
  <2> DEFINE d == [e EXCEPT !.reconcile = @ (+) cut, !.partial = TRUE, !.exhausted = TRUE]
  <2>6. /\ DOMAIN d = EpochFields
        /\ d.horizon = e.horizon /\ d.at = e.at /\ d.seen = e.seen
        /\ d.forward = e.forward /\ d.old = e.old /\ d.tailSeen = e.tailSeen
        /\ d.tail = e.tail /\ d.reconcile = e.reconcile (+) cut /\ d.overlap = e.overlap
        /\ d.complete = e.complete /\ d.ok = e.ok
        /\ d.partial = TRUE /\ d.upstream = e.upstream
    BY <2>2 DEF EpochFields
  <2> HIDE DEF d
  <2>7. EpochTypes(d) /\ EpochInv(d)
    <3>1. /\ IsTicks(d.reconcile) /\ IsTicks(d.tailSeen) /\ d.tail \in Nat
          /\ d.ok \in BOOLEAN /\ d.partial \in BOOLEAN /\ d.upstream \in BOOLEAN
          /\ d.upstream => d.partial \/ ~ d.ok
      BY <2>2, <2>5, <2>6
    <3> QED
      BY <1>4, <2>6, <3>1, TailReads
  <2>8. EpochTypes(epoch') /\ EpochInv(epoch')
    BY <2>1, <2>7, CommitKeeps DEF d
  <2> QED
    BY <1>1, <2>8, PollerReads
<1>8. CASE ~ Exhausts(e, e.reconcile, new)
  <2>1. epoch' = Reconciled(e, page, count)
    BY <1>1, <1>8 DEF new
  <2>2. EpochTypes(epoch') /\ EpochInv(epoch')
    BY <1>4, <1>5, <2>1, ReconciledKeeps
  <2> QED
    BY <1>1, <2>2, PollerReads
<1> QED
  BY <1>7, <1>8

-----------------------------------------------------------------------------
(* The end of an epoch. *)

\* An epoch is given up: nothing of the source but its status changes.
LEMMA PollerDrops ==
    ASSUME PollerInv, epoch' = NoEpoch, UNCHANGED <<archive, now, published, owed>>,
           NEW st, source' = [source EXCEPT !.status = st]
    PROVE  PollerInv'
<1>1. /\ DOMAIN source' = SourceFields
      /\ source'.initial = source.initial /\ source'.committed = source.committed
      /\ source'.observed = source.observed /\ source'.recover = source.recover
      /\ source'.overlap = source.overlap /\ source'.snapshot = source.snapshot
  BY DEF PollerInv, SourceTypes, SourceFields
<1>2. CursorType(source.committed)' /\ CursorType(source.observed)'
  BY <1>1 DEF PollerInv, SourceTypes, CursorType
<1>3. SourceTypes'
  BY <1>1, <1>2 DEF PollerInv, SourceTypes
<1>4. EpochTypes(epoch)' /\ epoch'.phase = "idle"
  <2>1. EpochTypes(epoch') /\ epoch'.phase = "idle"
    BY NoEpochTypes
  <2> QED
    BY <2>1 DEF EpochTypes
<1>5. \A k \in Tick : WorldTick(k)'
  BY <1>1 DEF PollerInv, WorldTick
<1>6. /\ CursorInv(source.committed)'
      /\ (source.observed.at # None /\ ~ source.recover => CursorInv(source.observed))'
  BY <1>1 DEF PollerInv, CursorInv, CursorTick
<1>7. (source.observed.at # None =>
         \E k \in Tick : k.time = source.observed.at /\ Copies(archive, k) # 0)'
  BY <1>1 DEF PollerInv
<1> QED
  BY <1>3, <1>4, <1>5, <1>6, <1>7 DEF PollerInv

\* An epoch that ends without a commit.
LEMMA PollerFails ==
    ASSUME PollerInv, ReadIsFatal \/ EpochIsEmpty
    PROVE  PollerInv'
<1>1. \E st : /\ source' = [source EXCEPT !.status = st]
             /\ epoch' = NoEpoch /\ UNCHANGED <<archive, now, published, owed>>
  BY DEF ReadIsFatal, EpochIsEmpty
<1> QED
  BY <1>1, PollerDrops

\* The overlap window stays a length.
LEMMA OverlapIsLength ==
    ASSUME PollerInv, NEW e, NEW fresh, NEW snapshot, NEW reconnected
    PROVE  NextOverlap(e, fresh, snapshot, reconnected) \in Nat
<1> DEFINE o == source.overlap
           twice == o * 2
           half == o \div 2
<1>1. o \in Nat /\ MaxOverlap \in Nat /\ MinOverlap \in Nat
  BY PollerAssumption DEF PollerInv, SourceTypes
<1>2. twice \in Nat /\ half \in Nat
  BY <1>1
<1>3. NextOverlap(e, fresh, snapshot, reconnected)
        \in {o, Min({MaxOverlap, twice}), Max({MinOverlap, half})}
  BY DEF NextOverlap
<1> HIDE DEF o, twice, half
<1>4. twice \in Int /\ half \in Int /\ MaxOverlap \in Int /\ MinOverlap \in Int
  BY <1>1, <1>2
<1>5. Min({MaxOverlap, twice}) = IF MaxOverlap <= twice THEN MaxOverlap ELSE twice
  BY ONLY <1>4, OfTwo
<1>6. Max({MinOverlap, half}) = IF MinOverlap >= half THEN MinOverlap ELSE half
  BY ONLY <1>4, OfTwo
<1> QED
  BY <1>1, <1>2, <1>3, <1>5, <1>6

\* What an epoch would publish.
LEMMA FreshTicks ==
    ASSUME PollerInv
    PROVE  LET fresh == Publishes(epoch)
           IN  /\ IsTicks(fresh)
               /\ ~ NeedsReplay(epoch) =>
                    \A k \in Tick : Copies(epoch.forward, k) <= Copies(fresh, k)
<1> DEFINE seen == source.committed.seen
           from == WindowFrom(epoch, now)
           late == Late(epoch)
<1>1. /\ IsTicks(epoch.old) /\ IsTicks(epoch.forward) /\ IsTicks(epoch.reconcile)
      /\ IsTicks(seen)
  BY DEF PollerInv, EpochTypes, SourceTypes, CursorType
<1>2. IsTicks(Previous(epoch))
  <2>1. IsTicks(seen (-) epoch.old)
    BY <1>1, RemovedTicks
  <2>2. IsTicks(epoch.old (+) (seen (-) epoch.old))
    BY <1>1, <2>1, AddedTicks
  <2> DEFINE m == epoch.old (+) (seen (-) epoch.old)
  <2>3. Previous(epoch) = Between(m, from, MaxTime)
    BY DEF Previous, Maximum
  <2> HIDE DEF m, from
  <2> QED
    BY <2>2, <2>3, SomeTicks DEF m
<1>3. IsTicks(late)
  <2>1. IsTicks(epoch.reconcile (-) Previous(epoch))
    BY <1>1, <1>2, RemovedTicks
  <2>2. IsTicks((epoch.reconcile (-) Previous(epoch)) (-) epoch.forward)
    BY <1>1, <2>1, RemovedTicks
  <2> QED
    BY <2>2 DEF Late
<1> HIDE DEF late
<1>4. /\ IsTicks(epoch.forward (+) late)
      /\ \A k : Copies(epoch.forward (+) late, k) = Copies(epoch.forward, k) + Copies(late, k)
  BY <1>1, <1>3, AddedTicks
<1>5. CASE NeedsReplay(epoch)
  BY <1>5, EmptyTicks DEF Publishes
<1>6. CASE ~ NeedsReplay(epoch)
  <2>1. Publishes(epoch) = epoch.forward (+) late
    BY <1>6 DEF Publishes, Fresh, late
  <2>2. ASSUME NEW k \in Tick
        PROVE  Copies(epoch.forward, k) <= Copies(epoch.forward (+) late, k)
    <3>1. Copies(epoch.forward, k) \in Nat /\ Copies(late, k) \in Nat
      BY <1>1, <1>3, CopiesType
    <3> QED
      BY <1>4, <3>1
  <2> QED
    BY <1>4, <2>1, <2>2
<1> QED
  BY <1>5, <1>6

\* The commit of an epoch: realtime_poller publishes the fresh ticks and stores
\* the cursor in the same locked section.
LEMMA PollerCommits ==
    ASSUME PollerInv, NEW reconnected, EpochCommits(reconnected)
    PROVE  PollerInv'
<1> DEFINE e == epoch
           fresh == Publishes(epoch)
           snapshot == IF epoch.reconciled THEN epoch.reconcile ELSE source.snapshot
           at == epoch.at
           reached == [at |-> epoch.at, seen |-> epoch.seen]
<1>1. /\ published' = Meet(archive, published (+) fresh)
      /\ owed' = owed (-) fresh
      /\ epoch' = NoEpoch /\ UNCHANGED <<archive, now>>
      /\ epoch.phase = "commit"
  BY DEF EpochCommits
<1>2. /\ EpochTypes(epoch) /\ EpochInv(epoch) /\ SourceTypes
      /\ CursorType(source.committed) /\ CursorType(source.observed)
  BY <1>1 DEF PollerInv, SourceTypes
<1>3. /\ DOMAIN source' = SourceFields
      /\ source'.initial = source.initial
      /\ source'.snapshot = snapshot
      /\ source'.overlap = NextOverlap(epoch, fresh, snapshot, reconnected)
      /\ source'.recover = (IsPartial(epoch) /\ (source.recover \/ NeedsReplay(epoch)))
      /\ source'.observed = (IF epoch.seen = NoTicks THEN source.observed ELSE reached)
      /\ source'.committed = (IF IsPartial(epoch) \/ epoch.seen = NoTicks
                              THEN source.committed ELSE reached)
  BY <1>2 DEF EpochCommits, SourceTypes, SourceFields, Reached, Committed
<1>4. IsTicks(fresh) /\ (~ NeedsReplay(epoch) =>
        \A k \in Tick : Copies(epoch.forward, k) <= Copies(fresh, k))
  BY FreshTicks
<1>5. source.recover \in BOOLEAN /\ source'.recover \in BOOLEAN
  BY <1>2, <1>3 DEF SourceTypes
<1>6. source'.overlap \in Nat
  BY <1>3, OverlapIsLength
<1>7. IsTicks(snapshot)
  BY <1>2 DEF EpochTypes, SourceTypes
<1> HIDE DEF fresh, snapshot
<1>8. /\ IsTicks(archive) /\ IsTicks(published) /\ IsTicks(owed)
      /\ source.initial \in Nat /\ now \in Nat /\ source.initial <= now
      /\ IsTicks(epoch.seen) /\ epoch.at \in Nat /\ epoch.horizon \in Nat
      /\ source.initial <= epoch.at /\ epoch.at <= epoch.horizon /\ epoch.horizon <= now
  BY <1>2 DEF SourceTypes, EpochTypes, EpochInv
<1>9. /\ IsTicks(published (+) fresh)
      /\ \A k : Copies(published (+) fresh, k) = Copies(published, k) + Copies(fresh, k)
  BY <1>4, <1>8, AddedTicks
<1>10. /\ IsTicks(published')
       /\ \A k : Copies(published', k) = Rest(Copies(archive, k),
              Rest(Copies(archive, k), Copies(published, k) + Copies(fresh, k)))
  <2> DEFINE sum == published (+) fresh
             rest == archive (-) sum
  <2>1. IsTicks(rest) /\ \A k : Copies(rest, k) = Rest(Copies(archive, k), Copies(sum, k))
    BY <1>8, <1>9, RemovedTicks
  <2>2. published' = archive (-) rest
    BY <1>1 DEF Meet
  <2> HIDE DEF rest, sum
  <2>3. IsTicks(archive (-) rest)
        /\ \A k : Copies(archive (-) rest, k) = Rest(Copies(archive, k), Copies(rest, k))
    BY <1>8, <2>1, RemovedTicks
  <2> QED
    BY <1>9, <2>1, <2>2, <2>3 DEF sum
<1>11. /\ IsTicks(owed')
       /\ \A k : Copies(owed', k) = Rest(Copies(owed, k), Copies(fresh, k))
  BY <1>1, <1>4, <1>8, RemovedTicks
<1>12. epoch.seen # NoTicks => CursorType(reached)
  BY <1>8 DEF CursorType, None
<1>13. CursorType(source.committed)' /\ CursorType(source.observed)'
  <2>1. CursorType(source'.committed) /\ CursorType(source'.observed)
    BY <1>2, <1>3, <1>12
  <2> QED
    BY <1>1, <1>3, <2>1 DEF CursorType
<1>14. SourceTypes'
  <2>1. IsTicks(archive') /\ now' = now
    BY <1>1, <1>8
  <2>2. (IsTicks(source.snapshot))' /\ source'.initial \in Nat
    BY <1>3, <1>7, <1>8
  <2> QED
    BY <1>3, <1>5, <1>6, <1>8, <1>10, <1>11, <1>13, <2>1, <2>2 DEF SourceTypes
\* What the publication does with one tick.
<1>15. ASSUME NEW k \in Tick
       PROVE  /\ WorldTick(k)'
              /\ \A c : CursorTick(c, k) /\ Copies(c.seen, k) \in Nat /\ c.at \in Int =>
                   /\ Copies(c.seen, k) <= Copies(published', k)
                   /\ k.time < c.at => Copies(owed', k) = 0
                   /\ k.time = c.at => Copies(owed', k) + Copies(c.seen, k) <= Copies(archive, k)
              /\ ~ NeedsReplay(epoch) =>
                   /\ Copies(epoch.seen, k) <= Copies(published', k)
                   /\ k.time < at => Copies(owed', k) = 0
                   /\ k.time = at => Copies(owed', k) + Copies(epoch.seen, k) <= Copies(archive, k)
  <2> DEFINE a == Copies(archive, k)
             u == Copies(published, k)
             o == Copies(owed, k)
             f == Copies(epoch.forward, k)
             s == Copies(epoch.seen, k)
             g == Copies(fresh, k)
             v == Copies(published', k)
             w == Copies(owed', k)
  <2>1. a \in Nat /\ u \in Nat /\ o \in Nat /\ f \in Nat /\ s \in Nat /\ g \in Nat
    BY <1>4, CopiesType, PollerCounts
  <2>2. v = Rest(a, Rest(a, u + g)) /\ w = Rest(o, g)
    BY <1>10, <1>11
  <2>3. WorldTick(k) /\ EpochTick(epoch, k)
    BY <1>2 DEF PollerInv, EpochInv
  <2>4. u <= a /\ o <= a /\ (k.time < source.initial => o = 0)
    BY <2>3 DEF WorldTick
  <2>5. /\ s <= a /\ s <= u + f
        /\ k.time < at => o <= f
        /\ k.time = at => o + s <= a + f
    BY <2>3 DEF EpochTick
  <2>6. WorldTick(k)'
    <3>1. v <= a /\ w <= a /\ (k.time < source.initial => w = 0)
      <4> HIDE DEF a, u, o, f, s, g, v, w
      <4> QED
        BY <2>1, <2>2, <2>4 DEF Rest
    <3>2. Copies(archive, k)' = a /\ source'.initial = source.initial
      BY <1>1, <1>3
    <3> QED
      BY <3>1, <3>2 DEF WorldTick
  <2>7. u <= v /\ w <= o
    <3> HIDE DEF a, u, o, f, s, g, v, w
    <3> QED
      BY <2>1, <2>2, <2>4 DEF Rest
  <2>8. ASSUME NEW c, CursorTick(c, k), Copies(c.seen, k) \in Nat, c.at \in Int
        PROVE  /\ Copies(c.seen, k) <= v
               /\ k.time < c.at => w = 0
               /\ k.time = c.at => w + Copies(c.seen, k) <= a
    <3>1. /\ Copies(c.seen, k) <= u
          /\ k.time < c.at => o = 0
          /\ k.time = c.at => o + Copies(c.seen, k) <= a
      BY <2>8 DEF CursorTick
    <3> HIDE DEF a, u, o, f, s, g
    <3>2. v \in Nat /\ w \in Nat
      BY <1>10, <1>11, CopiesType
    <3> HIDE DEF v, w
    <3> QED
      BY <2>1, <2>7, <2>8, <3>1, <3>2
  <2>9. ASSUME ~ NeedsReplay(epoch)
        PROVE  /\ s <= v
               /\ k.time < at => w = 0
               /\ k.time = at => w + s <= a
    <3>1. f <= g
      BY <1>4, <2>9
    <3> HIDE DEF a, u, o, f, s, g, v, w, at
    <3>2. s <= a /\ s <= u + f
      BY <2>5
    <3>3. /\ s <= Rest(a, Rest(a, u + g))
          /\ o <= f => Rest(o, g) = 0
          /\ o + s <= a + f => Rest(o, g) + s <= a
      BY ONLY <2>1, <3>1, <3>2 DEF Rest
    <3> QED
      BY <2>2, <2>5, <3>3
  <2> QED
    BY <2>6, <2>8, <2>9
\* A cursor that stays, and the one that was reached.
<1>16. ASSUME NEW c, CursorInv(c), CursorType(c)
       PROVE  \A k \in Tick :
                /\ k.time # c.at => Copies(c.seen, k) = 0
                /\ Copies(c.seen, k) <= Copies(archive, k)
                /\ Copies(c.seen, k) <= Copies(published', k)
                /\ k.time < c.at => Copies(owed', k) = 0
                /\ k.time = c.at => Copies(owed', k) + Copies(c.seen, k) <= Copies(archive, k)
  <2> TAKE k \in Tick
  <2>1. CursorTick(c, k)
    BY <1>16 DEF CursorInv
  <2>2. Copies(c.seen, k) \in Nat /\ c.at \in Int
    BY <1>16, CopiesType DEF CursorType, None
  <2>3. /\ Copies(c.seen, k) <= Copies(published', k)
        /\ k.time < c.at => Copies(owed', k) = 0
        /\ k.time = c.at => Copies(owed', k) + Copies(c.seen, k) <= Copies(archive, k)
    BY <1>15, <2>1, <2>2
  <2>4. /\ k.time # c.at => Copies(c.seen, k) = 0
        /\ Copies(c.seen, k) <= Copies(archive, k)
    BY <2>1 DEF CursorTick
  <2> QED
    BY <2>3, <2>4
<1>17. ASSUME ~ NeedsReplay(epoch)
       PROVE  \A k \in Tick :
                /\ k.time # reached.at => Copies(reached.seen, k) = 0
                /\ Copies(reached.seen, k) <= Copies(archive, k)
                /\ Copies(reached.seen, k) <= Copies(published', k)
                /\ k.time < reached.at => Copies(owed', k) = 0
                /\ k.time = reached.at =>
                     Copies(owed', k) + Copies(reached.seen, k) <= Copies(archive, k)
  <2> TAKE k \in Tick
  <2>1. EpochTick(epoch, k)
    BY <1>2 DEF EpochInv
  <2>2. /\ k.time # at => Copies(epoch.seen, k) = 0
        /\ Copies(epoch.seen, k) <= Copies(archive, k)
    BY <2>1 DEF EpochTick
  <2>3. reached.at = at /\ reached.seen = epoch.seen
    OBVIOUS
  <2> QED
    BY <1>15, <1>17, <2>2, <2>3
<1>18. ASSUME NEW c, \A k \in Tick :
                /\ k.time # c.at => Copies(c.seen, k) = 0
                /\ Copies(c.seen, k) <= Copies(archive, k)
                /\ Copies(c.seen, k) <= Copies(published', k)
                /\ k.time < c.at => Copies(owed', k) = 0
                /\ k.time = c.at => Copies(owed', k) + Copies(c.seen, k) <= Copies(archive, k)
       PROVE  /\ source'.committed = c => CursorInv(source.committed)'
              /\ source'.observed = c => CursorInv(source.observed)'
  BY <1>1, <1>18 DEF CursorInv, CursorTick
<1>19. ~ IsPartial(epoch) => ~ NeedsReplay(epoch) /\ epoch.complete
  BY <1>2 DEF IsPartial, NeedsReplay, EpochInv
<1> HIDE DEF reached
<1>20. CursorInv(source.committed)'
  <2>1. CASE source'.committed = source.committed
    <3>1. CursorInv(source.committed)
      BY DEF PollerInv
    <3> QED
      BY <1>2, <1>16, <1>18, <2>1, <3>1
  <2>2. CASE source'.committed = reached /\ ~ IsPartial(epoch)
    BY <1>17, <1>18, <1>19, <2>2
  <2> QED
    BY <1>3, <2>1, <2>2
<1>21. (source.observed.at # None /\ ~ source.recover => CursorInv(source.observed))'
  <2> SUFFICES ASSUME source'.observed.at # None, ~ source'.recover
               PROVE  CursorInv(source.observed)'
    OBVIOUS
  <2>1. CASE epoch.seen = NoTicks
    <3>1. source'.observed = source.observed
      BY <1>3, <2>1
    <3>2. IsPartial(epoch)
      <4> SUFFICES ASSUME ~ IsPartial(epoch)
                   PROVE  FALSE
        OBVIOUS
      <4>1. source.observed.at = None
        BY <1>2, <1>19, <2>1 DEF EpochInv
      <4> QED
        BY <3>1, <4>1
    <3>3. ~ source.recover
      BY <1>3, <3>2
    <3>4. CursorInv(source.observed)
      BY <3>1, <3>3 DEF PollerInv
    <3> QED
      BY <1>2, <1>16, <1>18, <3>1, <3>4
  <2>2. CASE epoch.seen # NoTicks
    <3>1. source'.observed = reached
      BY <1>3, <2>2
    <3>2. ~ NeedsReplay(epoch)
      BY <1>3, <1>19
    <3> QED
      BY <1>17, <1>18, <3>1, <3>2
  <2> QED
    BY <2>1, <2>2
<1>22. (source.observed.at # None =>
          \E k \in Tick : k.time = source.observed.at /\ Copies(archive, k) # 0)'
  <2> SUFFICES ASSUME source'.observed.at # None
               PROVE  \E k \in Tick : k.time = source'.observed.at /\ Copies(archive, k) # 0
    BY <1>1
  <2>1. CASE epoch.seen = NoTicks
    BY <1>3, <2>1 DEF PollerInv
  <2>2. CASE epoch.seen # NoTicks
    <3>1. PICK k \in Tick : Copies(epoch.seen, k) # 0
      BY <1>8, <2>2, NoCopies
    <3>2. EpochTick(epoch, k)
      BY <1>2 DEF EpochInv
    <3>3. k.time = at /\ Copies(epoch.seen, k) <= Copies(archive, k)
      BY <3>1, <3>2 DEF EpochTick
    <3>4. Copies(epoch.seen, k) \in Nat /\ Copies(archive, k) \in Nat
      BY PollerCounts
    <3>5. source'.observed.at = at
      BY <1>3, <2>2 DEF reached
    <3> QED
      BY <3>1, <3>3, <3>4, <3>5
  <2> QED
    BY <2>1, <2>2
<1>23. EpochTypes(epoch)' /\ epoch'.phase = "idle"
  <2>1. EpochTypes(epoch') /\ epoch'.phase = "idle"
    BY <1>1, NoEpochTypes
  <2> QED
    BY <2>1 DEF EpochTypes
<1>24. \A k \in Tick : WorldTick(k)'
  BY <1>15
<1> QED
  BY <1>14, <1>20, <1>21, <1>22, <1>23, <1>24 DEF PollerInv

-----------------------------------------------------------------------------
(* The theorem of the poller. *)

\* The invariant is inductive as long as every page has a status that can be read.
LEMMA PollerInvIsInductive ==
    ASSUME "unknown" \notin Statuses, PollerInv, [MarketNext]_marketVars
    PROVE  PollerInv'
<1>1. CASE UNCHANGED marketVars
  <2>1. UNCHANGED <<archive, now, source, epoch, published, owed>>
    BY <1>1 DEF marketVars, pollerVars
  <2> QED
    BY <2>1 DEF PollerInv, SourceTypes, CursorType, EpochTypes, WorldTick, CursorInv,
                CursorTick, EpochInv, EpochTick
<1>2. CASE MarketNext /\ reader = "history"
  <2>1. UNCHANGED pollerVars
    BY <1>2 DEF MarketNext, HistoryQuery, Poller, Rates
  <2>2. CASE UNCHANGED archive
    BY <2>1, <2>2 DEF PollerInv, SourceTypes, CursorType, EpochTypes, WorldTick, CursorInv,
                CursorTick, EpochInv, EpochTick, pollerVars
  <2>3. CASE TickSynchronized
    <3>1. PICK k \in HistoryTick : Shown(k)
      BY <2>3 DEF TickSynchronized
    <3>2. k \in Tick
      BY HistoryTickIsTick
    <3> QED
      BY <2>1, <3>1, <3>2, PollerSees DEF pollerVars
  <2> QED
    BY <1>2, <2>2, <2>3 DEF MarketNext, HistoryQuery, QueryNext, Poller, Rates
<1>3. CASE MarketNext /\ reader = "rates"
  <2>1. UNCHANGED <<archive, now, source, epoch, published, owed>>
    BY <1>3 DEF MarketNext, HistoryQuery, Poller, Rates, pollerVars
  <2> QED
    BY <2>1 DEF PollerInv, SourceTypes, CursorType, EpochTypes, WorldTick, CursorInv,
                CursorTick, EpochInv, EpochTick
<1>4. CASE MarketNext /\ reader = "poller"
  <2>1. PollStep
    BY <1>4 DEF MarketNext, HistoryQuery, Poller, Rates
  <2>2. CASE ClockTicks
    BY <2>2, PollerClock
  <2>3. CASE \E k \in [time: Time, payload: Arriving] : TickArrives(k)
    <3>1. PICK k \in [time: Time, payload: Arriving] : TickArrives(k)
      BY <2>3
    <3>2. k \in Tick
      BY <3>1, PollerAssumption DEF Tick
    <3> QED
      BY <3>1, <3>2, PollerArrives
  <2>4. CASE EpochBegins
    BY <2>4, PollerBegins
  <2>5. CASE \E s \in Statuses : ReadForward(s) \/ ReadTail(s)
    <3>1. PICK s \in Statuses : ReadForward(s) \/ ReadTail(s)
      BY <2>5
    <3>2. s \in {"clean", "transient"}
      BY PollerAssumption DEF Status
    <3> QED
      BY <3>1, <3>2, PollerReadsForward, PollerReadsTail
  <2>6. CASE \E b \in Refusals : ForwardFails(b) \/ TailFails(b)
    <3>1. PICK b \in Refusals : ForwardFails(b) \/ TailFails(b)
      BY <2>6
    <3>2. b \in BOOLEAN
      BY PollerAssumption
    <3> QED
      BY <3>1, <3>2, PollerForwardFails, PollerTailFails
  <2>7. CASE ReadIsFatal \/ EpochIsEmpty
    BY <2>7, PollerFails
  <2>8. CASE \E r \in {FALSE, ~ epoch.ok \/ epoch.upstream} : EpochCommits(r)
    BY <2>8, PollerCommits
  <2> QED
    BY <2>1, <2>2, <2>3, <2>4, <2>5, <2>6, <2>7, <2>8 DEF PollStep
<1> QED
  BY <1>1, <1>2, <1>3, <1>4 DEF MarketNext, HistoryQuery, Poller, Rates

\* realtime_poller: every tick before the committed cursor that the source owes
\* its subscribers is published, and so is every tick the cursor has seen at its
\* own time, through any failures, stale pages, budgets and recoveries. The
\* hypothesis leaves out one answer: a page with rows whose status is neither
\* clean nor partial. The epoch's fresh ticks are then dropped and its cursor is
\* committed all the same, so the property does not hold with it.
THEOREM CursorPassesNothingAlways ==
    ASSUME "unknown" \notin Statuses
    PROVE  MarketSpec => []CursorPassesNothing
<1>1. MarketInit => PollerInv
  BY PollerInit
<1>2. PollerInv /\ [MarketNext]_marketVars => PollerInv'
  BY PollerInvIsInductive
<1>3. PollerInv => CursorPassesNothing
  BY PollerInvTells
<1> QED
  BY <1>1, <1>2, <1>3, PTL DEF MarketSpec

-----------------------------------------------------------------------------
(***************************************************************************)
(* The delivery of realtime batches, for every set of keys and requests,   *)
(* every capacity and any number of subscriptions, batches and rewrites.   *)
(*                                                                         *)
(* The inductive invariant relates each source to all of its members.  A   *)
(* member Fits its source: it is not ahead of it, the ring holds either as *)
(* many batches as the member asked for or all that it has not had, and    *)
(* the recovery window covers all rewrites that it was not told of.  A     *)
(* source Serves its members: it is there as long as they are, each fits   *)
(* it, and its window is open only while one of them lags.                 *)
(*                                                                         *)
(* The scan of the event loop has an invariant of its own: each member     *)
(* knows how many turns of others come before its own (Turns), and that    *)
(* number and the events that passed it add up to less than a round.       *)
(*                                                                         *)
(* Nothing in it bounds the members or the epochs that are under way, so   *)
(* that it holds of interleavings the runs have no room for.               *)
(***************************************************************************)

\* Source without the bounds that only make the instance finite.
SourceType ==
    [born: Handle, next: Nat, held: Nat, capacity: Nat, status: SourceStatus,
     rewrites: Nat, window: SUBSET Nat]

\* A member and its source.
Fits(m, s) ==
    /\ m.expects = m.next
    /\ m.next <= s.next
    /\ m.rewrites <= s.rewrites
    /\ m.capacity <= s.capacity
    /\ s.held >= m.capacity \/ s.held >= s.next - m.next
    /\ m.rewrites + 1 .. s.rewrites \subseteq s.window

\* A source and all its members.
Serves(s, members) ==
    \/ s = NoSource /\ members = {}
    \/ /\ s \in SourceType
       /\ members # {} /\ members \subseteq Member
       /\ \A m \in members : Fits(m, s)
       /\ s.window # {} => \E m \in members : m.rewrites < s.rewrites

IDelivery ==
    /\ sources \in [Key -> SourceType \cup {NoSource}]
    /\ subscriptions \in [Handle -> Seq(Member)]
    /\ made \in 0 .. MaxSubscriptions
    /\ \A h \in Handle : h > made => subscriptions[h] = <<>>
    /\ \A k \in Key : Serves(sources[k], MembersOf(subscriptions, k))

----------------------------------------------------------------------------
(* Largest and smallest.                                                   *)

\* It has no infinite descent.
LEMMA LessIsWellFounded == IsWellFoundedOn(Less, Nat)
<1>1. OpToRel(<, Nat) = Less
  BY DEF OpToRel, Less
<1> QED
  BY Zenon, <1>1, NatLessThanWellFounded

\* A bounded set of numbers has a largest one.
LEMMA LargestOfBounded ==
    ASSUME NEW c \in Nat, NEW S \in SUBSET (0 .. c), S # {}
    PROVE  Max(S) \in S /\ \A x \in S : x <= Max(S)
<1> DEFINE T == {c - x : x \in S}
<1>1. T \subseteq Nat
  OBVIOUS
<1>2. T # {}
  <2>1. PICK x \in S : TRUE
    OBVIOUS
  <2> QED
    BY c - x \in T
<1>3. PICK d \in T : \A e \in T : <<e, d>> \notin Less
  <2> HIDE DEF T
  <2> QED
    BY <1>1, <1>2, LessIsWellFounded, WFMin
<1>4. \A e \in T : d <= e
  <2> SUFFICES ASSUME NEW e \in T
               PROVE  d <= e
    OBVIOUS
  <2>1. e \in Nat /\ d \in Nat /\ <<e, d>> \notin Less
    BY <1>1, <1>3
  <2> QED
    BY <2>1 DEF Less
<1>5. PICK b \in S : d = c - b
  OBVIOUS
<1>6. \A x \in S : b >= x
  <2> SUFFICES ASSUME NEW x \in S
               PROVE  b >= x
    OBVIOUS
  <2>1. d <= c - x
    BY <1>4
  <2> QED
    BY <1>5, <2>1
<1>7. \E y \in S : \A x \in S : y >= x
  BY <1>6
<1> QED
  BY <1>7 DEF Max

----------------------------------------------------------------------------
(* A source and its members.                                               *)

\* No source has the form of NoSource.
LEMMA NoSourceIsNone == NoSource \notin SourceType
BY DEF NoSource, SourceType, Handle

\* Members are in their subscriptions.
LEMMA MembersAre ==
    ASSUME NEW subs \in [Handle -> Seq(Member)], NEW k, NEW m
    PROVE  m \in MembersOf(subs, k) <=>
              m.key = k /\ \E h \in Handle : \E i \in DOMAIN subs[h] : m = subs[h][i]
BY DEF MembersOf, Range

\* A source with other fields of the same types.
LEMMA SourceHas ==
    ASSUME NEW s \in SourceType
    PROVE  /\ s.born \in Handle /\ s.next \in Nat /\ s.held \in Nat
           /\ s.capacity \in Nat /\ s.status \in SourceStatus /\ s.rewrites \in Nat
           /\ s.window \in SUBSET Nat
BY DEF SourceType

\* Acknowledging drops the window when nobody lags.
LEMMA AcknowledgedServes ==
    ASSUME NEW s \in SourceType, NEW members, members # {},
           members \subseteq Member, \A m \in members : Fits(m, s)
    PROVE  Serves(Acknowledged(s, members), members)
<1>1. CASE \E m \in members : m.rewrites < s.rewrites
  BY <1>1 DEF Acknowledged, Serves
<1>2. CASE \A m \in members : ~(m.rewrites < s.rewrites)
  <2> DEFINE r == [s EXCEPT !.window = {}]
  <2>1. /\ r \in SourceType /\ r.next = s.next /\ r.held = s.held
        /\ r.capacity = s.capacity /\ r.rewrites = s.rewrites /\ r.window = {}
    BY DEF SourceType
  <2>2. Acknowledged(s, members) = r
    BY <1>2 DEF Acknowledged
  <2> HIDE DEF r
  <2>3. ASSUME NEW m \in members PROVE Fits(m, r)
    <3>1. Fits(m, s) /\ m.rewrites \in Nat /\ s.rewrites \in Nat
      BY <2>3 DEF Member, SourceType
    <3>2. m.rewrites = s.rewrites
      BY <1>2, <3>1 DEF Fits
    <3>3. m.rewrites + 1 .. r.rewrites \subseteq r.window
      BY <2>1, <3>1, <3>2
    <3> QED
      BY <2>1, <3>1, <3>3 DEF Fits
  <2> QED
    BY <2>1, <2>2, <2>3 DEF Serves
<1> QED
  BY <1>1, <1>2

\* Another status says nothing of batches and rewrites.
LEMMA StatusServes ==
    ASSUME NEW s \in SourceType, NEW members, Serves(s, members),
           NEW status \in SourceStatus
    PROVE  LET r == [s EXCEPT !.status = status]
           IN  r \in SourceType /\ Serves(r, members)
                  /\ r.next = s.next /\ r.born = s.born
<1> DEFINE r == [s EXCEPT !.status = status]
<1>1. /\ r \in SourceType /\ r.next = s.next /\ r.held = s.held /\ r.born = s.born
      /\ r.capacity = s.capacity /\ r.rewrites = s.rewrites /\ r.window = s.window
  BY DEF SourceType
<1> HIDE DEF r
<1>2. \A m \in members : Fits(m, s) => Fits(m, r)
  BY <1>1 DEF Fits
<1>3. Serves(r, members)
  BY <1>1, <1>2, NoSourceIsNone DEF Serves
<1> QED
  BY <1>1, <1>3 DEF r

\* Who joins begins at the present, in a ring that is large enough.
LEMMA JoinedServes ==
    ASSUME NEW s \in SourceType \cup {NoSource}, NEW members, Serves(s, members),
           NEW k \in Key, NEW handle \in Handle, NEW capacity \in Nat
    PROVE  /\ Joined(s, handle, capacity) \in SourceType
           /\ NewMember(k, Joined(s, handle, capacity), capacity) \in Member
           /\ Serves(Joined(s, handle, capacity),
                     members \cup {NewMember(k, Joined(s, handle, capacity), capacity)})
           /\ s # NoSource => Joined(s, handle, capacity).next = s.next
<1> DEFINE j == Joined(s, handle, capacity)
           n == NewMember(k, j, capacity)
           c == Max({s.capacity, capacity})
           r == [s EXCEPT !.capacity = c]
<1>1. CASE s = NoSource
  <2>1. /\ j \in SourceType /\ j.capacity = capacity /\ j.window = {}
        /\ j.next = 1 /\ j.held = 0 /\ j.rewrites = 0
    BY <1>1 DEF Joined, SourceType, SourceStatus
  <2> HIDE DEF j
  <2>2. n \in Member /\ n.key = k /\ Fits(n, j)
    BY <2>1, SourceHas DEF NewMember, Member, SourceStatus, Fits
  <2>3. members = {}
    BY <1>1, NoSourceIsNone DEF Serves
  <2> QED
    BY <1>1, <2>1, <2>2, <2>3 DEF Serves, j
<1>2. CASE s \in SourceType
  <2>1. s.capacity \in Nat
    BY <1>2, SourceHas
  <2>2. c \in Nat /\ s.capacity <= c /\ capacity <= c
    <3>1. c = IF s.capacity >= capacity THEN s.capacity ELSE capacity
      <4> s.capacity \in Int /\ capacity \in Int
        BY <2>1
      <4> QED
        BY OfTwo
    <3> HIDE DEF c
    <3> QED
      BY <2>1, <3>1
  <2> HIDE DEF c
  <2>3. /\ r \in SourceType /\ r.next = s.next /\ r.held = s.held
        /\ r.capacity = c /\ r.rewrites = s.rewrites /\ r.window = s.window
    BY <1>2, <2>2 DEF SourceType
  <2>4. s # NoSource
    BY <1>2, NoSourceIsNone
  <2>5. j = r
    BY <2>4 DEF Joined, c
  <2> HIDE DEF r, j
  <2>6. n \in Member /\ n.key = k /\ Fits(n, j)
    BY <2>2, <2>3, <2>5, SourceHas DEF NewMember, Member, SourceStatus, Fits
  <2>7. ASSUME NEW m \in members PROVE Fits(m, j)
    <3>1. m \in Member /\ Fits(m, s)
      BY <2>4, <2>7 DEF Serves
    <3>2. m.capacity \in Nat
      BY <3>1 DEF Member
    <3> QED
      BY <2>1, <2>2, <2>3, <2>5, <3>1, <3>2 DEF Fits
  <2>8. Serves(j, members \cup {n})
    BY <2>3, <2>4, <2>5, <2>6, <2>7 DEF Serves
  <2> QED
    BY <2>3, <2>5, <2>6, <2>8 DEF j
<1> QED
  BY <1>1, <1>2

\* Who stays is served by a ring that may become smaller.
LEMMA LeavingServes ==
    ASSUME NEW s \in SourceType, NEW members, Serves(s, members),
           NEW rest \in SUBSET members, rest # {}
    PROVE  LET c == Max({m.capacity : m \in rest})
               r == Acknowledged([s EXCEPT !.capacity = c], rest)
           IN  r \in SourceType /\ Serves(r, rest) /\ r.next = s.next
<1> DEFINE sizes == {m.capacity : m \in rest}
           c == Max(sizes)
           q == [s EXCEPT !.capacity = c]
           r == Acknowledged(q, rest)
<1>1. /\ \A m \in rest : Fits(m, s) /\ m \in Member /\ m.capacity \in Nat
      /\ s.capacity \in Nat
  BY NoSourceIsNone, SourceHas DEF Serves, Member
<1>2. sizes \in SUBSET (0 .. s.capacity)
  BY <1>1 DEF Fits
<1>3. sizes # {}
  BY <1>1
<1>4. c \in sizes /\ \A x \in sizes : x <= c
  <2> HIDE DEF sizes
  <2> QED
    BY <1>1, <1>2, <1>3, LargestOfBounded
<1>5. c \in Nat /\ \A m \in rest : m.capacity <= c
  BY <1>1, <1>2, <1>4
<1> HIDE DEF c, sizes
<1>6. /\ q \in SourceType /\ q.next = s.next /\ q.held = s.held
      /\ q.capacity = c /\ q.rewrites = s.rewrites /\ q.window = s.window
  BY <1>5 DEF SourceType
<1> HIDE DEF q
<1>7. \A m \in rest : Fits(m, q)
  BY <1>1, <1>5, <1>6 DEF Fits
<1>8. Serves(r, rest)
  BY <1>1, <1>6, <1>7, AcknowledgedServes
<1>9. r \in SourceType /\ r.next = q.next
  BY <1>6 DEF Acknowledged, SourceType
<1> QED
  BY <1>6, <1>8, <1>9 DEF q, c, sizes

\* A publication drops no batch that a member may still ask for.
LEMMA PublishedServes ==
    ASSUME NEW s \in SourceType, NEW members, Serves(s, members), NEW batches \in Nat
    PROVE  LET r == Published(s, batches)
           IN  r \in SourceType /\ Serves(r, members) /\ r.rewrites = s.rewrites
<1>1. CASE batches = 0
  BY <1>1 DEF Published
<1>2. CASE batches # 0
  <2> DEFINE next == s.next + batches
             held == Min({s.held + batches, s.capacity})
             r == [s EXCEPT !.next = next, !.held = held]
  <2>1. s.next \in Nat /\ s.held \in Nat /\ s.capacity \in Nat
    BY SourceHas
  <2>2. /\ next \in Nat /\ held \in Nat
        /\ held = s.held + batches \/ held = s.capacity
    <3> DEFINE sum == s.held + batches
    <3>1. next \in Nat /\ sum \in Nat
      BY <2>1
    <3>2. sum = s.held + batches
      OBVIOUS
    <3>3. held = Min({sum, s.capacity})
      OBVIOUS
    <3> HIDE DEF sum, next, held
    <3>4. held = IF sum <= s.capacity THEN sum ELSE s.capacity
      BY <2>1, <3>1, <3>3, OfTwo
    <3> QED
      BY <2>1, <3>1, <3>2, <3>4
  <2>3. next = s.next + batches
    OBVIOUS
  <2>4. Published(s, batches) = r
    BY <1>2 DEF Published
  <2> HIDE DEF next, held
  <2>5. /\ r \in SourceType /\ r.next = next /\ r.held = held
        /\ r.capacity = s.capacity /\ r.rewrites = s.rewrites /\ r.window = s.window
    BY <2>2 DEF SourceType
  <2> HIDE DEF r
  <2>6. ASSUME NEW m \in members PROVE Fits(m, r)
    <3>1. Fits(m, s) /\ m.next \in Nat /\ m.capacity \in Nat
      BY <2>6, NoSourceIsNone DEF Serves, Member
    <3>2. r.held >= m.capacity \/ r.held >= r.next - m.next
      BY <2>1, <2>2, <2>3, <2>5, <3>1 DEF Fits
    <3>3. m.next <= r.next
      BY <2>1, <2>3, <2>5, <3>1 DEF Fits
    <3> QED
      BY <2>5, <3>1, <3>2, <3>3 DEF Fits
  <2>7. Serves(r, members)
    BY <2>5, <2>6, NoSourceIsNone DEF Serves
  <2> QED
    BY <2>4, <2>5, <2>7
<1> QED
  BY <1>1, <1>2

\* A rewrite is told to all members, and the window covers it until then.
LEMMA RewrittenServes ==
    ASSUME NEW s \in SourceType, NEW members, Serves(s, members)
    PROVE  Rewritten(s) \in SourceType /\ Serves(Rewritten(s), members)
<1> DEFINE n == s.rewrites + 1
           w == s.window \cup {n}
           r == [s EXCEPT !.rewrites = n, !.window = w]
<1>1. s.rewrites \in Nat /\ n \in Nat /\ w \in SUBSET Nat
  BY SourceHas
<1>2. Rewritten(s) = r
  BY DEF Rewritten
<1>3. /\ n = s.rewrites + 1 /\ n \in w /\ s.window \subseteq w
  OBVIOUS
<1> HIDE DEF n, w
<1>4. /\ r \in SourceType /\ r.next = s.next /\ r.held = s.held
      /\ r.capacity = s.capacity /\ r.rewrites = n /\ r.window = w
  BY <1>1 DEF SourceType
<1> HIDE DEF r
<1>5. ASSUME NEW m \in members
      PROVE  Fits(m, r) /\ m.rewrites < r.rewrites
  <2>1. Fits(m, s) /\ m.rewrites \in Nat
    BY <1>5, NoSourceIsNone DEF Serves, Member
  <2>2. m.rewrites < r.rewrites
    BY <1>1, <1>3, <1>4, <2>1 DEF Fits
  <2>3. m.rewrites + 1 .. r.rewrites \subseteq r.window
    <3> SUFFICES ASSUME NEW x \in m.rewrites + 1 .. r.rewrites
                 PROVE  x \in w
      BY <1>4
    <3>1. x = n \/ x \in m.rewrites + 1 .. s.rewrites
      BY <1>1, <1>3, <1>4, <2>1
    <3> QED
      BY <1>3, <2>1, <3>1 DEF Fits
  <2>4. m.rewrites <= r.rewrites
    BY <1>1, <1>4, <2>1, <2>2
  <2> QED
    BY <1>4, <2>1, <2>2, <2>3, <2>4 DEF Fits
<1>6. Serves(r, members)
  BY <1>4, <1>5, NoSourceIsNone DEF Serves
<1> QED
  BY <1>2, <1>4, <1>6

----------------------------------------------------------------------------
(* The operations of the host.                                             *)

\* Nobody subscribes, and nothing is polled, at the start.
LEMMA InitDelivers == Init => IDelivery
<1> SUFFICES ASSUME Init PROVE IDelivery
  OBVIOUS
<1> USE DeliveryAssumption
<1>1. subscriptions \in [Handle -> Seq(Member)]
  BY DEF Init
<1>2. ASSUME NEW k \in Key PROVE MembersOf(subscriptions, k) = {}
  <2>1. \A h \in Handle : subscriptions[h] = <<>>
    BY DEF Init
  <2> QED
    BY <1>1, <2>1, MembersAre
<1>3. \A k \in Key : Serves(sources[k], MembersOf(subscriptions, k))
  BY <1>2 DEF Init, Serves
<1> QED
  BY <1>1, <1>3 DEF Init, IDelivery, NoSource

\* A subscription leaves the sources it does not name alone.
LEMMA SubscribeDelivers == IDelivery /\ Subscribe => IDelivery'
<1> SUFFICES ASSUME IDelivery, Subscribe PROVE IDelivery'
  OBVIOUS
<1> USE DeliveryAssumption
<1> DEFINE latest == made + 1
           join(request, size) ==
             [k \in Key |-> IF k \in Range(request)
                              THEN Joined(sources[k], latest, size)
                              ELSE sources[k]]
<1>1. PICK request \in Requests, size \in Capacities :
         /\ made < MaxSubscriptions
         /\ made' = latest
         /\ sources' = join(request, size)
         /\ subscriptions' =
               [subscriptions EXCEPT ![latest] =
                   [i \in DOMAIN request |->
                       NewMember(request[i],
                                 join(request, size)[request[i]], size)]]
  BY DEF Subscribe
<1> DEFINE new(k) == NewMember(k, sources'[k], size)
           seq == [i \in DOMAIN request |-> new(request[i])]
<1>2. /\ size \in Nat /\ request \in Seq(Key)
      /\ made \in Nat /\ latest \in Handle /\ latest = made + 1
      /\ subscriptions \in [Handle -> Seq(Member)] /\ subscriptions[latest] = <<>>
  BY <1>1 DEF IDelivery, Handle
<1>3. /\ subscriptions' = [subscriptions EXCEPT ![latest] = seq]
      /\ \A k \in Key : sources'[k] = IF k \in Range(request)
                                        THEN Joined(sources[k], latest, size)
                                        ELSE sources[k]
      /\ DOMAIN sources' = Key /\ sources' = [k \in Key |-> sources'[k]]
  BY <1>1
<1> HIDE DEF latest
<1>4. ASSUME NEW k \in Range(request)
      PROVE  /\ k \in Key /\ sources'[k] \in SourceType
             /\ new(k) \in Member /\ new(k).key = k
             /\ Serves(sources'[k], MembersOf(subscriptions, k) \cup {new(k)})
  <2>1. k \in Key
    BY <1>2 DEF Range
  <2>2. /\ sources[k] \in SourceType \cup {NoSource}
        /\ Serves(sources[k], MembersOf(subscriptions, k))
    BY <2>1 DEF IDelivery
  <2> DEFINE j == Joined(sources[k], latest, size)
  <2>3. sources'[k] = j
    BY <1>3, <2>1
  <2>4. /\ j \in SourceType /\ NewMember(k, j, size) \in Member
        /\ NewMember(k, j, size).key = k
        /\ Serves(j, MembersOf(subscriptions, k) \cup {NewMember(k, j, size)})
    <3> DEFINE old == sources[k]
               rest == MembersOf(subscriptions, k)
    <3>1. old \in SourceType \cup {NoSource} /\ Serves(old, rest)
      BY <2>2
    <3> HIDE DEF old, rest
    <3>2. latest \in Handle /\ size \in Nat
      BY <1>2
    <3>3. /\ Joined(old, latest, size) \in SourceType
          /\ NewMember(k, Joined(old, latest, size), size) \in Member
          /\ Serves(Joined(old, latest, size),
                    rest \cup {NewMember(k, Joined(old, latest, size), size)})
      BY ONLY <2>1, <3>1, <3>2, JoinedServes
    <3> QED
      BY <3>3 DEF old, rest, NewMember
  <2> QED
    BY <2>1, <2>3, <2>4
<1> HIDE DEF new
<1>5. seq \in Seq(Member)
  <2>1. \A i \in DOMAIN request : seq[i] \in Member
    BY <1>4 DEF Range
  <2> QED
    BY <1>2, <2>1
<1>6. /\ \A i \in DOMAIN seq : i \in DOMAIN request /\ seq[i] = new(request[i])
      /\ \A i \in DOMAIN request : i \in DOMAIN seq
  OBVIOUS
<1> HIDE DEF seq
<1>7. subscriptions' \in [Handle -> Seq(Member)]
  BY <1>2, <1>3, <1>5
<1>8. /\ subscriptions'[latest] = seq
      /\ \A h \in Handle \ {latest} : subscriptions'[h] = subscriptions[h]
  BY <1>2, <1>3
<1>9. ASSUME NEW k \in Key, NEW m
      PROVE  m \in MembersOf(subscriptions', k) <=>
                \/ m \in MembersOf(subscriptions, k)
                \/ m.key = k /\ \E i \in DOMAIN seq : m = seq[i]
  <2>1. m \in MembersOf(subscriptions, k) <=>
           m.key = k /\ \E h \in Handle : \E i \in DOMAIN subscriptions[h] :
                            m = subscriptions[h][i]
    BY <1>2, MembersAre
  <2>2. m \in MembersOf(subscriptions', k) <=>
           m.key = k /\ \E h \in Handle : \E i \in DOMAIN subscriptions'[h] :
                            m = subscriptions'[h][i]
    BY <1>7, MembersAre
  <2>3. DOMAIN subscriptions[latest] = {}
    BY <1>2
  <2>4. (\E h \in Handle : \E i \in DOMAIN subscriptions'[h] :
            m = subscriptions'[h][i])
        <=> \/ \E i \in DOMAIN seq : m = seq[i]
            \/ \E h \in Handle : \E i \in DOMAIN subscriptions[h] :
                  m = subscriptions[h][i]
    BY <1>2, <1>8, <2>3
  <2> QED
    BY <2>1, <2>2, <2>4
<1>10. ASSUME NEW k \in Key
       PROVE  Serves(sources'[k], MembersOf(subscriptions', k))
  <2>1. CASE k \in Range(request)
    <3>1. MembersOf(subscriptions', k) = MembersOf(subscriptions, k) \cup {new(k)}
      <4>1. ASSUME NEW m, m.key = k
            PROVE  (\E i \in DOMAIN seq : m = seq[i]) <=> m = new(k)
        <5>1. PICK i \in DOMAIN request : request[i] = k
          BY <2>1 DEF Range
        <5>2. \A n \in DOMAIN request : request[n] \in Range(request)
          BY DEF Range
        <5>3. \A n \in DOMAIN request : new(request[n]).key = request[n]
          BY <1>4, <5>2
        <5>4. seq[i] = new(k)
          BY <1>6, <5>1
        <5>5. ASSUME NEW n \in DOMAIN seq, m = seq[n] PROVE m = new(k)
          <6>1. m = new(request[n]) /\ request[n] = k
            BY <1>6, <4>1, <5>3, <5>5
          <6> QED
            BY <6>1
        <5> QED
          BY <1>6, <5>1, <5>4, <5>5
      <4>2. new(k).key = k
        BY <1>4, <2>1
      <4>3. ASSUME NEW m
            PROVE  m \in MembersOf(subscriptions', k) <=>
                      m \in MembersOf(subscriptions, k) \/ m = new(k)
        BY <1>9, <4>1, <4>2
      <4> QED
        BY <4>3
    <3> QED
      BY <1>4, <2>1, <3>1
  <2>2. CASE k \notin Range(request)
    <3>1. ASSUME NEW i \in DOMAIN seq PROVE seq[i].key # k
      <4>1. request[i] \in Range(request) /\ seq[i] = new(request[i])
        BY <1>6 DEF Range
      <4> QED
        BY <1>4, <2>2, <4>1
    <3>2. MembersOf(subscriptions', k) = MembersOf(subscriptions, k)
      <4>1. ASSUME NEW m
            PROVE  m \in MembersOf(subscriptions', k) <=>
                      m \in MembersOf(subscriptions, k)
        BY <1>9, <3>1
      <4> QED
        BY <4>1
    <3> QED
      BY <1>3, <2>2, <3>2 DEF IDelivery
  <2> QED
    BY <2>1, <2>2
<1>11. sources' \in [Key -> SourceType \cup {NoSource}]
  <2>1. \A k \in Key : sources'[k] \in SourceType \cup {NoSource}
    BY <1>3, <1>4 DEF IDelivery
  <2> QED
    BY <1>3, <2>1
<1>12. made' \in 0 .. MaxSubscriptions
  BY <1>1, <1>2
<1>13. \A h \in Handle : h > made' => subscriptions'[h] = <<>>
  BY <1>1, <1>2, <1>8 DEF IDelivery, Handle, latest
<1> QED
  BY <1>7, <1>10, <1>11, <1>12, <1>13 DEF IDelivery

\* Fewer subscriptions have fewer members.
LEMMA ClearedMembers ==
    ASSUME NEW subs \in [Handle -> Seq(Member)], NEW h \in Handle, NEW k
    PROVE  LET remaining == [subs EXCEPT ![h] = <<>>]
           IN  /\ remaining \in [Handle -> Seq(Member)]
               /\ MembersOf(remaining, k) \subseteq MembersOf(subs, k)
<1> DEFINE remaining == [subs EXCEPT ![h] = <<>>]
<1>1. remaining \in [Handle -> Seq(Member)]
  OBVIOUS
<1>2. /\ remaining[h] = <<>>
      /\ \A g \in Handle \ {h} : remaining[g] = subs[g]
  OBVIOUS
<1> HIDE DEF remaining
<1>3. ASSUME NEW m \in MembersOf(remaining, k) PROVE m \in MembersOf(subs, k)
  <2>1. m.key = k /\ \E g \in Handle : \E i \in DOMAIN remaining[g] : m = remaining[g][i]
    BY ONLY <1>3 DEF MembersOf, Range
  <2>2. \E g \in Handle : \E i \in DOMAIN subs[g] : m = subs[g][i]
    <3>1. DOMAIN remaining[h] = {}
      BY <1>2
    <3> QED
      BY <1>2, <2>1, <3>1
  <2> QED
    BY <2>1, <2>2, MembersAre
<1> QED
  BY <1>1, <1>3 DEF remaining

\* A source is dropped with its last member, and serves those who stay.
LEMMA UnsubscribeDelivers ==
    ASSUME NEW h \in Handle, IDelivery, Unsubscribe(h)
    PROVE  IDelivery' /\ \A k \in Key : sources'[k] # NoSource =>
                            sources'[k].next = sources[k].next
<1> DEFINE remaining == [subscriptions EXCEPT ![h] = <<>>]
           stay(k) == MembersOf(remaining, k)
           kept(k) == Acknowledged([sources[k] EXCEPT !.capacity =
                                       Max({m.capacity : m \in stay(k)})],
                                   stay(k))
<1>1. /\ subscriptions' = remaining /\ made' = made
      /\ sources' = [k \in Key |-> IF stay(k) = {} THEN NoSource ELSE kept(k)]
  BY DEF Unsubscribe
<1>2. /\ subscriptions' \in [Handle -> Seq(Member)]
      /\ \A k \in Key : stay(k) \subseteq MembersOf(subscriptions, k)
  BY <1>1, ClearedMembers DEF IDelivery
<1>3. /\ made' \in 0 .. MaxSubscriptions
      /\ \A g \in Handle : g > made' => subscriptions'[g] = <<>>
  BY <1>1 DEF IDelivery
<1>4. ASSUME NEW k \in Key, stay(k) # {}
      PROVE  /\ sources[k] \in SourceType
             /\ kept(k) \in SourceType /\ Serves(kept(k), stay(k))
             /\ kept(k).next = sources[k].next
  <2>1. Serves(sources[k], MembersOf(subscriptions, k)) /\ stay(k) \subseteq MembersOf(subscriptions, k)
    BY <1>2 DEF IDelivery
  <2> HIDE DEF stay
  <2>2. sources[k] \in SourceType
    BY <1>4, <2>1 DEF Serves
  <2> QED
    BY <1>4, <2>1, <2>2, LeavingServes
<1> HIDE DEF kept
<1>5. \A k \in Key : MembersOf(subscriptions', k) = stay(k)
  BY <1>1
<1> HIDE DEF stay, remaining
<1>6. ASSUME NEW k \in Key
      PROVE  /\ sources'[k] \in SourceType \cup {NoSource}
             /\ Serves(sources'[k], MembersOf(subscriptions', k))
             /\ sources'[k] # NoSource => sources'[k].next = sources[k].next
  <2>1. CASE stay(k) = {}
    BY <1>1, <1>5, <2>1 DEF Serves
  <2>2. CASE stay(k) # {}
    BY <1>1, <1>4, <1>5, <2>2
  <2> QED
    BY <2>1, <2>2
<1>7. sources' \in [Key -> SourceType \cup {NoSource}]
  BY <1>1, <1>6
<1> QED
  BY <1>2, <1>3, <1>6, <1>7 DEF IDelivery

\* Without subscriptions there are no sources.
LEMMA UnsubscribeAllDelivers ==
    ASSUME IDelivery, UnsubscribeAll
    PROVE  IDelivery' /\ \A k \in Key : sources'[k] = NoSource
<1>1. /\ sources' = [k \in Key |-> NoSource]
      /\ subscriptions' = [h \in Handle |-> <<>>] /\ made' = made
  BY DEF UnsubscribeAll
<1>2. subscriptions' \in [Handle -> Seq(Member)]
  BY <1>1
<1>3. ASSUME NEW k \in Key PROVE MembersOf(subscriptions', k) = {}
  <2>1. \A h \in Handle : DOMAIN subscriptions'[h] = {}
    BY <1>1
  <2> QED
    BY <1>2, <2>1, MembersAre
<1>4. /\ \A k \in Key : sources'[k] = NoSource
      /\ sources' \in [Key -> SourceType \cup {NoSource}]
  BY <1>1
<1>5. \A k \in Key : Serves(sources'[k], MembersOf(subscriptions', k))
  BY <1>3, <1>4 DEF Serves
<1>6. /\ made' \in 0 .. MaxSubscriptions
      /\ \A g \in Handle : g > made' => subscriptions'[g] = <<>>
  BY <1>1 DEF IDelivery
<1> QED
  BY <1>2, <1>4, <1>5, <1>6 DEF IDelivery

----------------------------------------------------------------------------
(* The poller.                                                             *)

\* What an epoch commits must serve the members of the source it polled.
LEMMA CommitDelivers ==
    ASSUME IDelivery, NEW s, Commits(s),
           poll.key \in Key =>
              s \in SourceType /\ Serves(s, MembersOf(subscriptions, poll.key))
    PROVE  IDelivery'
<1>1. /\ sources' = [sources EXCEPT ![poll.key] = s]
      /\ subscriptions' = subscriptions /\ made' = made
  BY DEF Commits
<1>2. sources \in [Key -> SourceType \cup {NoSource}]
  BY DEF IDelivery
<1>3. ASSUME NEW k \in Key
      PROVE  /\ sources'[k] \in SourceType \cup {NoSource}
             /\ Serves(sources'[k], MembersOf(subscriptions', k))
  <2>1. CASE k = poll.key
    BY <1>1, <1>2, <2>1
  <2>2. CASE k # poll.key
    BY <1>1, <1>2, <2>2 DEF IDelivery
  <2> QED
    BY <2>1, <2>2
<1>4. sources' \in [Key -> SourceType \cup {NoSource}]
  BY <1>1, <1>2, <1>3
<1> QED
  BY <1>1, <1>3, <1>4 DEF IDelivery

\* The source that a current epoch polled has members.
LEMMA PolledServes ==
    ASSUME IDelivery, PollIsCurrent, poll.key \in Key
    PROVE  /\ Polled \in SourceType
           /\ Serves(Polled, MembersOf(subscriptions, poll.key))
BY DEF IDelivery, PollIsCurrent, Polled, Exists

\* A failed epoch changes a status.
LEMMA PollFailsDelivers ==
    ASSUME IDelivery, PollFails
    PROVE  IDelivery' /\ PollIsCurrent /\ \E s : Commits(s)
<1>1. PICK status \in {"failed", "reconnecting"} :
         PollIsCurrent /\ Commits([Polled EXCEPT !.status = status])
  BY DEF PollFails
<1>2. status \in SourceStatus
  BY DEF SourceStatus
<1>3. ASSUME poll.key \in Key
      PROVE  /\ [Polled EXCEPT !.status = status] \in SourceType
             /\ Serves([Polled EXCEPT !.status = status],
                       MembersOf(subscriptions, poll.key))
  BY <1>1, <1>2, <1>3, PolledServes, StatusServes
<1> QED
  BY <1>1, <1>3, CommitDelivers

\* An epoch that succeeds publishes, and may observe a rewrite.
LEMMA PollSucceedsDelivers ==
    ASSUME IDelivery, PollSucceeds
    PROVE  IDelivery' /\ PollIsCurrent /\ \E s : Commits(s)
<1>1. PICK status \in {"ready", "reconnecting"}, batches \in Nat :
         /\ PollIsCurrent
         /\ \/ Commits(Published([Polled EXCEPT !.status = status], batches))
            \/ Commits(Rewritten(Published([Polled EXCEPT !.status = status], batches)))
  BY DEF PollSucceeds
<1>2. status \in SourceStatus
  BY DEF SourceStatus
<1> DEFINE result == Published([Polled EXCEPT !.status = status], batches)
           members == MembersOf(subscriptions, poll.key)
<1>3. ASSUME poll.key \in Key
      PROVE  result \in SourceType /\ Serves(result, members)
  <2>1. /\ [Polled EXCEPT !.status = status] \in SourceType
        /\ Serves([Polled EXCEPT !.status = status], members)
    BY <1>1, <1>2, <1>3, PolledServes, StatusServes
  <2> QED
    BY <2>1, PublishedServes
<1>4. ASSUME poll.key \in Key
      PROVE  Rewritten(result) \in SourceType /\ Serves(Rewritten(result), members)
  BY <1>3, <1>4, RewrittenServes
<1> HIDE DEF result, members
<1>5. CASE Commits(result)
  BY <1>1, <1>3, <1>5, CommitDelivers DEF members
<1>6. CASE Commits(Rewritten(result))
  BY <1>1, <1>4, <1>6, CommitDelivers DEF members
<1> QED
  BY <1>1, <1>5, <1>6 DEF result

\* The end of the poller fails all sources and changes nothing else.
LEMMA PollerDiesDelivers ==
    ASSUME IDelivery, PollerDies
    PROVE  IDelivery' /\ \A k \in Key : Exists(k) => sources'[k].next = sources[k].next
<1>1. /\ sources' = [k \in Key |->
            IF Exists(k) THEN [sources[k] EXCEPT !.status = "failed"] ELSE NoSource]
      /\ subscriptions' = subscriptions /\ made' = made
  BY DEF PollerDies
<1>2. ASSUME NEW k \in Key
      PROVE  /\ sources'[k] \in SourceType \cup {NoSource}
             /\ Serves(sources'[k], MembersOf(subscriptions', k))
             /\ Exists(k) => sources'[k].next = sources[k].next
  <2>1. /\ sources[k] \in SourceType \cup {NoSource}
        /\ Serves(sources[k], MembersOf(subscriptions, k))
    BY DEF IDelivery
  <2>2. CASE Exists(k)
    <3>1. sources[k] \in SourceType /\ "failed" \in SourceStatus
      BY <2>1, <2>2 DEF Exists, SourceStatus
    <3>2. sources'[k] = [sources[k] EXCEPT !.status = "failed"]
      BY <1>1, <2>2
    <3> QED
      BY <1>1, <2>1, <3>1, <3>2, StatusServes
  <2>3. CASE ~Exists(k)
    BY <1>1, <2>1, <2>3 DEF Exists
  <2> QED
    BY <2>2, <2>3
<1>3. sources' \in [Key -> SourceType \cup {NoSource}]
  BY <1>1, <1>2
<1> QED
  BY <1>1, <1>2, <1>3 DEF IDelivery

----------------------------------------------------------------------------
(* The event loop of the host.                                             *)

\* Member old of source k, at place i of subscription h, became m.
Became(subs, served, h, i, old, m, k) ==
    /\ subs \in [Handle -> Seq(Member)] /\ served \in [Handle -> Seq(Member)]
    /\ h \in Handle /\ i \in DOMAIN subs[h] /\ DOMAIN served[h] = DOMAIN subs[h]
    /\ old = subs[h][i] /\ m = served[h][i] /\ old.key = k /\ m.key = k
    /\ \A n \in DOMAIN subs[h] : n # i => served[h][n] = subs[h][n]
    /\ \A g \in Handle \ {h} : served[g] = subs[g]

\* The members of a source when one of them became another.
LEMMA ServedMembers ==
    ASSUME NEW subs, NEW served, NEW h, NEW i, NEW old, NEW m, NEW k,
           Became(subs, served, h, i, old, m, k)
    PROVE  /\ m \in MembersOf(served, k)
           /\ MembersOf(served, k) \subseteq MembersOf(subs, k) \cup {m}
           /\ MembersOf(subs, k) \ {old} \subseteq MembersOf(served, k)
           /\ \A l : l # k => MembersOf(served, l) = MembersOf(subs, l)
<1>1. /\ subs \in [Handle -> Seq(Member)] /\ h \in Handle /\ i \in DOMAIN subs[h]
      /\ old = subs[h][i] /\ old.key = k /\ m.key = k
  BY DEF Became
<1>2. \A g \in Handle \ {h} : served[g] = subs[g]
  BY DEF Became
<1>3. /\ DOMAIN served[h] = DOMAIN subs[h] /\ served[h][i] = m
      /\ \A n \in DOMAIN subs[h] : n # i => served[h][n] = subs[h][n]
  BY DEF Became
<1>4. served \in [Handle -> Seq(Member)]
  BY DEF Became
<1>5. ASSUME NEW g \in Handle, NEW n \in DOMAIN subs[g], g # h \/ n # i
      PROVE  n \in DOMAIN served[g] /\ served[g][n] = subs[g][n]
  BY <1>1, <1>2, <1>3, <1>5
<1>6. ASSUME NEW g \in Handle, NEW n \in DOMAIN served[g], g # h \/ n # i
      PROVE  n \in DOMAIN subs[g] /\ served[g][n] = subs[g][n]
  BY <1>1, <1>2, <1>3, <1>6
<1>8. m \in MembersOf(served, k)
  <2>1. m.key = k /\ \E g \in Handle : \E n \in DOMAIN served[g] : m = served[g][n]
    BY <1>1, <1>3
  <2> QED
    BY <1>4, <2>1, MembersAre
<1>9. ASSUME NEW l, NEW x \in MembersOf(served, l)
      PROVE  x \in MembersOf(subs, l) \/ (x = m /\ l = k)
  <2>0. x.key = l /\ \E g \in Handle : \E n \in DOMAIN served[g] : x = served[g][n]
    BY ONLY <1>4, <1>9, MembersAre
  <2>1. PICK g \in Handle : x.key = l /\ \E n \in DOMAIN served[g] : x = served[g][n]
    BY <2>0
  <2>2. PICK n \in DOMAIN served[g] : x = served[g][n]
    BY <2>1
  <2>3. CASE g = h /\ n = i
    BY <1>1, <1>3, <2>1, <2>2, <2>3
  <2>4. CASE g # h \/ n # i
    <3>1. n \in DOMAIN subs[g] /\ x = subs[g][n]
      BY <1>6, <2>2, <2>4
    <3> QED
      BY <1>1, <2>1, <3>1, MembersAre
  <2> QED
    BY <2>3, <2>4
<1>10. ASSUME NEW l, NEW x \in MembersOf(subs, l), x # old
       PROVE  x \in MembersOf(served, l)
  <2>1. PICK g \in Handle : x.key = l /\ \E n \in DOMAIN subs[g] : x = subs[g][n]
    BY <1>1, <1>10, MembersAre
  <2>2. PICK n \in DOMAIN subs[g] : x = subs[g][n]
    BY <2>1
  <2>3. g # h \/ n # i
    BY <1>1, <1>10, <2>2
  <2>4. n \in DOMAIN served[g] /\ x = served[g][n]
    BY <1>5, <2>2, <2>3
  <2> QED
    BY <1>4, <2>1, <2>4, MembersAre
<1>11. ASSUME NEW l, l # k
       PROVE  MembersOf(served, l) = MembersOf(subs, l)
  <2>1. ASSUME NEW x \in MembersOf(subs, l) PROVE x # old
    BY <1>1, <1>11, <2>1, MembersAre
  <2> QED
    BY <1>9, <1>10, <1>11, <2>1
<1>12. MembersOf(served, k) \subseteq MembersOf(subs, k) \cup {m}
  BY <1>9
<1>13. MembersOf(subs, k) \ {old} \subseteq MembersOf(served, k)
  BY <1>10
<1> QED
  BY <1>8, <1>11, <1>12, <1>13

\* An event takes its member forward, no further than its source.
LEMMA AfterFits ==
    ASSUME NEW m \in Member, m.key \in Key, sources[m.key] \in SourceType,
           Fits(m, sources[m.key]), Due(m) # "none"
    PROVE  /\ After(m) \in Member /\ After(m).key = m.key
           /\ Fits(After(m), sources[m.key])
           /\ Due(m) # "inconsistency" => After(m).rewrites = m.rewrites
<1> DEFINE s == sources[m.key]
<1>1. /\ s.next \in Nat /\ s.held \in Nat /\ s.status \in SourceStatus
      /\ s.rewrites \in Nat /\ s.capacity \in Nat
  BY SourceHas
<1>2. /\ m.next \in Nat /\ m.rewrites \in Nat /\ m.capacity \in Nat
      /\ m.expects \in Nat /\ m.status \in SourceStatus
  BY DEF Member
<1>3. Fits(m, s)
  OBVIOUS
<1>4. CASE Due(m) = "status"
  <2> DEFINE a == [m EXCEPT !.status = s.status]
  <2>1. After(m) = a
    BY <1>4 DEF After
  <2>2. /\ a \in Member /\ a.key = m.key /\ a.next = m.next /\ a.expects = m.expects
        /\ a.rewrites = m.rewrites /\ a.capacity = m.capacity
    BY <1>1 DEF Member
  <2> HIDE DEF a
  <2> QED
    BY <1>3, <2>1, <2>2 DEF Fits
<1>5. CASE Due(m) = "inconsistency"
  <2> DEFINE a == [m EXCEPT !.rewrites = s.rewrites]
  <2>1. After(m) = a
    BY <1>5 DEF After
  <2>2. /\ a \in Member /\ a.key = m.key /\ a.next = m.next /\ a.expects = m.expects
        /\ a.rewrites = s.rewrites /\ a.capacity = m.capacity
    BY <1>1 DEF Member
  <2> HIDE DEF a
  <2>3. a.rewrites + 1 .. s.rewrites \subseteq s.window /\ a.rewrites <= s.rewrites
    BY <1>1, <2>2
  <2> QED
    BY <1>3, <1>5, <2>1, <2>2, <2>3 DEF Fits
<1>6. CASE Due(m) = "overflow"
  <2> DEFINE oldest == s.next - s.held
             a == [m EXCEPT !.next = oldest, !.expects = m.expects + oldest - m.next]
  <2>1. After(m) = a
    BY <1>6 DEF After, Oldest
  <2>2. m.next < oldest
    BY <1>6 DEF Due, Oldest
  <2>3. oldest \in Nat /\ m.expects + oldest - m.next = oldest
    BY <1>1, <1>2, <1>3, <2>2 DEF Fits
  <2>4. /\ a \in Member /\ a.key = m.key /\ a.next = oldest /\ a.expects = oldest
        /\ a.rewrites = m.rewrites /\ a.capacity = m.capacity
    BY <2>3 DEF Member
  <2>5. oldest <= s.next /\ s.held >= s.next - oldest
    BY <1>1
  <2> HIDE DEF a, oldest
  <2> QED
    BY <1>3, <1>6, <2>1, <2>4, <2>5 DEF Fits
<1>7. CASE Due(m) \notin {"status", "inconsistency", "overflow", "none"}
  <2> DEFINE next == m.next + 1
             a == [m EXCEPT !.next = next, !.expects = next]
  <2>1. After(m) = a
    BY <1>7 DEF After
  <2>2. m.next < s.next
    BY <1>7 DEF Due
  <2>3. next \in Nat /\ next <= s.next
    BY <1>1, <1>2, <2>2
  <2>4. /\ a \in Member /\ a.key = m.key /\ a.next = next /\ a.expects = next
        /\ a.rewrites = m.rewrites /\ a.capacity = m.capacity
    BY <2>3 DEF Member
  <2>5. s.held >= m.capacity \/ s.held >= s.next - next
    BY <1>1, <1>2, <1>3, <2>2 DEF Fits
  <2> HIDE DEF a, next
  <2> QED
    BY <1>3, <1>7, <2>1, <2>3, <2>4, <2>5 DEF Fits
<1> QED
  BY <1>4, <1>5, <1>6, <1>7

\* A source whose member got an event serves the members it has after it.
LEMMA ServedServes ==
    ASSUME NEW s \in SourceType, NEW members, Serves(s, members),
           NEW m \in members, NEW a \in Member, Fits(a, s), a.rewrites = m.rewrites,
           NEW rest \in SUBSET (members \cup {a}), a \in rest,
           members \ {m} \subseteq rest
    PROVE  Serves(s, rest)
<1>1. /\ members \subseteq Member /\ \A x \in members : Fits(x, s)
      /\ s.window # {} => \E x \in members : x.rewrites < s.rewrites
  BY NoSourceIsNone DEF Serves
<1>2. rest # {} /\ rest \subseteq Member /\ \A x \in rest : Fits(x, s)
  BY <1>1
<1>3. ASSUME s.window # {} PROVE \E x \in rest : x.rewrites < s.rewrites
  <2>1. PICK x \in members : x.rewrites < s.rewrites
    BY <1>1, <1>3
  <2>2. CASE x = m
    BY <2>1, <2>2
  <2>3. CASE x # m
    BY <2>1, <2>3
  <2> QED
    BY <2>2, <2>3
<1> QED
  BY <1>2, <1>3 DEF Serves

\* What a delivery changes: one member, and the window of its source.
LEMMA DeliverChanges ==
    ASSUME Deliver
    PROVE  \E h, i :
              /\ Due(subscriptions[h][i]) # "none"
              /\ subscriptions' =
                    [subscriptions EXCEPT ![h][i] = After(subscriptions[h][i])]
              /\ sources' =
                    IF Due(subscriptions[h][i]) = "inconsistency"
                      THEN [sources EXCEPT ![subscriptions[h][i].key] =
                               Acknowledged(@, MembersOf(subscriptions',
                                                         subscriptions[h][i].key))]
                      ELSE sources
              /\ made' = made
<1>1. PICK place \in Places :
        LET h == HandleAt(place[1])
            i == IndexAt(h, place[2])
            member == subscriptions[h][i]
            served == [subscriptions EXCEPT ![h][i] = After(member)]
        IN  /\ Due(member) # "none"
            /\ subscriptions' = served
            /\ sources' =
                  IF Due(member) = "inconsistency"
                    THEN [sources EXCEPT ![member.key] =
                             Acknowledged(@, MembersOf(served, member.key))]
                    ELSE sources
            /\ made' = made
  BY Zenon DEF Deliver, IsFirstDue, DueAt
<1> QED
  BY Zenon, <1>1

\* An event moves its member, and the window goes with the last one told.
LEMMA DeliverDelivers ==
    ASSUME IDelivery, Deliver
    PROVE  IDelivery' /\ \A k \in Key : Exists(k) => sources'[k].next = sources[k].next
<1>1. PICK h, i :
         /\ Due(subscriptions[h][i]) # "none"
         /\ subscriptions' =
               [subscriptions EXCEPT ![h][i] = After(subscriptions[h][i])]
         /\ sources' =
               IF Due(subscriptions[h][i]) = "inconsistency"
                 THEN [sources EXCEPT ![subscriptions[h][i].key] =
                          Acknowledged(@, MembersOf(subscriptions',
                                                    subscriptions[h][i].key))]
                 ELSE sources
         /\ made' = made
  BY DeliverChanges
<1> DEFINE m == subscriptions[h][i]
           k == m.key
           a == After(m)
<1>2. /\ subscriptions \in [Handle -> Seq(Member)]
      /\ sources \in [Key -> SourceType \cup {NoSource}]
      /\ \A g \in Handle : g > made => subscriptions[g] = <<>>
      /\ \A l \in Key : Serves(sources[l], MembersOf(subscriptions, l))
      /\ made \in 0 .. MaxSubscriptions
  BY DEF IDelivery
<1>3. Due(m) # "none" /\ made' = made
  BY Zenon, <1>1
<1>4. subscriptions' = [subscriptions EXCEPT ![h][i] = a]
  BY Zenon, <1>1
<1>5. sources' = IF Due(m) = "inconsistency"
                   THEN [sources EXCEPT ![k] = Acknowledged(@, MembersOf(subscriptions', k))]
                   ELSE sources
  BY Zenon, <1>1
<1>6. CASE h \in Handle /\ i \in DOMAIN subscriptions[h]
  <2>1. m \in Member /\ k \in Key
    <3>1. m \in Member
      BY <1>2, <1>6
    <3>2. \A x \in Member : x.key \in Key
      BY DEF Member
    <3> QED
      BY <3>1, <3>2
  <2>2. m \in MembersOf(subscriptions, k)
    BY <1>2, <1>6, MembersAre
  <2>3. Serves(sources[k], MembersOf(subscriptions, k))
    BY <1>2, <2>1
  <2>4. sources[k] \in SourceType /\ Fits(m, sources[k])
    BY <2>2, <2>3 DEF Serves
  <2>5. /\ a \in Member /\ a.key = k /\ Fits(a, sources[k])
        /\ Due(m) # "inconsistency" => a.rewrites = m.rewrites
    BY <1>3, <2>1, <2>4, AfterFits
  <2>6. /\ subscriptions' \in [Handle -> Seq(Member)]
        /\ \A g \in Handle : subscriptions[g] = <<>> => subscriptions'[g] = <<>>
        /\ a \in MembersOf(subscriptions', k)
        /\ MembersOf(subscriptions', k) \subseteq MembersOf(subscriptions, k) \cup {a}
        /\ MembersOf(subscriptions, k) \ {m} \subseteq MembersOf(subscriptions', k)
        /\ \A l : l # k => MembersOf(subscriptions', l) = MembersOf(subscriptions, l)
    <3> DEFINE served == [subscriptions[h] EXCEPT ![i] = a]
    <3>1. /\ subscriptions' = [subscriptions EXCEPT ![h] = served]
          /\ subscriptions[h] \in Seq(Member)
      BY <1>2, <1>4, <1>6
    <3>2. /\ served \in Seq(Member) /\ DOMAIN served = DOMAIN subscriptions[h]
          /\ served[i] = a
          /\ \A n \in DOMAIN subscriptions[h] : n # i => served[n] = subscriptions[h][n]
      BY <1>6, <2>5, <3>1
    <3> HIDE DEF served, a
    <3>3. /\ subscriptions' \in [Handle -> Seq(Member)] /\ subscriptions'[h] = served
          /\ \A g \in Handle \ {h} : subscriptions'[g] = subscriptions[g]
      BY <1>2, <1>6, <3>1, <3>2
    <3>4. /\ a \in Member /\ a.key = k /\ m.key = k /\ m = subscriptions[h][i]
      BY <2>5
    <3> HIDE DEF m, k
    <3>5. \A g \in Handle : subscriptions[g] = <<>> => subscriptions'[g] = <<>>
      <4>1. subscriptions[h] # <<>>
        BY <1>6
      <4> QED
        BY <3>3, <4>1
    <3>6. h \in Handle /\ i \in DOMAIN subscriptions[h] /\ DOMAIN subscriptions'[h] = DOMAIN subscriptions[h]
      BY <1>6, <3>2, <3>3
    <3>7. /\ subscriptions'[h][i] = a
          /\ \A n \in DOMAIN subscriptions[h] : n # i => subscriptions'[h][n] = subscriptions[h][n]
      BY <3>2, <3>3
    <3>8. /\ a \in MembersOf(subscriptions', k)
          /\ MembersOf(subscriptions', k) \subseteq MembersOf(subscriptions, k) \cup {a}
          /\ MembersOf(subscriptions, k) \ {m} \subseteq MembersOf(subscriptions', k)
          /\ \A l : l # k => MembersOf(subscriptions', l) = MembersOf(subscriptions, l)
      <4>1. Became(subscriptions, subscriptions', h, i, m, a, k)
        BY <1>2, <3>3, <3>4, <3>6, <3>7 DEF Became
      <4> QED
        BY <4>1, ServedMembers
    <3> QED
      BY <3>3, <3>5, <3>8
  <2>7. CASE Due(m) = "inconsistency"
    <3> DEFINE s == Acknowledged(sources[k], MembersOf(subscriptions', k))
    <3>1. sources' = [sources EXCEPT ![k] = s]
      BY <1>5, <2>7
    <3>2. s \in SourceType /\ s.next = sources[k].next
      BY <2>4 DEF Acknowledged, SourceType
    <3>3. Serves(s, MembersOf(subscriptions', k))
      <4>1. /\ MembersOf(subscriptions, k) \subseteq Member
            /\ \A x \in MembersOf(subscriptions, k) : Fits(x, sources[k])
        BY <2>2, <2>3 DEF Serves
      <4>2. /\ MembersOf(subscriptions', k) # {}
            /\ MembersOf(subscriptions', k) \subseteq Member
            /\ \A x \in MembersOf(subscriptions', k) : Fits(x, sources[k])
        BY <2>5, <2>6, <4>1
      <4> QED
        BY <2>4, <4>2, AcknowledgedServes
    <3> HIDE DEF s
    <3>4. sources'[k] = s /\ \A l \in Key \ {k} : sources'[l] = sources[l]
      BY <1>2, <2>1, <3>1
    <3>5. sources' \in [Key -> SourceType \cup {NoSource}]
      BY <1>2, <3>1, <3>2
    <3>6. \A l \in Key : Serves(sources'[l], MembersOf(subscriptions', l))
      BY <1>2, <2>6, <3>3, <3>4
    <3> QED
      BY <1>2, <1>3, <2>6, <3>2, <3>4, <3>5, <3>6 DEF IDelivery
  <2>8. CASE Due(m) # "inconsistency"
    <3>1. sources' = sources
      BY <1>5, <2>8
    <3>2. Serves(sources[k], MembersOf(subscriptions', k))
      BY <2>2, <2>3, <2>4, <2>5, <2>6, <2>8, ServedServes
    <3>3. \A l \in Key : Serves(sources'[l], MembersOf(subscriptions', l))
      BY <1>2, <2>6, <3>1, <3>2
    <3> QED
      BY <1>2, <1>3, <2>6, <3>1, <3>3 DEF IDelivery
  <2> QED
    BY <2>7, <2>8
<1>7. CASE ~(h \in Handle /\ i \in DOMAIN subscriptions[h])
  <2>1. subscriptions' = subscriptions
    BY <1>2, <1>4, <1>7
  <2>2. CASE k \in Key /\ sources[k] \in SourceType /\ Due(m) = "inconsistency"
    <3> DEFINE s == Acknowledged(sources[k], MembersOf(subscriptions, k))
    <3>1. sources' = [sources EXCEPT ![k] = s]
      BY <1>5, <2>1, <2>2
    <3>2. s \in SourceType /\ s.next = sources[k].next
      BY <2>2 DEF Acknowledged, SourceType
    <3>3. Serves(s, MembersOf(subscriptions, k))
      <4>1. Serves(sources[k], MembersOf(subscriptions, k))
        BY <1>2, <2>2
      <4>2. /\ MembersOf(subscriptions, k) # {}
            /\ MembersOf(subscriptions, k) \subseteq Member
            /\ \A x \in MembersOf(subscriptions, k) : Fits(x, sources[k])
        BY <2>2, <4>1, NoSourceIsNone DEF Serves
      <4> QED
        BY <2>2, <4>2, AcknowledgedServes
    <3> HIDE DEF s
    <3>4. sources'[k] = s /\ \A l \in Key \ {k} : sources'[l] = sources[l]
      BY <1>2, <2>2, <3>1
    <3>5. sources' \in [Key -> SourceType \cup {NoSource}]
      BY <1>2, <3>1, <3>2
    <3>6. \A l \in Key : Serves(sources'[l], MembersOf(subscriptions', l))
      BY <1>2, <2>1, <3>3, <3>4
    <3> QED
      BY <1>2, <1>3, <2>1, <3>2, <3>4, <3>5, <3>6 DEF IDelivery
  <2>3. CASE ~(k \in Key /\ sources[k] \in SourceType /\ Due(m) = "inconsistency")
    <3>1. sources' = sources
      <4>1. CASE Due(m) # "inconsistency"
        BY <1>5, <4>1
      <4>2. CASE Due(m) = "inconsistency" /\ k \notin Key
        BY <1>2, <1>5, <4>2
      <4>3. CASE Due(m) = "inconsistency" /\ k \in Key /\ sources[k] = NoSource
        <5>1. MembersOf(subscriptions, k) = {}
          BY <1>2, <4>3, NoSourceIsNone DEF Serves
        <5>2. Acknowledged(NoSource, {}) = NoSource
          BY DEF Acknowledged, NoSource
        <5>3. sources' = [sources EXCEPT ![k] = NoSource]
          BY <1>5, <2>1, <4>3, <5>1, <5>2
        <5> QED
          BY <1>2, <4>3, <5>3
      <4> QED
        BY <1>2, <2>3, <4>1, <4>2, <4>3
    <3> QED
      BY <1>2, <1>3, <2>1, <3>1 DEF IDelivery
  <2> QED
    BY <2>2, <2>3
<1> QED
  BY <1>6, <1>7

----------------------------------------------------------------------------
(* The invariant and what follows from it.                                 *)

\* Every step keeps it.
LEMMA NextDelivers == IDelivery /\ [Next]_vars => IDelivery'
<1> SUFFICES ASSUME IDelivery, [Next]_vars PROVE IDelivery'
  OBVIOUS
<1>1. CASE Subscribe
  BY <1>1, SubscribeDelivers
<1>2. CASE UnsubscribeAll
  BY <1>2, UnsubscribeAllDelivers
<1>3. ASSUME NEW h \in Handle, Unsubscribe(h) PROVE IDelivery'
  BY <1>3, UnsubscribeDelivers
<1>4. ASSUME NEW k \in Key, PollBegins(k) PROVE IDelivery'
  BY <1>4 DEF PollBegins, IDelivery
<1>5. CASE PollIsDiscarded
  BY <1>5 DEF PollIsDiscarded, IDelivery
<1>6. CASE PollFails
  BY <1>6, PollFailsDelivers
<1>7. CASE PollerDies
  BY <1>7, PollerDiesDelivers
<1>8. CASE PollSucceeds
  BY <1>8, PollSucceedsDelivers
<1>9. CASE Deliver
  BY <1>9, DeliverDelivers
<1>10. CASE UNCHANGED vars
  BY <1>10 DEF vars, IDelivery
<1> QED
  BY <1>1, <1>2, <1>3, <1>4, <1>5, <1>6, <1>7, <1>8, <1>9, <1>10 DEF Next

\* Every source serves all its members, in every reachable state.
THEOREM DeliveryInductive == Spec => []IDelivery
BY InitDelivers, NextDelivers, PTL DEF Spec

\* A member is told of every batch it loses, and loses one only when it is
\* behind by more than the capacity it asked for: whoever joins its source,
\* leaves it or shares its ring (mt5bridge_subscribe_ticks to
\* mt5bridge_process_events).
THEOREM LossIsToldAndOwn == Spec => []LossIsOwnAndReported
<1>1. IDelivery => LossIsOwnAndReported
  <2> SUFFICES ASSUME IDelivery,
                      NEW h \in Handle, NEW i \in DOMAIN subscriptions[h]
               PROVE  LET m == subscriptions[h][i]
                          s == sources[m.key]
                      IN  /\ m.expects = m.next
                          /\ m.next < Oldest(s) => s.next - m.next > m.capacity
    BY DEF LossIsOwnAndReported, LossIsReported, OwnCapacityIsKept, EveryMember
  <2>1. PICK m : m = subscriptions[h][i]
    OBVIOUS
  <2>2. m \in Member
    BY <2>1 DEF IDelivery
  <2>3. m.key \in Key /\ m.next \in Nat /\ m.capacity \in Nat
    BY <2>2 DEF Member
  <2>4. m \in MembersOf(subscriptions, m.key)
    BY <2>1, MembersAre DEF IDelivery
  <2>5. Serves(sources[m.key], MembersOf(subscriptions, m.key))
    BY <2>3 DEF IDelivery
  <2>6. PICK s : s = sources[m.key]
    OBVIOUS
  <2>7. s \in SourceType /\ Fits(m, s)
    BY <2>4, <2>5, <2>6 DEF Serves
  <2>8. s.next \in Nat /\ s.held \in Nat
    BY <2>7, SourceHas
  <2>9. m.expects = m.next /\ (m.next < Oldest(s) => s.next - m.next > m.capacity)
    BY <2>3, <2>7, <2>8 DEF Fits, Oldest
  <2> QED
    BY <2>1, <2>6, <2>9
<1> QED
  BY <1>1, DeliveryInductive, PTL

\* The recovery window of a source covers all that any of its members has yet
\* to hear of, and is dropped with the last one told or gone
\* (maybe_clear_source_inconsistency).
THEOREM WindowIsForTheUntold == Spec => []WindowCoversTheUntold
<1>1. IDelivery => WindowCoversTheUntold
  <2> SUFFICES ASSUME IDelivery, NEW k \in Key, Exists(k)
               PROVE  /\ \A m \in MembersOf(subscriptions, k) :
                            m.rewrites + 1 .. sources[k].rewrites \subseteq sources[k].window
                      /\ sources[k].window # {} =>
                            \E m \in MembersOf(subscriptions, k) :
                               m.rewrites < sources[k].rewrites
    BY DEF WindowCoversTheUntold
  <2>1. Serves(sources[k], MembersOf(subscriptions, k)) /\ sources[k] # NoSource
    BY DEF IDelivery, Exists
  <2> QED
    BY <2>1 DEF Serves, Fits
<1> QED
  BY <1>1, DeliveryInductive, PTL

\* What an epoch publishes goes to the source it polled, never to one that a
\* later subscription made under the same key (realtime_poller).
THEOREM EpochsNeverStray == Spec => EpochsStayWithTheirSource
<1>1. ASSUME IDelivery, [Next]_vars,
             NEW k \in Key, Exists(k), sources'[k] # NoSource,
             sources'[k].next # sources[k].next
      PROVE  sources[k].born = poll.born
  <2>1. sources[k] \in SourceType
    BY <1>1 DEF IDelivery, Exists
  <2>2. ASSUME NEW s, PollIsCurrent, Commits(s) PROVE sources[k].born = poll.born
    <3>1. sources' = [sources EXCEPT ![poll.key] = s]
      BY <2>2 DEF Commits
    <3>2. sources \in [Key -> SourceType \cup {NoSource}]
      BY <1>1 DEF IDelivery
    <3>3. k = poll.key
      BY <1>1, <3>1, <3>2
    <3> QED
      BY <2>2, <3>3 DEF PollIsCurrent, Polled
  <2>3. ~Subscribe
    <3> SUFFICES ASSUME Subscribe PROVE FALSE
      OBVIOUS
    <3>1. PICK request \in Requests, size \in Capacities :
             sources' = [l \in Key |->
                IF l \in Range(request) THEN Joined(sources[l], made + 1, size)
                ELSE sources[l]]
      BY DEF Subscribe
    <3>2. sources'[k] = sources[k] \/ sources'[k] = Joined(sources[k], made + 1, size)
      BY <3>1
    <3>3. Joined(sources[k], made + 1, size).next = sources[k].next
      BY <1>1, <2>1 DEF Joined, Exists, SourceType
    <3> QED
      BY <1>1, <3>2, <3>3
  <2>4. ~UnsubscribeAll
    BY <1>1, UnsubscribeAllDelivers
  <2>5. \A h \in Handle : ~Unsubscribe(h)
    BY <1>1, UnsubscribeDelivers
  <2>6. ~PollerDies
    BY <1>1, PollerDiesDelivers
  <2>7. ~Deliver
    BY <1>1, DeliverDelivers
  <2>8. ~PollIsDiscarded /\ ~UNCHANGED vars /\ \A l \in Key : ~PollBegins(l)
    BY <1>1 DEF PollIsDiscarded, PollBegins, vars
  <2>9. CASE PollFails
    BY <1>1, <2>2, <2>9, PollFailsDelivers
  <2>10. CASE PollSucceeds
    BY <1>1, <2>2, <2>10, PollSucceedsDelivers
  <2> QED
    BY <1>1, <2>3, <2>4, <2>5, <2>6, <2>7, <2>8, <2>9, <2>10 DEF Next
<1>2. IDelivery /\ [Next]_vars =>
        [\A k \in Key : Exists(k) /\ sources'[k] # NoSource
            /\ sources'[k].next # sources[k].next
          => sources[k].born = poll.born]_vars
  BY <1>1
<1> QED
  BY <1>2, DeliveryInductive, PTL DEF Spec, EpochsStayWithTheirSource

----------------------------------------------------------------------------
(* The scan.                                                               *)

\* How far x lies ahead of c in a circle of n.
Ahead(x, c, n) == IF x >= c THEN x - c ELSE x + n - c

\* The turns of others before the one of member i of l, in the subscription at
\* place p of n, when the scan starts at c and r.
Turns(i, p, c, r, l, n) == Ahead(i - 1, c, l) * n + Ahead(p - 1, r, n)

\* The order holds each subscription once, and the cursors lie within what they
\* go around.
IOrder ==
    /\ order \in Seq(Handle) /\ Len(order) <= made
    /\ \A p, q \in 1 .. Len(order) : order[p] = order[q] => p = q
    /\ \A h \in Handle : subscriptions[h] # <<>> <=> \E p \in 1 .. Len(order) : order[p] = h
    /\ rr \in Nat /\ (rr < Len(order) \/ rr = 0)
    /\ memberCursor \in [Handle -> Nat]
    /\ \A h \in Handle : memberCursor[h] < Len(subscriptions[h]) \/ memberCursor[h] = 0

\* The watched member has been passed as often as its turns allow.
IWatch ==
    /\ watched \in Handle \X (Nat \ {0}) /\ passed \in Nat
    /\ watched[2] \notin DOMAIN subscriptions[watched[1]] => passed = 0
    /\ LET subs == subscriptions[watched[1]]
       IN  \A p \in 1 .. Len(order) :
              order[p] = watched[1] /\ watched[2] \in DOMAIN subs =>
                 passed + Turns(watched[2], p, memberCursor[watched[1]], rr, Len(subs), Len(order))
                    < Len(subs) * Len(order)

IScan == IDelivery /\ IOrder /\ IWatch

----------------------------------------------------------------------------
(* Going around. *)

\* A product of numbers is one.
LEMMA Product ==
    ASSUME NEW a \in Nat, NEW b \in Nat
    PROVE  a * b \in Nat
OBVIOUS

\* A sum in a circle.
LEMMA Around ==
    ASSUME NEW n \in Nat \ {0}, NEW x \in Nat, x < n + n
    PROVE  (x % n) = IF x < n THEN x ELSE x - n
<1> DEFINE q == x \div n
           m == (x % n)
<1>1. q \in Int /\ m \in 0 .. n - 1 /\ x = n * q + m
  OBVIOUS
<1> HIDE DEF q, m
<1>2. n * q = q * n
  BY <1>1
<1>3. CASE q <= -1
  <2>1. PICK k \in Nat : q = -1 - k
    BY <1>1, <1>3, -1 - q \in Nat
  <2>2. n * q = - n - n * k /\ n * k \in Nat
    BY <2>1, Product
  <2> QED
    BY <1>1, <2>2
<1>4. CASE q = 0
  BY <1>1, <1>4 DEF m
<1>5. CASE q = 1
  BY <1>1, <1>5 DEF m
<1>6. CASE q >= 2
  <2>1. PICK k \in Nat : q = 2 + k
    BY <1>1, <1>6, q - 2 \in Nat
  <2>2. n * q = n + n + n * k /\ n * k \in Nat
    BY <2>1, Product
  <2> QED
    BY <1>1, <2>2
<1> QED
  BY <1>1, <1>3, <1>4, <1>5, <1>6

\* What going around says of a place, seen from where the scan starts.
Circle(x, c, n) ==
    LET a == Ahead(x, c, n)
    IN  /\ a \in 0 .. n - 1 /\ (c + a) % n = x
        /\ \A o \in 0 .. n - 1 :
              /\ (c + o) % n \in 0 .. n - 1
              /\ (c + o) % n = x <=> o = a
              /\ (c + o + 1) % n \in 0 .. n - 1
              /\ (c + o + 1) % n = (((c + o) % n) + 1) % n
              /\ o = a => Ahead(x, (c + o + 1) % n, n) = n - 1
              /\ o < a => Ahead(x, (c + o + 1) % n, n) = a - o - 1

\* The place that lies o ahead, and how far a place is after the scan passed o.
LEMMA AheadIs ==
    ASSUME NEW n \in Nat \ {0}, NEW c \in 0 .. n - 1, NEW x \in 0 .. n - 1
    PROVE  Circle(x, c, n)
<1> DEFINE a == Ahead(x, c, n)
<1>1. a \in 0 .. n - 1
  BY DEF Ahead
<1>2. \A y \in Nat : y < n + n => y % n = IF y < n THEN y ELSE y - n
  BY Around
<1>3. (c + a) % n = x
  <2>1. c + a \in Nat /\ c + a < n + n
    BY <1>1
  <2> HIDE DEF a
  <2>2. (c + a) % n = IF c + a < n THEN c + a ELSE c + a - n
    BY <1>1, <1>2, <2>1
  <2> QED
    BY <2>2 DEF a, Ahead
<1>4. ASSUME NEW o \in 0 .. n - 1
      PROVE  /\ (c + o) % n \in 0 .. n - 1
             /\ (c + o) % n = x <=> o = a
             /\ (c + o + 1) % n \in 0 .. n - 1
             /\ (c + o + 1) % n = (((c + o) % n) + 1) % n
             /\ o = a => Ahead(x, (c + o + 1) % n, n) = n - 1
             /\ o < a => Ahead(x, (c + o + 1) % n, n) = a - o - 1
  <2> DEFINE y == (c + o) % n
             z == (c + o + 1) % n
             v == (y + 1) % n
  <2>1. y = IF c + o < n THEN c + o ELSE c + o - n
    BY <1>2
  <2>2. z = IF c + o + 1 < n THEN c + o + 1 ELSE c + o + 1 - n
    BY <1>2
  <2>3. v = IF y + 1 < n THEN y + 1 ELSE y + 1 - n
    <3>1. y + 1 \in Nat /\ y + 1 < n + n
      BY <2>1
    <3> QED
      BY <1>2, <3>1
  <2> HIDE DEF y, z, v
  <2>4. y \in 0 .. n - 1 /\ (y = x <=> o = a)
    BY <2>1 DEF Ahead
  <2>5. z \in 0 .. n - 1 /\ z = v
    BY <2>1, <2>2, <2>3
  <2>6. /\ o = a => Ahead(x, z, n) = n - 1
        /\ o < a => Ahead(x, z, n) = a - o - 1
    BY <1>1, <2>2 DEF Ahead
  <2> QED
    BY <2>4, <2>5, <2>6 DEF y, z, v
<1> QED
  BY <1>1, <1>3, <1>4 DEF Circle

\* Fewer turns than the members of a subscription in each round of them all.
LEMMA TurnsFit ==
    ASSUME NEW n \in Nat, NEW l \in Nat, NEW d \in Nat, NEW x \in Nat, d < l, x < n
    PROVE  d * n + x < l * n
<1>1. PICK k \in Nat : l = d + 1 + k
  BY l - d - 1 \in Nat
<1>2. l * n = d * n + n + k * n
  BY <1>1
<1>3. k * n \in Nat /\ d * n \in Nat
  BY Product
<1> QED
  BY <1>2, <1>3

\* The turns before a member are fewer than a whole round.
LEMMA TurnsInARound ==
    ASSUME NEW n \in Nat, NEW l \in Nat, NEW c \in Nat, NEW r \in Nat,
           c < l \/ c = 0, r < n \/ r = 0, NEW i \in 1 .. l, NEW p \in 1 .. n
    PROVE  /\ Ahead(i - 1, c, l) \in 0 .. l - 1
           /\ Ahead(p - 1, r, n) \in 0 .. n - 1
           /\ Ahead(i - 1, c, l) * n \in Nat
           /\ Ahead(i - 1, c, l) * n + Ahead(p - 1, r, n) < l * n
<1>1. Ahead(i - 1, c, l) \in 0 .. l - 1 /\ Ahead(p - 1, r, n) \in 0 .. n - 1
  BY DEF Ahead
<1>2. Ahead(i - 1, c, l) * n \in Nat
  BY <1>1, Product
<1> QED
  BY <1>1, <1>2, TurnsFit

\* One more subscription, at the end of the order, makes the rounds longer.
LEMMA TurnsGrow ==
    ASSUME NEW n \in Nat, NEW l \in Nat, NEW d \in 0 .. l - 1, NEW x \in Nat,
           NEW y \in Nat, y <= x + 1, NEW q \in Nat, q + d * n + x < l * n
    PROVE  q + d * (n + 1) + y < l * (n + 1)
<1>1. d * (n + 1) = d * n + d /\ l * (n + 1) = l * n + l
  OBVIOUS
<1>2. d * n \in Nat /\ l * n \in Nat
  BY Product
<1> QED
  BY <1>1, <1>2

\* One round less before it.
LEMMA TurnsFall ==
    ASSUME NEW n \in Nat, NEW d \in Nat, NEW j \in Nat, j < d
    PROVE  (d - j - 1) * n + n <= d * n /\ (d - j - 1) * n \in Nat
<1>1. PICK k \in Nat : k = d - j - 1
  BY d - j - 1 \in Nat
<1>2. d = k + 1 + j
  BY <1>1
<1>3. d * n = k * n + n + j * n
  BY <1>2
<1>4. k * n \in Nat /\ j * n \in Nat
  BY Product
<1> QED
  BY <1>1, <1>3, <1>4

----------------------------------------------------------------------------
(* The steps that do not deliver. *)

\* Every subscription has members, its handle is one of those made.
LEMMA OrderTells ==
    ASSUME IDelivery, IOrder
    PROVE  /\ order \in [1 .. Len(order) -> Handle] /\ Len(order) \in Nat
           /\ \A h \in Handle : /\ subscriptions[h] \in Seq(Member)
                               /\ DOMAIN subscriptions[h] = 1 .. Len(subscriptions[h])
                               /\ Len(subscriptions[h]) \in Nat
                               /\ subscriptions[h] # <<>> <=> Len(subscriptions[h]) # 0
           /\ \A p \in 1 .. Len(order) : Len(subscriptions[order[p]]) # 0
<1>1. order \in [1 .. Len(order) -> Handle] /\ Len(order) \in Nat
  BY LenProperties DEF IOrder
<1>2. ASSUME NEW h \in Handle
      PROVE  /\ subscriptions[h] \in Seq(Member)
             /\ DOMAIN subscriptions[h] = 1 .. Len(subscriptions[h])
             /\ Len(subscriptions[h]) \in Nat
             /\ subscriptions[h] # <<>> <=> Len(subscriptions[h]) # 0
  <2>1. subscriptions[h] \in Seq(Member)
    BY DEF IDelivery
  <2> QED
    BY <2>1, EmptySeq, LenProperties
<1>3. ASSUME NEW p \in 1 .. Len(order)
      PROVE  Len(subscriptions[order[p]]) # 0
  <2>1. order[p] \in Handle
    BY <1>1
  <2>2. subscriptions[order[p]] # <<>>
    BY <2>1 DEF IOrder
  <2> QED
    BY <1>2, <2>1, <2>2
<1> QED
  BY <1>1, <1>2, <1>3

\* At the start nothing was passed, and there is nothing to go around.
LEMMA InitScan == Init => IOrder /\ IWatch
<1> SUFFICES ASSUME Init PROVE IOrder /\ IWatch
  OBVIOUS
<1>1. order = <<>> /\ Len(order) = 0 /\ order \in Seq(Handle) /\ made = 0 /\ rr = 0 /\ passed = 0
  BY EmptySeq DEF Init
<1>2. \A h \in Handle : subscriptions[h] = <<>> /\ memberCursor[h] = 0
  BY DEF Init
<1>3. memberCursor \in [Handle -> Nat]
  BY DEF Init
<1>4. watched \in Handle \X (Nat \ {0})
  <2>1. PICK request \in Requests : watched[2] \in DOMAIN request
    BY DEF Init
  <2>2. request \in Seq(Key)
    BY DeliveryAssumption
  <2>3. DOMAIN request \subseteq Nat \ {0}
    BY <2>2, LenProperties
  <2>4. watched \in Handle \X UNION {DOMAIN r : r \in Requests}
    BY DEF Init
  <2> QED
    BY <2>1, <2>3, <2>4
<1>5. IOrder
  BY <1>1, <1>2, <1>3 DEF IOrder
<1>6. IWatch
  BY <1>1, <1>2, <1>4 DEF IWatch
<1> QED
  BY <1>5, <1>6

\* A step that starts the count again.
LEMMA WatchRestarts ==
    ASSUME IDelivery', IOrder', passed' = 0, watched' \in Handle \X (Nat \ {0})
    PROVE  IWatch'
<1> DEFINE subs == subscriptions'
           h == watched'[1]
           i == watched'[2]
           n == Len(order')
           l == Len(subs[h])
<1>1. h \in Handle /\ i \in Nat \ {0} /\ order' \in Seq(Handle) /\ n \in Nat
  BY LenProperties DEF IOrder
<1>2. subs[h] \in Seq(Member) /\ DOMAIN subs[h] = 1 .. l /\ l \in Nat
  <2>1. subs[h] \in Seq(Member)
    BY <1>1 DEF IDelivery
  <2> QED
    BY <2>1, LenProperties
<1>3. /\ memberCursor'[h] \in Nat /\ (memberCursor'[h] < l \/ memberCursor'[h] = 0)
      /\ rr' \in Nat /\ (rr' < n \/ rr' = 0)
  BY <1>1 DEF IOrder
<1>4. ASSUME NEW p \in 1 .. n, i \in DOMAIN subs[h]
      PROVE  passed' + Turns(i, p, memberCursor'[h], rr', l, n) < l * n
  <2>1. i \in 1 .. l
    BY <1>2, <1>4
  <2> HIDE DEF l, n, h, i
  <2>2. /\ Ahead(i - 1, memberCursor'[h], l) * n \in Nat
        /\ Ahead(p - 1, rr', n) \in 0 .. n - 1
        /\ Ahead(i - 1, memberCursor'[h], l) * n + Ahead(p - 1, rr', n) < l * n
    BY <1>1, <1>2, <1>3, <1>4, <2>1, TurnsInARound
  <2> QED
    BY <2>2 DEF Turns
<1> QED
  BY <1>4 DEF IWatch

\* A step that moves no member and no cursor.
LEMMA ScanStays ==
    ASSUME IOrder, IWatch,
           UNCHANGED <<subscriptions, order, rr, memberCursor, made, watched, passed>>
    PROVE  IOrder' /\ IWatch'
BY DEF IOrder, IWatch

\* A new subscription takes the last place in the order, with its cursor at 0.
LEMMA SubscribeScans ==
    ASSUME IDelivery, IOrder, IWatch, Subscribe
    PROVE  IOrder' /\ IWatch'
<1> DEFINE handle == made + 1
           n == Len(order)
<1>0. IDelivery'
  BY SubscribeDelivers
<1>1. PICK members : \E request \in Requests :
        /\ made < MaxSubscriptions /\ made' = handle
        /\ subscriptions' = [subscriptions EXCEPT ![handle] = members]
        /\ DOMAIN members = DOMAIN request
        /\ order' = Append(order, handle)
        /\ UNCHANGED <<rr, memberCursor, watched, passed>>
  <2>1. PICK request \in Requests, capacity \in Capacities :
          LET joined == [k \in Key |->
                          IF k \in Range(request)
                            THEN Joined(sources[k], handle, capacity)
                            ELSE sources[k]]
          IN  /\ made < MaxSubscriptions /\ made' = handle
              /\ subscriptions' =
                   [subscriptions EXCEPT ![handle] =
                      [i \in DOMAIN request |->
                          NewMember(request[i], joined[request[i]], capacity)]]
              /\ order' = Append(order, handle)
              /\ UNCHANGED <<rr, memberCursor, watched, passed>>
    BY DEF Subscribe
  <2> QED
    BY <2>1
<1>2. /\ handle \in Handle /\ made \in Nat /\ handle > made
      /\ subscriptions \in [Handle -> Seq(Member)]
      /\ \A h \in Handle : h > made => subscriptions[h] = <<>>
  BY <1>1, DeliveryAssumption DEF IDelivery, Handle
<1>3. subscriptions[handle] = <<>>
  BY <1>2
<1>4. /\ subscriptions'[handle] = members
      /\ \A h \in Handle : h # handle => subscriptions'[h] = subscriptions[h]
  BY <1>1, <1>2
<1>5. members \in Seq(Member) /\ Len(members) # 0 /\ members # <<>>
  <2>1. members \in Seq(Member)
    BY <1>0, <1>2, <1>4 DEF IDelivery
  <2>2. PICK request \in Requests : DOMAIN members = DOMAIN request
    BY <1>1
  <2>3. request \in Seq(Key) /\ request # <<>>
    BY DeliveryAssumption
  <2>4. Len(request) \in Nat \ {0} /\ DOMAIN request = 1 .. Len(request)
    BY <2>3, EmptySeq, LenProperties
  <2>5. DOMAIN members = 1 .. Len(members) /\ Len(members) \in Nat
    BY <2>1, LenProperties
  <2>6. Len(members) # 0
    BY <2>2, <2>4, <2>5
  <2> QED
    BY <2>1, <2>6, EmptySeq
<1>6. /\ order' \in Seq(Handle) /\ Len(order') = n + 1 /\ n \in Nat
      /\ \A p \in 1 .. n : order'[p] = order[p]
      /\ order'[n + 1] = handle
  BY <1>1, <1>2, AppendProperties, LenProperties DEF IOrder
<1>7. \A p \in 1 .. n : order[p] \in Handle /\ order[p] # handle
  BY <1>2, <1>3, OrderTells, EmptySeq DEF IOrder
<1>8. IOrder'
  <2>1. Len(order') <= made'
    BY <1>1, <1>2, <1>6 DEF IOrder
  <2>2. \A p, q \in 1 .. Len(order') : order'[p] = order'[q] => p = q
    <3>1. ASSUME NEW p \in 1 .. n + 1, NEW q \in 1 .. n + 1, order'[p] = order'[q]
          PROVE  p = q
      <4>1. CASE p \in 1 .. n /\ q \in 1 .. n
        BY <1>6, <3>1, <4>1 DEF IOrder
      <4>2. CASE p = n + 1 /\ q \in 1 .. n
        BY <1>6, <1>7, <3>1, <4>2
      <4>3. CASE p \in 1 .. n /\ q = n + 1
        BY <1>6, <1>7, <3>1, <4>3
      <4> QED
        BY <1>6, <4>1, <4>2, <4>3
    <3> QED
      BY <1>6, <3>1
  <2>3. ASSUME NEW h \in Handle
        PROVE  subscriptions'[h] # <<>> <=> \E p \in 1 .. n + 1 : order'[p] = h
    <3>1. CASE h = handle
      BY <1>4, <1>5, <1>6, <3>1
    <3>2. CASE h # handle
      <4>1. (\E p \in 1 .. n + 1 : order'[p] = h) <=> \E p \in 1 .. n : order[p] = h
        BY <1>6, <3>2
      <4> QED
        BY <1>4, <3>2, <4>1 DEF IOrder
    <3> QED
      BY <3>1, <3>2
  <2>4. rr' \in Nat /\ (rr' < n + 1 \/ rr' = 0) /\ memberCursor' \in [Handle -> Nat]
    BY <1>1, <1>6 DEF IOrder
  <2>5. ASSUME NEW h \in Handle
        PROVE  memberCursor'[h] < Len(subscriptions'[h]) \/ memberCursor'[h] = 0
    <3>1. CASE h = handle
      <4>1. Len(subscriptions[handle]) = 0
        BY <1>3, EmptySeq
      <4>2. memberCursor[h] = 0
        BY <1>2, <3>1, <4>1 DEF IOrder
      <4> QED
        BY <1>1, <4>2
    <3>2. CASE h # handle
      BY <1>1, <1>4, <3>2 DEF IOrder
    <3> QED
      BY <3>1, <3>2
  <2> QED
    BY <1>6, <2>1, <2>2, <2>3, <2>4, <2>5 DEF IOrder
<1>9. IWatch'
  <2> DEFINE h == watched[1]
             i == watched[2]
             l == Len(subscriptions[h])
             c == memberCursor[h]
  <2>1. h \in Handle /\ i \in Nat \ {0} /\ passed \in Nat
    BY DEF IWatch
  <2>2. CASE h = handle
    <3>1. DOMAIN subscriptions[h] = {}
      BY <1>3, <2>2
    <3>2. passed' = 0
      BY <1>1, <3>1 DEF IWatch
    <3> QED
      BY <1>0, <1>1, <1>8, <2>1, <3>2, WatchRestarts DEF IWatch
  <2>3. CASE h # handle
    <3>1. subscriptions'[h] = subscriptions[h] /\ h \in Handle /\ h # handle
      BY <1>4, <2>1, <2>3
    <3>2. /\ DOMAIN subscriptions[h] = 1 .. l /\ l \in Nat
          /\ c \in Nat /\ (c < l \/ c = 0)
          /\ rr \in Nat /\ (rr < n \/ rr = 0)
      BY <2>1, OrderTells DEF IOrder
    <3>3. i \notin DOMAIN subscriptions'[h] => passed = 0
      BY <3>1 DEF IWatch
    <3>4. ASSUME NEW p \in 1 .. n + 1, order'[p] = h, i \in DOMAIN subscriptions[h]
          PROVE  passed + Turns(i, p, c, rr, l, n + 1) < l * (n + 1)
      <4>1. p \in 1 .. n /\ order[p] = h
        BY <1>6, <3>1, <3>4
      <4>2. passed + Turns(i, p, c, rr, l, n) < l * n
        BY <3>4, <4>1 DEF IWatch
      <4> HIDE DEF h, i, l, c, n
      <4>3. i \in 1 .. l
        BY <3>2, <3>4
      <4> DEFINE d == Ahead(i - 1, c, l)
                 x == Ahead(p - 1, rr, n)
                 y == Ahead(p - 1, rr, n + 1)
      <4>4. d \in 0 .. l - 1 /\ x \in 0 .. n - 1 /\ d * n \in Nat
        BY <1>6, <3>2, <4>1, <4>3, TurnsInARound
      <4>5. y \in Nat /\ y <= x + 1
        BY <1>6, <3>2, <4>1 DEF Ahead
      <4>6. passed + d * n + x < l * n
        BY <2>1, <4>2, <4>4 DEF Turns
      <4> HIDE DEF d, x, y
      <4>7. passed + d * (n + 1) + y < l * (n + 1)
        BY <1>6, <2>1, <3>2, <4>4, <4>5, <4>6, TurnsGrow
      <4>8. d * (n + 1) \in Nat
        BY <1>6, <4>4, Product
      <4> QED
        BY <2>1, <4>5, <4>7, <4>8 DEF Turns, d, y
    <3> QED
      BY <1>1, <1>6, <2>1, <3>1, <3>3, <3>4 DEF IWatch
  <2> QED
    BY <2>2, <2>3
<1> QED
  BY <1>8, <1>9

\* Without one of them, the order holds the others once.
LEMMA WithoutIs ==
    ASSUME IDelivery, IOrder, NEW h \in Handle, subscriptions[h] # <<>>
    PROVE  LET left == Without(h)
               n    == Len(order)
           IN  /\ n \in Nat \ {0} /\ left \in Seq(Handle) /\ Len(left) = n - 1
               /\ \A p, q \in 1 .. n - 1 : left[p] = left[q] => p = q
               /\ \A g \in Handle : (\E p \in 1 .. n - 1 : left[p] = g) <=>
                                       g # h /\ \E p \in 1 .. n : order[p] = g
<1> DEFINE n == Len(order)
           left == Without(h)
           at == CHOOSE p \in DOMAIN order : order[p] = h
           past(p) == IF p < at THEN p ELSE p + 1
<1>1. order \in [1 .. n -> Handle] /\ n \in Nat
  BY OrderTells
<1>2. at \in 1 .. n /\ order[at] = h
  <2>1. \E p \in DOMAIN order : order[p] = h
    BY <1>1 DEF IOrder
  <2> QED
    BY <1>1, <2>1
<1>3. left = [p \in 1 .. n - 1 |-> order[past(p)]]
  BY DEF Without
<1> HIDE DEF n, left, at
<1>4. \A p \in 1 .. n - 1 : past(p) \in 1 .. n /\ past(p) # at
  BY <1>1, <1>2
<1>5. \A p \in 1 .. n - 1 : left[p] = order[past(p)]
  BY <1>3
<1>6. left \in [1 .. n - 1 -> Handle]
  BY <1>1, <1>3, <1>4
<1>7. \A p, q \in 1 .. n : order[p] = order[q] => p = q
  BY DEF IOrder, n
<1>8. ASSUME NEW p \in 1 .. n - 1, NEW q \in 1 .. n - 1, left[p] = left[q]
      PROVE  p = q
  <2>1. past(p) = past(q)
    BY <1>4, <1>5, <1>7, <1>8
  <2> QED
    BY <1>1, <1>2, <2>1
<1>9. ASSUME NEW g \in Handle
      PROVE  (\E p \in 1 .. n - 1 : left[p] = g) <=> g # h /\ \E p \in 1 .. n : order[p] = g
  <2>1. ASSUME NEW p \in 1 .. n - 1, left[p] = g
        PROVE  g # h /\ \E q \in 1 .. n : order[q] = g
    BY <1>2, <1>4, <1>5, <1>7, <2>1
  <2>2. ASSUME NEW q \in 1 .. n, order[q] = g, g # h
        PROVE  \E p \in 1 .. n - 1 : left[p] = g
    <3>1. q # at
      BY <1>2, <2>2
    <3>2. CASE q < at
      <4>1. q \in 1 .. n - 1 /\ past(q) = q
        BY <1>1, <1>2, <3>2
      <4> QED
        BY <1>5, <2>2, <4>1
    <3>3. CASE q > at
      <4>1. q - 1 \in 1 .. n - 1 /\ past(q - 1) = q
        BY <1>1, <1>2, <3>3
      <4> QED
        BY <1>5, <2>2, <4>1
    <3> QED
      BY <1>2, <3>1, <3>2, <3>3
  <2> QED
    BY <2>1, <2>2
<1>10. left \in Seq(Handle) /\ Len(left) = n - 1
  <2>1. n - 1 \in Nat /\ n # 0
    BY <1>1, <1>2
  <2>2. DOMAIN left = 1 .. n - 1
    BY <1>6
  <2>3. left \in Seq(Handle)
    BY <1>6, <2>1, SeqDef
  <2> QED
    BY <2>1, <2>2, <2>3, LenProperties
<1>11. n \in Nat \ {0}
  BY <1>1, <1>2
<1>12. \A p, q \in 1 .. n - 1 : left[p] = left[q] => p = q
  BY <1>8
<1>13. \A g \in Handle : (\E p \in 1 .. n - 1 : left[p] = g) <=>
                             g # h /\ \E p \in 1 .. n : order[p] = g
  BY <1>9
<1> QED
  BY Zenon, <1>10, <1>11, <1>12, <1>13 DEF n, left

\* A subscription that ends leaves the order, and the scan starts within it.
LEMMA UnsubscribeScans ==
    ASSUME NEW h \in Handle, IDelivery, IOrder, IWatch, Unsubscribe(h)
    PROVE  IOrder' /\ IWatch'
<1> DEFINE left == Without(h)
           n == Len(order)
<1>1. /\ subscriptions[h] # <<>>
      /\ subscriptions' = [subscriptions EXCEPT ![h] = <<>>]
      /\ order' = left
      /\ rr' = IF left = <<>> THEN 0 ELSE (rr % Len(left))
      /\ memberCursor' = [memberCursor EXCEPT ![h] = 0]
      /\ passed' = 0 /\ made' = made /\ watched' = watched
  BY Zenon DEF Unsubscribe
<1>2. /\ n \in Nat \ {0} /\ left \in Seq(Handle) /\ Len(left) = n - 1
      /\ \A p, q \in 1 .. n - 1 : left[p] = left[q] => p = q
      /\ \A g \in Handle : (\E p \in 1 .. n - 1 : left[p] = g) <=>
                              g # h /\ \E p \in 1 .. n : order[p] = g
  BY <1>1, WithoutIs
<1> HIDE DEF left
<1>3. IDelivery'
  BY UnsubscribeDelivers
<1>4. IOrder'
  <2>1. /\ order' \in Seq(Handle) /\ Len(order') = n - 1
        /\ \A p, q \in 1 .. Len(order') : order'[p] = order'[q] => p = q
    BY <1>1, <1>2
  <2>2. Len(order') <= made'
    <3>1. n <= made /\ made \in Int
      BY DEF IOrder, IDelivery
    <3> QED
      BY <1>1, <1>2, <2>1, <3>1
  <2>3. rr' \in Nat /\ (rr' < Len(order') \/ rr' = 0)
    <3>1. rr \in Nat
      BY DEF IOrder
    <3>2. CASE left = <<>>
      BY <1>1, <3>2
    <3>3. CASE left # <<>>
      <4>1. Len(left) \in Nat \ {0}
        BY <1>2, <3>3, EmptySeq
      <4> QED
        BY <1>1, <3>1, <3>3, <4>1
    <3> QED
      BY <3>2, <3>3
  <2>4. memberCursor \in [Handle -> Nat] /\ subscriptions \in [Handle -> Seq(Member)]
    BY DEF IOrder, IDelivery
  <2>5. ASSUME NEW g \in Handle
        PROVE  /\ subscriptions'[g] # <<>> <=> \E p \in 1 .. Len(order') : order'[p] = g
               /\ memberCursor'[g] < Len(subscriptions'[g]) \/ memberCursor'[g] = 0
    <3>1. CASE g = h
      <4>1. subscriptions'[g] = <<>> /\ memberCursor'[g] = 0
        BY <1>1, <2>4, <3>1
      <4> QED
        BY <1>1, <1>2, <2>1, <3>1, <4>1
    <3>2. CASE g # h
      <4>1. subscriptions'[g] = subscriptions[g] /\ memberCursor'[g] = memberCursor[g]
        BY <1>1, <2>4, <3>2
      <4>2. subscriptions[g] # <<>> <=> \E p \in 1 .. n : order[p] = g
        BY DEF IOrder
      <4>3. memberCursor[g] < Len(subscriptions[g]) \/ memberCursor[g] = 0
        BY DEF IOrder
      <4> QED
        BY <1>1, <1>2, <2>1, <3>2, <4>1, <4>2, <4>3
    <3> QED
      BY <3>1, <3>2
  <2>6. memberCursor' \in [Handle -> Nat]
    BY <1>1, <2>4
  <2> QED
    BY <2>1, <2>2, <2>3, <2>5, <2>6 DEF IOrder
<1>5. watched' \in Handle \X (Nat \ {0})
  BY <1>1 DEF IWatch
<1> QED
  BY <1>1, <1>3, <1>4, <1>5, WatchRestarts

\* Without subscriptions there is nothing to go around.
LEMMA UnsubscribeAllScans ==
    ASSUME IDelivery, IOrder, IWatch, UnsubscribeAll
    PROVE  IOrder' /\ IWatch'
<1>1. /\ subscriptions' = [h \in Handle |-> <<>>]
      /\ order' = <<>> /\ rr' = 0 /\ passed' = 0
      /\ memberCursor' = [h \in Handle |-> 0]
      /\ made' = made /\ watched' = watched
  BY DEF UnsubscribeAll
<1>2. order' \in Seq(Handle) /\ Len(order') = 0 /\ made \in Nat
  BY <1>1, EmptySeq DEF IDelivery
<1>3. IOrder'
  BY <1>1, <1>2 DEF IOrder
<1>4. watched' \in Handle \X (Nat \ {0})
  BY <1>1 DEF IWatch
<1>5. IDelivery'
  BY UnsubscribeAllDelivers
<1> QED
  BY <1>1, <1>3, <1>4, <1>5, WatchRestarts

----------------------------------------------------------------------------
(* A delivery. *)

\* What a delivery moves: the member at the first place that has an event.
LEMMA DeliverMoves ==
    ASSUME Deliver
    PROVE  \E o, j :
              LET h == HandleAt(o)
                  i == IndexAt(h, j)
              IN  /\ <<o, j>> \in Places /\ IsFirstDue(<<o, j>>)
                  /\ subscriptions' =
                        [subscriptions EXCEPT ![h][i] = After(subscriptions[h][i])]
                  /\ memberCursor' = [memberCursor EXCEPT ![h] = i % Len(subscriptions[h])]
                  /\ rr' = (rr + o + 1) % Len(order)
                  /\ passed' = IF Waits /\ watched # <<h, i>> THEN passed + 1 ELSE 0
                  /\ order' = order /\ made' = made /\ watched' = watched
<1>1. PICK place \in Places :
        LET h == HandleAt(place[1])
            i == IndexAt(h, place[2])
        IN  /\ IsFirstDue(place)
            /\ subscriptions' =
                  [subscriptions EXCEPT ![h][i] = After(subscriptions[h][i])]
            /\ memberCursor' = [memberCursor EXCEPT ![h] = i % Len(subscriptions[h])]
            /\ rr' = (rr + place[1] + 1) % Len(order)
            /\ passed' = IF Waits /\ watched # <<h, i>> THEN passed + 1 ELSE 0
            /\ order' = order /\ made' = made /\ watched' = watched
  BY Zenon DEF Deliver, Rotated
<1>2. place = <<place[1], place[2]>>
  <2>1. PICK o \in 0 .. Len(order) - 1 : place \in {o} \X (0 .. Len(subscriptions[HandleAt(o)]) - 1)
    BY DEF Places
  <2> HIDE DEF Places
  <2> QED
    BY <2>1
<1> QED
  BY Zenon, <1>1, <1>2

\* The places that the scan tries, and where each of them is.
LEMMA PlacesAre ==
    ASSUME IDelivery, IOrder
    PROVE  /\ \A o, j : <<o, j>> \in Places <=>
                 /\ o \in 0 .. Len(order) - 1
                 /\ j \in 0 .. Len(subscriptions[HandleAt(o)]) - 1
           /\ \A o \in 0 .. Len(order) - 1 :
                 LET h == HandleAt(o)
                 IN  /\ h \in Handle /\ Len(subscriptions[h]) \in Nat \ {0}
                     /\ memberCursor[h] \in 0 .. Len(subscriptions[h]) - 1
                     /\ ((rr + o) % Len(order)) \in 0 .. Len(order) - 1
                     /\ rr \in 0 .. Len(order) - 1
<1> DEFINE n == Len(order)
<1>1. ASSUME NEW o, NEW j
      PROVE  <<o, j>> \in Places <=>
                 /\ o \in 0 .. Len(order) - 1
                 /\ j \in 0 .. Len(subscriptions[HandleAt(o)]) - 1
  <2>1. <<o, j>> \in Places <=> \E q \in 0 .. n - 1 :
           <<o, j>> \in {q} \X (0 .. Len(subscriptions[HandleAt(q)]) - 1)
    BY Zenon DEF Places
  <2>2. \A q : <<o, j>> \in {q} \X (0 .. Len(subscriptions[HandleAt(q)]) - 1) <=>
                  o = q /\ j \in 0 .. Len(subscriptions[HandleAt(q)]) - 1
    OBVIOUS
  <2> QED
    BY <2>1, <2>2
<1>2. ASSUME NEW o \in 0 .. n - 1
      PROVE  /\ HandleAt(o) \in Handle /\ Len(subscriptions[HandleAt(o)]) \in Nat \ {0}
             /\ memberCursor[HandleAt(o)] \in 0 .. Len(subscriptions[HandleAt(o)]) - 1
             /\ ((rr + o) % n) \in 0 .. n - 1
             /\ rr \in 0 .. n - 1
  <2>1. n \in Nat \ {0} /\ rr \in 0 .. n - 1
    BY OrderTells DEF IOrder
  <2>2. ((rr + o) % n) \in 0 .. n - 1
    BY <2>1
  <2>3. ((rr + o) % n) + 1 \in 1 .. n
    BY <2>1, <2>2
  <2>4. HandleAt(o) \in Handle /\ Len(subscriptions[HandleAt(o)]) # 0
    BY <2>3, OrderTells DEF HandleAt
  <2>5. Len(subscriptions[HandleAt(o)]) \in Nat
    BY <2>4, OrderTells
  <2>6. memberCursor[HandleAt(o)] \in Nat /\ (memberCursor[HandleAt(o)] < Len(subscriptions[HandleAt(o)]) \/ memberCursor[HandleAt(o)] = 0)
    BY <2>4 DEF IOrder
  <2> QED
    BY <2>1, <2>2, <2>4, <2>5, <2>6
<1> QED
  BY <1>1, <1>2

\* A delivery leaves the cursors within what they go around.
LEMMA DeliverOrders ==
    ASSUME IDelivery, IOrder, Deliver
    PROVE  IOrder' /\ \A g \in Handle : Len(subscriptions'[g]) = Len(subscriptions[g])
<1>1. PICK o, j :
        LET h == HandleAt(o)
            i == IndexAt(h, j)
        IN  /\ <<o, j>> \in Places
            /\ subscriptions' =
                  [subscriptions EXCEPT ![h][i] = After(subscriptions[h][i])]
            /\ memberCursor' = [memberCursor EXCEPT ![h] = i % Len(subscriptions[h])]
            /\ rr' = (rr + o + 1) % Len(order)
            /\ order' = order /\ made' = made
  BY Zenon, DeliverMoves
<1> DEFINE n == Len(order)
           h == HandleAt(o)
           l == Len(subscriptions[h])
           i == IndexAt(h, j)
           after == After(subscriptions[h][i])
<1>2. /\ o \in 0 .. n - 1 /\ j \in 0 .. l - 1 /\ h \in Handle
      /\ l \in Nat \ {0} /\ memberCursor[h] \in 0 .. l - 1 /\ rr \in 0 .. n - 1
  BY <1>1, PlacesAre
<1>3. /\ subscriptions' = [subscriptions EXCEPT ![h][i] = after]
      /\ memberCursor' = [memberCursor EXCEPT ![h] = i % l]
      /\ rr' = (rr + o + 1) % n /\ order' = order /\ made' = made
  BY Zenon, <1>1
<1>4. i \in 1 .. l
  <2> DEFINE c == memberCursor[h]
  <2>1. c \in Nat /\ j \in Nat /\ l \in Nat \ {0}
    BY <1>2
  <2> HIDE DEF c, h, l, i
  <2>2. ((c + j) % l) \in 0 .. l - 1
    BY <2>1
  <2>3. i = ((c + j) % l) + 1
    BY DEF IndexAt, c, h, l, i
  <2> QED
    BY <2>1, <2>2, <2>3
<1>5. n \in Nat \ {0}
  BY <1>2, OrderTells
<1> HIDE DEF h, i, n, l, after
<1>6. subscriptions \in [Handle -> Seq(Member)] /\ memberCursor \in [Handle -> Nat]
  BY DEF IDelivery, IOrder
<1>7. rr' \in 0 .. n - 1 /\ (i % l) \in 0 .. l - 1
  BY <1>2, <1>3, <1>4, <1>5
<1>8. /\ subscriptions'[h] = [subscriptions[h] EXCEPT ![i] = after]
      /\ \A g \in Handle : g # h => subscriptions'[g] = subscriptions[g]
      /\ memberCursor'[h] = (i % l) /\ memberCursor' \in [Handle -> Nat]
      /\ \A g \in Handle : g # h => memberCursor'[g] = memberCursor[g]
  BY <1>2, <1>3, <1>6, <1>7
<1>9. IDelivery'
  BY DeliverDelivers
<1>10. Len(subscriptions'[h]) = l
  <2>1. subscriptions'[h] \in Seq(Member) /\ subscriptions[h] \in Seq(Member)
    BY <1>2, <1>9 DEF IDelivery
  <2>2. DOMAIN subscriptions'[h] = DOMAIN subscriptions[h]
    BY <1>8
  <2> QED
    BY <2>1, <2>2, LenProperties DEF l
<1>11. \A g \in Handle : Len(subscriptions'[g]) = Len(subscriptions[g])
  BY <1>8, <1>10 DEF l
<1>12. ASSUME NEW g \in Handle
       PROVE  /\ subscriptions'[g] # <<>> <=> \E p \in 1 .. n : order[p] = g
              /\ memberCursor'[g] < Len(subscriptions'[g]) \/ memberCursor'[g] = 0
  <2>1. subscriptions'[g] \in Seq(Member) /\ subscriptions[g] \in Seq(Member)
    BY <1>6, <1>9 DEF IDelivery
  <2>2. subscriptions'[g] # <<>> <=> subscriptions[g] # <<>>
    BY <1>11, <2>1, EmptySeq
  <2>3. subscriptions[g] # <<>> <=> \E p \in 1 .. n : order[p] = g
    BY DEF IOrder, n
  <2>4. memberCursor'[g] < Len(subscriptions'[g]) \/ memberCursor'[g] = 0
    <3>1. CASE g = h
      BY <1>2, <1>7, <1>8, <1>10, <3>1
    <3>2. CASE g # h
      BY <1>8, <1>11, <3>2 DEF IOrder
    <3> QED
      BY <3>1, <3>2
  <2> QED
    BY <2>2, <2>3, <2>4
<1>13. IOrder'
  <2>1. rr' \in Nat /\ (rr' < n \/ rr' = 0)
    BY <1>5, <1>7
  <2>2. order' = order /\ made' = made
    BY <1>3
  <2>3. /\ order \in Seq(Handle) /\ n <= made
        /\ \A p, q \in 1 .. n : order[p] = order[q] => p = q
    BY DEF IOrder, n
  <2> QED
    BY <1>8, <1>12, <2>1, <2>2, <2>3 DEF IOrder, n
<1> QED
  BY <1>11, <1>13

\* An event for another member comes before those that the watched one waits
\* for, in its own subscription or before its turn.
LEMMA DeliverScans ==
    ASSUME IDelivery, IOrder, IWatch, Deliver
    PROVE  IOrder' /\ IWatch'
<1>1. PICK o, j :
        LET h == HandleAt(o)
            i == IndexAt(h, j)
        IN  /\ <<o, j>> \in Places /\ IsFirstDue(<<o, j>>)
            /\ subscriptions' =
                  [subscriptions EXCEPT ![h][i] = After(subscriptions[h][i])]
            /\ memberCursor' = [memberCursor EXCEPT ![h] = i % Len(subscriptions[h])]
            /\ rr' = (rr + o + 1) % Len(order)
            /\ passed' = IF Waits /\ watched # <<h, i>> THEN passed + 1 ELSE 0
            /\ order' = order /\ made' = made /\ watched' = watched
  BY Zenon, DeliverMoves
<1> DEFINE n == Len(order)
           h == HandleAt(o)
           i == IndexAt(h, j)
           g == watched[1]
           w == watched[2]
           l == Len(subscriptions[g])
           c == memberCursor[g]
<1>2. /\ o \in 0 .. n - 1 /\ j \in 0 .. Len(subscriptions[h]) - 1 /\ h \in Handle
      /\ Len(subscriptions[h]) \in Nat \ {0}
      /\ memberCursor[h] \in 0 .. Len(subscriptions[h]) - 1 /\ rr \in 0 .. n - 1
      /\ ((rr + o) % n) \in 0 .. n - 1
  BY <1>1, PlacesAre
<1>3. IOrder' /\ IDelivery' /\ \A f \in Handle : Len(subscriptions'[f]) = Len(subscriptions[f])
  BY DeliverOrders, DeliverDelivers
<1>4. /\ memberCursor' = [memberCursor EXCEPT ![h] = i % Len(subscriptions[h])]
      /\ rr' = (rr + o + 1) % n
      /\ order' = order /\ watched' = watched
  BY Zenon, <1>1
<1>5. n \in Nat \ {0} /\ g \in Handle /\ w \in Nat \ {0} /\ watched = <<g, w>> /\ passed \in Nat
  BY <1>2, OrderTells DEF IWatch
<1>6. CASE ~(Waits /\ watched # <<h, i>>)
  <2>1. passed' = 0
    BY <1>1, <1>6
  <2>2. watched' \in Handle \X (Nat \ {0})
    BY <1>4 DEF IWatch
  <2> QED
    BY <1>3, <2>1, <2>2, WatchRestarts
<1>7. CASE Waits /\ watched # <<h, i>>
  <2>1. passed' = passed + 1
    BY <1>1, <1>7
  <2>2. w \in DOMAIN subscriptions[g] /\ Due(subscriptions[g][w]) # "none"
    BY <1>7 DEF Waits
  <2>3. l \in Nat /\ DOMAIN subscriptions[g] = 1 .. l /\ w \in 1 .. l
    BY <1>5, <2>2, OrderTells
  <2>4. subscriptions[g] # <<>>
    BY <1>5, <2>3, OrderTells
  <2>5. PICK p \in 1 .. n : order[p] = g
    BY <1>5, <2>4 DEF IOrder
  <2>6. c \in 0 .. l - 1
    <3>1. c \in Nat /\ (c < l \/ c = 0)
      BY <1>5 DEF IOrder
    <3> HIDE DEF c, l
    <3> QED
      BY <2>3, <3>1
  <2> DEFINE D == Ahead(p - 1, rr, n)
             d == Ahead(w - 1, c, l)
  <2>7. passed + Turns(w, p, c, rr, l, n) < l * n
    BY <2>2, <2>5 DEF IWatch
  <2> HIDE DEF n, l, c, g, w, h, i
  <2>8. /\ D \in 0 .. n - 1 /\ ((rr + D) % n) = p - 1
        /\ ((rr + o) % n) = p - 1 <=> o = D
        /\ o = D => Ahead(p - 1, (rr + o + 1) % n, n) = n - 1
        /\ o < D => Ahead(p - 1, (rr + o + 1) % n, n) = D - o - 1
    <3>1. p - 1 \in 0 .. n - 1
      BY <1>5
    <3>2. Circle(p - 1, rr, n)
      BY <1>2, <1>5, <3>1, AheadIs
    <3> QED
      BY <1>2, <3>2 DEF Circle, D
  <2>9. /\ d \in 0 .. l - 1 /\ ((c + d) % l) = w - 1
        /\ \A k \in 0 .. l - 1 :
              /\ ((c + k) % l) = w - 1 <=> k = d
              /\ ((c + k) % l) \in 0 .. l - 1
              /\ (c + k + 1) % l = (((c + k) % l) + 1) % l
              /\ k < d => Ahead(w - 1, (c + k + 1) % l, l) = d - k - 1
    <3>1. w - 1 \in 0 .. l - 1 /\ l \in Nat \ {0}
      BY <2>3
    <3>2. Circle(w - 1, c, l)
      BY <2>6, <3>1, AheadIs
    <3> QED
      BY <3>2 DEF Circle, d
  <2> HIDE DEF D, d
  <2>10. HandleAt(D) = g /\ IndexAt(g, d) = w
    <3>1. ((rr + D) % n) + 1 = p /\ ((c + d) % l) + 1 = w
      BY <1>5, <2>3, <2>8, <2>9
    <3> QED
      BY <2>5, <3>1 DEF HandleAt, IndexAt, n, l, c
  <2>11. <<D, d>> \in Places /\ DueAt(<<D, d>>) # "none"
    <3>1. <<D, d>> \in Places
      BY <2>8, <2>9, <2>10, PlacesAre DEF n, l
    <3>2. DueAt(<<D, d>>) = Due(subscriptions[g][w])
      BY <2>10 DEF DueAt
    <3> QED
      BY <2>2, <3>1, <3>2 DEF g, w
  <2>12. o < D \/ (o = D /\ j <= d)
    <3>1. IsFirstDue(<<o, j>>)
      BY <1>1
    <3> QED
      BY <2>11, <3>1 DEF IsFirstDue
  <2> DEFINE r == rr'
             b == memberCursor'[g]
  <2>13. passed + 1 + Turns(w, p, b, r, l, n) < l * n
    <3>1. passed + d * n + D < l * n /\ d * n \in Nat
      <4>1. d * n \in Nat
        BY <1>5, <2>9, Product
      <4> QED
        BY <1>5, <2>7, <2>8, <4>1 DEF Turns, D, d
    <3>2. memberCursor \in [Handle -> Nat]
      BY DEF IOrder
    <3>3. CASE o < D
      <4>1. ((rr + o) % n) + 1 \in 1 .. n /\ ((rr + o) % n) + 1 # p
        <5> DEFINE e == (rr + o) % n
        <5>1. e \in 0 .. n - 1 /\ e # p - 1
          BY <1>2, <2>8, <3>3
        <5> HIDE DEF e
        <5>2. e + 1 \in 1 .. n /\ e + 1 # p
          BY <1>5, <5>1
        <5> QED
          BY <5>2 DEF e
      <4>2. h = order[((rr + o) % n) + 1]
        BY DEF h, HandleAt, n
      <4>3. h # g
        BY <2>5, <4>1, <4>2 DEF IOrder, n
      <4>4. b = c
        BY <1>4, <1>5, <3>2, <4>3 DEF c
      <4>5. Ahead(p - 1, r, n) = D - o - 1
        BY <1>4, <2>8, <3>3
      <4>6. Turns(w, p, b, r, l, n) = d * n + (D - o - 1)
        BY <4>4, <4>5 DEF Turns, d
      <4> DEFINE t == Turns(w, p, b, r, l, n)
                 rounds == d * n
                 all == l * n
      <4>7. rounds \in Nat /\ all \in Nat
        BY <1>5, <2>3, <3>1, Product
      <4>8. passed + rounds + D < all /\ t = rounds + (D - o - 1)
        BY <3>1, <4>6
      <4> HIDE DEF t, rounds, all
      <4>9. passed + 1 + t < all
        BY <1>2, <1>5, <2>8, <3>3, <4>7, <4>8
      <4> QED
        BY <4>9 DEF t, all
    <3>4. CASE o = D /\ j <= d
      <4>1. h = g
        BY <2>10, <3>4 DEF h
      <4>2. j \in 0 .. l - 1
        BY <1>2, <4>1 DEF l
      <4>3. j < d
        <5>1. i # w
          BY <1>5, <1>7, <4>1
        <5>2. i = ((c + j) % l) + 1
          BY <4>1 DEF i, IndexAt, c, l
        <5>3. j # d
          BY <2>10, <4>1, <5>1 DEF i
        <5> QED
          BY <2>9, <3>4, <4>2, <5>3
      <4>4. b = (c + j + 1) % l
        <5>1. b = (i % l)
          BY <1>4, <1>5, <3>2, <4>1 DEF l
        <5>2. i = ((c + j) % l) + 1
          BY <4>1 DEF i, IndexAt, c, l
        <5> QED
          BY <2>9, <4>2, <5>1, <5>2
      <4>5. Ahead(w - 1, b, l) = d - j - 1
        BY <2>9, <4>2, <4>3, <4>4
      <4>6. Ahead(p - 1, r, n) = n - 1
        BY <1>4, <2>8, <3>4
      <4>7. Turns(w, p, b, r, l, n) = (d - j - 1) * n + (n - 1)
        BY <4>5, <4>6 DEF Turns
      <4>8. (d - j - 1) * n + n <= d * n /\ (d - j - 1) * n \in Nat
        BY <1>5, <2>9, <4>2, <4>3, TurnsFall
      <4> DEFINE t == Turns(w, p, b, r, l, n)
                 less == (d - j - 1) * n
                 rounds == d * n
                 all == l * n
      <4>9. rounds \in Nat /\ all \in Nat
        BY <1>5, <2>3, <3>1, Product
      <4>10. /\ passed + rounds + D < all /\ t = less + (n - 1)
             /\ less + n <= rounds /\ less \in Nat
        BY <3>1, <4>7, <4>8
      <4> HIDE DEF t, less, rounds, all
      <4>11. passed + 1 + t < all
        BY <1>5, <2>8, <4>9, <4>10
      <4> QED
        BY <4>11 DEF t, all
    <3> QED
      BY <2>12, <3>3, <3>4
  <2>14. \A q \in 1 .. n : order[q] = g => q = p
    BY <2>5 DEF IOrder, n
  <2>15. /\ watched' = <<g, w>> /\ Len(subscriptions'[g]) = l /\ order' = order
         /\ passed' \in Nat
    BY <1>3, <1>4, <1>5, <2>1 DEF l
  <2>16. DOMAIN subscriptions'[g] = 1 .. l
    <3>1. subscriptions'[g] \in Seq(Member)
      BY <1>3, <1>5 DEF IDelivery
    <3> QED
      BY <2>15, <3>1, LenProperties
  <2> QED
    BY <1>3, <1>5, <2>1, <2>3, <2>13, <2>14, <2>15, <2>16 DEF IWatch, n
<1> QED
  BY <1>6, <1>7

----------------------------------------------------------------------------
\* Every step keeps the order and the count of what passed the watched member.
LEMMA NextScans == IScan /\ [Next]_vars => IScan'
<1> SUFFICES ASSUME IScan, [Next]_vars
             PROVE  IScan'
  OBVIOUS
<1>1. IDelivery /\ IOrder /\ IWatch
  BY DEF IScan
<1>2. IDelivery'
  BY <1>1, NextDelivers
<1>3. CASE Subscribe
  BY <1>1, <1>2, <1>3, SubscribeScans DEF IScan
<1>4. CASE UnsubscribeAll
  BY <1>1, <1>2, <1>4, UnsubscribeAllScans DEF IScan
<1>5. ASSUME NEW h \in Handle, Unsubscribe(h)
      PROVE  IScan'
  BY <1>1, <1>2, <1>5, UnsubscribeScans DEF IScan
<1>6. CASE Deliver
  BY <1>1, <1>2, <1>6, DeliverScans DEF IScan
<1>7. CASE UNCHANGED <<subscriptions, order, rr, memberCursor, made, watched, passed>>
  BY <1>1, <1>2, <1>7, ScanStays DEF IScan
<1>8. ASSUME (\E k \in Key : PollBegins(k)) \/ PollIsDiscarded
      PROVE  IScan'
  BY <1>7, <1>8 DEF PollBegins, PollIsDiscarded
<1>9. CASE PollFails
  BY <1>7, <1>9 DEF PollFails, Commits
<1>10. CASE PollerDies
  BY <1>7, <1>10 DEF PollerDies
<1>11. CASE PollSucceeds
  BY <1>7, <1>11 DEF PollSucceeds, Commits
<1>12. CASE UNCHANGED vars
  BY <1>7, <1>12 DEF vars
<1> QED
  BY <1>3, <1>4, <1>5, <1>6, <1>8, <1>9, <1>10, <1>11, <1>12 DEF Next

\* As long as nobody unsubscribes, the scan passes a member that has an event
\* coming at most once for each other member in each round.
THEOREM EveryMemberIsServedInARound == Spec => []ServedInARound
<1>1. Init => IScan
  BY InitDelivers, InitScan DEF IScan
<1>2. IScan => ServedInARound
  <2> SUFFICES ASSUME IScan, Waits
               PROVE  passed < Len(subscriptions[watched[1]]) * MaxSubscriptions
    BY DEF ServedInARound
  <2> DEFINE g == watched[1]
             w == watched[2]
             l == Len(subscriptions[g])
             n == Len(order)
  <2>1. IDelivery /\ IOrder /\ IWatch
    BY DEF IScan
  <2>2. w \in DOMAIN subscriptions[g]
    BY DEF Waits
  <2>3. g \in Handle /\ w \in Nat \ {0} /\ passed \in Nat
    BY <2>1 DEF IWatch
  <2>4. l \in Nat /\ DOMAIN subscriptions[g] = 1 .. l /\ w \in 1 .. l /\ n \in Nat
    BY <2>1, <2>2, <2>3, OrderTells
  <2>5. subscriptions[g] # <<>>
    BY <2>1, <2>3, <2>4, OrderTells
  <2>6. PICK p \in 1 .. n : order[p] = g
    BY <2>1, <2>3, <2>5 DEF IOrder
  <2>7. passed + Turns(w, p, memberCursor[g], rr, l, n) < l * n
    BY <2>1, <2>2, <2>6 DEF IWatch
  <2>8. memberCursor[g] \in Nat /\ (memberCursor[g] < l \/ memberCursor[g] = 0) /\ rr \in Nat /\ (rr < n \/ rr = 0)
    BY <2>1, <2>3 DEF IOrder
  <2>9. n <= MaxSubscriptions /\ MaxSubscriptions \in Nat
    BY <2>1, DeliveryAssumption DEF IOrder, IDelivery
  <2> HIDE DEF g, w, l, n
  <2>10. Turns(w, p, memberCursor[g], rr, l, n) \in Nat
    <3>1. /\ Ahead(w - 1, memberCursor[g], l) * n \in Nat
          /\ Ahead(p - 1, rr, n) \in 0 .. n - 1
      BY <2>4, <2>8, TurnsInARound
    <3> QED
      BY <3>1 DEF Turns
  <2>11. l * n <= l * MaxSubscriptions /\ l * n \in Nat /\ l * MaxSubscriptions \in Nat
    <3>1. PICK k \in Nat : MaxSubscriptions = n + k
      BY <2>4, <2>9, MaxSubscriptions - n \in Nat
    <3>2. l * MaxSubscriptions = l * n + l * k
      BY <2>4, <3>1
    <3>3. l * n \in Nat /\ l * k \in Nat
      BY <2>4, <3>1, Product
    <3> QED
      BY <3>2, <3>3
  <2> QED
    BY <2>3, <2>7, <2>10, <2>11 DEF g, l
<1> QED
  BY <1>1, <1>2, NextScans, PTL DEF Spec
=============================================================================
