---------------------------- MODULE RuntimeProofs ----------------------------
(***************************************************************************)
(* Theorems about what guards the embedded interpreter.  Of the admission  *)
(* lane, for any number of callers and any burst limit: one call inside,   *)
(* no lost wake-up, the bounded burst, and trade calls first.  Of the      *)
(* lifecycle, for any finite set of host threads: that no call outlives    *)
(* its interpreter, that the poller is gone before the teardown, and that  *)
(* sources are polled.                                                     *)
(***************************************************************************)
EXTENDS RuntimeLane, BridgeRuntime, FiniteSetTheorems, TLAPS

----------------------------------------------------------------------------
(* The admission lane.                                                     *)

\* The inductive invariant.  The burst bound needs the counts: an admission
\* overtakes exactly when the count of market-data waiters is not zero.
LaneInv ==
    /\ LaneTypeOK
    /\ CountsAreExact
    /\ OneCallInside
    /\ NoLostWakeUp
    /\ OvertakingIsCounted

Waiters(l) == {c \in Caller : Waits(c) /\ LaneOf(c) = l}

----------------------------------------------------------------------------
(* The waiter counts.                                                      *)

\* A caller's lane is one of the two.
LEMMA LaneType == \A c \in Caller : LaneOf(c) \in RuntimeCallLane
BY DEF LaneOf, RuntimeCallLane

\* Waiters are finitely many.
LEMMA WaitersFinite ==
    ASSUME NEW l
    PROVE  IsFiniteSet(Waiters(l)) /\ Cardinality(Waiters(l)) \in Nat
<1>1. Waiters(l) \in SUBSET Caller
  BY DEF Waiters
<1> QED
  BY <1>1, FS_Subset, FS_CardinalityType, LaneAssumption DEF LaneAssumption

\* A count is zero exactly when nobody waits in the lane.
LEMMA CountIsZero ==
    ASSUME CountsAreExact, NEW l \in RuntimeCallLane
    PROVE  waiting[l] = 0 <=> \A c \in Caller : LaneOf(c) = l => ~Waits(c)
<1>1. waiting[l] = Cardinality(Waiters(l))
  BY DEF CountsAreExact, Waiters
<1>2. Cardinality(Waiters(l)) = 0 <=> Waiters(l) = {}
  BY WaitersFinite, FS_EmptySet
<1> QED
  BY <1>1, <1>2 DEF Waiters

\* Counting a caller that joins keeps the counts exact.
LEMMA JoinedIsExact ==
    ASSUME LaneTypeOK, CountsAreExact, NEW c \in Caller, place[c] = "outside",
           NEW stage \in {"asleep", "awake"},
           place' = [place EXCEPT ![c] = stage], waiting' = Joined(c)
    PROVE  CountsAreExact'
<1> SUFFICES ASSUME NEW l \in RuntimeCallLane
             PROVE  waiting'[l] = Cardinality(Waiters(l)')
  BY DEF CountsAreExact, Waiters
<1>1. waiting[l] = Cardinality(Waiters(l))
  BY DEF CountsAreExact, Waiters
<1>2. ~Waits(c) /\ Waits(c)' /\ \A d \in Caller \ {c} : Waits(d)' = Waits(d)
  BY DEF LaneTypeOK, Waits
<1>3. CASE l = LaneOf(c)
  <2>1. Waiters(l)' = Waiters(l) \cup {c} /\ c \notin Waiters(l)
    BY <1>2, <1>3 DEF Waiters, LaneOf
  <2>2. waiting'[l] = waiting[l] + 1
    BY <1>3 DEF Joined, LaneTypeOK
  <2> QED
    BY <1>1, <2>1, <2>2, WaitersFinite, FS_AddElement
<1>4. CASE l # LaneOf(c)
  <2>1. Waiters(l)' = Waiters(l)
    BY <1>2, <1>4 DEF Waiters, LaneOf
  <2>2. waiting'[l] = waiting[l]
    BY <1>4 DEF Joined, LaneTypeOK
  <2> QED
    BY <1>1, <2>1, <2>2
<1> QED
  BY <1>3, <1>4

\* Discounting a caller that is admitted keeps the counts exact.
LEMMA LeftIsExact ==
    ASSUME LaneTypeOK, CountsAreExact, NEW c \in Caller, place[c] = "awake",
           place' = [place EXCEPT ![c] = "inside"], waiting' = Left(c)
    PROVE  CountsAreExact' /\ waiting' \in [RuntimeCallLane -> Nat]
<1>0. Waits(c) /\ ~Waits(c)' /\ \A d \in Caller \ {c} : Waits(d)' = Waits(d)
  BY DEF LaneTypeOK, Waits
<1>1. waiting[LaneOf(c)] # 0 /\ waiting[LaneOf(c)] \in Nat
  BY <1>0, CountIsZero, LaneType DEF LaneTypeOK
<1>2. waiting' \in [RuntimeCallLane -> Nat]
  BY <1>1, LaneType DEF Left, LaneTypeOK
<1>3. ASSUME NEW l \in RuntimeCallLane
      PROVE  waiting'[l] = Cardinality(Waiters(l)')
  <2>1. waiting[l] = Cardinality(Waiters(l))
    BY DEF CountsAreExact, Waiters
  <2>2. CASE l = LaneOf(c)
    <3>1. Waiters(l)' = Waiters(l) \ {c} /\ c \in Waiters(l)
      BY <1>0, <2>2 DEF Waiters, LaneOf
    <3>2. waiting'[l] = waiting[l] - 1
      BY <2>2 DEF Left, LaneTypeOK
    <3> QED
      BY <2>1, <3>1, <3>2, WaitersFinite, FS_RemoveElement
  <2>3. CASE l # LaneOf(c)
    <3>1. Waiters(l)' = Waiters(l)
      BY <1>0, <2>3 DEF Waiters, LaneOf
    <3>2. waiting'[l] = waiting[l]
      BY <2>3 DEF Left, LaneTypeOK
    <3> QED
      BY <2>1, <3>1, <3>2
  <2> QED
    BY <2>2, <2>3
<1> QED
  BY <1>2, <1>3 DEF CountsAreExact, Waiters

\* Counts stay exact when nobody starts or stops waiting.
LEMMA SameWaitersIsExact ==
    ASSUME CountsAreExact, waiting' = waiting,
           \A d \in Caller : Waits(d)' = Waits(d)
    PROVE  CountsAreExact'
<1> SUFFICES ASSUME NEW l \in RuntimeCallLane
             PROVE  waiting'[l] = Cardinality(Waiters(l)')
  BY DEF CountsAreExact, Waiters
<1>1. Waiters(l)' = Waiters(l)
  BY DEF Waiters, LaneOf
<1> QED
  BY <1>1 DEF CountsAreExact, Waiters

----------------------------------------------------------------------------
(* Admission, whether at once or after a wake-up.                          *)

\* What both ways into the lane establish.
LEMMA AdmitInvariant ==
    ASSUME LaneInv, NEW c \in Caller, place[c] \in {"outside", "awake"}, ~occupied,
           NEW w \in [RuntimeCallLane -> Nat], AdmitCaller(c, w), CountsAreExact',
           c \in TradeCaller /\ w["market_data"] # 0 => grants < TradeBurstLimit
    PROVE  LaneInv'
<1> USE LaneAssumption DEF LaneAssumption
<1>1. grants' \in 0 .. TradeBurstLimit
  BY DEF AdmitCaller, GrantsAfter, LaneInv, LaneTypeOK
<1>2. overtaken' \in [Caller -> Nat]
  BY DEF AdmitCaller, OvertakenAfter, LaneInv, LaneTypeOK
<1>3. LaneTypeOK'
  BY <1>1, <1>2 DEF LaneInv, LaneTypeOK, AdmitCaller, LanePlace
<1>4. OneCallInside'
  BY DEF LaneInv, LaneTypeOK, OneCallInside, AdmitCaller
<1>5. NoLostWakeUp'
  BY DEF NoLostWakeUp, Admissible, AdmitCaller
<1>6. OvertakingIsCounted'
  <2> SUFFICES ASSUME NEW d \in Caller, overtaken'[d] # 0
               PROVE  overtaken'[d] <= grants'
    BY <1>1, <1>2 DEF OvertakingIsCounted
  <2>1. /\ c \in TradeCaller /\ d # c /\ d \notin TradeCaller /\ Waits(d)
        /\ overtaken'[d] \in {overtaken[d], overtaken[d] + 1}
    BY DEF AdmitCaller, OvertakenAfter
  <2>2. Waits(d)' /\ LaneOf(d) = "market_data"
    BY <2>1 DEF AdmitCaller, Waits, LaneOf, LaneInv, LaneTypeOK
  <2>3. w["market_data"] # 0
    <3>1. w["market_data"] = Cardinality(Waiters("market_data")')
      BY CountsAreExact' DEF CountsAreExact, Waiters, AdmitCaller, RuntimeCallLane
    <3>2. d \in Waiters("market_data")'
      BY <2>2 DEF Waiters, LaneOf
    <3>3. Waiters("market_data")' \in SUBSET Caller
      BY DEF Waiters
    <3> QED
      BY <3>1, <3>2, <3>3, FS_Subset, FS_EmptySet
  <2>4. grants' = grants + 1
    BY <2>1, <2>3 DEF AdmitCaller, GrantsAfter, LaneOf
  <2> QED
    BY <2>1, <2>4 DEF OvertakingIsCounted, LaneInv, LaneTypeOK
<1> QED
  BY <1>3, <1>4, <1>5, <1>6 DEF LaneInv

----------------------------------------------------------------------------
(* The invariant is inductive.                                             *)

\* Nobody waits, is inside or has been overtaken at the start.
LEMMA LaneInitInvariant == LaneInit => LaneInv
<1> SUFFICES ASSUME LaneInit PROVE LaneInv
  OBVIOUS
<1>1. LaneTypeOK
  <2>1. 0 \in 0 .. TradeBurstLimit
    BY LaneAssumption DEF LaneAssumption
  <2> QED
    BY <2>1 DEF LaneInit, LaneTypeOK, LanePlace
<1>2. CountsAreExact
  <2>1. \A l \in RuntimeCallLane : Waiters(l) = {} /\ waiting[l] = 0
    BY DEF LaneInit, Waiters, Waits
  <2> QED
    BY <2>1, FS_EmptySet DEF CountsAreExact, Waiters
<1>3. OneCallInside /\ NoLostWakeUp /\ OvertakingIsCounted
  BY DEF LaneInit, OneCallInside, NoLostWakeUp, OvertakingIsCounted
<1> QED
  BY <1>1, <1>2, <1>3 DEF LaneInv

\* A caller that is admitted at its first look.
LEMMA AcquireAtOnceInvariant ==
    ASSUME LaneInv, NEW c \in Caller, AcquireAtOnce(c)
    PROVE  LaneInv'
<1>1. waiting \in [RuntimeCallLane -> Nat] /\ ~occupied /\ place[c] = "outside"
  BY DEF AcquireAtOnce, Admissible, LaneInv, LaneTypeOK
<1>2. CountsAreExact'
  <2>1. waiting' = waiting /\ \A d \in Caller : Waits(d)' = Waits(d)
    BY DEF AcquireAtOnce, AdmitCaller, Waits, LaneInv, LaneTypeOK
  <2> QED
    BY <2>1, SameWaitersIsExact DEF LaneInv
<1>3. c \in TradeCaller /\ waiting["market_data"] # 0 => grants < TradeBurstLimit
  BY DEF AcquireAtOnce, Admissible, Joined, LaneOf, LaneInv, LaneTypeOK, RuntimeCallLane
<1>4. AdmitCaller(c, waiting)
  BY DEF AcquireAtOnce
<1> QED
  BY <1>1, <1>2, <1>3, <1>4, AdmitInvariant

\* A caller that is admitted after it was notified.
LEMMA AcquireAfterWakeUpInvariant ==
    ASSUME LaneInv, NEW c \in Caller, AcquireAfterWakeUp(c)
    PROVE  LaneInv'
<1>1. place[c] = "awake" /\ ~occupied /\ AdmitCaller(c, Left(c))
  BY DEF AcquireAfterWakeUp, Admissible
<1>2. CountsAreExact' /\ Left(c) \in [RuntimeCallLane -> Nat]
  BY <1>1, LeftIsExact DEF AdmitCaller, LaneInv
<1>3. c \in TradeCaller /\ Left(c)["market_data"] # 0 => grants < TradeBurstLimit
  BY DEF AcquireAfterWakeUp, Admissible, Left, LaneOf, LaneInv, LaneTypeOK,
         RuntimeCallLane
<1> QED
  BY <1>1, <1>2, <1>3, AdmitInvariant

\* A caller that finds the predicate false sleeps, and makes it true for no
\* other sleeper.
LEMMA AcquireAndSleepInvariant ==
    ASSUME LaneInv, NEW c \in Caller, AcquireAndSleep(c)
    PROVE  LaneInv'
<1>1. /\ place[c] = "outside" /\ place' = [place EXCEPT ![c] = "asleep"]
      /\ waiting' = Joined(c) /\ UNCHANGED <<grants, occupied, overtaken>>
  BY DEF AcquireAndSleep
<1>2. CountsAreExact'
  BY <1>1, JoinedIsExact DEF LaneInv
<1>3. LaneTypeOK'
  <2>1. waiting' \in [RuntimeCallLane -> Nat]
    BY <1>1, LaneType DEF Joined, LaneInv, LaneTypeOK
  <2> QED
    BY <1>1, <2>1 DEF LaneInv, LaneTypeOK, LanePlace
<1>4. OneCallInside'
  BY <1>1 DEF LaneInv, LaneTypeOK, OneCallInside
<1>5. NoLostWakeUp'
  <2> SUFFICES ASSUME NEW d \in Caller, place'[d] = "asleep",
                      Admissible(LaneOf(d), waiting)'
               PROVE  \E e \in Caller : place'[e] = "leaving"
    BY DEF NoLostWakeUp
  <2>1. ~Admissible(LaneOf(c), Joined(c))
    BY DEF AcquireAndSleep
  <2>2. d # c
    BY <1>1, <2>1 DEF Admissible, LaneOf
  <2>3. place[d] = "asleep"
    BY <1>1, <2>2 DEF LaneInv, LaneTypeOK
  <2>4. Admissible(LaneOf(d), waiting)
    BY <1>1 DEF Admissible, Joined, LaneOf, LaneInv, LaneTypeOK, RuntimeCallLane
  <2>5. PICK e \in Caller : place[e] = "leaving"
    BY <2>3, <2>4 DEF LaneInv, NoLostWakeUp
  <2> QED
    BY <1>1, <2>5 DEF LaneInv, LaneTypeOK
<1>6. OvertakingIsCounted'
  BY <1>1 DEF LaneInv, OvertakingIsCounted
<1> QED
  BY <1>2, <1>3, <1>4, <1>5, <1>6 DEF LaneInv

\* A notified caller that goes back to sleep, or a sleeper that wakes.
LEMMA SleepAgainInvariant ==
    ASSUME LaneInv, NEW c \in Caller, SleepAgain(c) \/ WakeSpuriously(c)
    PROVE  LaneInv'
<1>1. /\ place[c] \in {"asleep", "awake"}
      /\ \E stage \in {"asleep", "awake"} :
            /\ place' = [place EXCEPT ![c] = stage]
            /\ stage = "asleep" => ~Admissible(LaneOf(c), waiting)
      /\ UNCHANGED <<waiting, grants, occupied, overtaken>>
  BY DEF SleepAgain, WakeSpuriously
<1>2. PICK stage \in {"asleep", "awake"} :
            /\ place' = [place EXCEPT ![c] = stage]
            /\ stage = "asleep" => ~Admissible(LaneOf(c), waiting)
  BY <1>1
<1>3. CountsAreExact'
  <2>1. \A d \in Caller : Waits(d)' = Waits(d)
    BY <1>1, <1>2 DEF Waits, LaneInv, LaneTypeOK
  <2> QED
    BY <1>1, <2>1, SameWaitersIsExact DEF LaneInv
<1>4. LaneTypeOK'
  BY <1>1, <1>2 DEF LaneInv, LaneTypeOK, LanePlace
<1>5. OneCallInside'
  BY <1>1, <1>2 DEF LaneInv, LaneTypeOK, OneCallInside
<1>6. NoLostWakeUp'
  <2> SUFFICES ASSUME NEW d \in Caller, place'[d] = "asleep",
                      Admissible(LaneOf(d), waiting)
               PROVE  \E e \in Caller : place'[e] = "leaving"
    BY <1>1 DEF NoLostWakeUp, Admissible, LaneOf
  <2>1. place[d] = "asleep"
    BY <1>1, <1>2 DEF LaneInv, LaneTypeOK
  <2>2. PICK e \in Caller : place[e] = "leaving"
    BY <2>1 DEF LaneInv, NoLostWakeUp
  <2> QED
    BY <1>1, <1>2, <2>2 DEF LaneInv, LaneTypeOK
<1>7. OvertakingIsCounted'
  BY <1>1 DEF LaneInv, OvertakingIsCounted
<1> QED
  BY <1>3, <1>4, <1>5, <1>6, <1>7 DEF LaneInv

\* Clearing the flag leaves the releasing caller to notify.
LEMMA ReleaseInvariant ==
    ASSUME LaneInv, NEW c \in Caller, Release(c)
    PROVE  LaneInv'
<1>1. /\ place[c] = "inside" /\ place' = [place EXCEPT ![c] = "leaving"]
      /\ occupied' = FALSE /\ UNCHANGED <<waiting, grants, overtaken>>
  BY DEF Release
<1>2. CountsAreExact'
  <2>1. \A d \in Caller : Waits(d)' = Waits(d)
    BY <1>1 DEF Waits, LaneInv, LaneTypeOK
  <2> QED
    BY <1>1, <2>1, SameWaitersIsExact DEF LaneInv
<1>3. LaneTypeOK'
  BY <1>1 DEF LaneInv, LaneTypeOK, LanePlace
<1>4. OneCallInside'
  BY <1>1 DEF LaneInv, LaneTypeOK, OneCallInside
<1>5. NoLostWakeUp'
  BY <1>1 DEF NoLostWakeUp, LaneInv, LaneTypeOK
<1>6. OvertakingIsCounted'
  BY <1>1 DEF LaneInv, OvertakingIsCounted
<1> QED
  BY <1>2, <1>3, <1>4, <1>5, <1>6 DEF LaneInv

\* Notifying leaves nobody asleep.
LEMMA NotifyAllInvariant ==
    ASSUME LaneInv, NEW c \in Caller, NotifyAll(c)
    PROVE  LaneInv'
<1>1. /\ place[c] = "leaving"
      /\ place' = [d \in Caller |-> IF d = c THEN "outside"
                                  ELSE IF place[d] = "asleep" THEN "awake"
                                  ELSE place[d]]
      /\ UNCHANGED <<waiting, grants, occupied, overtaken>>
  BY DEF NotifyAll
<1>2. CountsAreExact'
  <2>1. \A d \in Caller : Waits(d)' = Waits(d)
    BY <1>1 DEF Waits, LaneInv, LaneTypeOK
  <2> QED
    BY <1>1, <2>1, SameWaitersIsExact DEF LaneInv
<1>3. LaneTypeOK'
  BY <1>1 DEF LaneInv, LaneTypeOK, LanePlace
<1>4. OneCallInside'
  BY <1>1 DEF LaneInv, LaneTypeOK, OneCallInside
<1>5. NoLostWakeUp'
  BY <1>1 DEF NoLostWakeUp
<1>6. OvertakingIsCounted'
  BY <1>1 DEF LaneInv, OvertakingIsCounted
<1> QED
  BY <1>2, <1>3, <1>4, <1>5, <1>6 DEF LaneInv

\* A step that changes nothing keeps the invariant.
LEMMA LaneStutterInvariant == ASSUME LaneInv, UNCHANGED laneVars PROVE LaneInv'
<1>1. CountsAreExact'
  BY SameWaitersIsExact DEF laneVars, LaneInv, Waits
<1> QED
  BY <1>1 DEF laneVars, LaneInv, LaneTypeOK, OneCallInside, NoLostWakeUp, Admissible,
              LaneOf, OvertakingIsCounted

\* Every step of every caller keeps the invariant.
LEMMA LaneNextInvariant == LaneInv /\ [LaneNext]_laneVars => LaneInv'
<1> SUFFICES ASSUME LaneInv, [LaneNext]_laneVars PROVE LaneInv'
  OBVIOUS
<1>1. ASSUME NEW c \in Caller, AcquireAtOnce(c) PROVE LaneInv'
  BY <1>1, AcquireAtOnceInvariant
<1>2. ASSUME NEW c \in Caller, AcquireAndSleep(c) PROVE LaneInv'
  BY <1>2, AcquireAndSleepInvariant
<1>3. ASSUME NEW c \in Caller, AcquireAfterWakeUp(c) PROVE LaneInv'
  BY <1>3, AcquireAfterWakeUpInvariant
<1>4. ASSUME NEW c \in Caller, SleepAgain(c) \/ WakeSpuriously(c) PROVE LaneInv'
  BY <1>4, SleepAgainInvariant
<1>5. ASSUME NEW c \in Caller, Release(c) PROVE LaneInv'
  BY <1>5, ReleaseInvariant
<1>6. ASSUME NEW c \in Caller, NotifyAll(c) PROVE LaneInv'
  BY <1>6, NotifyAllInvariant
<1>7. CASE UNCHANGED laneVars
  BY <1>7, LaneStutterInvariant
<1> QED
  BY <1>1, <1>2, <1>3, <1>4, <1>5, <1>6, <1>7 DEF LaneNext

----------------------------------------------------------------------------
(* Theorems.                                                               *)

\* The invariant holds in every reachable state.
THEOREM LaneIsInductive == LaneSpec => []LaneInv
BY LaneInitInvariant, LaneNextInvariant, PTL DEF LaneSpec

\* The state of the lane is well-typed.
THEOREM LaneTypeCorrect == LaneSpec => []LaneTypeOK
<1>1. LaneInv => LaneTypeOK
  BY DEF LaneInv
<1> QED
  BY <1>1, LaneIsInductive, PTL

\* Runtime calls exclude each other.
THEOREM CallsExcludeEachOther == LaneSpec => []OneCallInside
<1>1. LaneInv => OneCallInside
  BY DEF LaneInv
<1> QED
  BY <1>1, LaneIsInductive, PTL

\* No caller sleeps through its chance.
THEOREM WakeUpsAreNotLost == LaneSpec => []NoLostWakeUp
<1>1. LaneInv => NoLostWakeUp
  BY DEF LaneInv
<1> QED
  BY <1>1, LaneIsInductive, PTL

\* The waiter counts are exact.
THEOREM CountsStayExact == LaneSpec => []CountsAreExact
<1>1. LaneInv => CountsAreExact
  BY DEF LaneInv
<1> QED
  BY <1>1, LaneIsInductive, PTL

\* The two priority rules never shut out everybody.
THEOREM LaneStaysOpen == LaneSpec => []SomeWaiterMayEnter
<1>1. LaneInv => SomeWaiterMayEnter
  <2> SUFFICES ASSUME LaneInv, ~occupied, NEW c \in Caller, Waits(c)
               PROVE  \E d \in Caller :
                          Waits(d) /\ Admissible(LaneOf(d), waiting)
    BY DEF SomeWaiterMayEnter
  <2>1. \A l \in RuntimeCallLane : waiting[l] # 0 =>
           \E d \in Caller : LaneOf(d) = l /\ Waits(d)
    BY CountIsZero DEF LaneInv
  <2>2. grants \in Nat /\ TradeBurstLimit \in Nat
    BY LaneAssumption DEF LaneAssumption, LaneInv, LaneTypeOK
  <2>3. CASE waiting["trade_critical"] = 0 \/ waiting["market_data"] = 0
    <3>1. waiting[LaneOf(c)] # 0
      BY CountIsZero, LaneType DEF LaneInv
    <3> QED
      BY <2>3, <3>1 DEF Admissible, LaneOf
  <2>4. CASE waiting["trade_critical"] # 0 /\ waiting["market_data"] # 0
    <3>1. PICK t \in Caller : LaneOf(t) = "trade_critical" /\ Waits(t)
      BY <2>1, <2>4 DEF RuntimeCallLane
    <3>2. PICK m \in Caller : LaneOf(m) = "market_data" /\ Waits(m)
      BY <2>1, <2>4 DEF RuntimeCallLane
    <3>3. CASE grants < TradeBurstLimit
      BY <3>1, <3>3 DEF Admissible
    <3>4. CASE grants >= TradeBurstLimit
      BY <3>2, <3>4 DEF Admissible
    <3> QED
      BY <2>2, <3>3, <3>4
  <2> QED
    BY <2>3, <2>4
<1> QED
  BY <1>1, LaneIsInductive, PTL

\* acquire and release together: nobody who waits is forgotten or shut out.
THEOREM WaitersAreServed == LaneSpec => []WaitersGetIn
<1>1. NoLostWakeUp /\ SomeWaiterMayEnter => WaitersGetIn
  BY DEF WaitersGetIn
<1> QED
  BY <1>1, WakeUpsAreNotLost, LaneStaysOpen, PTL

\* A trade burst past a waiting market-data call is bounded.
THEOREM BurstsAreBounded == LaneSpec => []BurstIsBounded
<1>1. LaneInv => BurstIsBounded
  <2> SUFFICES ASSUME LaneInv, NEW c \in Caller
               PROVE  overtaken[c] <= TradeBurstLimit
    BY DEF BurstIsBounded
  <2>1. /\ overtaken[c] <= grants /\ overtaken[c] \in Nat
        /\ grants \in 0 .. TradeBurstLimit
    BY DEF LaneInv, LaneTypeOK, OvertakingIsCounted
  <2> QED
    BY <2>1, LaneAssumption DEF LaneAssumption
<1> QED
  BY <1>1, LaneIsInductive, PTL

----------------------------------------------------------------------------
(* Trade-critical callers go first.                                        *)

\* The counter stands for a market-data call that waits: there is no debt left
\* from trade calls that nobody waited behind.
CounterIsSomeones ==
    grants # 0 => \E m \in Caller \ TradeCaller :
                      Waits(m) /\ overtaken[m] = grants

\* An admission leaves the counter at zero, or at what the trade call it lets
\* past makes of the longest overtaken.
LEMMA AdmitKeepsCounter ==
    ASSUME LaneInv, CounterIsSomeones, NEW c \in Caller, NEW w, AdmitCaller(c, w),
           ~Waits(c) \/ c \in TradeCaller,
           c \in TradeCaller => w["market_data"] = waiting["market_data"],
           c \in TradeCaller /\ w["market_data"] # 0 => grants < TradeBurstLimit
    PROVE  CounterIsSomeones'
<1> SUFFICES ASSUME grants' # 0
             PROVE  \E m \in Caller \ TradeCaller :
                        Waits(m)' /\ overtaken'[m] = grants'
  BY DEF CounterIsSomeones
<1>1. c \in TradeCaller /\ waiting["market_data"] # 0
  BY DEF AdmitCaller, GrantsAfter, LaneOf
<1>2. grants < TradeBurstLimit /\ grants \in Nat /\ TradeBurstLimit \in Nat
  BY <1>1, LaneAssumption DEF LaneAssumption, LaneInv, LaneTypeOK
<1>3. grants' = grants + 1
  BY <1>1, <1>2 DEF AdmitCaller, GrantsAfter, LaneOf
<1>4. PICK m \in Caller \ TradeCaller : Waits(m) /\ overtaken[m] = grants
  <2>1. CASE grants = 0
    <3>1. PICK m \in Caller : LaneOf(m) = "market_data" /\ Waits(m)
      BY <1>1, CountIsZero DEF LaneInv, RuntimeCallLane
    <3>2. overtaken[m] \in Nat /\ overtaken[m] <= 0
      BY <2>1 DEF LaneInv, LaneTypeOK, OvertakingIsCounted
    <3> QED
      BY <2>1, <3>1, <3>2 DEF LaneOf
  <2>2. CASE grants # 0
    BY <2>2 DEF CounterIsSomeones
  <2> QED
    BY <2>1, <2>2
<1>5. m # c /\ Waits(m)'
  BY <1>1, <1>4 DEF AdmitCaller, Waits, LaneInv, LaneTypeOK
<1>6. overtaken'[m] = grants + 1
  BY <1>1, <1>2, <1>4, <1>5 DEF AdmitCaller, OvertakenAfter
<1> QED
  BY <1>3, <1>4, <1>5, <1>6

\* Nobody else touches the counter, or ends somebody's waiting.
LEMMA CounterStaysSomeones ==
    LaneInv /\ CounterIsSomeones /\ [LaneNext]_laneVars => CounterIsSomeones'
<1> SUFFICES ASSUME LaneInv, CounterIsSomeones, [LaneNext]_laneVars
             PROVE  CounterIsSomeones'
  OBVIOUS
<1>1. ASSUME NEW c \in Caller, AcquireAtOnce(c) PROVE CounterIsSomeones'
  <2>1. AdmitCaller(c, waiting) /\ ~Waits(c)
    BY <1>1 DEF AcquireAtOnce, Waits
  <2>2. c \in TradeCaller /\ waiting["market_data"] # 0 => grants < TradeBurstLimit
    BY <1>1 DEF AcquireAtOnce, Admissible, Joined, LaneOf, LaneInv, LaneTypeOK,
                RuntimeCallLane
  <2> QED
    BY <2>1, <2>2, AdmitKeepsCounter
<1>2. ASSUME NEW c \in Caller, AcquireAfterWakeUp(c) PROVE CounterIsSomeones'
  <2>1. CASE c \in TradeCaller
    <3>1. Left(c)["market_data"] = waiting["market_data"]
      BY <2>1 DEF Left, LaneOf, LaneInv, LaneTypeOK, RuntimeCallLane
    <3>2. AdmitCaller(c, Left(c))
      BY <1>2 DEF AcquireAfterWakeUp
    <3>3. Left(c)["market_data"] # 0 => grants < TradeBurstLimit
      BY <1>2, <2>1, <3>1 DEF AcquireAfterWakeUp, Admissible, LaneOf
    <3> QED
      BY <2>1, <3>1, <3>2, <3>3, AdmitKeepsCounter
  <2>2. CASE c \notin TradeCaller
    BY <1>2, <2>2 DEF AcquireAfterWakeUp, AdmitCaller, GrantsAfter, LaneOf,
                      CounterIsSomeones
  <2> QED
    BY <2>1, <2>2
<1>3. ASSUME grants' = grants, overtaken' = overtaken,
             \A m \in Caller : Waits(m) => Waits(m)'
      PROVE  CounterIsSomeones'
  BY <1>3 DEF CounterIsSomeones
<1>4. ASSUME NEW c \in Caller,
             \/ AcquireAndSleep(c) \/ SleepAgain(c) \/ WakeSpuriously(c)
             \/ Release(c) \/ NotifyAll(c)
      PROVE  CounterIsSomeones'
  <2>1. grants' = grants /\ overtaken' = overtaken
    BY <1>4 DEF AcquireAndSleep, SleepAgain, WakeSpuriously, Release, NotifyAll
  <2>2. ASSUME NEW m \in Caller, Waits(m) PROVE Waits(m)'
    BY <1>4, <2>2
    DEF AcquireAndSleep, SleepAgain, WakeSpuriously, Release, NotifyAll, Waits,
        LaneInv, LaneTypeOK
  <2> QED
    BY <1>3, <2>1, <2>2
<1>5. CASE UNCHANGED laneVars
  BY <1>3, <1>5 DEF laneVars, Waits
<1> QED
  BY <1>1, <1>2, <1>4, <1>5 DEF LaneNext

\* The predicate lets market data past a waiting trade call only at the limit,
\* and then the counter is some waiting market-data call's own.
THEOREM TradeStaysFirst == LaneSpec => TradeGoesFirst
<1> DEFINE A ==
      \A c \in Caller \ TradeCaller :
          /\ place[c] # "inside" /\ place'[c] = "inside"
          /\ \E d \in TradeCaller : Waits(d)
          => \E m \in Caller \ TradeCaller :
                 Waits(m) /\ overtaken[m] = TradeBurstLimit
<1>1. LaneInit => CounterIsSomeones
  BY DEF LaneInit, CounterIsSomeones
<1>2. LaneInv /\ CounterIsSomeones /\ [LaneNext]_laneVars => [A]_laneVars
  <2> SUFFICES ASSUME LaneInv, CounterIsSomeones, LaneNext,
                      NEW c \in Caller \ TradeCaller,
                      place[c] # "inside", place'[c] = "inside",
                      NEW d \in TradeCaller, Waits(d)
               PROVE  \E m \in Caller \ TradeCaller :
                          Waits(m) /\ overtaken[m] = TradeBurstLimit
    OBVIOUS
  <2>1. AcquireAtOnce(c) \/ AcquireAfterWakeUp(c)
    BY DEF LaneNext, AcquireAtOnce, AcquireAfterWakeUp, AdmitCaller, AcquireAndSleep,
           SleepAgain, WakeSpuriously, Release, NotifyAll, LaneInv, LaneTypeOK
  <2>2. waiting["trade_critical"] # 0
    BY CountIsZero, LaneAssumption DEF LaneAssumption, LaneOf, LaneInv, RuntimeCallLane
  <2>3. grants >= TradeBurstLimit
    <3>1. CASE AcquireAtOnce(c)
      BY <2>2, <3>1 DEF AcquireAtOnce, Admissible, Joined, LaneOf, LaneInv, LaneTypeOK,
                        RuntimeCallLane
    <3>2. CASE AcquireAfterWakeUp(c)
      BY <2>2, <3>2 DEF AcquireAfterWakeUp, Admissible, LaneOf
    <3> QED
      BY <2>1, <3>1, <3>2
  <2>4. grants = TradeBurstLimit /\ grants # 0
    BY <2>3, LaneAssumption DEF LaneAssumption, LaneInv, LaneTypeOK
  <2> QED
    BY <2>4 DEF CounterIsSomeones
<1>3. TradeGoesFirst <=> [][A]_laneVars
  BY PTL DEF TradeGoesFirst
<1> HIDE DEF A
<1> QED
  BY <1>1, <1>2, <1>3, LaneIsInductive, CounterStaysSomeones, PTL DEF LaneSpec

----------------------------------------------------------------------------
(* The lifecycle of the bridge.                                            *)

CountedThreads == {t \in Thread : at[t] \in Counted}

\* g_active_runtime_calls is the number of the calls that are under way.
CountIsExact == active = Cardinality(CountedThreads)

\* What each lifecycle state says of the interpreter and of the sources.
StateTellsTheLife ==
    /\ state # "stopped" <=> live
    /\ state = "running" => ~stop
    /\ subscribed => state # "stopped"

\* The places of a thread in shutdown.
Closing == {"joining", "draining", "asleep"}

\* One thread shuts down at a time, and the state says so.
OneThreadCloses ==
    \A t \in Host : at[t] \in Closing =>
        /\ state = "shutting_down"
        /\ \A u \in Host : at[u] \in Closing => u = t

\* A poller thread is owned by g_poller, or by the shutdown that joins it.
PollerIsOwned ==
    /\ joinable => state = "running" /\ at[Poller] # "out"
    /\ at[Poller] # "out" => joinable \/ \E t \in Host : at[t] = "joining"
    /\ state = "running" => at[Poller] # "returned"

IRuntime ==
    /\ TypeOK
    /\ CountIsExact
    /\ StateTellsTheLife
    /\ OneThreadCloses
    /\ PollerIsOwned
    /\ CallsUseALiveInterpreter
    /\ SourcesArePolled

----------------------------------------------------------------------------
(* The number of the counted calls.                                        *)

\* The counted calls are finitely many.
LEMMA CountedIsFinite ==
    ASSUME TypeOK
    PROVE  IsFiniteSet(CountedThreads) /\ Cardinality(CountedThreads) \in Nat
<1>1. IsFiniteSet(Thread)
  BY BridgeAssumption, FS_Singleton, FS_Union DEF Thread
<1>2. IsFiniteSet(CountedThreads)
  BY <1>1, FS_Subset DEF CountedThreads
<1> QED
  BY <1>2, FS_CardinalityType

\* A step that takes no thread into or out of a counted place.
LEMMA CountKept ==
    ASSUME TypeOK, CountIsExact, active' = active,
           \A u \in Thread : at'[u] \in Counted <=> at[u] \in Counted
    PROVE  CountIsExact'
<1>1. CountedThreads' = CountedThreads
  BY DEF CountedThreads
<1> QED
  BY <1>1 DEF CountIsExact

\* A call that is admitted.
LEMMA CountGrows ==
    ASSUME TypeOK, CountIsExact, active' = active + 1,
           NEW t \in Thread, at[t] \notin Counted, at'[t] \in Counted,
           \A u \in Thread \ {t} : at'[u] \in Counted <=> at[u] \in Counted
    PROVE  CountIsExact'
<1>1. CountedThreads' = CountedThreads \cup {t} /\ t \notin CountedThreads
  BY DEF CountedThreads
<1>2. Cardinality(CountedThreads') = Cardinality(CountedThreads) + 1
  BY <1>1, CountedIsFinite, FS_AddElement
<1> QED
  BY <1>2 DEF CountIsExact

\* A call that leaves, by its destructor or by an exception.
LEMMA CountShrinks ==
    ASSUME TypeOK, CountIsExact, active' = active - 1,
           NEW t \in Thread, at[t] \in Counted, at'[t] \notin Counted,
           \A u \in Thread \ {t} : at'[u] \in Counted <=> at[u] \in Counted
    PROVE  CountIsExact' /\ active' \in Nat
<1>1. CountedThreads' = CountedThreads \ {t} /\ t \in CountedThreads
  BY DEF CountedThreads
<1>2. /\ Cardinality(CountedThreads') = Cardinality(CountedThreads) - 1
      /\ IsFiniteSet(CountedThreads')
  BY <1>1, CountedIsFinite, FS_RemoveElement
<1> QED
  BY <1>2, FS_CardinalityType DEF CountIsExact

\* When the count is zero, no call is under way.
LEMMA NobodyIsCounted ==
    ASSUME TypeOK, CountIsExact, active = 0, NEW t \in Thread
    PROVE  at[t] \notin Counted
<1>1. CountedThreads = {}
  BY CountedIsFinite, FS_EmptySet DEF CountIsExact
<1> QED
  BY <1>1 DEF CountedThreads

----------------------------------------------------------------------------
(* The steps.                                                              *)

\* The invariant holds before the first call.
LEMMA InitEstablishes ==
    Init => IRuntime
<1> SUFFICES ASSUME Init PROVE IRuntime
  OBVIOUS
<1>1. TypeOK
  BY BridgeAssumption DEF Init, TypeOK, Thread, Place, Counted
<1>2. CountedThreads = {}
  BY DEF Init, CountedThreads, Counted
<1>3. CountIsExact
  BY <1>2, FS_EmptySet DEF CountIsExact, Init
<1>4. \A t \in Thread : at[t] = "out"
  BY DEF Init
<1>5. Poller \in Thread /\ Host \subseteq Thread
  BY DEF Thread
<1> QED
  BY <1>1, <1>3, <1>4, <1>5
  DEF IRuntime, Init, StateTellsTheLife, OneThreadCloses, Closing,
      PollerIsOwned, CallsUseALiveInterpreter, SourcesArePolled, Counted


\* Where the calls of a thread begin, go on and end.
CallPlaces(t) == Counted \cup {"to_leave", Outside(t)}

\* What the steps of calls have in common: they leave the lifecycle alone and
\* move threads between the places of calls, into a counted one only while the
\* runtime runs; and they may wake the shutdown.
LEMMA CallsKeepTheRest ==
    ASSUME IRuntime, TypeOK', CountIsExact', UNCHANGED lifecycle,
           \A u \in Thread :
              \/ at'[u] = at[u]
              \/ u \in Host /\ at[u] = "asleep" /\ at'[u] = "draining"
              \/ /\ at[u] \in CallPlaces(u) /\ at'[u] \in CallPlaces(u)
                 /\ at[u] \in Counted \/ at'[u] \notin Counted \/ state = "running"
    PROVE  IRuntime'
<1> USE DEF IRuntime, lifecycle
<1>p. Poller \in Thread /\ Host \subseteq Thread /\ Poller \notin Host
  BY BridgeAssumption DEF Thread
<1>h. \A u \in Host : at'[u] \in Closing <=> at[u] \in Closing
  BY <1>p DEF CallPlaces, Outside, Closing, Counted
<1>j. \A u \in Host : at'[u] = "joining" <=> at[u] = "joining"
  BY <1>p DEF CallPlaces, Outside, Counted
<1>o. /\ at'[Poller] = "out" <=> at[Poller] = "out"
      /\ at'[Poller] = "asleep" <=> at[Poller] = "asleep"
      /\ at'[Poller] = "returned" <=> at[Poller] = "returned"
  BY <1>p DEF CallPlaces, Outside, Counted
<1>1. StateTellsTheLife'
  BY DEF StateTellsTheLife
<1>2. OneThreadCloses'
  BY <1>h DEF OneThreadCloses
<1>3. PollerIsOwned'
  BY <1>o, <1>j DEF PollerIsOwned
<1>4. CallsUseALiveInterpreter'
  BY DEF CallsUseALiveInterpreter, StateTellsTheLife, Counted
<1>5. SourcesArePolled'
  BY <1>o DEF SourcesArePolled
<1> QED
  BY <1>1, <1>2, <1>3, <1>4, <1>5

\* Admission, the permit, the interpreter, and the way back.
LEMMA CallsPreserve ==
    ASSUME IRuntime, NEW t \in Thread, Call(t)
    PROVE  IRuntime'
<1> USE DEF IRuntime
<1>p. Poller \in Thread /\ Host \subseteq Thread /\ Poller \notin Host
  BY BridgeAssumption DEF Thread
<1>1. CASE Admit(t)
  <2>1. TypeOK'
    BY <1>1, <1>p DEF Admit, TypeOK, Moves, lifecycle, Place, Counted
  <2>2. CountIsExact'
    BY <1>1, <2>1, CountGrows DEF Admit, Moves, Outside, Counted, TypeOK
  <2> QED
    BY <1>1, <2>1, <2>2, CallsKeepTheRest
    DEF Admit, Moves, CallPlaces, Counted, TypeOK
<1>2. CASE TakeLane(t)
  <2>1. TypeOK'
    BY <1>2, <1>p DEF TakeLane, TypeOK, Moves, lifecycle, Place, Counted
  <2>2. CountIsExact'
    BY <1>2, <2>1, CountKept DEF TakeLane, Moves, Counted, TypeOK
  <2> QED
    BY <1>2, <2>1, <2>2, CallsKeepTheRest
    DEF TakeLane, Moves, CallPlaces, Counted, TypeOK
<1>3. CASE TakePython(t)
  <2>1. TypeOK'
    BY <1>3, <1>p DEF TakePython, TypeOK, Moves, lifecycle, Place, Counted
  <2>2. CountIsExact'
    BY <1>3, <2>1, CountKept DEF TakePython, Moves, Counted, TypeOK
  <2> QED
    BY <1>3, <2>1, <2>2, CallsKeepTheRest
    DEF TakePython, Moves, CallPlaces, Counted, TypeOK
<1>4. CASE Suspend(t)
  <2>1. TypeOK'
    BY <1>4, <1>p DEF Suspend, TypeOK, Moves, lifecycle, Place, Counted
  <2>2. CountIsExact'
    BY <1>4, <2>1, CountKept DEF Suspend, Moves, Counted, TypeOK
  <2> QED
    BY <1>4, <2>1, <2>2, CallsKeepTheRest
    DEF Suspend, Moves, CallPlaces, Counted, TypeOK
<1>5. CASE Resume(t)
  <2>1. TypeOK'
    BY <1>5, <1>p DEF Resume, TypeOK, Moves, lifecycle, Place, Counted
  <2>2. CountIsExact'
    BY <1>5, <2>1, CountKept DEF Resume, Moves, Counted, TypeOK
  <2> QED
    BY <1>5, <2>1, <2>2, CallsKeepTheRest
    DEF Resume, Moves, CallPlaces, Counted, TypeOK
<1>6. CASE Return(t)
  <2>1. TypeOK'
    BY <1>6, <1>p DEF Return, TypeOK, Moves, lifecycle, Place, Counted
  <2>2. CountIsExact'
    BY <1>6, <2>1, CountKept DEF Return, Moves, Counted, TypeOK
  <2> QED
    BY <1>6, <2>1, <2>2, CallsKeepTheRest
    DEF Return, Moves, CallPlaces, Counted, TypeOK
<1>7. CASE Leave(t)
  <2>1. TypeOK'
    BY <1>7, <1>p DEF Leave, TypeOK, Moves, Outside, lifecycle, Place, Counted
  <2>2. CountIsExact'
    BY <1>7, <2>1, CountKept DEF Leave, Moves, Outside, Counted, TypeOK
  <2> QED
    BY <1>7, <2>1, <2>2, CallsKeepTheRest
    DEF Leave, Moves, CallPlaces, Outside, Counted, TypeOK
<1>8. ASSUME NEW to \in {"to_leave", Outside(t)}, at[t] \in Counted,
             Departs(t, to), UNCHANGED <<lifecycle, mutex, lane, python>>
      PROVE  IRuntime'
  <2>1. /\ at'[t] = to
        /\ \A u \in Thread \ {t} :
              \/ at'[u] = at[u]
              \/ u \in Host /\ at[u] = "asleep" /\ at'[u] = "draining"
    BY <1>8 DEF Departs
  <2>2. at' \in [Thread -> Place]
    BY <1>8 DEF Departs, TypeOK, Place, Outside, Counted
  <2>3. CountIsExact' /\ active' \in Nat
    <3>1. at'[t] \notin Counted
      BY <2>1 DEF Outside, Counted
    <3>2. \A u \in Thread \ {t} : at'[u] \in Counted <=> at[u] \in Counted
      BY <2>1 DEF Counted
    <3> QED
      BY <1>8, <3>1, <3>2, CountShrinks DEF Departs
  <2>4. TypeOK'
    BY <1>8, <2>2, <2>3 DEF TypeOK, lifecycle
  <2> QED
    BY <1>8, <2>1, <2>3, <2>4, CallsKeepTheRest DEF CallPlaces
<1>9. CASE Uncount(t)
  BY <1>8, <1>9 DEF Uncount, Counted
<1>10. CASE AcquireThrows(t)
  BY <1>8, <1>10 DEF AcquireThrows, Counted
<1> QED
  BY <1>1, <1>2, <1>3, <1>4, <1>5, <1>6, <1>7, <1>9, <1>10 DEF Call

\* The poller's thread between its calls.
LEMMA PollerPreserves ==
    ASSUME IRuntime,
           PollerLoops \/ PollerWakes \/ PollerCommits \/ PollerThrows
    PROVE  IRuntime'
<1> USE DEF IRuntime
<1>p. Poller \in Thread /\ Host \subseteq Thread /\ Poller \notin Host
  BY BridgeAssumption DEF Thread
<1>1. /\ UNCHANGED <<lifecycle, mutex, lane, python, active>>
      /\ at[Poller] \in {"looping", "resting", "polling"}
      /\ \E to \in {"returned", "asleep", "resting", "polling", "looping", "died"} :
            /\ at' = [at EXCEPT ![Poller] = to]
            /\ to = "returned" => MustStop
            /\ to = "asleep" => ~subscribed
  BY DEF PollerLoops, PollerWakes, PollerCommits, PollerThrows, Moves
<1>2. /\ at'[Poller] \in {"returned", "asleep", "resting", "polling", "looping", "died"}
      /\ at'[Poller] = "returned" => MustStop
      /\ at'[Poller] = "asleep" => ~subscribed
      /\ \A u \in Host : at'[u] = at[u]
  <2>1. PICK to \in {"returned", "asleep", "resting", "polling", "looping", "died"} :
           /\ at' = [at EXCEPT ![Poller] = to]
           /\ to = "returned" => MustStop
           /\ to = "asleep" => ~subscribed
    BY <1>1
  <2>2. Poller \in Thread /\ \A u \in Host : u # Poller /\ u \in Thread
    BY <1>p
  <2>3. at \in [Thread -> Place]
    BY DEF TypeOK
  <2> QED
    BY ONLY <2>1, <2>2, <2>3
<1>3. TypeOK'
  BY <1>1 DEF TypeOK, lifecycle, Place
<1>4. CountIsExact'
  BY <1>1, <1>2, CountKept DEF Counted, Thread
<1>5. StateTellsTheLife'
  BY <1>1 DEF StateTellsTheLife, lifecycle
<1>6. OneThreadCloses'
  BY <1>1, <1>2 DEF OneThreadCloses, lifecycle
<1>7. PollerIsOwned'
  BY <1>1, <1>2 DEF PollerIsOwned, lifecycle, MustStop, StateTellsTheLife
<1>8. CallsUseALiveInterpreter'
  BY <1>1, <1>2 DEF CallsUseALiveInterpreter, lifecycle, Thread, Counted
<1>9. SourcesArePolled'
  BY <1>1, <1>2 DEF SourcesArePolled, lifecycle, MustStop, StateTellsTheLife
<1> QED
  BY <1>3, <1>4, <1>5, <1>6, <1>7, <1>8, <1>9

\* A subscription makes a poller, or wakes the one that there is.
LEMMA SubscriptionsPreserve ==
    ASSUME IRuntime, NEW t \in Host, Subscribe(t) \/ Unsubscribe(t)
    PROVE  IRuntime'
<1> USE DEF IRuntime
<1>p. Poller \in Thread /\ Host \subseteq Thread /\ Poller \notin Host
  BY BridgeAssumption DEF Thread
<1>1. CASE Subscribe(t)
  <2>1. /\ state = "running" /\ UNCHANGED <<state, live, owner, stop, active>>
        /\ subscribed' /\ joinable'
        /\ \A u \in Host : at'[u] = at[u]
        /\ at'[Poller] = IF joinable THEN Awakened ELSE "looping"
    BY <1>1, <1>p DEF Subscribe, TypeOK
  <2>2. at'[Poller] \notin {"out", "asleep", "returned"}
    BY <2>1 DEF PollerIsOwned, Awakened
  <2>3. at[Poller] \in Counted <=> at'[Poller] \in Counted
    <3>1. CASE joinable
      BY <2>1, <3>1 DEF Awakened, Counted
    <3>2. CASE ~joinable
      <4>1. at[Poller] = "out"
        BY <2>1, <3>2 DEF PollerIsOwned, OneThreadCloses, Closing
      <4> QED
        BY <2>1, <3>2, <4>1 DEF Counted
    <3> QED
      BY <3>1, <3>2
  <2>4. TypeOK'
    BY <1>1, <1>p DEF Subscribe, TypeOK, Awakened, Place
  <2>5. CountIsExact'
    BY <2>1, <2>3, CountKept DEF Thread
  <2>6. StateTellsTheLife'
    BY <2>1 DEF StateTellsTheLife
  <2>7. OneThreadCloses'
    BY <2>1 DEF OneThreadCloses
  <2>8. PollerIsOwned'
    BY <2>1, <2>2 DEF PollerIsOwned
  <2>9. CallsUseALiveInterpreter'
    BY <2>1, <2>3 DEF CallsUseALiveInterpreter, Thread
  <2>10. SourcesArePolled'
    BY <2>2 DEF SourcesArePolled
  <2> QED
    BY <2>4, <2>5, <2>6, <2>7, <2>8, <2>9, <2>10
<1>2. CASE Unsubscribe(t)
  <2>1. /\ UNCHANGED <<state, live, owner, joinable, stop, mutex, lane, python,
                       active, at>>
        /\ subscribed' = FALSE
    BY <1>2 DEF Unsubscribe
  <2>2. TypeOK'
    BY <2>1 DEF TypeOK
  <2>3. CountIsExact'
    BY <2>1, CountKept
  <2> QED
    BY <2>1, <2>2, <2>3
    DEF StateTellsTheLife, OneThreadCloses, PollerIsOwned,
        CallsUseALiveInterpreter, SourcesArePolled
<1> QED
  BY <1>1, <1>2

\* The runtime starts only when it is stopped, and then nothing is left of the
\* one before it.
LEMMA InitializePreserves ==
    ASSUME IRuntime, NEW t \in Host, InitializeLocks(t) \/ InitializeReturns(t)
    PROVE  IRuntime'
<1> USE DEF IRuntime
<1>p. Poller \in Thread /\ Host \subseteq Thread /\ Poller \notin Host
  BY BridgeAssumption DEF Thread
<1>1. /\ active' = active
      /\ \A u \in Thread :
            at'[u] = at[u] \/ {at[u], at'[u]} = {"out", "initializing"}
      /\ at'[Poller] = at[Poller]
  BY <1>p DEF InitializeLocks, InitializeReturns, Moves, TypeOK
<1>2. TypeOK'
  BY <1>p DEF InitializeLocks, InitializeReturns, Moves, TypeOK, lifecycle, Place
<1>3. CountIsExact'
  BY <1>1, CountKept DEF Counted
<1>4. \/ UNCHANGED lifecycle
      \/ /\ state = "stopped" /\ state' = "running" /\ live' /\ ~stop'
         /\ UNCHANGED <<joinable, subscribed>>
  BY DEF InitializeLocks, InitializeReturns
<1>5. /\ \A u \in Host : at'[u] \in Closing <=> at[u] \in Closing
      /\ \A u \in Host : at'[u] = "joining" <=> at[u] = "joining"
      /\ \A u \in Thread : at'[u] \in Counted <=> at[u] \in Counted
  BY <1>1, <1>p DEF Closing, Counted
<1>6. StateTellsTheLife'
  BY <1>4 DEF StateTellsTheLife, lifecycle
<1>7. state = "stopped" =>
          /\ \A u \in Host : at[u] \notin Closing
          /\ ~subscribed /\ ~joinable
          /\ at[Poller] = "out"
  BY DEF OneThreadCloses, StateTellsTheLife, PollerIsOwned, Closing
<1>8. OneThreadCloses'
  BY <1>4, <1>5, <1>7 DEF OneThreadCloses, lifecycle
<1>9. PollerIsOwned'
  BY <1>1, <1>4, <1>5, <1>7 DEF PollerIsOwned, lifecycle
<1>10. CallsUseALiveInterpreter'
  BY <1>4, <1>5 DEF CallsUseALiveInterpreter, lifecycle
<1>11. SourcesArePolled'
  BY <1>1, <1>4, <1>7 DEF SourcesArePolled, lifecycle
<1> QED
  BY <1>2, <1>3, <1>6, <1>8, <1>9, <1>10, <1>11

\* Only when no call is counted, and the poller is gone, does the life end.
LEMMA ShutdownPreserves ==
    ASSUME IRuntime, NEW t \in Host,
           ShutdownBegins(t) \/ JoinPoller(t) \/ ShutdownWaits(t) \/ ShutdownReturns(t)
    PROVE  IRuntime'
<1> USE DEF IRuntime
<1>p. Poller \in Thread /\ Host \subseteq Thread /\ Poller \notin Host
  BY BridgeAssumption DEF Thread
<1>1. CASE ShutdownBegins(t)
  <2>1. /\ state = "running" /\ state' = "shutting_down" /\ stop' = TRUE /\ ~joinable'
        /\ UNCHANGED <<live, owner, subscribed, active>>
        /\ at[t] = "out"
        /\ at'[t] = IF joinable THEN "joining" ELSE "draining"
        /\ at'[Poller] = Awakened
        /\ \A u \in Host \ {t} : at'[u] = at[u]
    BY <1>1, <1>p DEF ShutdownBegins, TypeOK
  <2>2. \A u \in Host : at[u] \notin Closing
    BY <2>1 DEF OneThreadCloses
  <2>3. TypeOK'
    BY <1>1, <1>p DEF ShutdownBegins, TypeOK, Awakened, Place
  <2>4. \A u \in Thread : at'[u] \in Counted <=> at[u] \in Counted
    BY <2>1 DEF Awakened, Counted, Thread
  <2>5. CountIsExact'
    BY <2>1, <2>4, CountKept
  <2>6. StateTellsTheLife'
    BY <2>1 DEF StateTellsTheLife
  <2>7. OneThreadCloses'
    BY <2>1, <2>2 DEF OneThreadCloses
  <2>8. PollerIsOwned'
    <3>1. at'[Poller] # "out" => joinable
      BY <2>1, <2>2 DEF PollerIsOwned, Closing, Awakened
    <3> QED
      BY <2>1, <3>1 DEF PollerIsOwned
  <2>9. CallsUseALiveInterpreter'
    BY <2>1, <2>4 DEF CallsUseALiveInterpreter
  <2>10. SourcesArePolled'
    BY <2>1 DEF SourcesArePolled
  <2> QED
    BY <2>3, <2>5, <2>6, <2>7, <2>8, <2>9, <2>10
<1>2. CASE JoinPoller(t)
  <2>1. /\ at[t] = "joining" /\ at'[t] = "draining"
        /\ at[Poller] \in {"returned", "died"} /\ at'[Poller] = "out"
        /\ \A u \in Host \ {t} : at'[u] = at[u]
        /\ UNCHANGED <<state, live, owner, joinable, stop, subscribed, active>>
    BY <1>2, <1>p DEF JoinPoller, TypeOK, lifecycle
  <2>2. state = "shutting_down" /\ ~joinable
    BY <2>1 DEF OneThreadCloses, PollerIsOwned, Closing
  <2>3. TypeOK'
    BY <1>2, <1>p DEF JoinPoller, TypeOK, lifecycle, Place
  <2>4. \A u \in Thread : at'[u] \in Counted <=> at[u] \in Counted
    BY <2>1 DEF Counted, Thread
  <2>5. CountIsExact'
    BY <2>1, <2>4, CountKept
  <2>6. OneThreadCloses'
    BY <2>1 DEF OneThreadCloses, Closing
  <2> QED
    BY <2>1, <2>2, <2>3, <2>4, <2>5, <2>6
    DEF StateTellsTheLife, PollerIsOwned, CallsUseALiveInterpreter, SourcesArePolled
<1>3. CASE ShutdownWaits(t)
  <2>1. /\ at[t] = "draining" /\ at'[t] = "asleep"
        /\ \A u \in Thread \ {t} : at'[u] = at[u]
        /\ UNCHANGED <<state, live, owner, joinable, stop, subscribed, active>>
    BY <1>3, <1>p DEF ShutdownWaits, Moves, TypeOK, lifecycle
  <2>2. TypeOK'
    BY <1>3, <1>p DEF ShutdownWaits, Moves, TypeOK, lifecycle, Place
  <2>3. \A u \in Thread : at'[u] \in Counted <=> at[u] \in Counted
    BY <2>1 DEF Counted
  <2>4. CountIsExact'
    BY <2>1, <2>3, CountKept
  <2>5. OneThreadCloses'
    BY <2>1, <1>p DEF OneThreadCloses, Closing
  <2>6. /\ at'[Poller] = at[Poller]
        /\ \A u \in Host : at'[u] = "joining" <=> at[u] = "joining"
    BY <2>1, <1>p
  <2> QED
    BY <2>1, <2>2, <2>3, <2>4, <2>5, <2>6
    DEF StateTellsTheLife, PollerIsOwned, CallsUseALiveInterpreter, SourcesArePolled
<1>4. CASE ShutdownReturns(t)
  <2>1. /\ at[t] = "draining" /\ at'[t] = "out"
        /\ \A u \in Thread \ {t} : at'[u] = at[u]
        /\ active = 0 /\ state' = "stopped" /\ ~live' /\ ~subscribed'
        /\ UNCHANGED <<joinable, stop, active>>
    BY <1>4, <1>p DEF ShutdownReturns, Moves, TypeOK
  <2>2. \A u \in Host : at'[u] \notin Closing
    BY <2>1, <1>p DEF OneThreadCloses, Closing
  <2>3. /\ \A u \in Thread : at[u] \notin Counted
        /\ \A u \in Thread : at'[u] \notin Counted
    BY <2>1, NobodyIsCounted DEF Counted
  <2>4. TypeOK'
    BY <1>4, <1>p DEF ShutdownReturns, Moves, TypeOK, Place
  <2>5. CountIsExact'
    BY <2>1, <2>3, CountKept
  <2>6. ~joinable /\ at[Poller] = "out"
    BY <2>1 DEF OneThreadCloses, PollerIsOwned, Closing
  <2>7. at'[Poller] = "out"
    BY <2>1, <2>6, <1>p
  <2> QED
    BY <2>1, <2>2, <2>3, <2>4, <2>5, <2>6, <2>7
    DEF StateTellsTheLife, OneThreadCloses, PollerIsOwned,
        CallsUseALiveInterpreter, SourcesArePolled
<1> QED
  BY <1>1, <1>2, <1>3, <1>4

\* A step of nobody.
LEMMA StutterPreserves ==
    ASSUME IRuntime, UNCHANGED vars
    PROVE  IRuntime'
BY DEF vars, IRuntime, TypeOK, CountIsExact, CountedThreads, StateTellsTheLife,
       OneThreadCloses, PollerIsOwned, CallsUseALiveInterpreter, SourcesArePolled

----------------------------------------------------------------------------
(* The theorems.                                                           *)

\* The invariant is inductive, for any finite set of host threads.
THEOREM Inductive == Spec => []IRuntime
<1>1. IRuntime /\ [Next]_vars => IRuntime'
  BY CallsPreserve, PollerPreserves, SubscriptionsPreserve, InitializePreserves,
     ShutdownPreserves, StutterPreserves
  DEF Next
<1> QED
  BY InitEstablishes, <1>1, PTL DEF Spec

\* RuntimeCallAdmission: whatever calls are in flight, asleep between two
\* attempts or about to leave when a shutdown begins, none of them is left when
\* the interpreter goes.
THEOREM CallsOutliveNothing == Spec => []CallsUseALiveInterpreter
BY Inductive, PTL DEF IRuntime

\* realtime_poller and mt5bridge_subscribe_ticks: a source is polled from its
\* subscription on, through every restart of the runtime and of the poller.
THEOREM SourcesStayPolled == Spec => []SourcesArePolled
BY Inductive, PTL DEF IRuntime

\* mt5bridge_shutdown: the interpreter goes after the poller has been joined,
\* also if subscriptions came between.
THEOREM PollerGoesFirst == Spec => PollerIsJoinedFirst
<1>1. ASSUME IRuntime, Next, live, ~live'
      PROVE  at[Poller] = "out"
  <2>1. PICK t \in Host : ShutdownReturns(t)
    BY <1>1
    DEF Next, Call, Admit, TakeLane, TakePython, Suspend, Resume, Return, Uncount,
        Leave, AcquireThrows, PollerLoops, PollerWakes, PollerCommits, PollerThrows,
        Subscribe, Unsubscribe, InitializeLocks, InitializeReturns, ShutdownBegins,
        JoinPoller, ShutdownWaits, lifecycle
  <2>2. at[t] = "draining"
    BY <2>1 DEF ShutdownReturns, Moves
  <2> QED
    BY <1>1, <2>2 DEF IRuntime, OneThreadCloses, PollerIsOwned, Closing
<1>2. IRuntime /\ [Next]_vars => [live /\ ~live' => at[Poller] = "out"]_vars
  BY <1>1
<1> QED
  BY Inductive, <1>2, PTL DEF Spec, PollerIsJoinedFirst

==============================================================================
