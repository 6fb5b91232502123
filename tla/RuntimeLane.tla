----------------------------- MODULE RuntimeLane -----------------------------
(***************************************************************************)
(* The admission lane in front of the embedded interpreter: one call at a  *)
(* time, trade-critical calls first, with a bounded burst while market     *)
(* data waits (src/runtime/runtime_lane.cpp).                              *)
(*                                                                         *)
(* A critical section under mutex_ is one action.  acquire() has two: the  *)
(* first look at the predicate, which admits the caller or puts it to      *)
(* sleep, and the next look after a wake-up.  release() has two as well:   *)
(* it clears occupied_, and notifies after it has unlocked the mutex.      *)
(***************************************************************************)
EXTENDS Naturals, FiniteSets

CONSTANTS
    Caller,          \* threads that make runtime calls
    TradeCaller,     \* the callers whose calls are trade-critical
    TradeBurstLimit  \* trade_burst_limit_; the constructor makes zero one

ASSUME LaneAssumption ==
    /\ IsFiniteSet(Caller)
    /\ TradeCaller \subseteq Caller
    /\ TradeBurstLimit \in Nat \ {0}

VARIABLES
    place,     \* [Caller -> LanePlace], where each caller stands
    waiting,   \* [RuntimeCallLane -> Nat], the two waiter counts
    grants,    \* consecutive_trade_grants_
    occupied,  \* occupied_
    overtaken  \* history: [Caller -> Nat], trade calls admitted past a waiting
               \* caller since it came, or since the last market-data call;
               \* past TradeBurstLimit it counts no further

laneVars == <<place, waiting, grants, occupied, overtaken>>

RuntimeCallLane == {"market_data", "trade_critical"}

\* asleep: in the condition variable's wait set; awake: notified, before the
\* next look at the predicate; inside: holds the permit; leaving: has cleared
\* occupied_ and not notified yet.
LanePlace == {"outside", "asleep", "awake", "inside", "leaving"}

LaneOf(c) == IF c \in TradeCaller THEN "trade_critical" ELSE "market_data"

Waits(c) == place[c] \in {"asleep", "awake"}

LaneTypeOK ==
    /\ place \in [Caller -> LanePlace]
    /\ waiting \in [RuntimeCallLane -> Nat]
    /\ grants \in 0 .. TradeBurstLimit
    /\ occupied \in BOOLEAN
    /\ overtaken \in [Caller -> Nat]

LaneInit ==
    /\ place = [c \in Caller |-> "outside"]
    /\ waiting = [l \in RuntimeCallLane |-> 0]
    /\ grants = 0
    /\ occupied = FALSE
    /\ overtaken = [c \in Caller |-> 0]

----------------------------------------------------------------------------
\* Faulty: the predicate forgets that the lane may be taken.
AdmissibleWhileOccupied(lane, w) ==
    IF lane = "trade_critical"
      THEN w["market_data"] = 0 \/ grants < TradeBurstLimit
      ELSE w["trade_critical"] = 0 \/ grants >= TradeBurstLimit

\* Faulty: market data waits for the trade lane to be empty.
AdmissibleWithoutTurn(lane, w) ==
    /\ ~occupied
    /\ lane = "market_data" => w["trade_critical"] = 0

\* The wait predicate, for the waiter counts w.
Admissible(lane, w) ==
    /\ ~occupied
    /\ IF lane = "trade_critical"
         THEN w["market_data"] = 0 \/ grants < TradeBurstLimit
         ELSE w["trade_critical"] = 0 \/ grants >= TradeBurstLimit

\* Faulty: trade calls that nobody waits behind use up the burst as well.
GrantsAfterAnyTrade(lane, marketWaiting) ==
    IF lane = "trade_critical"
      THEN IF grants < TradeBurstLimit THEN grants + 1 ELSE grants
      ELSE 0

\* Only grants made while market data waits use up the burst.
GrantsAfter(lane, marketWaiting) ==
    IF lane = "trade_critical" /\ marketWaiting # 0
      THEN IF grants < TradeBurstLimit THEN grants + 1 ELSE grants
      ELSE 0

OvertakenAfter(c) ==
    [d \in Caller |->
        IF c \in TradeCaller /\ d # c /\ d \notin TradeCaller /\ Waits(d)
          THEN IF overtaken[d] > TradeBurstLimit THEN overtaken[d]
                                                 ELSE overtaken[d] + 1
          ELSE 0]

\* c gets the permit; w are the waiter counts once it no longer waits.
AdmitCaller(c, w) ==
    /\ place' = [place EXCEPT ![c] = "inside"]
    /\ waiting' = w
    /\ grants' = GrantsAfter(LaneOf(c), w["market_data"])
    /\ occupied' = TRUE
    /\ overtaken' = OvertakenAfter(c)

Joined(c) == [waiting EXCEPT ![LaneOf(c)] = @ + 1]

Left(c) == [waiting EXCEPT ![LaneOf(c)] = @ - 1]

AcquireAtOnce(c) ==
    /\ place[c] = "outside"
    /\ Admissible(LaneOf(c), Joined(c))
    /\ AdmitCaller(c, waiting)

AcquireAndSleep(c) ==
    /\ place[c] = "outside"
    /\ ~Admissible(LaneOf(c), Joined(c))
    /\ place' = [place EXCEPT ![c] = "asleep"]
    /\ waiting' = Joined(c)
    /\ UNCHANGED <<grants, occupied, overtaken>>

AcquireAfterWakeUp(c) ==
    /\ place[c] = "awake"
    /\ Admissible(LaneOf(c), waiting)
    /\ AdmitCaller(c, Left(c))

SleepAgain(c) ==
    /\ place[c] = "awake"
    /\ ~Admissible(LaneOf(c), waiting)
    /\ place' = [place EXCEPT ![c] = "asleep"]
    /\ UNCHANGED <<waiting, grants, occupied, overtaken>>

\* A condition variable may wake a sleeper for no reason.
WakeSpuriously(c) ==
    /\ place[c] = "asleep"
    /\ place' = [place EXCEPT ![c] = "awake"]
    /\ UNCHANGED <<waiting, grants, occupied, overtaken>>

Release(c) ==
    /\ place[c] = "inside"
    /\ place' = [place EXCEPT ![c] = "leaving"]
    /\ occupied' = FALSE
    /\ UNCHANGED <<waiting, grants, overtaken>>

\* Faulty: only the releasing caller's own lane is woken.
NotifyOwnLane(c) ==
    /\ place[c] = "leaving"
    /\ place' = [d \in Caller |->
                IF d = c THEN "outside"
                ELSE IF place[d] = "asleep" /\ LaneOf(d) = LaneOf(c) THEN "awake"
                ELSE place[d]]
    /\ UNCHANGED <<waiting, grants, occupied, overtaken>>

NotifyAll(c) ==
    /\ place[c] = "leaving"
    /\ place' = [d \in Caller |-> IF d = c THEN "outside"
                               ELSE IF place[d] = "asleep" THEN "awake"
                               ELSE place[d]]
    /\ UNCHANGED <<waiting, grants, occupied, overtaken>>

LaneNext ==
    \E c \in Caller :
        \/ AcquireAtOnce(c) \/ AcquireAndSleep(c)
        \/ AcquireAfterWakeUp(c) \/ SleepAgain(c) \/ WakeSpuriously(c)
        \/ Release(c) \/ NotifyAll(c)

LaneSpec == LaneInit /\ [][LaneNext]_laneVars

----------------------------------------------------------------------------
(* Properties.                                                             *)

\* At most one call is inside, and the flag that the predicate reads is about
\* exactly that call: the release of one permit never frees another's slot.
OneCallInside ==
    /\ \A c, d \in Caller : place[c] = "inside" /\ place[d] = "inside" => c = d
    /\ occupied <=> \E c \in Caller : place[c] = "inside"

\* No lost wake-up: a caller that sleeps although it could be admitted is about
\* to be notified.
NoLostWakeUp ==
    \A c \in Caller : place[c] = "asleep" /\ Admissible(LaneOf(c), waiting)
        => \E d \in Caller : place[d] = "leaving"

\* The two priority rules never block each other: when the lane is free and
\* somebody waits, somebody who waits may enter.
SomeWaiterMayEnter ==
    ~occupied /\ (\E c \in Caller : Waits(c))
        => \E c \in Caller : Waits(c) /\ Admissible(LaneOf(c), waiting)

\* Whoever waits gets in: a wake-up is never lost, and the predicates never shut
\* everybody out.
WaitersGetIn == NoLostWakeUp /\ SomeWaiterMayEnter

\* The predicate reads counts and not the callers: a count that is off by one
\* would shut one lane out for ever.
CountsAreExact ==
    \A l \in RuntimeCallLane :
        waiting[l] = Cardinality({c \in Caller : Waits(c) /\ LaneOf(c) = l})

\* runtime_lane.hpp:54: at most trade_burst_limit trade calls in a row pass a
\* waiting market-data call, counted from the call and not by the counter the
\* predicate reads.
BurstIsBounded ==
    \A c \in Caller : overtaken[c] <= TradeBurstLimit

\* The counter that ends a burst has seen every overtaking.
OvertakingIsCounted ==
    \A c \in Caller : overtaken[c] <= grants

\* runtime_lane.hpp:25: waiting trade-critical callers go first.  A market-data
\* call is admitted past one only when the burst is used up, with no debt left
\* from trade calls that nobody waited behind.
TradeGoesFirst ==
    [][\A c \in Caller \ TradeCaller :
          /\ place[c] # "inside" /\ place'[c] = "inside"
          /\ \E d \in TradeCaller : Waits(d)
          => \E m \in Caller \ TradeCaller :
                 Waits(m) /\ overtaken[m] = TradeBurstLimit]_laneVars

----------------------------------------------------------------------------
(* Progress.                                                               *)

\* The calls return, and threads that hold or await the mutex get it.
LaneFairness ==
    \A c \in Caller :
        /\ WF_laneVars(AcquireAfterWakeUp(c) \/ SleepAgain(c))
        /\ WF_laneVars(Release(c))
        /\ WF_laneVars(NotifyAll(c))

LaneFairSpec == LaneSpec /\ LaneFairness

\* runtime_lane.hpp:26: a continuously busy trade lane does not starve market
\* data: while market-data callers wait, one of them is admitted in the end.
MarketDataProgresses ==
    (\E c \in Caller \ TradeCaller : Waits(c))
        ~> (\E c \in Caller \ TradeCaller : place[c] = "inside")

==============================================================================
