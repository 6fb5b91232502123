---------------------------- MODULE TradeAndFilesProofs ----------------------------
(***************************************************************************)
(* What the managed trade owner rests on: the state machine of a trade and *)
(* the stores of its records.                                              *)
(*                                                                         *)
(* The trade, for every plan, whatever the owner asks and the broker       *)
(* answers, in any order.  valid() of the code is not inductive: with it   *)
(* alone a filled OPEN could exceed the plan, and the candidate that       *)
(* applies the fill be refused.  Sound adds what the guards of the starts  *)
(* establish and every later step keeps.  Each mutator is shown, once, to  *)
(* take a sound trade to a sound one in a step that is good: it conserves  *)
(* volume and repeats no attempt.                                          *)
(*                                                                         *)
(* The files, for any clients, keys, files and requests that satisfy       *)
(* FilesAssumption.  A client that has compared a record with its file     *)
(* holds the lock of the file's store until it leaves, so what it compared *)
(* with is still there when it moves its own file over (WritesFollow);     *)
(* whatever is moved was flushed, so no failure tears it (FilesAreWhole).  *)
(***************************************************************************)
EXTENDS ManagedTrade, FileRecordStore, TLAPS

----------------------------------------------------------------------------
(* The inductive invariant.                                                *)

\* What the broker may still fill of an OPEN fits into the plan.
EntryFits(t) ==
    t.slice.kind = "open" /\ t.slice.state \in Active =>
        t.pending = 0 /\ t.open + t.slice.requested <= TargetVolume

\* A CLOSE serves an obligation, and asks for what is held.
CloseFits(t) ==
    t.slice.kind = "close" =>
        /\ t.requested
        /\ t.slice.state \in Active => t.pending = 0 /\ t.slice.requested <= t.open

\* A CANCEL in flight leaves something, whether the broker takes it or not.
CancelLeavesExposure(t) ==
    t.slice.kind = "cancel" /\ t.slice.state \in Active => t.open + t.pending # 0

\* What an OPEN bought is held until another operation begins.
FillIsHeld(t) ==
    t.slice.kind = "open" /\ t.slice.state \in {"partially_filled", "filled"} =>
        t.open # 0

Sound(t) ==
    /\ t \in Trade
    /\ ValidTrade(t)
    /\ EntryFits(t)
    /\ CloseFits(t)
    /\ CancelLeavesExposure(t)
    /\ FillIsHeld(t)

----------------------------------------------------------------------------
(* The steps, as relations of two trades.                                  *)

\* Of ExposureIsConserved and AttemptIsNeverRepeated.
Conserves(t, u) ==
    u.epoch = t.epoch =>
        /\ Exposure(u) > Exposure(t) => u.slices = t.slices + 1
        /\ u.open < t.open =>
              t.slice.kind = "close"
                  /\ t.slice.state \in {"reconciling", "partially_filled"}
        /\ u.open > t.open /\ t.slice.sent = 0 =>
              u.open + u.pending = t.open + t.pending

NeverRepeats(t, u) ==
    /\ u.slice.id # t.slice.id =>
          /\ u.slice.id = t.slice.id + 1
          /\ t.slice.state \notin Active \cup {"ambiguous"}
    /\ u.slice.id = t.slice.id /\ t.slice.sent = 1 =>
          u.slice.state \notin {"dispatching", "submitting"}

GoodStep(t, u) == Sound(u) /\ Conserves(t, u) /\ NeverRepeats(t, u)

\* What a mutator leaves alone.
SameCounts(t, u) == u.slices = t.slices /\ u.epoch = t.epoch

SameVolumes(t, u) == u.open = t.open /\ u.pending = t.pending

SameObligation(t, u) == u.requested = t.requested /\ u.satisfied = t.satisfied

SameAttempt(t, u) ==
    /\ u.slice.id = t.slice.id /\ u.slice.kind = t.slice.kind
    /\ u.slice.requested = t.slice.requested /\ u.slice.attempt = t.slice.attempt

\* The fields of a trade.
LEMMA FieldTypes ==
    ASSUME NEW t \in Trade
    PROVE  /\ t.slices \in Nat /\ t.open \in Nat /\ t.pending \in Nat /\ t.epoch \in Nat
           /\ t.requested \in BOOLEAN /\ t.satisfied \in BOOLEAN
           /\ t.slice \in Slice
           /\ t.slice.id \in Nat /\ t.slice.requested \in Nat /\ t.slice.result \in Nat
           /\ t.slice.sent \in Nat /\ t.slice.attempt \in Nat
           /\ t.slice.kind \in SliceKind /\ t.slice.state \in SliceState
           /\ t.slice.outcome \in BrokerOutcome
BY DEF Trade, Slice

\* Another slice in the same trade.
LEMMA SliceReplaced ==
    ASSUME NEW t \in Trade, NEW s \in Slice
    PROVE  LET c == [t EXCEPT !.slice = s]
           IN  /\ c \in Trade /\ c.slice = s
               /\ SameCounts(t, c) /\ SameVolumes(t, c) /\ SameObligation(t, c)
BY DEF Trade, SameCounts, SameVolumes, SameObligation

\* Another volume in the same trade.
LEMMA VolumeReplaced ==
    ASSUME NEW t \in Trade, NEW v \in Nat
    PROVE  /\ LET c == [t EXCEPT !.open = v]
              IN  /\ c \in Trade /\ c.open = v /\ c.pending = t.pending
                  /\ c.slice = t.slice
                  /\ SameCounts(t, c) /\ SameObligation(t, c)
           /\ LET c == [t EXCEPT !.pending = v]
              IN  /\ c \in Trade /\ c.open = t.open /\ c.pending = v
                  /\ c.slice = t.slice
                  /\ SameCounts(t, c) /\ SameObligation(t, c)
BY DEF Trade, SameCounts, SameObligation

\* Another state of the same slice.
LEMMA StateReplaced ==
    ASSUME NEW t \in Trade, NEW state \in SliceState
    PROVE  LET c == Settled(t, state)
           IN  /\ c \in Trade /\ c.slice.state = state
               /\ c.slice.outcome = t.slice.outcome /\ c.slice.result = t.slice.result
               /\ c.slice.sent = t.slice.sent
               /\ SameAttempt(t, c)
               /\ SameCounts(t, c) /\ SameVolumes(t, c) /\ SameObligation(t, c)
<1> DEFINE s == [t.slice EXCEPT !.state = state]
<1>1. t.slice \in Slice
  BY FieldTypes
<1>2. /\ s \in Slice /\ s.state = state /\ s.id = t.slice.id /\ s.kind = t.slice.kind
      /\ s.requested = t.slice.requested /\ s.attempt = t.slice.attempt
      /\ s.outcome = t.slice.outcome /\ s.result = t.slice.result
      /\ s.sent = t.slice.sent
  BY <1>1 DEF Slice
<1>3. Settled(t, state) = [t EXCEPT !.slice = s]
  BY DEF Settled
<1> HIDE DEF s
<1> QED
  BY <1>2, <1>3, SliceReplaced DEF SameAttempt

\* The obligation may become satisfied.
LEMMA ObligationReplaced ==
    ASSUME NEW t \in Trade
    PROVE  /\ LET c == Discharged(t)
              IN  /\ c \in Trade /\ c.slice = t.slice /\ c.requested = t.requested
                  /\ SameCounts(t, c) /\ SameVolumes(t, c)
                  /\ c.satisfied <=> t.satisfied \/ (t.requested /\ NoExposure(t))
           /\ LET c == DischargedByClose(t)
              IN  /\ c \in Trade /\ c.slice = t.slice /\ c.requested = t.requested
                  /\ SameCounts(t, c) /\ SameVolumes(t, c)
                  /\ c.satisfied <=> t.satisfied \/ NoExposure(t)
<1> DEFINE d == t.satisfied \/ (t.requested /\ NoExposure(t))
           e == t.satisfied \/ NoExposure(t)
<1>1. d \in BOOLEAN /\ e \in BOOLEAN
  OBVIOUS
<1>2. Discharged(t) = [t EXCEPT !.satisfied = d]
  BY DEF Discharged
<1>3. DischargedByClose(t) = [t EXCEPT !.satisfied = e]
  BY DEF DischargedByClose
<1> HIDE DEF d, e
<1>4. ASSUME NEW b \in BOOLEAN
      PROVE  LET c == [t EXCEPT !.satisfied = b]
             IN  /\ c \in Trade /\ c.slice = t.slice /\ c.requested = t.requested
                 /\ SameCounts(t, c) /\ SameVolumes(t, c)
                 /\ c.satisfied = b
  BY DEF Trade, SameCounts, SameVolumes
<1> QED
  BY <1>1, <1>2, <1>3, <1>4 DEF d, e

\* Another operation.
LEMMA StartedIsTrade ==
    ASSUME NEW t \in Trade, NEW kind \in SliceKind, NEW state \in SliceState,
           NEW v \in Nat
    PROVE  LET c == Started(t, kind, state, v)
           IN  /\ c \in Trade
               /\ SameCounts(t, c) /\ SameVolumes(t, c) /\ SameObligation(t, c)
               /\ c.slice = FreshSlice(t.slice.id + 1, kind, state, v, t.epoch)
<1> DEFINE s == FreshSlice(t.slice.id + 1, kind, state, v, t.epoch)
<1>1. s \in Slice
  BY FieldTypes DEF FreshSlice, Slice, BrokerOutcome
<1>2. Started(t, kind, state, v) = [t EXCEPT !.slice = s]
  BY DEF Started
<1> HIDE DEF s
<1> QED
  BY <1>1, <1>2, SliceReplaced DEF s

----------------------------------------------------------------------------
(* Starting operations.                                                    *)

\* The new trade is sound.
LEMMA NewTradeIsSound == Sound(NewTrade)
<1> USE PlanAssumption DEF NewTrade, IdleSlice, FreshSlice
<1>1. NewTrade \in Trade
  BY DEF Trade, Slice, SliceKind, SliceState, BrokerOutcome
<1>2. ValidSlice(NewTrade.slice)
  BY DEF ValidSlice
<1>3. ValidTrade(NewTrade)
  BY <1>2 DEF ValidTrade, ValidObligation, Active
<1> QED
  BY <1>1, <1>3 DEF Sound, EntryFits, CloseFits, CancelLeavesExposure, FillIsHeld

\* An OPEN asks for no more than the plan has left.
LEMMA StartOpenIsGood ==
    ASSUME NEW t, Sound(t), NEW v \in Volumes, NEW u \in StartOpenSlice(t, v)
    PROVE  GoodStep(t, u)
<1> DEFINE c == Started(t, "open", "dispatching", v)
<1>1. v \in Nat /\ "open" \in SliceKind /\ "dispatching" \in SliceState /\ t \in Trade
  BY PlanAssumption DEF Volumes, SliceKind, SliceState, Sound
<1>2. /\ ValidTrade(u) /\ u = [c EXCEPT !.slices = @ + 1]
      /\ t.slice.state \in Replaceable /\ t.pending = 0 /\ t.open + v <= TargetVolume
  BY DEF StartOpenSlice, Mutation
<1>3. /\ c \in Trade
      /\ SameCounts(t, c) /\ SameVolumes(t, c) /\ SameObligation(t, c)
      /\ c.slice = FreshSlice(t.slice.id + 1, "open", "dispatching", v, t.epoch)
  BY <1>1, StartedIsTrade
<1> HIDE DEF c
<1>4. /\ u \in Trade /\ u.slices = c.slices + 1 /\ u.slice = c.slice
      /\ SameVolumes(c, u) /\ SameObligation(c, u)
  BY <1>2, <1>3 DEF Trade, SameVolumes, SameObligation
<1>5. /\ u.slice = FreshSlice(t.slice.id + 1, "open", "dispatching", v, t.epoch)
      /\ u.slices = t.slices + 1 /\ u.open = t.open /\ u.pending = 0
  BY <1>2, <1>3, <1>4 DEF SameVolumes, SameCounts
<1>6. Sound(u)
  BY <1>2, <1>4, <1>5
  DEF Sound, EntryFits, CloseFits, CancelLeavesExposure, FillIsHeld, FreshSlice
<1>7. Conserves(t, u)
  BY <1>2, <1>5, <1>1, FieldTypes DEF Conserves
<1>8. NeverRepeats(t, u)
  BY <1>1, <1>2, <1>5, FieldTypes DEF NeverRepeats, FreshSlice, Replaceable, Active
<1> QED
  BY <1>6, <1>7, <1>8 DEF GoodStep

\* A CLOSE asks for no more than is held.
LEMMA StartCloseIsGood ==
    ASSUME NEW t, Sound(t), NEW v \in Volumes, NEW u \in StartClose(t, v)
    PROVE  GoodStep(t, u)
<1>1. v \in Nat /\ "close" \in SliceKind /\ "dispatching" \in SliceState /\ t \in Trade
  BY PlanAssumption DEF Volumes, SliceKind, SliceState, Sound
<1>2. /\ ValidTrade(u) /\ u = Started(t, "close", "dispatching", v)
      /\ t.slice.state \in Replaceable /\ t.pending = 0 /\ v \in 1 .. t.open
      /\ t.requested
  BY DEF StartClose, Mutation
<1>3. /\ u \in Trade
      /\ SameCounts(t, u) /\ SameVolumes(t, u) /\ SameObligation(t, u)
      /\ u.slice = FreshSlice(t.slice.id + 1, "close", "dispatching", v, t.epoch)
  BY <1>1, <1>2, StartedIsTrade
<1>7. u.requested
  BY <1>2, <1>3 DEF SameObligation
<1>8. u.pending = 0 /\ u.slice.requested <= u.open
  BY <1>2, <1>3 DEF SameVolumes, FreshSlice
<1>4. Sound(u)
  BY <1>2, <1>3, <1>7, <1>8
  DEF Sound, EntryFits, CloseFits, CancelLeavesExposure, FillIsHeld, FreshSlice
<1>5. Conserves(t, u)
  BY <1>1, <1>3, FieldTypes
  DEF Conserves, Exposure, InFlight, FreshSlice, SameVolumes, SameCounts
<1>6. NeverRepeats(t, u)
  BY <1>1, <1>2, <1>3, FieldTypes DEF NeverRepeats, FreshSlice, Replaceable, Active
<1> QED
  BY <1>4, <1>5, <1>6 DEF GoodStep

\* A CANCEL leaves what rests in place until the broker answers.
LEMMA StartCancelIsGood ==
    ASSUME NEW t, Sound(t), NEW u \in StartCancel(t)
    PROVE  GoodStep(t, u)
<1>1. t.pending \in Nat /\ "cancel" \in SliceKind /\ "dispatching" \in SliceState
      /\ t \in Trade
  BY FieldTypes DEF SliceKind, SliceState, Sound
<1>2. /\ ValidTrade(u) /\ u = Started(t, "cancel", "dispatching", t.pending)
      /\ t.slice.state \in Replaceable /\ t.pending # 0
  BY DEF StartCancel, Mutation
<1>3. /\ u \in Trade
      /\ SameCounts(t, u) /\ SameVolumes(t, u) /\ SameObligation(t, u)
      /\ u.slice = FreshSlice(t.slice.id + 1, "cancel", "dispatching", t.pending, t.epoch)
  BY <1>1, <1>2, StartedIsTrade
<1>4. Sound(u)
  BY <1>1, <1>2, <1>3, FieldTypes
  DEF Sound, EntryFits, CloseFits, CancelLeavesExposure, FillIsHeld, FreshSlice,
      SameVolumes
<1>5. Conserves(t, u)
  BY <1>1, <1>3, FieldTypes
  DEF Conserves, Exposure, InFlight, FreshSlice, SameVolumes, SameCounts
<1>6. NeverRepeats(t, u)
  BY <1>1, <1>2, <1>3, FieldTypes DEF NeverRepeats, FreshSlice, Replaceable, Active
<1> QED
  BY <1>4, <1>5, <1>6 DEF GoodStep

\* A restart puts the CANCEL in flight on top of the OPEN that it cancels.
LEMMA RestoreCancelIsGood ==
    ASSUME NEW t, Sound(t), NEW id, NEW v \in Volumes,
           NEW u \in RestoreCancelReconciliation(t, id, v)
    PROVE  GoodStep(t, u)
<1>1. v \in Nat /\ "cancel" \in SliceKind /\ "submitting" \in SliceState /\ t \in Trade
  BY PlanAssumption DEF Volumes, SliceKind, SliceState, Sound
<1>2. /\ ValidTrade(u) /\ u = Started(t, "cancel", "submitting", v)
      /\ t.slice.kind = "open" /\ t.slice.state \in {"partially_filled", "filled"}
  BY DEF RestoreCancelReconciliation, Mutation
<1>3. /\ u \in Trade
      /\ SameCounts(t, u) /\ SameVolumes(t, u) /\ SameObligation(t, u)
      /\ u.slice = FreshSlice(t.slice.id + 1, "cancel", "submitting", v, t.epoch)
  BY <1>1, <1>2, StartedIsTrade
<1>4. Sound(u)
  BY <1>1, <1>2, <1>3, FieldTypes
  DEF Sound, EntryFits, CloseFits, CancelLeavesExposure, FillIsHeld, FreshSlice,
      SameVolumes
<1>5. Conserves(t, u)
  BY <1>1, <1>3, FieldTypes
  DEF Conserves, Exposure, InFlight, FreshSlice, SameVolumes, SameCounts
<1>6. NeverRepeats(t, u)
  BY <1>1, <1>2, <1>3, FieldTypes DEF NeverRepeats, FreshSlice, Active
<1> QED
  BY <1>4, <1>5, <1>6 DEF GoodStep

\* A close may be asked for at any time.
LEMMA RequestCloseIsGood ==
    ASSUME NEW t, Sound(t), NEW u \in RequestClose(t)
    PROVE  GoodStep(t, u)
<1>1. t \in Trade
  BY DEF Sound
<1>2. ValidTrade(u) /\ u = [t EXCEPT !.requested = TRUE]
  BY DEF RequestClose, Mutation
<1>3. /\ u \in Trade /\ u.slice = t.slice /\ SameVolumes(t, u) /\ SameCounts(t, u)
      /\ u.requested
  BY <1>1, <1>2 DEF Trade, SameVolumes, SameCounts
<1>4. Sound(u)
  BY <1>2, <1>3
  DEF Sound, EntryFits, CloseFits, CancelLeavesExposure, FillIsHeld, SameVolumes
<1>5. Conserves(t, u)
  BY <1>1, <1>3, FieldTypes DEF Conserves, Exposure, InFlight, SameVolumes, SameCounts
<1>6. NeverRepeats(t, u)
  <2>1. t.slice.sent = 1 => t.slice.state \notin {"dispatching", "submitting"}
    BY DEF Sound, ValidTrade, ValidSlice
  <2> QED
    BY <1>3, <2>1 DEF NeverRepeats
<1> QED
  BY <1>4, <1>5, <1>6 DEF GoodStep

\* The plan may be stopped at any time.
LEMMA StopPlanIsGood ==
    ASSUME NEW t, Sound(t), NEW u \in StopPlan(t)
    PROVE  GoodStep(t, u)
<1>1. t \in Trade
  BY DEF Sound
<1>2. ValidTrade(u) /\ u = [t EXCEPT !.plan = "stopped"]
  BY DEF StopPlan, Mutation
<1>3. /\ u \in Trade /\ u.slice = t.slice /\ SameVolumes(t, u) /\ SameCounts(t, u)
      /\ u.requested = t.requested
  BY <1>1, <1>2 DEF Trade, SameVolumes, SameCounts
<1>4. Sound(u)
  BY <1>2, <1>3
  DEF Sound, EntryFits, CloseFits, CancelLeavesExposure, FillIsHeld, SameVolumes
<1>5. Conserves(t, u)
  BY <1>1, <1>3, FieldTypes DEF Conserves, Exposure, InFlight, SameVolumes, SameCounts
<1>6. NeverRepeats(t, u)
  <2>1. t.slice.sent = 1 => t.slice.state \notin {"dispatching", "submitting"}
    BY DEF Sound, ValidTrade, ValidSlice
  <2> QED
    BY <1>3, <2>1 DEF NeverRepeats
<1> QED
  BY <1>4, <1>5, <1>6 DEF GoodStep

----------------------------------------------------------------------------
(* The attempt and its answer.                                             *)

\* The slice goes to the broker.
LEMMA SubmitIsGood ==
    ASSUME NEW t, Sound(t), NEW u \in EnterSubmitting(t)
    PROVE  GoodStep(t, u)
<1>1. t \in Trade /\ "submitting" \in SliceState
  BY DEF Sound, SliceState
<1>2. ValidTrade(u) /\ u = Settled(t, "submitting") /\ t.slice.state = "dispatching"
  BY DEF EnterSubmitting, Mutation, Settled
<1>3. /\ u \in Trade /\ u.slice.state = "submitting" /\ u.slice.sent = t.slice.sent
      /\ SameAttempt(t, u)
      /\ SameVolumes(t, u) /\ SameCounts(t, u) /\ SameObligation(t, u)
  BY <1>1, <1>2, StateReplaced
<1>4. u.requested = t.requested
  BY <1>3 DEF SameObligation
<1>5. t.slice.sent = 0
  BY <1>2 DEF Sound, ValidTrade, ValidSlice
<1>6. Sound(u)
  BY <1>2, <1>3, <1>4
  DEF Sound, EntryFits, CloseFits, CancelLeavesExposure, FillIsHeld, SameVolumes,
      SameAttempt, Active
<1>7. Conserves(t, u)
  BY <1>1, <1>2, <1>3, FieldTypes
  DEF Conserves, Exposure, InFlight, SameVolumes, SameCounts, SameAttempt, Active
<1>8. NeverRepeats(t, u)
  BY <1>3, <1>5 DEF NeverRepeats, SameAttempt
<1> QED
  BY <1>6, <1>7, <1>8 DEF GoodStep

\* The slice after an answer.
LEMMA AnsweredIsTrade ==
    ASSUME NEW t \in Trade, NEW outcome \in BrokerOutcome, NEW v \in Nat
    PROVE  LET c == Answered(t, outcome, v)
           IN  /\ c \in Trade /\ c.slice.state = "reconciling"
               /\ c.slice.outcome = outcome /\ c.slice.result = v /\ c.slice.sent = 1
               /\ SameAttempt(t, c)
               /\ SameCounts(t, c) /\ SameVolumes(t, c) /\ SameObligation(t, c)
<1> DEFINE s == [t.slice EXCEPT !.state = "reconciling", !.outcome = outcome,
                                !.result = v, !.sent = 1]
<1>1. t.slice \in Slice /\ "reconciling" \in SliceState
  BY FieldTypes DEF SliceState
<1>2. /\ s \in Slice /\ s.state = "reconciling" /\ s.id = t.slice.id
      /\ s.kind = t.slice.kind /\ s.requested = t.slice.requested
      /\ s.attempt = t.slice.attempt /\ s.outcome = outcome /\ s.result = v
      /\ s.sent = 1
  BY <1>1 DEF Slice
<1>3. Answered(t, outcome, v) = [t EXCEPT !.slice = s]
  BY DEF Answered
<1> HIDE DEF s
<1> QED
  BY <1>2, <1>3, SliceReplaced DEF SameAttempt

\* Each answer is recorded once, in an attempt that was submitted.
LEMMA AnswerIs ==
    ASSUME NEW t, Sound(t), NEW u \in Answers(t)
    PROVE  /\ t.slice.state = "submitting" /\ t.slice.sent = 0
           /\ u \in Trade /\ ValidTrade(u) /\ u.slice.state = "reconciling"
           /\ SameAttempt(t, u)
           /\ SameCounts(t, u) /\ SameVolumes(t, u) /\ SameObligation(t, u)
<1> DEFINE Recorded ==
        /\ AwaitsAnswer(t) /\ ValidTrade(u)
        /\ \E outcome \in BrokerOutcome, v \in Nat : u = Answered(t, outcome, v)
<1>1. Recorded
  <2>1. ASSUME NEW v \in Volumes, u \in RecordFill(t, v)
        PROVE  Recorded
    <3>1. v \in Nat
      BY PlanAssumption DEF Volumes
    <3> QED
      BY <2>1, <3>1 DEF RecordFill, Mutation, BrokerOutcome
  <2>2. CASE u \in RecordCancelAccepted(t)
    BY <2>2 DEF RecordCancelAccepted, Mutation, BrokerOutcome
  <2>3. CASE u \in RecordRejected(t)
    BY <2>3 DEF RecordRejected, Mutation, BrokerOutcome
  <2>4. CASE u \in RecordUnknown(t)
    BY <2>4 DEF RecordUnknown, Mutation, BrokerOutcome
  <2> QED
    BY <2>1, <2>2, <2>3, <2>4 DEF Answers
<1> QED
  BY <1>1, AnsweredIsTrade DEF AwaitsAnswer, Sound

\* An answer moves no volume yet.
LEMMA AnswerIsGood ==
    ASSUME NEW t, Sound(t), NEW u \in Answers(t)
    PROVE  GoodStep(t, u)
<1>1. t \in Trade
  BY DEF Sound
<1>3. /\ t.slice.state = "submitting" /\ t.slice.sent = 0
      /\ u \in Trade /\ ValidTrade(u) /\ u.slice.state = "reconciling"
      /\ SameAttempt(t, u)
      /\ SameCounts(t, u) /\ SameVolumes(t, u) /\ SameObligation(t, u)
  BY AnswerIs
<1>4. u.requested = t.requested
  BY <1>3 DEF SameObligation
<1>6. Sound(u)
  BY <1>3, <1>4
  DEF Sound, EntryFits, CloseFits, CancelLeavesExposure, FillIsHeld, SameVolumes,
      SameAttempt, Active
<1>7. Conserves(t, u)
  BY <1>1, <1>3, FieldTypes
  DEF Conserves, Exposure, InFlight, SameVolumes, SameCounts, SameAttempt, Active
<1>8. NeverRepeats(t, u)
  BY <1>3 DEF NeverRepeats, SameAttempt
<1> QED
  BY <1>6, <1>7, <1>8 DEF GoodStep

----------------------------------------------------------------------------
(* Applying an answer.                                                     *)

\* The state that a slice settles in.
SettledState(s) ==
    IF s.outcome = "rejected" THEN "rejected"
    ELSE IF s.outcome = "unknown" THEN "ambiguous"
    ELSE IF s.kind = "cancel" THEN "cancelled"
    ELSE IF s.outcome = "full" THEN "filled"
    ELSE "partially_filled"

\* What a settlement does to the volumes.
SettledVolumes(t, u) ==
    LET s == t.slice IN
    /\ s.outcome \in {"rejected", "unknown"} => SameVolumes(t, u)
    /\ s.outcome \in {"full", "partial"} /\ s.kind = "open" =>
          u.open = t.open + s.result /\ u.pending = s.requested - s.result
    /\ s.outcome \in {"full", "partial"} /\ s.kind = "close" =>
          u.open = t.open - s.result /\ u.pending = t.pending
    /\ s.outcome = "full" /\ s.kind = "cancel" =>
          u.open = t.open /\ u.pending = 0

\* What is known of an attempt that has been answered.
LEMMA AnsweredFacts ==
    ASSUME NEW t, Sound(t), t.slice.state = "reconciling"
    PROVE  LET s == t.slice IN
           /\ t \in Trade /\ s.sent = 1 /\ ~t.satisfied
           /\ s.kind \in {"open", "close", "cancel"}
           /\ s.outcome \in {"full", "partial", "rejected", "unknown"}
           /\ s.outcome = "partial" =>
                 s.kind # "cancel" /\ 0 < s.result /\ s.result < s.requested
           /\ s.outcome = "full" /\ s.kind # "cancel" =>
                 0 < s.result /\ s.result = s.requested
           /\ s.kind = "open" => t.pending = 0 /\ t.open + s.requested <= TargetVolume
           /\ s.kind = "close" =>
                 t.requested /\ t.pending = 0 /\ s.requested <= t.open
           /\ s.kind = "cancel" => t.open + t.pending # 0
<1>1. t \in Trade /\ ValidSlice(t.slice) /\ ValidObligation(t)
  BY DEF Sound, ValidTrade
<1>2. ~t.satisfied
  BY <1>1 DEF ValidObligation, Active
<1>3. t.slice.kind \in {"open", "close", "cancel"} /\ t.slice.requested # 0
  BY <1>1, FieldTypes DEF ValidSlice, SliceKind
<1>4. t.slice.outcome \in {"full", "partial", "rejected", "unknown"}
      /\ t.slice.sent = 1
  BY <1>1, FieldTypes DEF ValidSlice, BrokerOutcome
<1>5. t.slice.outcome = "partial" =>
          /\ t.slice.kind # "cancel"
          /\ 0 < t.slice.result /\ t.slice.result < t.slice.requested
  BY <1>1, FieldTypes DEF ValidSlice
<1>6. t.slice.outcome = "full" /\ t.slice.kind # "cancel" =>
          0 < t.slice.result /\ t.slice.result = t.slice.requested
  BY <1>1, <1>3, FieldTypes DEF ValidSlice
<1>7. t.slice.kind = "open" =>
          t.pending = 0 /\ t.open + t.slice.requested <= TargetVolume
  BY DEF Sound, EntryFits, Active
<1>8. t.slice.kind = "close" =>
          t.requested /\ t.pending = 0 /\ t.slice.requested <= t.open
  BY DEF Sound, CloseFits, Active
<1>9. t.slice.kind = "cancel" => t.open + t.pending # 0
  BY DEF Sound, CancelLeavesExposure, Active
<1> QED
  BY <1>1, <1>2, <1>3, <1>4, <1>5, <1>6, <1>7, <1>8, <1>9

\* The slice stays valid in the state that it settles in.
LEMMA SettledSliceIsValid ==
    ASSUME NEW s \in Slice, ValidSlice(s), s.state = "reconciling",
           NEW r \in Slice, r.state = SettledState(s),
           r.id = s.id, r.kind = s.kind, r.requested = s.requested,
           r.result = s.result, r.outcome = s.outcome, r.sent = s.sent
    PROVE  ValidSlice(r)
<1>1. s.kind # "none" /\ s.sent = 1 /\ s.outcome # "none"
  BY DEF ValidSlice
<1>2. s.outcome \in BrokerOutcome
  BY DEF Slice
<1> QED
  BY <1>1, <1>2 DEF ValidSlice, SettledState, BrokerOutcome

\* A settlement that moves the volumes so, and discharges the obligation when
\* nothing is left, is never refused, and conserves the volume.
LEMMA SettlementIsGood ==
    ASSUME NEW t, Sound(t), t.slice.state = "reconciling",
           NEW u \in Trade,
           SameAttempt(t, u), SameCounts(t, u), u.requested = t.requested,
           u.slice.state = SettledState(t.slice),
           u.slice.outcome = t.slice.outcome, u.slice.result = t.slice.result,
           u.slice.sent = t.slice.sent,
           SettledVolumes(t, u),
           u.satisfied <=> /\ u.requested /\ u.open = 0 /\ u.pending = 0
                           /\ u.slice.state # "ambiguous"
    PROVE  ValidTrade(u) /\ GoodStep(t, u)
<1> DEFINE s == t.slice
<1>f. /\ t \in Trade /\ s.sent = 1 /\ ~t.satisfied
      /\ s.kind \in {"open", "close", "cancel"}
      /\ s.outcome \in {"full", "partial", "rejected", "unknown"}
      /\ s.outcome = "partial" =>
            s.kind # "cancel" /\ 0 < s.result /\ s.result < s.requested
      /\ s.outcome = "full" /\ s.kind # "cancel" =>
            0 < s.result /\ s.result = s.requested
      /\ s.kind = "open" => t.pending = 0 /\ t.open + s.requested <= TargetVolume
      /\ s.kind = "close" =>
            t.requested /\ t.pending = 0 /\ s.requested <= t.open
      /\ s.kind = "cancel" => t.open + t.pending # 0
  BY AnsweredFacts
<1>t. /\ t.open \in Nat /\ t.pending \in Nat /\ s.requested \in Nat /\ s.result \in Nat
      /\ u.open \in Nat /\ u.pending \in Nat /\ TargetVolume \in Nat
      /\ u.slice \in Slice /\ s \in Slice
  BY <1>f, FieldTypes, PlanAssumption
<1>v. /\ t.open + t.pending <= TargetVolume /\ ValidSlice(s)
      /\ t.slices <= MaxOperations /\ s.id <= MaxOperations /\ t.slices <= s.id
      /\ (t.slices = 0) = (s.id = 0) /\ s.attempt <= t.epoch
  BY DEF Sound, ValidTrade
<1>1. ValidSlice(u.slice)
  BY <1>t, <1>v, SettledSliceIsValid DEF SameAttempt
<1>2. u.slice.state \notin Active
  BY DEF SettledState, Active
<1>3. u.open + u.pending <= TargetVolume
  BY <1>f, <1>t, <1>v DEF SettledVolumes, SameVolumes
<1>4. ValidObligation(u)
  BY <1>2 DEF ValidObligation
<1>5. ValidTrade(u)
  BY <1>1, <1>3, <1>4, <1>v, <1>f DEF ValidTrade, SameAttempt, SameCounts
<1>6. FillIsHeld(u)
  BY <1>f, <1>t DEF FillIsHeld, SettledVolumes, SettledState, SameAttempt
<1>7. Sound(u)
  <2>1. CloseFits(u)
    BY <1>2, <1>f DEF CloseFits, SameAttempt
  <2> QED
    BY <1>2, <1>5, <1>6, <2>1 DEF Sound, EntryFits, CancelLeavesExposure
<1>8. Conserves(t, u)
  <2>1. ~(Exposure(u) > Exposure(t))
    <3>1. InFlight(u, "open") = 0
      BY <1>2 DEF InFlight
    <3>2. InFlight(t, "open") = IF s.kind = "open" THEN s.requested ELSE 0
      BY DEF InFlight, Active
    <3> QED
      BY <1>f, <1>t, <3>1, <3>2 DEF Exposure, SettledVolumes, SameVolumes
  <2>2. u.open < t.open => s.kind = "close"
    BY <1>f, <1>t DEF SettledVolumes, SameVolumes
  <2> QED
    BY <1>f, <2>1, <2>2 DEF Conserves
<1>9. NeverRepeats(t, u)
  BY DEF NeverRepeats, SameAttempt, SettledState
<1> QED
  BY <1>5, <1>7, <1>8, <1>9 DEF GoodStep

\* What SettlementIsGood asks for, of u.
Settles(t, u) ==
    /\ u \in Trade
    /\ SameAttempt(t, u) /\ SameCounts(t, u) /\ u.requested = t.requested
    /\ u.slice.state = SettledState(t.slice)
    /\ u.slice.outcome = t.slice.outcome /\ u.slice.result = t.slice.result
    /\ u.slice.sent = t.slice.sent
    /\ SettledVolumes(t, u)
    /\ u.satisfied <=> /\ u.requested /\ u.open = 0 /\ u.pending = 0
                       /\ u.slice.state # "ambiguous"

\* A CASE of Reconcile: the candidate settles, and hence is not refused.
LEMMA SettledIsTaken ==
    ASSUME NEW t, Sound(t), t.slice.state = "reconciling", NEW u, Settles(t, u)
    PROVE  ValidTrade(u) /\ GoodStep(t, u)
BY SettlementIsGood DEF Settles

\* An answer that moved nothing: the volumes, and whether they are none.
LEMMA NothingMoved ==
    ASSUME NEW t, Sound(t), t.slice.state = "reconciling"
    PROVE  /\ t.slice.outcome = "unknown" => Settles(t, Settled(t, "ambiguous"))
           /\ t.slice.outcome = "rejected" /\ t.slice.kind # "open" =>
                 Settles(t, Settled(t, "rejected"))
           /\ t.slice.outcome = "rejected" /\ t.slice.kind = "open" =>
                 Settles(t, Discharged(Settled(t, "rejected")))
<1>t. t \in Trade /\ ~t.satisfied
  BY AnsweredFacts
<1>1. ASSUME t.slice.outcome = "unknown"
      PROVE  Settles(t, Settled(t, "ambiguous"))
  <2> DEFINE c == Settled(t, "ambiguous")
  <2>1. /\ c \in Trade /\ c.slice.state = "ambiguous"
        /\ c.slice.outcome = t.slice.outcome /\ c.slice.result = t.slice.result
        /\ c.slice.sent = t.slice.sent
        /\ SameAttempt(t, c)
        /\ SameCounts(t, c) /\ SameVolumes(t, c) /\ SameObligation(t, c)
    BY <1>t, StateReplaced DEF SliceState
  <2> HIDE DEF c
  <2>2. Settles(t, c)
    BY <1>1, <1>t, <2>1 DEF Settles, SettledState, SettledVolumes, SameObligation
  <2> QED
    BY <2>2 DEF c
<1>2. ASSUME t.slice.outcome = "rejected", t.slice.kind # "open"
      PROVE  Settles(t, Settled(t, "rejected"))
  <2> DEFINE c == Settled(t, "rejected")
  <2>1. /\ c \in Trade /\ c.slice.state = "rejected"
        /\ c.slice.outcome = t.slice.outcome /\ c.slice.result = t.slice.result
        /\ c.slice.sent = t.slice.sent
        /\ SameAttempt(t, c)
        /\ SameCounts(t, c) /\ SameVolumes(t, c) /\ SameObligation(t, c)
    BY <1>t, StateReplaced DEF SliceState
  <2> HIDE DEF c
  <2>2. ~(c.open = 0 /\ c.pending = 0)
    <3>1. ~(t.open = 0 /\ t.pending = 0)
      <4>1. t.slice.kind = "cancel" => t.open + t.pending # 0
        BY AnsweredFacts
      <4>2. t.slice.kind = "close" => t.slice.requested <= t.open
        BY AnsweredFacts
      <4>3. t.slice.kind \in {"close", "cancel"}
        BY <1>2, AnsweredFacts
      <4>4. t.slice.requested # 0
        BY <4>3 DEF Sound, ValidTrade, ValidSlice
      <4> QED
        BY <4>1, <4>2, <4>3, <4>4, <1>t, FieldTypes
    <3> QED
      BY <2>1, <3>1 DEF SameVolumes
  <2>3. Settles(t, c)
    BY <1>2, <1>t, <2>1, <2>2 DEF Settles, SettledState, SettledVolumes, SameObligation
  <2> QED
    BY <2>3 DEF c
<1>3. ASSUME t.slice.outcome = "rejected", t.slice.kind = "open"
      PROVE  Settles(t, Discharged(Settled(t, "rejected")))
  <2> DEFINE c == Settled(t, "rejected")
             d == Discharged(c)
  <2>1. /\ c \in Trade /\ c.slice.state = "rejected"
        /\ c.slice.outcome = t.slice.outcome /\ c.slice.result = t.slice.result
        /\ c.slice.sent = t.slice.sent
        /\ SameAttempt(t, c)
        /\ SameCounts(t, c) /\ SameVolumes(t, c) /\ SameObligation(t, c)
    BY <1>t, StateReplaced DEF SliceState
  <2> HIDE DEF c
  <2>2. /\ d \in Trade /\ d.slice = c.slice /\ d.requested = c.requested
        /\ SameCounts(c, d) /\ SameVolumes(c, d)
        /\ d.satisfied <=> c.satisfied \/ (c.requested /\ NoExposure(c))
    BY <2>1, ObligationReplaced
  <2> HIDE DEF d
  <2>3. Settles(t, d)
    BY <1>3, <1>t, <2>1, <2>2
    DEF Settles, SettledState, SettledVolumes, SameObligation, SameVolumes, SameCounts,
        SameAttempt, NoExposure
  <2> QED
    BY <2>3 DEF c, d
<1> QED
  BY <1>1, <1>2, <1>3

\* A filled OPEN is held from then on; what was not filled rests.
LEMMA OpenSettles ==
    ASSUME NEW t, Sound(t), t.slice.state = "reconciling", t.slice.kind = "open"
    PROVE  LET bought == [t EXCEPT !.open = @ + t.slice.result]
               full == Settled([bought EXCEPT !.pending = 0], "filled")
               part == Settled([bought EXCEPT !.pending = t.slice.requested - t.slice.result],
                               "partially_filled")
           IN  /\ t.slice.outcome = "full" => Settles(t, full)
               /\ t.slice.outcome = "partial" => Settles(t, part)
<1>t. t \in Trade /\ ~t.satisfied
  BY AnsweredFacts
<1>1. ASSUME NEW pending \in Nat, NEW state \in {"filled", "partially_filled"},
             pending = t.slice.requested - t.slice.result, t.slice.result # 0,
             t.slice.outcome \in {"full", "partial"}, state = SettledState(t.slice)
      PROVE  Settles(t, Settled([[t EXCEPT !.open = @ + t.slice.result]
                                    EXCEPT !.pending = pending], state))
  <2> DEFINE b == [t EXCEPT !.open = @ + t.slice.result]
             c == [b EXCEPT !.pending = pending]
             d == Settled(c, state)
  <2>1. t.open + t.slice.result \in Nat
    BY <1>t, FieldTypes
  <2>2. /\ b \in Trade /\ b.open = t.open + t.slice.result /\ b.slice = t.slice
        /\ SameCounts(t, b) /\ SameObligation(t, b)
    BY <1>t, <2>1, VolumeReplaced
  <2> HIDE DEF b
  <2>3. /\ c \in Trade /\ c.open = b.open /\ c.pending = pending /\ c.slice = b.slice
        /\ SameCounts(b, c) /\ SameObligation(b, c)
    BY <2>2, VolumeReplaced
  <2> HIDE DEF c
  <2>4. /\ d \in Trade /\ d.slice.state = state
        /\ d.slice.outcome = c.slice.outcome /\ d.slice.result = c.slice.result
        /\ d.slice.sent = c.slice.sent
        /\ SameAttempt(c, d)
        /\ SameCounts(c, d) /\ SameVolumes(c, d) /\ SameObligation(c, d)
    BY <2>3, StateReplaced DEF SliceState
  <2> HIDE DEF d
  <2>5. d.open # 0
    BY <1>1, <1>t, <2>2, <2>3, <2>4, FieldTypes DEF SameVolumes
  <2>6. d.satisfied = t.satisfied /\ d.requested = t.requested
    BY <2>2, <2>3, <2>4 DEF SameObligation
  <2>7. SettledVolumes(t, d)
    BY <1>1, <2>2, <2>3, <2>4 DEF SettledVolumes, SameVolumes
  <2>8. Settles(t, d)
    BY <1>1, <1>t, <2>2, <2>3, <2>4, <2>5, <2>6, <2>7
    DEF Settles, SameCounts, SameAttempt
  <2> QED
    BY <2>8 DEF b, c, d
<1>2. t.slice.requested \in Nat /\ t.slice.result \in Nat
  BY <1>t, FieldTypes
<1>3. t.slice.outcome = "full" =>
          0 < t.slice.result /\ t.slice.result = t.slice.requested
  BY AnsweredFacts
<1>4. t.slice.outcome = "partial" =>
          0 < t.slice.result /\ t.slice.result < t.slice.requested
  BY AnsweredFacts
<1>5. ASSUME t.slice.outcome = "full"
      PROVE  Settles(t, Settled([[t EXCEPT !.open = @ + t.slice.result]
                                    EXCEPT !.pending = 0], "filled"))
  <2>1. 0 \in Nat /\ 0 = t.slice.requested - t.slice.result /\ t.slice.result # 0
    BY <1>2, <1>3, <1>5
  <2>2. SettledState(t.slice) = "filled"
    BY <1>5 DEF SettledState
  <2> QED
    BY <1>1, <1>5, <2>1, <2>2
<1>6. ASSUME t.slice.outcome = "partial"
      PROVE  Settles(t, Settled([[t EXCEPT !.open = @ + t.slice.result]
                                    EXCEPT !.pending = t.slice.requested - t.slice.result],
                                "partially_filled"))
  <2>1. t.slice.requested - t.slice.result \in Nat /\ t.slice.result # 0
    BY <1>2, <1>4, <1>6
  <2>2. SettledState(t.slice) = "partially_filled"
    BY <1>6 DEF SettledState
  <2> QED
    BY <1>1, <1>6, <2>1, <2>2
<1> QED
  BY <1>5, <1>6

\* A filled CLOSE is not held any more, and may discharge the obligation.
LEMMA CloseSettles ==
    ASSUME NEW t, Sound(t), t.slice.state = "reconciling", t.slice.kind = "close"
    PROVE  LET sold == [t EXCEPT !.open = @ - t.slice.result]
           IN  /\ t.slice.result <= t.open
               /\ t.slice.outcome = "full" =>
                     Settles(t, DischargedByClose(Settled(sold, "filled")))
               /\ t.slice.outcome = "partial" =>
                     Settles(t, Settled(sold, "partially_filled"))
<1>t. t \in Trade /\ ~t.satisfied /\ t.requested /\ t.pending = 0
  BY AnsweredFacts
<1>f. /\ t.slice.requested <= t.open
      /\ t.slice.outcome = "full" => t.slice.result = t.slice.requested
      /\ t.slice.outcome = "partial" => t.slice.result < t.slice.requested
  BY AnsweredFacts
<1>n. t.open \in Nat /\ t.slice.requested \in Nat /\ t.slice.result \in Nat
  BY <1>t, FieldTypes
<1>r. t.slice.result <= t.open /\ t.open - t.slice.result \in Nat
  <2>1. t.slice.result <= t.slice.requested
    BY DEF Sound, ValidTrade, ValidSlice
  <2> QED
    BY <2>1, <1>f, <1>n
<1> DEFINE sold == [t EXCEPT !.open = @ - t.slice.result]
<1>1. /\ sold \in Trade /\ sold.open = t.open - t.slice.result
      /\ sold.pending = t.pending /\ sold.slice = t.slice
      /\ SameCounts(t, sold) /\ SameObligation(t, sold)
  BY <1>t, <1>r, VolumeReplaced
<1> HIDE DEF sold
<1>2. ASSUME t.slice.outcome = "full"
      PROVE  Settles(t, DischargedByClose(Settled(sold, "filled")))
  <2> DEFINE c == Settled(sold, "filled")
             d == DischargedByClose(c)
  <2>1. /\ c \in Trade /\ c.slice.state = "filled"
        /\ c.slice.outcome = t.slice.outcome /\ c.slice.result = t.slice.result
        /\ c.slice.sent = t.slice.sent
        /\ SameAttempt(sold, c)
        /\ SameCounts(sold, c) /\ SameVolumes(sold, c) /\ SameObligation(sold, c)
    BY <1>1, StateReplaced DEF SliceState
  <2> HIDE DEF c
  <2>2. /\ d \in Trade /\ d.slice = c.slice /\ d.requested = c.requested
        /\ SameCounts(c, d) /\ SameVolumes(c, d)
        /\ d.satisfied <=> c.satisfied \/ NoExposure(c)
    BY <2>1, ObligationReplaced
  <2> HIDE DEF d
  <2>3. d.satisfied <=> d.open = 0 /\ d.pending = 0
    <3>1. c.open = 0 /\ c.pending = 0 <=> d.open = 0 /\ d.pending = 0
      BY <2>2 DEF SameVolumes
    <3>2. ~c.satisfied
      BY <1>t, <1>1, <2>1 DEF SameObligation
    <3>3. d.satisfied <=> c.open = 0 /\ c.pending = 0
      BY <2>2, <3>2 DEF NoExposure
    <3> QED
      BY <3>1, <3>3
  <2>4. d.requested = t.requested /\ d.requested
    BY <1>t, <1>1, <2>1, <2>2 DEF SameObligation
  <2>5. SettledVolumes(t, d)
    BY <1>2, <1>1, <2>1, <2>2 DEF SettledVolumes, SameVolumes
  <2>6. SettledState(t.slice) = "filled"
    BY <1>2 DEF SettledState
  <2>7. SameAttempt(t, d) /\ SameCounts(t, d)
    BY <1>1, <2>1, <2>2 DEF SameCounts, SameAttempt
  <2>8. /\ d.slice.state = "filled" /\ d.slice.outcome = t.slice.outcome
        /\ d.slice.result = t.slice.result /\ d.slice.sent = t.slice.sent
    BY <1>1, <2>1, <2>2
  <2>9. Settles(t, d)
    BY <2>2, <2>3, <2>4, <2>5, <2>6, <2>7, <2>8 DEF Settles
  <2> QED
    BY <2>9 DEF c, d
<1>3. ASSUME t.slice.outcome = "partial"
      PROVE  Settles(t, Settled(sold, "partially_filled"))
  <2> DEFINE c == Settled(sold, "partially_filled")
  <2>1. /\ c \in Trade /\ c.slice.state = "partially_filled"
        /\ c.slice.outcome = t.slice.outcome /\ c.slice.result = t.slice.result
        /\ c.slice.sent = t.slice.sent
        /\ SameAttempt(sold, c)
        /\ SameCounts(sold, c) /\ SameVolumes(sold, c) /\ SameObligation(sold, c)
    BY <1>1, StateReplaced DEF SliceState
  <2> HIDE DEF c
  <2>2. c.open # 0
    BY <1>3, <1>f, <1>n, <1>1, <2>1 DEF SameVolumes
  <2>3. c.requested = t.requested /\ c.satisfied = t.satisfied
    BY <1>1, <2>1 DEF SameObligation
  <2>4. SettledVolumes(t, c)
    BY <1>3, <1>1, <2>1 DEF SettledVolumes, SameVolumes
  <2>5. SettledState(t.slice) = "partially_filled"
    BY <1>3 DEF SettledState
  <2>6. Settles(t, c)
    BY <1>1, <1>t, <2>1, <2>2, <2>3, <2>4, <2>5 DEF Settles, SameCounts, SameAttempt
  <2> QED
    BY <2>6 DEF c
<1> QED
  BY <1>r, <1>2, <1>3 DEF sold

\* A cancelled remainder rests no more.
LEMMA CancelSettles ==
    ASSUME NEW t, Sound(t), t.slice.state = "reconciling", t.slice.kind = "cancel",
           t.slice.outcome = "full"
    PROVE  Settles(t, Discharged(Settled([t EXCEPT !.pending = 0], "cancelled")))
<1>t. t \in Trade /\ ~t.satisfied
  BY AnsweredFacts
<1> DEFINE b == [t EXCEPT !.pending = 0]
           c == Settled(b, "cancelled")
           d == Discharged(c)
<1>1. /\ b \in Trade /\ b.open = t.open /\ b.pending = 0 /\ b.slice = t.slice
      /\ SameCounts(t, b) /\ SameObligation(t, b)
  BY <1>t, VolumeReplaced
<1> HIDE DEF b
<1>2. /\ c \in Trade /\ c.slice.state = "cancelled"
      /\ c.slice.outcome = t.slice.outcome /\ c.slice.result = t.slice.result
      /\ c.slice.sent = t.slice.sent
      /\ SameAttempt(b, c)
      /\ SameCounts(b, c) /\ SameVolumes(b, c) /\ SameObligation(b, c)
  BY <1>1, StateReplaced DEF SliceState
<1> HIDE DEF c
<1>3. /\ d \in Trade /\ d.slice = c.slice /\ d.requested = c.requested
      /\ SameCounts(c, d) /\ SameVolumes(c, d)
      /\ d.satisfied <=> c.satisfied \/ (c.requested /\ NoExposure(c))
  BY <1>2, ObligationReplaced
<1> HIDE DEF d
<1>4. d.requested = t.requested
  BY <1>1, <1>2, <1>3 DEF SameObligation
<1>5. d.satisfied <=> d.requested /\ d.open = 0 /\ d.pending = 0
  BY <1>t, <1>1, <1>2, <1>3 DEF SameObligation, SameVolumes, NoExposure
<1>6. SettledVolumes(t, d)
  BY <1>1, <1>2, <1>3 DEF SettledVolumes, SameVolumes
<1>7. SettledState(t.slice) = "cancelled"
  BY DEF SettledState
<1>8. Settles(t, d)
  BY <1>1, <1>2, <1>3, <1>4, <1>5, <1>6, <1>7 DEF Settles, SameCounts, SameAttempt
<1> QED
  BY <1>8 DEF b, c, d


\* A candidate that settles is what the mutator leaves behind.
LEMMA SettlingMutation ==
    ASSUME NEW t, Sound(t), t.slice.state = "reconciling",
           NEW allowed \in BOOLEAN, NEW c, allowed => Settles(t, c)
    PROVE  /\ allowed => Mutation(allowed, c) # {}
           /\ \A u \in Mutation(allowed, c) : GoodStep(t, u)
BY SettledIsTaken DEF Mutation

\* The answer of an OPEN can be applied.
LEMMA ReconcileOpenYields ==
    ASSUME NEW t, Sound(t), t.slice.state = "reconciling", t.slice.kind = "open"
    PROVE  /\ ReconcileOpen(t) # {}
           /\ \A u \in ReconcileOpen(t) : GoodStep(t, u)
<1> DEFINE s == t.slice
           fits == t.open + s.result <= TargetVolume
           bought == [t EXCEPT !.open = @ + s.result]
           a1 == s.outcome = "full" /\ fits
           c1 == Settled([bought EXCEPT !.pending = 0], "filled")
           a2 == s.outcome = "partial" /\ fits
           c2 == Settled([bought EXCEPT !.pending = s.requested - s.result],
                         "partially_filled")
           a3 == s.outcome = "rejected"
           c3 == Discharged(Settled(t, "rejected"))
           a4 == s.outcome \in {"unknown", "none"}
           c4 == Settled(t, "ambiguous")
<1>1. ReconcileOpen(t) = Mutation(a1, c1) \cup Mutation(a2, c2)
                            \cup Mutation(a3, c3) \cup Mutation(a4, c4)
  BY DEF ReconcileOpen
<1>2. (a1 => Settles(t, c1)) /\ (a2 => Settles(t, c2))
  BY OpenSettles
<1>3. s.outcome \in {"full", "partial", "rejected", "unknown"}
  BY AnsweredFacts
<1>4. (a3 => Settles(t, c3)) /\ (a4 => Settles(t, c4))
  BY <1>3, NothingMoved
<1>5. fits
  <2>1. t.open + s.requested <= TargetVolume /\ t \in Trade
    BY AnsweredFacts
  <2>2. s.result <= s.requested
    BY DEF Sound, ValidTrade, ValidSlice
  <2> QED
    BY <2>1, <2>2, FieldTypes, PlanAssumption
<1>6. a1 \/ a2 \/ a3 \/ a4
  BY <1>3, <1>5
<1>7. a1 \in BOOLEAN /\ a2 \in BOOLEAN /\ a3 \in BOOLEAN /\ a4 \in BOOLEAN
  OBVIOUS
<1> HIDE DEF a1, a2, a3, a4, c1, c2, c3, c4
<1> QED
  BY <1>1, <1>2, <1>4, <1>6, <1>7, SettlingMutation

\* The answer of a CLOSE can be applied.
LEMMA ReconcileCloseYields ==
    ASSUME NEW t, Sound(t), t.slice.state = "reconciling", t.slice.kind = "close"
    PROVE  /\ ReconcileClose(t) # {}
           /\ \A u \in ReconcileClose(t) : GoodStep(t, u)
<1> DEFINE s == t.slice
           sold == [t EXCEPT !.open = @ - s.result]
           a1 == s.outcome = "full" /\ s.result <= t.open
           c1 == DischargedByClose(Settled(sold, "filled"))
           a2 == s.outcome = "partial" /\ s.result <= t.open
           c2 == Settled(sold, "partially_filled")
           a3 == s.outcome = "rejected"
           c3 == Settled(t, "rejected")
           a4 == s.outcome \in {"unknown", "none"}
           c4 == Settled(t, "ambiguous")
<1>1. ReconcileClose(t) = Mutation(a1, c1) \cup Mutation(a2, c2)
                             \cup Mutation(a3, c3) \cup Mutation(a4, c4)
  BY DEF ReconcileClose
<1>2. (a1 => Settles(t, c1)) /\ (a2 => Settles(t, c2)) /\ s.result <= t.open
  BY CloseSettles
<1>3. s.outcome \in {"full", "partial", "rejected", "unknown"}
  BY AnsweredFacts
<1>4. (a3 => Settles(t, c3)) /\ (a4 => Settles(t, c4))
  BY <1>3, NothingMoved
<1>6. a1 \/ a2 \/ a3 \/ a4
  BY <1>2, <1>3
<1>7. a1 \in BOOLEAN /\ a2 \in BOOLEAN /\ a3 \in BOOLEAN /\ a4 \in BOOLEAN
  OBVIOUS
<1> HIDE DEF a1, a2, a3, a4, c1, c2, c3, c4
<1> QED
  BY <1>1, <1>2, <1>4, <1>6, <1>7, SettlingMutation

\* The answer of a CANCEL can be applied.
LEMMA ReconcileCancelYields ==
    ASSUME NEW t, Sound(t), t.slice.state = "reconciling", t.slice.kind = "cancel"
    PROVE  /\ ReconcileCancel(t) # {}
           /\ \A u \in ReconcileCancel(t) : GoodStep(t, u)
<1> DEFINE a1 == t.slice.outcome = "full"
           c1 == Discharged(Settled([t EXCEPT !.pending = 0], "cancelled"))
           a2 == t.slice.outcome = "rejected"
           c2 == Settled(t, "rejected")
           a3 == t.slice.outcome = "unknown"
           c3 == Settled(t, "ambiguous")
<1>1. ReconcileCancel(t) = Mutation(a1, c1) \cup Mutation(a2, c2) \cup Mutation(a3, c3)
  BY DEF ReconcileCancel
<1>2. a1 => Settles(t, c1)
  BY CancelSettles
<1>3. t.slice.outcome \in {"full", "partial", "rejected", "unknown"}
      /\ t.slice.outcome # "partial"
  BY AnsweredFacts
<1>4. (a2 => Settles(t, c2)) /\ (a3 => Settles(t, c3))
  BY NothingMoved
<1>6. a1 \/ a2 \/ a3
  BY <1>3
<1>7. a1 \in BOOLEAN /\ a2 \in BOOLEAN /\ a3 \in BOOLEAN
  OBVIOUS
<1> HIDE DEF a1, a2, a3, c1, c2, c3
<1> QED
  BY <1>1, <1>2, <1>4, <1>6, <1>7, SettlingMutation

\* Every answer that was recorded can be applied, and applying it is good.
LEMMA ReconcileIsGood ==
    ASSUME NEW t, Sound(t)
    PROVE  /\ t.slice.state = "reconciling" => Reconcile(t) # {}
           /\ \A u \in Reconcile(t) : GoodStep(t, u)
<1>1. CASE t.slice.state # "reconciling"
  BY <1>1 DEF Reconcile
<1>2. CASE t.slice.state = "reconciling"
  <2>1. t.slice.sent = 1 /\ t.slice.kind \in {"open", "close", "cancel"}
    BY <1>2, AnsweredFacts
  <2>2. Reconcile(t) = IF t.slice.kind = "open" THEN ReconcileOpen(t)
                       ELSE IF t.slice.kind = "close" THEN ReconcileClose(t)
                       ELSE ReconcileCancel(t)
    BY <1>2, <2>1 DEF Reconcile
  <2> QED
    BY <1>2, <2>1, <2>2, ReconcileOpenYields, ReconcileCloseYields,
       ReconcileCancelYields
<1> QED
  BY <1>1, <1>2


----------------------------------------------------------------------------
(* Late fills, snapshots and the end of an ambiguous attempt.              *)

\* A late fill moves volume from resting to held.
LEMMA LateEntryIs ==
    ASSUME NEW t \in Trade, NEW v \in 1 .. t.pending
    PROVE  LET c == LateEntry(t, v)
           IN  /\ c \in Trade /\ c.slice = t.slice
               /\ c.open = t.open + v /\ c.pending = t.pending - v
               /\ SameCounts(t, c) /\ SameObligation(t, c)
<1>1. t.open \in Nat /\ t.pending \in Nat
  BY FieldTypes
<1> DEFINE open == t.open + v
           pending == t.pending - v
<1>2. open \in Nat /\ pending \in Nat
  BY <1>1
<1>3. LateEntry(t, v) = [t EXCEPT !.open = open, !.pending = pending]
  BY DEF LateEntry
<1> HIDE DEF open, pending
<1>4. LET c == LateEntry(t, v)
      IN  /\ c \in Trade /\ c.slice = t.slice /\ c.open = open /\ c.pending = pending
          /\ SameCounts(t, c) /\ SameObligation(t, c)
  BY <1>2, <1>3 DEF Trade, SameCounts, SameObligation
<1> QED
  BY <1>4 DEF open, pending

\* A resting remainder is filled.
LEMMA PendingRemainderIsGood ==
    ASSUME NEW t, Sound(t), NEW v \in Volumes, NEW u \in ObservePendingRemainder(t, v)
    PROVE  GoodStep(t, u)
<1> DEFINE s == t.slice
           b == LateEntry(t, v)
           r == IF v = t.pending
                  THEN [s EXCEPT !.result = @ + v, !.outcome = "full",
                                 !.state = "filled"]
                  ELSE [s EXCEPT !.result = @ + v]
<1>1. /\ t \in Trade /\ ValidTrade(u) /\ u = [b EXCEPT !.slice = r]
      /\ v \in 1 .. t.pending /\ s.kind = "open" /\ s.state = "partially_filled"
  BY DEF ObservePendingRemainder, Mutation, Sound
<1>2. t.open \in Nat /\ t.pending \in Nat /\ v \in Nat /\ s \in Slice
      /\ s.result + v \in Nat
  BY <1>1, FieldTypes
<1>3. /\ b \in Trade /\ b.slice = s /\ b.open = t.open + v /\ b.pending = t.pending - v
      /\ SameCounts(t, b) /\ SameObligation(t, b)
  BY <1>1, LateEntryIs
<1>4. /\ r \in Slice /\ r.state \in {"partially_filled", "filled"} /\ r.id = s.id
      /\ r.kind = "open" /\ r.sent = s.sent
  BY <1>1, <1>2 DEF Slice, SliceState, BrokerOutcome
<1> HIDE DEF b, r
<1>5. /\ u \in Trade /\ u.slice = r
      /\ SameCounts(b, u) /\ SameVolumes(b, u) /\ SameObligation(b, u)
  BY <1>1, <1>3, <1>4, SliceReplaced
<1>6. u.open = t.open + v /\ u.pending = t.pending - v /\ SameCounts(t, u)
  BY <1>3, <1>5 DEF SameVolumes, SameCounts
<1>7. Sound(u)
  <2>1. u.open # 0
    BY <1>1, <1>2, <1>6
  <2> QED
    BY <1>1, <1>4, <1>5, <2>1
    DEF Sound, EntryFits, CloseFits, CancelLeavesExposure, FillIsHeld, Active
<1>8. Conserves(t, u)
  <2>1. InFlight(t, "open") = 0 /\ InFlight(u, "open") = 0
    BY <1>1, <1>4, <1>5 DEF InFlight, Active
  <2> QED
    BY <1>1, <1>2, <1>6, <2>1 DEF Conserves, Exposure
<1>9. NeverRepeats(t, u)
  BY <1>4, <1>5 DEF NeverRepeats
<1> QED
  BY <1>7, <1>8, <1>9 DEF GoodStep

\* A fill wins the race against its cancellation.
LEMMA CancelRemainderIsGood ==
    ASSUME NEW t, Sound(t), NEW v \in Volumes, NEW u \in ObserveCancelRemainder(t, v)
    PROVE  GoodStep(t, u)
<1>1. /\ t \in Trade /\ ValidTrade(u) /\ u = LateEntry(t, v)
      /\ v \in 1 .. t.pending /\ t.slice.kind = "cancel"
  BY DEF ObserveCancelRemainder, Mutation, Sound
<1>2. t.open \in Nat /\ t.pending \in Nat /\ v \in Nat
  BY <1>1, FieldTypes
<1>3. /\ u \in Trade /\ u.slice = t.slice
      /\ u.open = t.open + v /\ u.pending = t.pending - v /\ SameCounts(t, u)
  BY <1>1, LateEntryIs
<1>4. Sound(u)
  <2>1. u.open + u.pending # 0
    BY <1>1, <1>2, <1>3
  <2> QED
    BY <1>1, <1>3, <2>1
    DEF Sound, EntryFits, CloseFits, CancelLeavesExposure, FillIsHeld
<1>5. Conserves(t, u)
  <2>1. InFlight(t, "open") = 0 /\ InFlight(u, "open") = 0
    BY <1>1, <1>3 DEF InFlight
  <2> QED
    BY <1>1, <1>2, <1>3, <2>1 DEF Conserves, Exposure
<1>6. NeverRepeats(t, u)
  <2>1. t.slice.sent = 1 => t.slice.state \notin {"dispatching", "submitting"}
    BY DEF Sound, ValidTrade, ValidSlice
  <2> QED
    BY <1>3, <2>1 DEF NeverRepeats
<1> QED
  BY <1>4, <1>5, <1>6 DEF GoodStep

\* The remainder of a partial CLOSE is filled.
LEMMA CloseRemainderIsGood ==
    ASSUME NEW t, Sound(t), NEW v \in Volumes, NEW u \in ObserveCloseRemainder(t, v)
    PROVE  GoodStep(t, u)
<1> DEFINE s == t.slice
           r == [s EXCEPT !.result = @ + v]
           f == [r EXCEPT !.outcome = "full", !.state = "filled"]
           open == t.open - v
           b == [t EXCEPT !.open = open]
           sold == [b EXCEPT !.slice = r]
           done == [b EXCEPT !.slice = f]
           d == DischargedByClose(done)
<1>1. /\ t \in Trade /\ ValidTrade(u)
      /\ s.kind = "close" /\ s.state = "partially_filled"
      /\ v \in 1 .. s.requested - s.result /\ v <= t.open
  BY DEF ObserveCloseRemainder, Mutation, Sound
<1>2. /\ t.open \in Nat /\ t.pending \in Nat /\ v \in Nat /\ v # 0 /\ s \in Slice
      /\ s.result + v \in Nat
  BY <1>1, FieldTypes
<1>3. /\ r \in Slice /\ r.state = s.state /\ r.id = s.id /\ r.kind = s.kind
      /\ f \in Slice /\ f.state = "filled" /\ f.id = s.id /\ f.kind = s.kind
  BY <1>2 DEF Slice, SliceState, BrokerOutcome
<1>4. u = sold \/ u = d
  BY DEF ObserveCloseRemainder, Mutation
<1>5. open \in Nat /\ open < t.open
  BY <1>1, <1>2
<1> HIDE DEF r, f, open
<1>6. /\ b \in Trade /\ b.open = open /\ b.pending = t.pending
      /\ SameCounts(t, b) /\ SameObligation(t, b)
  BY <1>1, <1>5, VolumeReplaced
<1> HIDE DEF b
<1>7. /\ sold \in Trade /\ sold.slice = r
      /\ SameCounts(b, sold) /\ SameVolumes(b, sold) /\ SameObligation(b, sold)
      /\ done \in Trade /\ done.slice = f
      /\ SameCounts(b, done) /\ SameVolumes(b, done) /\ SameObligation(b, done)
  BY <1>3, <1>6, SliceReplaced
<1> HIDE DEF sold, done
<1>8. /\ d \in Trade /\ d.slice = done.slice /\ d.requested = done.requested
      /\ SameCounts(done, d) /\ SameVolumes(done, d)
  BY <1>7, ObligationReplaced
<1> HIDE DEF d
<1>9. /\ u \in Trade /\ u.open = open /\ u.pending = t.pending /\ SameCounts(t, u)
      /\ u.requested = t.requested /\ u.slice.id = s.id /\ u.slice.kind = "close"
      /\ u.slice.state \in {"partially_filled", "filled"}
  BY <1>1, <1>3, <1>4, <1>6, <1>7, <1>8 DEF SameCounts, SameVolumes, SameObligation
<1>10. Sound(u)
  <2>1. t.requested
    BY <1>1 DEF Sound, CloseFits
  <2> QED
    BY <1>1, <1>9, <2>1
    DEF Sound, EntryFits, CloseFits, CancelLeavesExposure, FillIsHeld, Active
<1>11. Conserves(t, u)
  <2>1. InFlight(t, "open") = 0 /\ InFlight(u, "open") = 0
    BY <1>1, <1>9 DEF InFlight
  <2> QED
    BY <1>1, <1>2, <1>5, <1>9, <2>1 DEF Conserves, Exposure
<1>12. NeverRepeats(t, u)
  BY <1>9 DEF NeverRepeats
<1> QED
  BY <1>10, <1>11, <1>12 DEF GoodStep

\* A snapshot says what is held and what rests.
LEMMA SnapshotIsGood ==
    ASSUME NEW t, Sound(t), NEW open \in 0 .. TargetVolume,
           NEW pending \in 0 .. TargetVolume,
           NEW u \in ApplyFreshSnapshot(t, open, pending)
    PROVE  GoodStep(t, u)
<1>1. /\ t \in Trade /\ ValidTrade(u) /\ t.slice.state = "ambiguous"
      /\ u = [t EXCEPT !.open = open, !.pending = pending, !.epoch = @ + 1]
  BY DEF ApplyFreshSnapshot, Mutation, Sound
<1>2. open \in Nat /\ pending \in Nat /\ t.epoch \in Nat
  BY <1>1, FieldTypes, PlanAssumption
<1> DEFINE e == t.epoch + 1
<1>3. e \in Nat /\ e # t.epoch
  BY <1>2
<1>4. u = [t EXCEPT !.open = open, !.pending = pending, !.epoch = e]
  BY <1>1
<1> HIDE DEF e
<1>5. /\ u \in Trade /\ u.slice = t.slice /\ u.requested = t.requested /\ u.epoch = e
  BY <1>1, <1>2, <1>3, <1>4 DEF Trade
<1>6. Sound(u)
  BY <1>1, <1>5
  DEF Sound, EntryFits, CloseFits, CancelLeavesExposure, FillIsHeld, Active
<1> QED
  BY <1>1, <1>3, <1>5, <1>6 DEF GoodStep, Conserves, NeverRepeats

\* An ambiguous attempt is retired once a snapshot was taken after it.
LEMMA AcknowledgeIsGood ==
    ASSUME NEW t, Sound(t), NEW u \in AcknowledgeAmbiguous(t)
    PROVE  GoodStep(t, u)
<1> DEFINE s == IdleSlice(t.slice.id)
           c == [t EXCEPT !.slice = s]
           d == Discharged(c)
<1>1. t \in Trade /\ ValidTrade(u) /\ t.slice.state = "ambiguous" /\ u = d
  BY DEF AcknowledgeAmbiguous, Mutation, Sound
<1>2. s \in Slice /\ s.id = t.slice.id /\ s.kind = "none" /\ s.state = "idle"
  BY <1>1, FieldTypes
  DEF IdleSlice, FreshSlice, Slice, SliceKind, SliceState, BrokerOutcome
<1> HIDE DEF s
<1>3. c \in Trade /\ c.slice = s /\ SameCounts(t, c) /\ SameVolumes(t, c)
  BY <1>1, <1>2, SliceReplaced
<1> HIDE DEF c
<1>4. d \in Trade /\ d.slice = c.slice /\ SameCounts(c, d) /\ SameVolumes(c, d)
  BY <1>3, ObligationReplaced
<1> HIDE DEF d
<1>5. Sound(u)
  BY <1>1, <1>2, <1>3, <1>4
  DEF Sound, EntryFits, CloseFits, CancelLeavesExposure, FillIsHeld
<1>6. Conserves(t, u)
  <2>1. InFlight(t, "open") = 0 /\ InFlight(u, "open") = 0
    BY <1>1, <1>2, <1>3, <1>4 DEF InFlight, Active
  <2> QED
    BY <1>1, <1>3, <1>4, <2>1, FieldTypes DEF Conserves, Exposure, SameVolumes
<1>7. NeverRepeats(t, u)
  BY <1>1, <1>2, <1>3, <1>4 DEF NeverRepeats
<1> QED
  BY <1>5, <1>6, <1>7 DEF GoodStep

----------------------------------------------------------------------------
(* The theorems.                                                           *)

\* Every action leaves a sound trade in a good step.
LEMMA NextIsGood ==
    ASSUME Sound(trade), Next
    PROVE  GoodStep(trade, trade')
<1>1. CASE OpenNextSlice
  BY <1>1, StartOpenIsGood DEF OpenNextSlice
<1>2. CASE AskToClose
  BY <1>2, RequestCloseIsGood DEF AskToClose
<1>3. CASE CloseSlice
  BY <1>3, StartCloseIsGood DEF CloseSlice
<1>4. CASE CancelRemainder
  BY <1>4, StartCancelIsGood DEF CancelRemainder
<1>5. CASE Submit
  BY <1>5, SubmitIsGood DEF Submit
<1>6. CASE Stop
  BY <1>6, StopPlanIsGood DEF Stop
<1>7. CASE RecoverCancel
  BY <1>7, RestoreCancelIsGood DEF RecoverCancel
<1>8. CASE Answer
  BY <1>8, AnswerIsGood DEF Answer
<1>9. CASE Apply
  BY <1>9, ReconcileIsGood DEF Apply
<1>10. CASE FillPending
  BY <1>10, PendingRemainderIsGood DEF FillPending
<1>11. CASE FillCancelled
  BY <1>11, CancelRemainderIsGood DEF FillCancelled
<1>12. CASE FillClose
  BY <1>12, CloseRemainderIsGood DEF FillClose
<1>13. CASE Refresh
  BY <1>13, SnapshotIsGood DEF Refresh
<1>14. CASE Acknowledge
  BY <1>14, AcknowledgeIsGood DEF Acknowledge
<1> QED
  BY <1>1, <1>2, <1>3, <1>4, <1>5, <1>6, <1>7, <1>8, <1>9, <1>10, <1>11, <1>12,
     <1>13, <1>14 DEF Next

\* The trade is sound in every reachable state.
THEOREM Inductive == Spec => []Sound(trade)
<1>1. Init => Sound(trade)
  BY NewTradeIsSound DEF Init
<1>2. Sound(trade) /\ [Next]_trade => Sound(trade)'
  <2>1. ASSUME Sound(trade), Next
        PROVE  Sound(trade')
    BY <2>1, NextIsGood DEF GoodStep
  <2> QED
    BY <2>1
<1> QED
  BY <1>1, <1>2, PTL DEF Spec

\* A trade has the types that ManagedTradeState declares.
THEOREM TypeCorrect == Spec => []TypeOK
<1>1. Sound(trade) => TypeOK
  BY DEF Sound, TypeOK
<1> QED
  BY <1>1, Inductive, PTL

\* A submitted attempt whose outcome stays unknown can be recorded so.
LEMMA UnknownIsRecorded ==
    ASSUME NEW t, Sound(t), t.slice.state = "submitting"
    PROVE  Answers(t) # {}
<1> DEFINE c == Answered(t, "unknown", 0)
<1>1. t \in Trade /\ "unknown" \in BrokerOutcome /\ 0 \in Nat
  BY DEF Sound, BrokerOutcome
<1>2. /\ c \in Trade /\ c.slice.state = "reconciling"
      /\ c.slice.outcome = "unknown" /\ c.slice.result = 0 /\ c.slice.sent = 1
      /\ SameAttempt(t, c)
      /\ SameCounts(t, c) /\ SameVolumes(t, c) /\ SameObligation(t, c)
  BY <1>1, AnsweredIsTrade
<1> HIDE DEF c
<1>3. /\ ValidSlice(t.slice) /\ t.slice.sent = 0 /\ t.slice.kind # "none"
      /\ ValidObligation(t)
  BY DEF Sound, ValidTrade, ValidSlice
<1>4. ValidSlice(c.slice)
  BY <1>1, <1>2, <1>3, FieldTypes DEF ValidSlice, SameAttempt
<1>5. ValidObligation(c)
  BY <1>2, <1>3 DEF ValidObligation, SameObligation, Active
<1>6. ValidTrade(c)
  BY <1>2, <1>4, <1>5
  DEF Sound, ValidTrade, SameAttempt, SameCounts, SameVolumes
<1>7. c \in RecordUnknown(t)
  BY <1>3, <1>6 DEF c, RecordUnknown, Mutation, AwaitsAnswer
<1> QED
  BY <1>7 DEF Answers

\* No answer is a dead end: what the broker answers to a submitted operation
\* can be recorded, and what was recorded can be applied.
THEOREM NoAnswerIsADeadEnd == Spec => []EvidenceIsApplied
<1>1. Sound(trade) => EvidenceIsApplied
  <2> SUFFICES ASSUME Sound(trade)
               PROVE  EvidenceIsApplied
    OBVIOUS
  <2>1. trade.slice.state = "reconciling" => Reconcile(trade) # {}
    BY ReconcileIsGood
  <2>2. trade.slice.state = "submitting" => Answers(trade) # {}
    BY UnknownIsRecorded
  <2>3. ASSUME NEW t \in Answers(trade)
        PROVE  Reconcile(t) # {}
    <3>1. Sound(t) /\ t.slice.state = "reconciling"
      BY AnswerIs, AnswerIsGood DEF GoodStep
    <3> QED
      BY <3>1, ReconcileIsGood
  <2> QED
    BY <2>1, <2>2, <2>3 DEF EvidenceIsApplied
<1> QED
  BY <1>1, Inductive, PTL

\* Exposure grows only with a new OPEN or a snapshot, and what is held falls
\* only by a fill of the current CLOSE or by a snapshot.
THEOREM VolumeIsConserved == Spec => ExposureIsConserved
<1> DEFINE A == trade'.epoch = trade.epoch =>
          /\ Exposure(trade') > Exposure(trade) =>
                trade'.slices = trade.slices + 1
          /\ trade'.open < trade.open =>
                trade.slice.kind = "close"
                    /\ trade.slice.state \in {"reconciling", "partially_filled"}
          /\ trade'.open > trade.open /\ trade.slice.sent = 0 =>
                trade'.open + trade'.pending = trade.open + trade.pending
<1>1. Sound(trade) /\ [Next]_trade => [A]_trade
  BY NextIsGood DEF GoodStep, Conserves
<1>2. ExposureIsConserved <=> [][A]_trade
  BY PTL DEF ExposureIsConserved
<1> HIDE DEF A
<1> QED
  BY <1>1, <1>2, Inductive, PTL DEF Spec

\* One operation id is one attempt.
THEOREM OneIdIsOneAttempt == Spec => AttemptIsNeverRepeated
<1> DEFINE A ==
       /\ trade'.slice.id # trade.slice.id =>
             /\ trade'.slice.id = trade.slice.id + 1
             /\ trade.slice.state \notin Active \cup {"ambiguous"}
       /\ trade'.slice.id = trade.slice.id /\ trade.slice.sent = 1 =>
             trade'.slice.state \notin {"dispatching", "submitting"}
<1>1. Sound(trade) /\ [Next]_trade => [A]_trade
  BY NextIsGood DEF GoodStep, NeverRepeats
<1>2. AttemptIsNeverRepeated <=> [][A]_trade
  BY PTL DEF AttemptIsNeverRepeated
<1> HIDE DEF A
<1> QED
  BY <1>1, <1>2, Inductive, PTL DEF Spec

----------------------------------------------------------------------------
(* The files: the invariant.                                               *)


\* A client has a request until it returns, and an answer from when it leaves.
RequestIsHeld(c) ==
    /\ at[c] = "idle" <=> asked[c] = NoRequest
    /\ at[c] = "leaves" <=> told[c] # Untold

\* The lock of a store covers the whole of a request, and that of the lease
\* covers its token.
LockIsHeld(c) ==
    /\ at[c] \in {"locked", "writes", "moves"} => locked[StoreAsked(c)] = c
    /\ lease[c] # 0 => locked["lease"] = c
    /\ at[c] = "locked" /\ asked[c].op = "acquire" => lease[c] = 0

\* What a client found when it compared is still there.
Follows(c) ==
    \/ /\ asked[c].op = "acquire"
       /\ lease[c] = EpochIn(target[FileOf[Account]]) + 1
    \/ /\ asked[c].op = "commit" /\ asked[c].record.key \in Operation
       /\ JournalAccepts(target[FileOf[asked[c].record.key]], asked[c].record)
    \/ /\ asked[c].op = "commit" /\ asked[c].record.key \in Reversal
       /\ target[FileOf[asked[c].record.key]] = NoFile

WriteFollows(c) ==
    /\ at[c] \in {"writes", "moves"} => Follows(c)
    /\ at[c] = "moves" =>
          temp[FileOf[Candidate(c).key]] = Whole(Candidate(c), TRUE)

\* A file has a record of its own, and all of it.
FilesAreWhole ==
    \A f \in File :
        /\ target[f] # Torn
        /\ target[f].is = "whole" =>
              target[f].onDisk /\ FileOf[target[f].record.key] = f
        /\ temp[f].is = "whole" => temp[f].onDisk

ClientIsInOrder(c) == RequestIsHeld(c) /\ LockIsHeld(c) /\ WriteFollows(c)

IFiles ==
    /\ FilesTypeOK
    /\ FilesAreWhole
    /\ \A c \in Client : ClientIsInOrder(c)

----------------------------------------------------------------------------
(* Facts about keys, files and requests.                                   *)

\* Each key belongs to one store, and the stores have no file in common.
LEMMA KeysOfStores ==
    ASSUME NEW k \in Key
    PROVE  /\ StoreOf(k) \in Stores
           /\ k \in Operation <=> StoreOf(k) = "journal"
           /\ k \in Reversal <=> StoreOf(k) = "reversals"
           /\ k = Account <=> StoreOf(k) = "lease"
           /\ FileOf[k] \in File
           /\ \A l \in Key : FileOf[k] = FileOf[l] => StoreOf(k) = StoreOf(l)
<1>1. FileOf[k] \in File
  BY DEF File
<1>2. \A l \in Key : FileOf[k] = FileOf[l] => StoreOf(k) = StoreOf(l)
  BY FilesAssumption DEF FilesAssumption
<1>3. /\ StoreOf(k) \in Stores
      /\ k \in Operation <=> StoreOf(k) = "journal"
      /\ k \in Reversal <=> StoreOf(k) = "reversals"
      /\ k = Account <=> StoreOf(k) = "lease"
  BY FilesAssumption DEF FilesAssumption, Key, StoreOf, Stores
<1> QED
  BY <1>1, <1>2, <1>3

\* The file of the lease has epochs only.
LEMMA AccountHasItsFile ==
    /\ Account \in Key
    /\ FileOf[Account] \in File
    /\ \A k \in Key : FileOf[k] = FileOf[Account] => k = Account
<1>1. Account \in Key
  BY DEF Key
<1> QED
  BY <1>1, KeysOfStores

\* A request is of one of four kinds, and says what its kind needs.
LEMMA RequestKinds ==
    ASSUME NEW q \in Requests
    PROVE  /\ q # NoRequest
           /\ q.op \in {"commit", "load", "scan", "acquire"}
           /\ q.op = "commit" => /\ q.record \in FiledRecord
                                 /\ q.record.key \in Operation \cup Reversal
                                 /\ q.record.key # Account
                                 /\ q.record.revision \in Nat
                                 /\ q.record.revision > 0
                                 /\ q.record.key \in Reversal => q.record.revision = 1
           /\ q.op = "load" => q.key \in Operation \cup Reversal
           /\ q.op = "scan" => q.keys \in {Operation, Reversal}
<1>1. q \in Request
  BY FilesAssumption DEF FilesAssumption
<1>2. q # NoRequest /\ q.op \in {"commit", "load", "scan", "acquire"}
  BY <1>1 DEF Request, NoRequest
<1>3. q.op = "commit" => /\ q.record \in FiledRecord
                         /\ q.record.key # Account
  BY <1>1 DEF Request
<1>4. q.op = "commit" => /\ q.record.key \in Operation \cup Reversal
                         /\ q.record.revision \in Nat
  BY <1>3 DEF FiledRecord, Key
<1>5. q.op = "load" => q.key \in Operation \cup Reversal
  BY <1>1 DEF Request
<1>6. q.op = "scan" => q.keys \in {Operation, Reversal}
  BY <1>1 DEF Request
<1>7. q.op = "commit" => /\ q.record.revision > 0
                         /\ q.record.key \in Reversal => q.record.revision = 1
  BY FilesAssumption DEF FilesAssumption
<1> QED
  BY <1>2, <1>3, <1>4, <1>5, <1>6, <1>7

\* The three kinds of content.
LEMMA ContentKinds ==
    ASSUME NEW f \in Content
    PROVE  /\ f = NoFile \/ f = Torn \/ f.is = "whole"
           /\ f.is = "whole" => /\ f # NoFile /\ f # Torn
                                /\ f.record \in FiledRecord
                                /\ f.record.key \in Key
                                /\ f.record.revision \in Nat
                                /\ f.onDisk \in BOOLEAN
                                /\ f = Whole(f.record, f.onDisk)
           /\ EpochIn(f) \in Nat
<1>1. CASE f = NoFile
  BY <1>1 DEF NoFile, EpochIn, Torn
<1>2. CASE f = Torn
  BY <1>2 DEF NoFile, EpochIn, Torn
<1>3. CASE f \in [is: {"whole"}, record: FiledRecord, onDisk: BOOLEAN]
  <2>1. f.is = "whole" /\ f.record \in FiledRecord /\ f.onDisk \in BOOLEAN
    BY <1>3
  <2>2. f = Whole(f.record, f.onDisk)
    BY <1>3 DEF Whole
  <2>3. f # NoFile /\ f # Torn
    BY <2>1 DEF NoFile, Torn
  <2>4. f.record.key \in Key /\ f.record.revision \in Nat
    BY <2>1 DEF FiledRecord
  <2> QED
    BY <2>1, <2>2, <2>3, <2>4 DEF EpochIn
<1> QED
  BY <1>1, <1>2, <1>3 DEF Content

LEMMA WholeIsContent ==
    ASSUME NEW r \in FiledRecord, NEW b \in BOOLEAN
    PROVE  /\ Whole(r, b) \in Content
           /\ Whole(r, b).is = "whole" /\ Whole(r, b).record = r
           /\ Whole(r, b).onDisk = b
BY DEF Whole, Content

LEMMA NoneIsContent ==
    /\ NoFile \in Content /\ Torn \in Content
    /\ NoFile # Torn /\ NoFile.is # "whole" /\ Torn.is # "whole"
BY DEF NoFile, Torn, Content

\* What is written belongs to the store whose lock is held.
LEMMA CandidateIsOfTheStore ==
    ASSUME NEW c \in Client, FilesTypeOK, RequestIsHeld(c), Follows(c),
           at[c] # "idle"
    PROVE  /\ Candidate(c) \in FiledRecord
           /\ Candidate(c).key \in Key
           /\ StoreOf(Candidate(c).key) = StoreAsked(c)
           /\ asked[c].op = "acquire" => /\ Candidate(c).key = Account
                                         /\ Candidate(c).revision = lease[c]
                                         /\ StoreAsked(c) = "lease"
           /\ asked[c].op = "commit" => Candidate(c) = asked[c].record
<1>1. asked[c] \in Requests /\ lease[c] \in Nat
  BY DEF FilesTypeOK, RequestIsHeld
<1>2. CASE asked[c].op = "acquire"
  <2>1. Candidate(c) = [key |-> Account, revision |-> lease[c], kind |-> "epoch"]
    BY <1>2 DEF Candidate
  <2>2. Candidate(c) \in FiledRecord /\ Candidate(c).key = Account
    BY <1>1, <2>1 DEF FiledRecord, Key
  <2>3. StoreAsked(c) = "lease"
    BY <1>2 DEF StoreAsked
  <2> QED
    BY <1>2, <2>1, <2>2, <2>3, AccountHasItsFile, KeysOfStores
<1>3. CASE asked[c].op = "commit"
  <2>1. Candidate(c) = asked[c].record
    BY <1>3 DEF Candidate
  <2>2. asked[c].record \in FiledRecord
    BY <1>1, <1>3, RequestKinds
  <2>3. StoreAsked(c) = StoreOf(asked[c].record.key)
    BY <1>3 DEF StoreAsked, KeyOf
  <2>4. Candidate(c).key \in Key
    BY <2>1, <2>2 DEF FiledRecord
  <2> QED
    BY <1>3, <2>1, <2>2, <2>3, <2>4
<1> QED
  BY <1>2, <1>3 DEF Follows

----------------------------------------------------------------------------
(* A step of one client disturbs no other.                                 *)

\* The files that a step of c may change: those of the store that c has locked.
TouchesItsOwn(c) ==
    \A f \in File :
        \/ target'[f] = target[f] /\ temp'[f] = temp[f]
        \/ /\ at[c] \in {"locked", "writes", "moves"}
           /\ \E k \in Key : f = FileOf[k] /\ StoreOf(k) = StoreAsked(c)

\* Of two clients that hold locks, neither writes a file of the other's store.
LEMMA OthersStayInOrder ==
    ASSUME IFiles, NEW c \in Client,
           TouchesItsOwn(c),
           \A d \in Client \ {c} :
              /\ at'[d] = at[d] /\ asked'[d] = asked[d]
              /\ told'[d] = told[d] /\ lease'[d] = lease[d],
           \A s \in Stores : \A d \in Client \ {c} :
              locked[s] = d => locked'[s] = d
    PROVE  \A d \in Client \ {c} : ClientIsInOrder(d)'
<1> SUFFICES ASSUME NEW d \in Client \ {c}
             PROVE  ClientIsInOrder(d)'
  OBVIOUS
<1>1. ClientIsInOrder(d) /\ FilesTypeOK
  BY DEF IFiles
<1>2. /\ at'[d] = at[d] /\ asked'[d] = asked[d]
      /\ told'[d] = told[d] /\ lease'[d] = lease[d]
  OBVIOUS
<1>3. RequestIsHeld(d)'
  BY <1>1, <1>2 DEF ClientIsInOrder, RequestIsHeld
<1>4. StoreAsked(d)' = StoreAsked(d) /\ Candidate(d)' = Candidate(d)
  BY <1>2 DEF StoreAsked, Candidate
<1>5. StoreAsked(d) \in Stores /\ "lease" \in Stores
  <2>1. asked[d].op \in {"commit", "load"} /\ at[d] # "idle" => KeyOf(asked[d]) \in Key
    <3>1. at[d] # "idle" => asked[d] \in Requests
      BY <1>1 DEF ClientIsInOrder, RequestIsHeld, FilesTypeOK
    <3> QED
      BY <3>1, RequestKinds DEF KeyOf, Key
  <2> QED
    BY KeysOfStores DEF StoreAsked, Stores, StoreOf
<1>6. LockIsHeld(d)'
  <2>1. LockIsHeld(d)
    BY <1>1 DEF ClientIsInOrder
  <2> QED
    BY <1>2, <1>4, <1>5, <2>1 DEF LockIsHeld
<1>7. ASSUME at[d] \in {"writes", "moves"}
      PROVE  LET f == FileOf[Candidate(d).key] IN
                /\ target'[f] = target[f] /\ temp'[f] = temp[f]
                /\ asked[d].op = "acquire" => f = FileOf[Account]
                /\ asked[d].op = "commit" => f = FileOf[asked[d].record.key]
  <2> DEFINE f == FileOf[Candidate(d).key]
  <2>1. Follows(d) /\ RequestIsHeld(d)
    BY <1>1, <1>7 DEF ClientIsInOrder, WriteFollows
  <2>2. /\ Candidate(d).key \in Key
        /\ StoreOf(Candidate(d).key) = StoreAsked(d)
        /\ asked[d].op = "acquire" => Candidate(d).key = Account
        /\ asked[d].op = "commit" => Candidate(d) = asked[d].record
    BY <1>1, <1>7, <2>1, CandidateIsOfTheStore
  <2>3. locked[StoreAsked(d)] = d
    BY <1>1, <1>7 DEF ClientIsInOrder, LockIsHeld
  <2>4. at[c] \in {"locked", "writes", "moves"} => StoreAsked(c) # StoreAsked(d)
    BY <2>3 DEF IFiles, ClientIsInOrder, LockIsHeld
  <2>5. f \in File
    BY <2>2, KeysOfStores
  <2>6. target'[f] = target[f] /\ temp'[f] = temp[f]
    BY <2>2, <2>4, <2>5, KeysOfStores DEF TouchesItsOwn
  <2> QED
    BY <2>2, <2>6
<1>8. WriteFollows(d)'
  <2>1. WriteFollows(d)
    BY <1>1 DEF ClientIsInOrder
  <2>2. ASSUME at'[d] \in {"writes", "moves"} PROVE Follows(d)'
    <3>1. at[d] \in {"writes", "moves"} /\ Follows(d)
      BY <1>2, <2>1, <2>2 DEF WriteFollows
    <3> QED
      BY <1>2, <1>7, <3>1 DEF Follows
  <2>3. ASSUME at'[d] = "moves"
        PROVE  temp'[FileOf[Candidate(d).key]] = Whole(Candidate(d), TRUE)
    BY <1>2, <1>7, <2>1, <2>3 DEF WriteFollows
  <2> QED
    BY <1>4, <2>2, <2>3 DEF WriteFollows
<1> QED
  BY <1>3, <1>6, <1>8 DEF ClientIsInOrder

\* It is enough to look at the files and at the client that takes the step.
LEMMA OneClientMoves ==
    ASSUME IFiles, NEW c \in Client,
           TouchesItsOwn(c),
           \A d \in Client \ {c} :
              /\ at'[d] = at[d] /\ asked'[d] = asked[d]
              /\ told'[d] = told[d] /\ lease'[d] = lease[d],
           \A s \in Stores : \A d \in Client \ {c} :
              locked[s] = d => locked'[s] = d,
           FilesTypeOK', FilesAreWhole', ClientIsInOrder(c)'
    PROVE  IFiles'
<1>1. \A d \in Client \ {c} : ClientIsInOrder(d)'
  BY OthersStayInOrder
<1> QED
  BY <1>1 DEF IFiles

\* An answer changes nothing for others.
LEMMA TellingKeepsOrder ==
    ASSUME IFiles, NEW c \in Client, NEW t,
           at[c] \in {"waits", "locked"},
           t \in [status: Status, records: SUBSET FiledRecord], t # Untold,
           TellAtOnce(c, t)
    PROVE  IFiles'
<1> USE DEF TellAtOnce, Tell
<1>1. FilesTypeOK'
  BY DEF IFiles, FilesTypeOK
<1>2. FilesAreWhole'
  BY DEF IFiles, FilesAreWhole
<1>3. TouchesItsOwn(c)
  BY DEF TouchesItsOwn
<1>4. at'[c] = "leaves" /\ told'[c] = t
  BY DEF IFiles, FilesTypeOK
<1>5. ClientIsInOrder(c)'
  <2>1. RequestIsHeld(c)'
    BY <1>4 DEF IFiles, ClientIsInOrder, RequestIsHeld, FilesTypeOK, Untold, Told
  <2>2. LockIsHeld(c)' /\ WriteFollows(c)'
    BY <1>4 DEF IFiles, ClientIsInOrder, LockIsHeld, WriteFollows
  <2> QED
    BY <2>1, <2>2 DEF ClientIsInOrder
<1>6. \A d \in Client \ {c} :
         /\ at'[d] = at[d] /\ asked'[d] = asked[d]
         /\ told'[d] = told[d] /\ lease'[d] = lease[d]
  BY DEF IFiles, FilesTypeOK
<1> QED
  BY <1>1, <1>2, <1>3, <1>5, <1>6, OneClientMoves

----------------------------------------------------------------------------
(* Each step preserves the invariant.                                      *)

LEMMA InvokeKeeps ==
    ASSUME IFiles, NEW c \in Client, Invoke(c)
    PROVE  IFiles'
<1> PICK q \in Requests : asked' = [asked EXCEPT ![c] = q]
  BY DEF Invoke
<1> q # NoRequest
  BY RequestKinds
<1> USE DEF Invoke
<1>1. FilesTypeOK' /\ FilesAreWhole'
  BY DEF IFiles, FilesTypeOK, FilesAreWhole
<1>2. TouchesItsOwn(c)
  BY DEF TouchesItsOwn
<1>3. ClientIsInOrder(c)'
  BY DEF IFiles, FilesTypeOK, ClientIsInOrder, RequestIsHeld, LockIsHeld, WriteFollows
<1>4. \A d \in Client \ {c} :
         /\ at'[d] = at[d] /\ asked'[d] = asked[d]
         /\ told'[d] = told[d] /\ lease'[d] = lease[d]
  BY DEF IFiles, FilesTypeOK
<1> QED
  BY <1>1, <1>2, <1>3, <1>4, OneClientMoves

LEMMA StoreAskedIsAStore ==
    ASSUME IFiles, NEW c \in Client, at[c] # "idle"
    PROVE  /\ StoreAsked(c) \in Stores
           /\ asked[c] \in Requests
           /\ StoreAsked(c) = "lease" <=> asked[c].op = "acquire"
<1>1. asked[c] \in Requests
  BY DEF IFiles, ClientIsInOrder, RequestIsHeld, FilesTypeOK
<1>2. asked[c].op \in {"commit", "load"} =>
         KeyOf(asked[c]) \in Key /\ KeyOf(asked[c]) # Account
  BY <1>1, RequestKinds, FilesAssumption DEF KeyOf, Key, FilesAssumption
<1>3. asked[c].op \in {"commit", "load", "scan", "acquire"}
  BY <1>1, RequestKinds
<1> QED
  BY <1>1, <1>2, <1>3, KeysOfStores DEF StoreAsked, Stores

LEMMA TakeLockKeeps ==
    ASSUME IFiles, NEW c \in Client, TakeLock(c)
    PROVE  IFiles'
<1> USE DEF TakeLock
<1>1. StoreAsked(c) \in Stores /\ StoreAsked(c)' = StoreAsked(c)
  BY StoreAskedIsAStore DEF StoreAsked
<1>2. FilesTypeOK' /\ FilesAreWhole'
  BY <1>1 DEF IFiles, FilesTypeOK, FilesAreWhole
<1>3. TouchesItsOwn(c)
  BY DEF TouchesItsOwn
<1>4. ClientIsInOrder(c)'
  <2>1. at'[c] = "locked" /\ at[c] = "waits"
    BY DEF IFiles, FilesTypeOK
  <2>2. RequestIsHeld(c)'
    BY <2>1 DEF IFiles, ClientIsInOrder, RequestIsHeld
  <2>3. asked[c].op = "acquire" => lease[c] = 0
    <3>1. asked[c].op = "acquire" => locked["lease"] = Free
      BY DEF StoreAsked
    <3> QED
      BY <3>1, FilesAssumption
      DEF IFiles, ClientIsInOrder, LockIsHeld, FilesAssumption
  <2>4. lease[c] # 0 => locked'["lease"] = c
    BY <1>1 DEF IFiles, ClientIsInOrder, LockIsHeld, FilesTypeOK, Stores
  <2>5. locked'[StoreAsked(c)] = c
    BY <1>1 DEF IFiles, FilesTypeOK
  <2>6. LockIsHeld(c)'
    BY <1>1, <2>3, <2>4, <2>5 DEF LockIsHeld
  <2>7. WriteFollows(c)'
    BY <2>1 DEF WriteFollows
  <2> QED
    BY <2>2, <2>6, <2>7 DEF ClientIsInOrder
<1>5. \A d \in Client \ {c} :
         /\ at'[d] = at[d] /\ asked'[d] = asked[d]
         /\ told'[d] = told[d] /\ lease'[d] = lease[d]
  BY DEF IFiles, FilesTypeOK
<1>6. \A s \in Stores : \A d \in Client \ {c} : locked[s] = d => locked'[s] = d
  BY <1>1, FilesAssumption DEF IFiles, FilesTypeOK, FilesAssumption
<1> QED
  BY <1>2, <1>3, <1>4, <1>5, <1>6, OneClientMoves

LEMMA RefusalKeeps ==
    ASSUME IFiles, NEW c \in Client, NEW status \in Status, status # "none",
           at[c] \in {"waits", "locked"},
           TellAtOnce(c, Told(status, {}))
    PROVE  IFiles'
<1>1. Told(status, {}) \in [status: Status, records: SUBSET FiledRecord]
  BY DEF Told
<1>2. Told(status, {}) # Untold
  BY DEF Told, Untold
<1> QED
  BY <1>1, <1>2, TellingKeepsOrder

LEMMA ReadKeeps ==
    ASSUME IFiles, NEW c \in Client, NEW records \in SUBSET FiledRecord,
           at[c] = "locked",
           TellAtOnce(c, Told("read", records))
    PROVE  IFiles'
<1>1. Told("read", records) \in [status: Status, records: SUBSET FiledRecord]
  BY DEF Told, Status
<1>2. Told("read", records) # Untold
  BY DEF Told, Untold
<1> QED
  BY <1>1, <1>2, TellingKeepsOrder

LEMMA LoadKeeps ==
    ASSUME IFiles, NEW c \in Client, NEW f \in File, at[c] = "locked",
           LoadFrom(c, target[f])
    PROVE  IFiles'
<1>1. target[f] \in Content /\ target[f] # Torn
  BY DEF IFiles, FilesTypeOK, FilesAreWhole
<1>2. CASE target[f] = NoFile
  <2>1. TellAtOnce(c, Told("read", {}))
    BY <1>2, NoneIsContent DEF LoadFrom
  <2> QED
    BY <2>1, ReadKeeps
<1>3. CASE target[f].is = "whole" /\ target[f].record.key = asked[c].key
  <2>1. TellAtOnce(c, Told("read", {target[f].record}))
    BY <1>1, <1>3, ContentKinds DEF LoadFrom
  <2> QED
    BY <1>1, <1>3, <2>1, ContentKinds, ReadKeeps
<1>4. CASE target[f].is = "whole" /\ target[f].record.key # asked[c].key
  <2>1. TellAtOnce(c, Told("collision", {}))
    BY <1>1, <1>4, ContentKinds DEF LoadFrom
  <2> QED
    BY <2>1, RefusalKeeps DEF Status
<1> QED
  BY <1>1, <1>2, <1>3, <1>4, ContentKinds

\* Nothing that is read is torn.
LEMMA ScansAreReads ==
    ASSUME IFiles, NEW K \in SUBSET Key
    PROVE  LET contents == {target[FileOf[k]] : k \in K} IN
              /\ ScanOf(contents) = Told("read", Records(contents))
              /\ Records(contents) \in SUBSET FiledRecord
<1>1. \A k \in K : target[FileOf[k]] \in Content /\ target[FileOf[k]] # Torn
  BY KeysOfStores DEF IFiles, FilesTypeOK, FilesAreWhole
<1> QED
  BY <1>1, ContentKinds DEF ScanOf, Records

LEMMA ReadsKeep ==
    ASSUME IFiles, NEW c \in Client,
           LoadRecord(c) \/ LoadReversal(c) \/ ScanRecords(c) \/ ScanReversals(c)
    PROVE  IFiles'
<1>1. CASE LoadRecord(c) \/ LoadReversal(c)
  <2>1. asked[c].key \in Key /\ LoadFrom(c, target[FileOf[asked[c].key]])
    BY <1>1 DEF LoadRecord, LoadReversal, Key
  <2>2. at[c] = "locked"
    BY <1>1 DEF LoadRecord, LoadReversal
  <2> QED
    BY <2>1, <2>2, KeysOfStores, LoadKeeps
<1>2. CASE ScanRecords(c)
  BY <1>2, ScansAreReads, ReadKeeps DEF ScanRecords, Key
<1>3. CASE ScanReversals(c)
  BY <1>3, ScansAreReads, ReadKeeps DEF ScanReversals, Key
<1> QED
  BY <1>1, <1>2, <1>3

\* A file is begun by a client that holds the lock of its store, with what it
\* found there still before it.
LEMMA BeginKeeps ==
    ASSUME IFiles, NEW c \in Client, NEW k \in Key,
           at[c] = "locked", StoreOf(k) = StoreAsked(c),
           BeginFile(c, FileOf[k]),
           lease' \in [Client -> Nat],
           \A d \in Client \ {c} : lease'[d] = lease[d],
           lease'[c] # 0 => locked["lease"] = c,
           Follows(c)'
    PROVE  IFiles'
<1> USE DEF BeginFile
<1>1. FilesTypeOK'
  BY NoneIsContent DEF IFiles, FilesTypeOK
<1>2. FilesAreWhole'
  BY NoneIsContent DEF IFiles, FilesTypeOK, FilesAreWhole
<1>3. TouchesItsOwn(c)
  BY DEF TouchesItsOwn, IFiles, FilesTypeOK
<1>4. at'[c] = "writes"
  BY DEF IFiles, FilesTypeOK
<1>5. ClientIsInOrder(c)'
  <2>1. RequestIsHeld(c)' /\ WriteFollows(c)'
    BY <1>4 DEF IFiles, ClientIsInOrder, RequestIsHeld, WriteFollows
  <2>2. StoreAsked(c)' = StoreAsked(c)
    BY DEF StoreAsked
  <2>3. LockIsHeld(c)'
    BY <1>4, <2>2 DEF IFiles, ClientIsInOrder, LockIsHeld
  <2> QED
    BY <2>1, <2>3 DEF ClientIsInOrder
<1>6. \A d \in Client \ {c} : at'[d] = at[d] /\ asked'[d] = asked[d] /\ told'[d] = told[d]
  BY DEF IFiles, FilesTypeOK
<1> QED
  BY <1>1, <1>2, <1>3, <1>5, <1>6, OneClientMoves

\* The key of a commit, and its file.
LEMMA CommitsAreOfTheStore ==
    ASSUME IFiles, NEW c \in Client, at[c] # "idle", asked[c].op = "commit"
    PROVE  /\ asked[c].record \in FiledRecord
           /\ asked[c].record.key \in Key
           /\ asked[c].record.key # Account
           /\ asked[c].record.key \in Operation \cup Reversal
           /\ StoreOf(asked[c].record.key) = StoreAsked(c)
           /\ target[FileOf[asked[c].record.key]] \in Content
           /\ target[FileOf[asked[c].record.key]] # Torn
<1>1. asked[c] \in Requests
  BY StoreAskedIsAStore
<1>2. /\ asked[c].record \in FiledRecord
      /\ asked[c].record.key \in Operation \cup Reversal
      /\ asked[c].record.key # Account
  BY <1>1, RequestKinds
<1>3. asked[c].record.key \in Key
  BY <1>2 DEF Key
<1>4. StoreOf(asked[c].record.key) = StoreAsked(c)
  BY DEF StoreAsked, KeyOf
<1> QED
  BY <1>2, <1>3, <1>4, KeysOfStores DEF IFiles, FilesTypeOK, FilesAreWhole

LEMMA CommitKeeps ==
    ASSUME IFiles, NEW c \in Client, CommitRecord(c) \/ CommitReversal(c)
    PROVE  IFiles'
<1> DEFINE k == asked[c].record.key
           f == FileOf[k]
<1>1. at[c] = "locked" /\ asked[c].op = "commit"
  BY DEF CommitRecord, CommitReversal
<1>2. k \in Key /\ StoreOf(k) = StoreAsked(c) /\ target[f] # Torn
  BY <1>1, CommitsAreOfTheStore
<1>3. CASE TellAtOnce(c, Told("conflict", {})) \/ TellAtOnce(c, Told("committed", {}))
  BY <1>1, <1>3, RefusalKeeps DEF Status
<1>4. ASSUME BeginFile(c, f), lease' = lease,
             \/ k \in Operation /\ JournalAccepts(target[f], asked[c].record)
             \/ k \in Reversal /\ target[f] = NoFile
      PROVE  IFiles'
  <2>1. Follows(c)'
    BY <1>1, <1>4 DEF Follows, BeginFile
  <2>2. /\ lease' \in [Client -> Nat]
        /\ \A d \in Client \ {c} : lease'[d] = lease[d]
        /\ lease'[c] # 0 => locked["lease"] = c
    BY <1>4 DEF IFiles, FilesTypeOK, ClientIsInOrder, LockIsHeld
  <2> QED
    BY <1>1, <1>2, <1>4, <2>1, <2>2, BeginKeeps
<1>5. CASE CommitRecord(c)
  BY <1>2, <1>3, <1>4, <1>5 DEF CommitRecord
<1>6. CASE CommitReversal(c)
  <2>1. \/ TellAtOnce(c, Told(IF target[f].record = asked[c].record
                              THEN "committed" ELSE "conflict", {}))
        \/ /\ k \in Reversal /\ target[f] = NoFile
           /\ BeginFile(c, f) /\ lease' = lease
    BY <1>2, <1>6 DEF CommitReversal
  <2> QED
    BY <1>3, <1>4, <2>1
<1> QED
  BY <1>5, <1>6 DEF CommitRecord, CommitReversal

LEMMA AcquireKeeps ==
    ASSUME IFiles, NEW c \in Client, AcquireEpoch(c)
    PROVE  IFiles'
<1> DEFINE f == FileOf[Account]
           previous == EpochIn(target[f])
<1>1. at[c] = "locked" /\ asked[c].op = "acquire"
  BY DEF AcquireEpoch
<1>2. StoreOf(Account) = StoreAsked(c) /\ StoreAsked(c) = "lease"
  BY <1>1, StoreAskedIsAStore, AccountHasItsFile, KeysOfStores
<1>3. target[f] # Torn /\ previous \in Nat
  BY AccountHasItsFile, ContentKinds DEF IFiles, FilesTypeOK, FilesAreWhole
<1>4. CASE TellAtOnce(c, Told("io_error", {}))
  BY <1>1, <1>4, RefusalKeeps DEF Status
<1>5. CASE BeginFile(c, f) /\ lease' = [lease EXCEPT ![c] = previous + 1]
  <2>1. lease'[c] = previous + 1
    BY <1>5 DEF IFiles, FilesTypeOK
  <2>2. Follows(c)'
    BY <1>1, <1>5, <2>1 DEF Follows, BeginFile
  <2>3. lease' \in [Client -> Nat] /\ \A d \in Client \ {c} : lease'[d] = lease[d]
    BY <1>3, <1>5 DEF IFiles, FilesTypeOK
  <2>4. locked["lease"] = c
    BY <1>1, <1>2 DEF IFiles, ClientIsInOrder, LockIsHeld
  <2> QED
    BY <1>1, <1>2, <1>5, <2>2, <2>3, <2>4, AccountHasItsFile, BeginKeeps
<1> QED
  BY <1>3, <1>4, <1>5 DEF AcquireEpoch

\* What holds of a client that writes or moves, from the invariant.
LEMMA WritersAreOfTheStore ==
    ASSUME IFiles, NEW c \in Client, at[c] \in {"writes", "moves"}
    PROVE  /\ Follows(c)
           /\ Candidate(c) \in FiledRecord
           /\ Candidate(c).key \in Key
           /\ FileOf[Candidate(c).key] \in File
           /\ StoreOf(Candidate(c).key) = StoreAsked(c)
           /\ locked[StoreAsked(c)] = c
           /\ asked[c].op \in {"commit", "acquire"}
           /\ asked[c].op = "acquire" => /\ Candidate(c).key = Account
                                         /\ Candidate(c).revision = lease[c]
                                         /\ StoreAsked(c) = "lease"
           /\ asked[c].op = "commit" => Candidate(c) = asked[c].record
           /\ at[c] = "moves" =>
                temp[FileOf[Candidate(c).key]] = Whole(Candidate(c), TRUE)
<1>1. /\ FilesTypeOK /\ RequestIsHeld(c) /\ Follows(c) /\ at[c] # "idle"
      /\ locked[StoreAsked(c)] = c
      /\ at[c] = "moves" =>
            temp[FileOf[Candidate(c).key]] = Whole(Candidate(c), TRUE)
  BY DEF IFiles, ClientIsInOrder, LockIsHeld, WriteFollows
<1>2. asked[c].op \in {"commit", "acquire"}
  BY <1>1 DEF Follows
<1>3. /\ Candidate(c) \in FiledRecord
      /\ Candidate(c).key \in Key
      /\ StoreOf(Candidate(c).key) = StoreAsked(c)
      /\ asked[c].op = "acquire" => /\ Candidate(c).key = Account
                                    /\ Candidate(c).revision = lease[c]
                                    /\ StoreAsked(c) = "lease"
      /\ asked[c].op = "commit" => Candidate(c) = asked[c].record
  BY <1>1, CandidateIsOfTheStore
<1> QED
  BY <1>1, <1>2, <1>3, KeysOfStores

\* A file that is written is whole and flushed, or is left to be overwritten.
LEMMA WritingKeeps ==
    ASSUME IFiles, NEW c \in Client, WriteFile(c) \/ MoveFile(c)
    PROVE  IFiles'
<1> DEFINE r == Candidate(c)
           f == FileOf[r.key]
<1>1. at[c] \in {"writes", "moves"}
  BY DEF WriteFile, MoveFile
<1>2. /\ Follows(c) /\ r \in FiledRecord /\ r.key \in Key /\ f \in File
      /\ StoreOf(r.key) = StoreAsked(c)
      /\ at[c] = "moves" => temp[f] = Whole(r, TRUE)
  BY <1>1, WritersAreOfTheStore
<1>3. /\ Whole(r, TRUE) \in Content /\ Whole(r, TRUE).is = "whole"
      /\ Whole(r, TRUE).record = r /\ Whole(r, TRUE).onDisk = TRUE
      /\ Whole(r, TRUE) # Torn
  BY <1>2, WholeIsContent, NoneIsContent
<1>4. FilesTypeOK /\ FilesAreWhole /\ RequestIsHeld(c) /\ LockIsHeld(c)
  BY DEF IFiles, ClientIsInOrder
<1>5. CASE WriteFile(c) /\ at'[c] = "moves"
  <2> USE DEF WriteFile
  <2>1. /\ temp' = [temp EXCEPT ![f] = Whole(r, TRUE)]
        /\ at' = [at EXCEPT ![c] = "moves"]
        /\ UNCHANGED <<told, lease, target, locked, asked>>
    BY <1>4, <1>5 DEF Fails, Tell, FilesTypeOK
  <2>2. FilesTypeOK'
    BY <1>3, <1>4, <2>1 DEF FilesTypeOK
  <2>3. FilesAreWhole'
    BY <1>3, <1>4, <2>1 DEF FilesTypeOK, FilesAreWhole
  <2>4. TouchesItsOwn(c)
    BY <1>1, <1>2, <1>4, <2>1 DEF TouchesItsOwn, FilesTypeOK
  <2>5. /\ Candidate(c)' = r /\ StoreAsked(c)' = StoreAsked(c) /\ Follows(c)'
        /\ temp'[f] = Whole(r, TRUE)
    BY <1>2, <1>4, <2>1 DEF Candidate, StoreAsked, Follows, FilesTypeOK
  <2>6. ClientIsInOrder(c)'
    BY <1>4, <1>5, <2>1, <2>5
    DEF ClientIsInOrder, RequestIsHeld, LockIsHeld, WriteFollows
  <2>7. \A d \in Client \ {c} :
           /\ at'[d] = at[d] /\ asked'[d] = asked[d]
           /\ told'[d] = told[d] /\ lease'[d] = lease[d]
    BY <1>4, <2>1 DEF FilesTypeOK
  <2> QED
    BY <2>1, <2>2, <2>3, <2>4, <2>6, <2>7, OneClientMoves
<1>6. ASSUME NEW left \in Content, left.is = "whole" => left.onDisk,
             temp' = [temp EXCEPT ![f] = left],
             \/ target' = target
             \/ at[c] = "moves" /\ target' = [target EXCEPT ![f] = temp[f]],
             NEW status \in Status, status # "none", Tell(c, Told(status, {})),
             lease' = IF status = "io_error" /\ asked[c].op = "acquire"
                      THEN [lease EXCEPT ![c] = 0] ELSE lease,
             locked' = locked, asked' = asked
      PROVE  IFiles'
  <2> USE DEF Tell
  <2>1. FilesTypeOK'
    BY <1>2, <1>3, <1>4, <1>6 DEF FilesTypeOK, Told
  <2>2. FilesAreWhole'
    <3>1. \A g \in File : temp'[g].is = "whole" => temp'[g].onDisk
      BY <1>2, <1>4, <1>6 DEF FilesTypeOK, FilesAreWhole
    <3>2. CASE target' = target
      BY <1>4, <3>1, <3>2 DEF FilesAreWhole
    <3>3. CASE target' = [target EXCEPT ![f] = Whole(r, TRUE)]
      BY <1>3, <1>4, <3>1, <3>3 DEF FilesTypeOK, FilesAreWhole
    <3> QED
      BY <1>2, <1>6, <3>2, <3>3
  <2>3. TouchesItsOwn(c)
    BY <1>1, <1>2, <1>4, <1>6 DEF TouchesItsOwn, FilesTypeOK
  <2>4. at'[c] = "leaves" /\ told'[c] = Told(status, {})
    BY <1>4, <1>6 DEF FilesTypeOK
  <2>5. RequestIsHeld(c)' /\ WriteFollows(c)'
    <3>1. Told(status, {}) # Untold
      BY <1>6 DEF Told, Untold
    <3>2. asked'[c] = asked[c] /\ asked[c] # NoRequest
      BY <1>1, <1>4, <1>6 DEF RequestIsHeld
    <3> QED
      BY <2>4, <3>1, <3>2 DEF RequestIsHeld, WriteFollows
  <2>6. LockIsHeld(c)'
    BY <1>4, <1>6, <2>4 DEF LockIsHeld, FilesTypeOK
  <2>7. \A d \in Client \ {c} :
           /\ at'[d] = at[d] /\ asked'[d] = asked[d]
           /\ told'[d] = told[d] /\ lease'[d] = lease[d]
    BY <1>4, <1>6 DEF FilesTypeOK
  <2> QED
    BY <1>6, <2>1, <2>2, <2>3, <2>5, <2>6, <2>7, OneClientMoves DEF ClientIsInOrder
<1>7. CASE WriteFile(c) /\ at'[c] # "moves"
  <2>1. /\ \E left \in {NoFile, Torn} : temp' = [temp EXCEPT ![f] = left]
        /\ Fails(c)
        /\ UNCHANGED <<target, locked, asked>>
    BY <1>4, <1>7 DEF WriteFile, FilesTypeOK
  <2> QED
    BY <1>6, <2>1, NoneIsContent DEF Fails, Status
<1>8. CASE MoveFile(c)
  <2>1. /\ at[c] = "moves" /\ locked' = locked /\ asked' = asked
        /\ \/ /\ target' = [target EXCEPT ![f] = temp[f]]
              /\ temp' = [temp EXCEPT ![f] = NoFile]
              /\ Tell(c, Told("committed", {}))
              /\ lease' = lease
           \/ /\ \E left \in {NoFile, temp[f]} : temp' = [temp EXCEPT ![f] = left]
              /\ Fails(c)
              /\ target' = target
    BY <1>8 DEF MoveFile
  <2>2. NoFile \in Content /\ (NoFile.is = "whole" => NoFile.onDisk)
        /\ temp[f] \in Content /\ (temp[f].is = "whole" => temp[f].onDisk)
    BY <1>2, <1>3, <2>1, NoneIsContent
  <2>3. CASE Tell(c, Told("committed", {})) /\ lease' = lease
             /\ target' = [target EXCEPT ![f] = temp[f]]
             /\ temp' = [temp EXCEPT ![f] = NoFile]
    BY <1>6, <2>1, <2>2, <2>3 DEF Status
  <2>4. CASE (\E left \in {NoFile, temp[f]} : temp' = [temp EXCEPT ![f] = left])
             /\ Fails(c) /\ target' = target
    BY <1>6, <2>1, <2>2, <2>4 DEF Fails, Status
  <2> QED
    BY <2>1, <2>3, <2>4
<1> QED
  BY <1>5, <1>7, <1>8

LEMMA ReturnKeeps ==
    ASSUME IFiles, NEW c \in Client, Return(c)
    PROVE  IFiles'
<1> USE DEF Return
<1>1. StoreAsked(c) \in Stores
  BY StoreAskedIsAStore
<1>2. FilesTypeOK /\ FilesAreWhole /\ LockIsHeld(c)
  BY DEF IFiles, ClientIsInOrder
<1>3. FilesTypeOK'
  BY <1>1, <1>2 DEF FilesTypeOK, Untold, Told, Status
<1>4. FilesAreWhole' /\ TouchesItsOwn(c)
  BY <1>2 DEF FilesAreWhole, TouchesItsOwn
<1>5. at'[c] = "idle" /\ asked'[c] = NoRequest /\ told'[c] = Untold
  BY <1>2 DEF FilesTypeOK
<1>6. LockIsHeld(c)'
  BY <1>1, <1>2, <1>5 DEF LockIsHeld, Keeps, FilesTypeOK, Stores
<1>7. ClientIsInOrder(c)'
  BY <1>5, <1>6 DEF ClientIsInOrder, RequestIsHeld, WriteFollows
<1>8. \A d \in Client \ {c} :
         /\ at'[d] = at[d] /\ asked'[d] = asked[d]
         /\ told'[d] = told[d] /\ lease'[d] = lease[d]
  BY <1>2 DEF FilesTypeOK
<1>9. \A s \in Stores : \A d \in Client \ {c} : locked[s] = d => locked'[s] = d
  BY <1>1, <1>2 DEF FilesTypeOK
<1> QED
  BY <1>3, <1>4, <1>7, <1>8, <1>9, OneClientMoves

LEMMA ReleaseKeeps ==
    ASSUME IFiles, NEW c \in Client, ReleaseLease(c)
    PROVE  IFiles'
<1> USE DEF ReleaseLease
<1>1. FilesTypeOK /\ FilesAreWhole /\ RequestIsHeld(c) /\ LockIsHeld(c)
  BY DEF IFiles, ClientIsInOrder
<1>2. FilesTypeOK' /\ FilesAreWhole' /\ TouchesItsOwn(c)
  BY <1>1 DEF FilesTypeOK, FilesAreWhole, TouchesItsOwn
<1>3. ClientIsInOrder(c)'
  BY <1>1 DEF ClientIsInOrder, RequestIsHeld, LockIsHeld, WriteFollows, FilesTypeOK
<1>4. \A d \in Client \ {c} :
         /\ at'[d] = at[d] /\ asked'[d] = asked[d]
         /\ told'[d] = told[d] /\ lease'[d] = lease[d]
  BY <1>1 DEF FilesTypeOK
<1>5. locked["lease"] = c
  BY <1>1 DEF LockIsHeld
<1>6. \A s \in Stores : \A d \in Client \ {c} : locked[s] = d => locked'[s] = d
  BY <1>1, <1>5 DEF FilesTypeOK
<1> QED
  BY <1>2, <1>3, <1>4, <1>6, OneClientMoves

LEMMA CrashKeeps ==
    ASSUME IFiles, NEW c \in Client, ClientCrash(c)
    PROVE  IFiles'
<1> USE DEF ClientCrash, Die
<1>1. FilesTypeOK /\ FilesAreWhole
  BY DEF IFiles
<1>2. FilesTypeOK'
  BY <1>1 DEF FilesTypeOK, Untold, Told, Status
<1>3. FilesAreWhole' /\ TouchesItsOwn(c)
  BY <1>1 DEF FilesAreWhole, TouchesItsOwn
<1>4. ClientIsInOrder(c)'
  BY DEF ClientIsInOrder, RequestIsHeld, LockIsHeld, WriteFollows
<1> QED
  BY <1>2, <1>3, <1>4, OneClientMoves

\* Whatever is read has been flushed, and is what it was after the power failed.
LEMMA PowerLosesNothingRead ==
    ASSUME IFiles, PowerFails
    PROVE  target' = target /\ temp' = temp
<1>1. \A f \in File : /\ AfterPowerFails(target[f]) = target[f]
                      /\ AfterPowerFails(temp[f]) = temp[f]
  BY DEF IFiles, FilesAreWhole, AfterPowerFails
<1>2. target \in [File -> Content] /\ temp \in [File -> Content]
  BY DEF IFiles, FilesTypeOK
<1> QED
  BY <1>1, <1>2 DEF PowerFails

LEMMA PowerKeeps ==
    ASSUME IFiles, PowerFails
    PROVE  IFiles'
<1>1. target' = target /\ temp' = temp
  BY PowerLosesNothingRead
<1> USE DEF PowerFails, Die
<1>2. FilesTypeOK'
  BY <1>1 DEF IFiles, FilesTypeOK, Untold, Told, Status
<1>3. FilesAreWhole'
  BY <1>1 DEF IFiles, FilesAreWhole
<1>4. \A c \in Client : ClientIsInOrder(c)'
  BY DEF ClientIsInOrder, RequestIsHeld, LockIsHeld, WriteFollows
<1> QED
  BY <1>2, <1>3, <1>4 DEF IFiles

\* The invariant of the stores holds in every behaviour.
THEOREM InductiveFiles == FilesSpec => []IFiles
<1>1. FilesInit => IFiles
  <2> SUFFICES ASSUME FilesInit PROVE IFiles
    OBVIOUS
  <2> USE DEF FilesInit
  <2>1. FilesTypeOK
    BY NoneIsContent DEF FilesTypeOK, Untold, Told, Status
  <2>2. FilesAreWhole
    BY NoneIsContent DEF FilesAreWhole
  <2>3. \A c \in Client : ClientIsInOrder(c)
    BY DEF ClientIsInOrder, RequestIsHeld, LockIsHeld, WriteFollows
  <2> QED
    BY <2>1, <2>2, <2>3 DEF IFiles
<1>2. IFiles /\ [FilesNext]_filesVars => IFiles'
  <2> SUFFICES ASSUME IFiles, [FilesNext]_filesVars PROVE IFiles'
    OBVIOUS
  <2>1. CASE UNCHANGED filesVars
    <3> USE <2>1 DEF filesVars
    <3>1. FilesTypeOK' /\ FilesAreWhole'
      BY DEF IFiles, FilesTypeOK, FilesAreWhole
    <3>2. ASSUME NEW c \in Client
          PROVE  ClientIsInOrder(c)'
      <4>1. ClientIsInOrder(c)
        BY DEF IFiles
      <4>2. RequestIsHeld(c)'
        BY <4>1 DEF ClientIsInOrder, RequestIsHeld
      <4>3. LockIsHeld(c)'
        BY <4>1 DEF ClientIsInOrder, LockIsHeld, StoreAsked
      <4>4. WriteFollows(c)'
        BY <4>1 DEF ClientIsInOrder, WriteFollows, Follows, Candidate
      <4> QED
        BY <4>2, <4>3, <4>4 DEF ClientIsInOrder
    <3> QED
      BY <3>1, <3>2 DEF IFiles
  <2>2. CASE PowerFails
    BY <2>2, PowerKeeps
  <2>3. ASSUME NEW c \in Client, ClientStep(c) PROVE IFiles'
    <3>1. CASE Invoke(c)
      BY <3>1, InvokeKeeps
    <3>2. CASE TakeLock(c)
      BY <3>2, TakeLockKeeps
    <3>3. CASE LockIsRefused(c) \/ ReadFails(c)
      BY <3>3, RefusalKeeps DEF LockIsRefused, ReadFails, Status
    <3>4. CASE CommitRecord(c) \/ CommitReversal(c)
      BY <3>4, CommitKeeps
    <3>5. CASE AcquireEpoch(c)
      BY <3>5, AcquireKeeps
    <3>6. CASE WriteFile(c) \/ MoveFile(c)
      BY <3>6, WritingKeeps
    <3>7. CASE LoadRecord(c) \/ LoadReversal(c) \/ ScanRecords(c) \/ ScanReversals(c)
      BY <3>7, ReadsKeep
    <3>8. CASE Return(c)
      BY <3>8, ReturnKeeps
    <3>9. CASE ReleaseLease(c)
      BY <3>9, ReleaseKeeps
    <3>10. CASE ClientCrash(c)
      BY <3>10, CrashKeeps
    <3> QED
      BY <2>3, <3>1, <3>2, <3>3, <3>4, <3>5, <3>6, <3>7, <3>8, <3>9, <3>10
      DEF ClientStep
  <2> QED
    BY <2>1, <2>2, <2>3 DEF FilesNext
<1> QED
  BY <1>1, <1>2, PTL DEF FilesSpec

----------------------------------------------------------------------------
(* What the files hold, seen as records.                                   *)

LEMMA SameNames ==
    /\ Promise!NoRequest = NoRequest
    /\ Promise!NoAnswer = Untold
    /\ \A status, records : Promise!Answer(status, records) = Told(status, records)
BY DEF Promise!NoRequest, NoRequest, Promise!NoAnswer, Untold, Promise!Answer, Told

\* A record is in its file, and nowhere else.
LEMMA RecordsAreInTheirFiles ==
    ASSUME IFiles
    PROVE  \A r : r \in Contents <=>
              /\ r \in FiledRecord /\ r.key # Account
              /\ target[FileOf[r.key]].is = "whole"
              /\ target[FileOf[r.key]].record = r
<1>1. \A f \in File : /\ target[f] \in Content
                      /\ target[f].is = "whole" => FileOf[target[f].record.key] = f
  BY DEF IFiles, FilesTypeOK, FilesAreWhole
<1>2. \A r : r \in Records({target[f] : f \in File}) <=>
                \E f \in File : target[f].is = "whole" /\ target[f].record = r
  BY DEF Records
<1>3. \A r \in FiledRecord : FileOf[r.key] \in File
  BY KeysOfStores DEF FiledRecord
<1> QED
  BY <1>1, <1>2, <1>3, ContentKinds DEF Contents

ContentsAreFiled ==
    \A r : r \in Contents <=>
              /\ r \in FiledRecord /\ r.key # Account
              /\ target[FileOf[r.key]].is = "whole"
              /\ target[FileOf[r.key]].record = r

LEMMA RecordsAreFiled == IFiles => ContentsAreFiled
BY RecordsAreInTheirFiles DEF ContentsAreFiled

\* The record of a key is the one in its file, unless that is another key's.
LEMMA RecordOfAKey ==
    ASSUME IFiles, NEW k \in Operation \cup Reversal
    PROVE  LET f == target[FileOf[k]] IN
              /\ f = NoFile => Promise!Of(k) = {}
              /\ f.is = "whole" /\ f.record.key = k => Promise!Of(k) = {f.record}
<1>1. k \in Key /\ k # Account
  BY FilesAssumption DEF Key, FilesAssumption
<1>2. target[FileOf[k]] \in Content
  BY <1>1, KeysOfStores DEF IFiles, FilesTypeOK
<1>3. \A r : r \in Promise!Of(k) <=> r \in Contents /\ r.key = k
  BY DEF Promise!Of
<1> QED
  BY <1>1, <1>2, <1>3, RecordsAreInTheirFiles, ContentKinds, NoneIsContent

LEMMA ReadingChangesNothing ==
    ASSUME target' = target
    PROVE  Contents' = Contents /\ Epoch' = Epoch
BY DEF Contents, Epoch, Records, EpochIn

\* The tokens are those of the leases, but for one that is not on the disk yet.
LEMMA TokensStay ==
    ASSUME IFiles,
           \A c \in Client : \/ /\ lease'[c] = lease[c] /\ at'[c] = at[c]
                                /\ asked'[c] = asked[c]
                             \/ /\ asked[c].op # "acquire" \/ at[c] \notin {"writes", "moves"}
                                /\ asked'[c].op # "acquire" \/ at'[c] \notin {"writes", "moves"}
                                /\ lease'[c] = lease[c]
                             \/ Granted(c) = 0 /\ Granted(c)' = 0
    PROVE  Tokens' = Tokens
BY DEF Tokens, Granted

LEMMA ClientsThatWait ==
    ASSUME IFiles, NEW c \in Client,
           at[c] \in {"waits", "locked", "writes", "moves"}
    PROVE  Promise!Waits(c)
BY SameNames DEF IFiles, ClientIsInOrder, RequestIsHeld, Promise!Waits

\* A client is told something that says nothing of the records.
LEMMA RefusalIsPromised ==
    ASSUME IFiles, NEW c \in Client,
           at[c] \in {"waits", "locked", "writes", "moves"},
           NEW status \in {"conflict", "collision", "io_error"},
           told' = [told EXCEPT ![c] = Told(status, {})],
           target' = target, asked' = asked, Tokens' = Tokens
    PROVE  Promise!Next
<1>1. Contents' = Contents /\ Epoch' = Epoch
  BY ReadingChangesNothing
<1>2. Promise!Waits(c)
  BY ClientsThatWait
<1>3. Promise!Refuse(c)
  BY <1>1, <1>2, SameNames DEF Promise!Refuse
<1> QED
  BY <1>3 DEF Promise!Next

\* Answering at once hands out no token and takes none away.
LEMMA TellingKeepsTokens ==
    ASSUME IFiles, NEW c \in Client, NEW t,
           at[c] \in {"waits", "locked"}, TellAtOnce(c, t)
    PROVE  /\ Tokens' = Tokens /\ Contents' = Contents /\ Epoch' = Epoch
           /\ asked' = asked /\ told' = [told EXCEPT ![c] = t]
           /\ target' = target /\ Promise!Waits(c)
<1>1. /\ target' = target /\ asked' = asked /\ lease' = lease
      /\ told' = [told EXCEPT ![c] = t] /\ at' = [at EXCEPT ![c] = "leaves"]
  BY DEF TellAtOnce, Tell
<1>2. Tokens' = Tokens
  BY <1>1, TokensStay DEF IFiles, FilesTypeOK
<1> QED
  BY <1>1, <1>2, ReadingChangesNothing, ClientsThatWait

----------------------------------------------------------------------------
(* Each step is a step of the promise, or none.                            *)

LEMMA InvokeIsPromised ==
    ASSUME IFiles, NEW c \in Client, Invoke(c)
    PROVE  Promise!Next
<1> PICK q \in Requests : asked' = [asked EXCEPT ![c] = q]
  BY DEF Invoke
<1>1. /\ target' = target /\ told' = told /\ lease' = lease
      /\ at' = [at EXCEPT ![c] = "waits"] /\ at[c] = "idle"
  BY DEF Invoke
<1>2. Contents' = Contents /\ Epoch' = Epoch
  BY <1>1, ReadingChangesNothing
<1>3. Tokens' = Tokens
  BY <1>1, TokensStay DEF IFiles, FilesTypeOK
<1>4. asked[c] = NoRequest
  BY <1>1 DEF IFiles, ClientIsInOrder, RequestIsHeld
<1>5. Promise!Ask(c, q)
  BY <1>1, <1>2, <1>3, <1>4, SameNames DEF Promise!Ask
<1> QED
  BY <1>5 DEF Promise!Next

LEMMA LockIsNoStep ==
    ASSUME IFiles, NEW c \in Client, TakeLock(c)
    PROVE  UNCHANGED Promise!vars
<1>1. /\ target' = target /\ told' = told /\ lease' = lease /\ asked' = asked
      /\ at' = [at EXCEPT ![c] = "locked"] /\ at[c] = "waits"
  BY DEF TakeLock
<1>2. Contents' = Contents /\ Epoch' = Epoch
  BY <1>1, ReadingChangesNothing
<1>3. Tokens' = Tokens
  BY <1>1, TokensStay DEF IFiles, FilesTypeOK
<1> QED
  BY <1>1, <1>2, <1>3 DEF Promise!vars

LEMMA LockRefusalIsPromised ==
    ASSUME IFiles, NEW c \in Client, LockIsRefused(c) \/ ReadFails(c)
    PROVE  Promise!Next
<1>1. at[c] \in {"waits", "locked"} /\ TellAtOnce(c, Told("io_error", {}))
  BY DEF LockIsRefused, ReadFails
<1> QED
  BY <1>1, TellingKeepsTokens, RefusalIsPromised

LEMMA LoadIsPromised ==
    ASSUME IFiles, NEW c \in Client, LoadRecord(c) \/ LoadReversal(c)
    PROVE  Promise!Next
<1> DEFINE k == asked[c].key
           f == target[FileOf[k]]
<1>1. /\ at[c] = "locked" /\ asked[c].op = "load"
      /\ k \in Operation \cup Reversal /\ LoadFrom(c, f)
  BY DEF LoadRecord, LoadReversal
<1>2. FileOf[k] \in File
  BY <1>1, KeysOfStores DEF Key
<1>3. f \in Content /\ f # Torn
  BY <1>2 DEF IFiles, FilesTypeOK, FilesAreWhole
<1>4. ASSUME TellAtOnce(c, Told("read", Promise!Of(k)))
      PROVE  Promise!Next
  <2>1. Promise!Load(c)
    BY <1>1, <1>4, TellingKeepsTokens, SameNames DEF Promise!Load
  <2> QED
    BY <2>1 DEF Promise!Next
<1>5. CASE f = NoFile
  BY <1>1, <1>4, <1>5, NoneIsContent, RecordOfAKey DEF LoadFrom
<1>6. CASE f.is = "whole" /\ f.record.key = k
  BY <1>1, <1>3, <1>4, <1>6, ContentKinds, RecordOfAKey DEF LoadFrom
<1>7. CASE f.is = "whole" /\ f.record.key # k
  <2>1. TellAtOnce(c, Told("collision", {}))
    BY <1>1, <1>3, <1>7, ContentKinds DEF LoadFrom
  <2> QED
    BY <1>1, <2>1, TellingKeepsTokens, RefusalIsPromised
<1> QED
  BY <1>3, <1>5, <1>6, <1>7, ContentKinds

\* The files of a store have its records and no other store's.
LEMMA RecordsOfAStore ==
    ASSUME IFiles, NEW K \in {Operation, Reversal}
    PROVE  Records({target[FileOf[k]] : k \in K}) = {r \in Contents : r.key \in K}
<1>1. K \in SUBSET Key /\ Account \notin K
  BY FilesAssumption DEF Key, FilesAssumption
<1>2. \A k \in K : /\ target[FileOf[k]] \in Content
                   /\ target[FileOf[k]].is = "whole" =>
                        FileOf[target[FileOf[k]].record.key] = FileOf[k]
  BY <1>1, KeysOfStores DEF IFiles, FilesTypeOK, FilesAreWhole
<1>3. \A k \in K, l \in Key : FileOf[k] = FileOf[l] => l \in K
  BY <1>1, KeysOfStores
<1>4. ASSUME NEW r \in Records({target[FileOf[k]] : k \in K})
      PROVE  r \in Contents /\ r.key \in K
  <2>1. PICK k \in K : target[FileOf[k]].is = "whole" /\ target[FileOf[k]].record = r
    BY <1>4 DEF Records
  <2>2. r \in FiledRecord /\ r.key \in Key /\ FileOf[r.key] = FileOf[k]
    BY <1>2, <2>1, ContentKinds
  <2>3. r.key \in K
    BY <1>3, <2>2
  <2> QED
    BY <1>1, <2>1, <2>2, <2>3, RecordsAreInTheirFiles
<1>5. ASSUME NEW r \in Contents, r.key \in K
      PROVE  r \in Records({target[FileOf[k]] : k \in K})
  <2>1. target[FileOf[r.key]].is = "whole" /\ target[FileOf[r.key]].record = r
    BY RecordsAreInTheirFiles
  <2> QED
    BY <1>5, <2>1 DEF Records
<1> QED
  BY <1>4, <1>5

LEMMA ScanIsPromised ==
    ASSUME IFiles, NEW c \in Client, ScanRecords(c) \/ ScanReversals(c)
    PROVE  Promise!Next
<1> DEFINE K == asked[c].keys
<1>1. at[c] = "locked" /\ asked[c].op = "scan"
  BY DEF ScanRecords, ScanReversals
<1>2. asked[c] \in Requests
  BY <1>1, StoreAskedIsAStore
<1>3. K \in {Operation, Reversal}
  BY <1>1, <1>2, RequestKinds
<1>4. TellAtOnce(c, ScanOf({target[FileOf[k]] : k \in K}))
  <2>1. CASE ScanRecords(c)
    <3>1. K = Operation
      BY <1>1, <2>1 DEF ScanRecords, StoreAsked
    <3> QED
      BY <2>1, <3>1 DEF ScanRecords
  <2>2. CASE ScanReversals(c)
    <3>1. K = Reversal
      BY <1>1, <1>3, <2>2 DEF ScanReversals, StoreAsked
    <3> QED
      BY <2>2, <3>1 DEF ScanReversals
  <2> QED
    BY <2>1, <2>2
<1>5. K \in SUBSET Key
  BY <1>3 DEF Key
<1>6. TellAtOnce(c, Told("read", {r \in Contents : r.key \in K}))
  BY <1>3, <1>4, <1>5, ScansAreReads, RecordsOfAStore
<1>7. Promise!Scan(c)
  BY <1>1, <1>6, TellingKeepsTokens, SameNames DEF Promise!Scan
<1> QED
  BY <1>7 DEF Promise!Next

\* To compare and to begin a file is nothing that anybody sees.
LEMMA BeginIsNoStep ==
    ASSUME IFiles, NEW c \in Client, NEW f \in File, at[c] = "locked",
           BeginFile(c, f),
           \/ lease' = lease /\ asked[c].op = "commit"
           \/ /\ asked[c].op = "acquire"
              /\ \E token \in Nat : lease' = [lease EXCEPT ![c] = token]
    PROVE  UNCHANGED Promise!vars
<1>1. /\ target' = target /\ told' = told /\ asked' = asked
      /\ at' = [at EXCEPT ![c] = "writes"]
  BY DEF BeginFile
<1>2. Contents' = Contents /\ Epoch' = Epoch
  BY <1>1, ReadingChangesNothing
<1>3. \A d \in Client \ {c} :
         lease'[d] = lease[d] /\ at'[d] = at[d] /\ asked'[d] = asked[d]
  BY <1>1 DEF IFiles, FilesTypeOK
<1>4. CASE asked[c].op = "commit"
  BY <1>1, <1>3, <1>4, <1>2, TokensStay DEF IFiles, FilesTypeOK, Promise!vars
<1>5. CASE asked[c].op = "acquire"
  <2>1. lease[c] = 0 /\ at'[c] = "writes"
    BY <1>1, <1>5 DEF IFiles, FilesTypeOK, ClientIsInOrder, LockIsHeld
  <2>2. Granted(c) = 0 /\ Granted(c)' = 0
    BY <1>1, <1>5, <2>1 DEF Granted
  <2> QED
    BY <1>1, <1>2, <1>3, <2>2, TokensStay DEF Promise!vars
<1> QED
  BY <1>4, <1>5

LEMMA CommitIsPromised ==
    ASSUME IFiles, NEW c \in Client, CommitRecord(c) \/ CommitReversal(c)
    PROVE  Promise!Next \/ UNCHANGED Promise!vars
<1> DEFINE r == asked[c].record
           f == FileOf[r.key]
<1>1. at[c] = "locked" /\ asked[c].op = "commit"
  BY DEF CommitRecord, CommitReversal
<1>2. /\ r \in FiledRecord /\ r.key \in Key /\ r.key # Account
      /\ target[f] \in Content /\ target[f] # Torn /\ f \in File
  BY <1>1, CommitsAreOfTheStore, KeysOfStores
<1>3. CASE TellAtOnce(c, Told("conflict", {}))
  BY <1>1, <1>3, TellingKeepsTokens, RefusalIsPromised
<1>4. CASE BeginFile(c, f) /\ lease' = lease
  BY <1>1, <1>2, <1>4, BeginIsNoStep
<1>5. CASE TellAtOnce(c, Told("committed", {})) /\ target[f].is = "whole"
           /\ target[f].record = r
  <2>1. r \in Contents
    BY <1>2, <1>5, RecordsAreInTheirFiles
  <2>2. Promise!AlreadyCommitted(c)
    BY <1>1, <1>5, <2>1, TellingKeepsTokens, SameNames DEF Promise!AlreadyCommitted
  <2> QED
    BY <2>2 DEF Promise!Next
<1>6. CASE CommitRecord(c)
  BY <1>2, <1>3, <1>4, <1>6 DEF CommitRecord
<1>7. CASE CommitReversal(c)
  <2>1. \/ TellAtOnce(c, Told("conflict", {}))
        \/ /\ TellAtOnce(c, Told("committed", {}))
           /\ target[f].is = "whole" /\ target[f].record = r
        \/ BeginFile(c, f) /\ lease' = lease
    BY <1>2, <1>7 DEF CommitReversal
  <2> QED
    BY <1>3, <1>4, <1>5, <2>1
<1> QED
  BY <1>6, <1>7

LEMMA AcquireBeginsSilently ==
    ASSUME IFiles, NEW c \in Client, AcquireEpoch(c)
    PROVE  Promise!Next \/ UNCHANGED Promise!vars
<1> DEFINE f == FileOf[Account]
<1>1. at[c] = "locked" /\ asked[c].op = "acquire"
  BY DEF AcquireEpoch
<1>2. f \in File /\ target[f] # Torn /\ EpochIn(target[f]) \in Nat
  BY AccountHasItsFile, ContentKinds DEF IFiles, FilesTypeOK, FilesAreWhole
<1>3. CASE TellAtOnce(c, Told("io_error", {}))
  BY <1>1, <1>3, TellingKeepsTokens, RefusalIsPromised
<1>4. CASE BeginFile(c, f) /\ lease' = [lease EXCEPT ![c] = EpochIn(target[f]) + 1]
  <2>1. EpochIn(target[f]) + 1 \in Nat
    BY <1>2
  <2>2. \E token \in Nat : lease' = [lease EXCEPT ![c] = token]
    BY <1>4, <2>1
  <2> QED
    BY <1>1, <1>2, <1>4, <2>2, BeginIsNoStep
<1> QED
  BY <1>2, <1>3, <1>4 DEF AcquireEpoch

\* The file that is moved takes the place of its key's record and of no other.
LEMMA MoveReplacesARecord ==
    ASSUME IFiles, IFiles', NEW r \in FiledRecord,
           target' = [target EXCEPT ![FileOf[r.key]] = Whole(r, TRUE)],
           target[FileOf[r.key]].is = "whole" => target[FileOf[r.key]].record.key = r.key
    PROVE  /\ r.key # Account => /\ Contents' = (Contents \ Promise!Of(r.key)) \cup {r}
                                 /\ Epoch' = Epoch
           /\ r.key = Account => Contents' = Contents /\ Epoch' = r.revision
<1> DEFINE f == FileOf[r.key]
<1>1. f \in File /\ r.key \in Key /\ target \in [File -> Content]
  BY KeysOfStores DEF IFiles, FilesTypeOK, FiledRecord
<1>2. target'[f] = Whole(r, TRUE)
  BY <1>1
<1>3. \A g \in File : g # f => target'[g] = target[g]
  BY <1>1
<1>4. Whole(r, TRUE).is = "whole" /\ Whole(r, TRUE).record = r
  BY WholeIsContent
<1>5. \A s : s \in Contents' <=>
         /\ s \in FiledRecord /\ s.key # Account
         /\ target'[FileOf[s.key]].is = "whole"
         /\ target'[FileOf[s.key]].record = s
  <2>1. ContentsAreFiled'
    BY RecordsAreFiled, PTL
  <2> QED
    BY <2>1 DEF ContentsAreFiled
<1>6. \A s \in FiledRecord : FileOf[s.key] \in File
  BY KeysOfStores DEF FiledRecord
<1>7. \A s : s \in Contents' <=>
         \/ s = r /\ r.key # Account
         \/ s \in Contents /\ FileOf[s.key] # f
  <2> TAKE s
  <2>0. s \in Contents' <=> /\ s \in FiledRecord /\ s.key # Account
                            /\ target'[FileOf[s.key]].is = "whole"
                            /\ target'[FileOf[s.key]].record = s
    BY <1>5
  <2>1. CASE s \in FiledRecord /\ FileOf[s.key] = f
    <3>1. target'[FileOf[s.key]] = Whole(r, TRUE)
      BY <1>2, <2>1
    <3>2. s \in Contents' <=> s.key # Account /\ s = r
      BY <1>4, <2>1, <2>0, <3>1
    <3> QED
      BY <2>1, <3>2
  <2>2. CASE s \in FiledRecord /\ FileOf[s.key] # f
    <3>1. target'[FileOf[s.key]] = target[FileOf[s.key]] /\ s # r
      BY <1>3, <1>6, <2>2
    <3>2. s \in Contents' <=> s \in Contents
      BY <2>0, <2>2, <3>1, RecordsAreInTheirFiles
    <3> QED
      BY <2>2, <3>1, <3>2
  <2>3. CASE s \notin FiledRecord
    BY <1>5, <2>3, RecordsAreInTheirFiles
  <2> QED
    BY <2>1, <2>2, <2>3
<1>8. \A s \in Contents : FileOf[s.key] = f <=> s.key = r.key
  BY RecordsAreInTheirFiles
<1>9. \A s : s \in Promise!Of(r.key) <=> s \in Contents /\ s.key = r.key
  BY DEF Promise!Of
<1>10. ASSUME r.key # Account
       PROVE  /\ Contents' = (Contents \ Promise!Of(r.key)) \cup {r}
              /\ Epoch' = Epoch
  <2>1. f # FileOf[Account]
    BY <1>1, <1>10, AccountHasItsFile
  <2>2. Epoch' = Epoch
    <3>1. target'[FileOf[Account]] = target[FileOf[Account]]
      BY <1>3, <2>1, AccountHasItsFile
    <3> QED
      BY <3>1 DEF Epoch
  <2>3. Contents' = (Contents \ Promise!Of(r.key)) \cup {r}
    BY <1>7, <1>8, <1>9, <1>10
  <2> QED
    BY <2>2, <2>3
<1>11. ASSUME r.key = Account
       PROVE  Contents' = Contents /\ Epoch' = r.revision
  <2>1. \A s \in Contents : FileOf[s.key] # f
    BY <1>8, <1>11, RecordsAreInTheirFiles
  <2>2. Contents' = Contents
    BY <1>7, <1>11, <2>1
  <2>3. Epoch' = r.revision
    BY <1>2, <1>4, <1>11 DEF Epoch, EpochIn
  <2> QED
    BY <2>2, <2>3
<1> QED
  BY <1>10, <1>11

\* Nobody has a token while another client holds the lock of the lease.
LEMMA NobodyElseHasAToken ==
    ASSUME IFiles, NEW c \in Client, locked["lease"] = c,
           at[c] \in {"writes", "moves"}, asked[c].op = "acquire"
    PROVE  \A d \in Client : Tokens[d] = 0
BY DEF Tokens, Granted, IFiles, ClientIsInOrder, LockIsHeld

\* What failed leaves no token.
LEMMA FailureIsPromised ==
    ASSUME IFiles, NEW c \in Client, at[c] \in {"writes", "moves"},
           Fails(c), target' = target, asked' = asked
    PROVE  Promise!Next
<1>1. /\ told' = [told EXCEPT ![c] = Told("io_error", {})]
      /\ at' = [at EXCEPT ![c] = "leaves"]
      /\ lease' = IF asked[c].op = "acquire" THEN [lease EXCEPT ![c] = 0] ELSE lease
  BY DEF Fails, Tell
<1>2. \A d \in Client \ {c} :
         lease'[d] = lease[d] /\ at'[d] = at[d] /\ asked'[d] = asked[d]
  BY <1>1 DEF IFiles, FilesTypeOK
<1>3. CASE asked[c].op = "acquire"
  <2>1. Granted(c) = 0 /\ Granted(c)' = 0
    BY <1>1, <1>3 DEF Granted, IFiles, FilesTypeOK
  <2> QED
    BY <1>1, <1>2, <2>1, TokensStay, RefusalIsPromised
<1>4. CASE asked[c].op # "acquire"
  BY <1>1, <1>2, <1>4, TokensStay, RefusalIsPromised
<1> QED
  BY <1>3, <1>4

\* A commit and a new token happen at the instant of the move.
LEMMA MoveIsPromised ==
    ASSUME IFiles, IFiles', NEW c \in Client, MoveFile(c)
    PROVE  Promise!Next
<1> DEFINE r == Candidate(c)
           f == FileOf[r.key]
<1>1. at[c] = "moves" /\ asked' = asked
  BY DEF MoveFile
<1>2. /\ Follows(c) /\ r \in FiledRecord /\ f \in File
      /\ temp[f] = Whole(r, TRUE) /\ locked[StoreAsked(c)] = c
      /\ asked[c].op = "acquire" => /\ r.key = Account /\ r.revision = lease[c]
                                    /\ StoreAsked(c) = "lease"
      /\ asked[c].op = "commit" => r = asked[c].record
  BY <1>1, WritersAreOfTheStore
<1>3. CASE Fails(c) /\ target' = target
  BY <1>1, <1>3, FailureIsPromised
<1>4. CASE /\ target' = [target EXCEPT ![f] = temp[f]]
           /\ Tell(c, Told("committed", {})) /\ lease' = lease
  <2>1. /\ told' = [told EXCEPT ![c] = Told("committed", {})]
        /\ at' = [at EXCEPT ![c] = "leaves"]
        /\ target' = [target EXCEPT ![f] = Whole(r, TRUE)]
    BY <1>2, <1>4 DEF Tell
  <2>2. Promise!Waits(c)
    BY <1>1, ClientsThatWait
  <2>3. target[f] \in Content
    BY <1>2 DEF IFiles, FilesTypeOK
  <2>4. CASE asked[c].op = "commit"
    <3>1. /\ r = asked[c].record /\ r.key # Account
          /\ r.key \in Operation \cup Reversal
          /\ r.key \in Reversal => r.revision = 1
          /\ r.revision \in Nat
      BY <1>1, <1>2, <2>4, StoreAskedIsAStore, RequestKinds
    <3>2. \/ target[f] = NoFile /\ r.revision = 1
          \/ /\ target[f].is = "whole" /\ target[f].record.key = r.key
             /\ target[f].record.revision + 1 = r.revision
             /\ target[f].record.kind = r.kind
             /\ r.revision # 1
      BY <1>2, <2>4, <3>1 DEF Follows, JournalAccepts
    <3>3. target[f].is = "whole" => target[f].record.key = r.key
      BY <3>2, NoneIsContent
    <3>4. Contents' = (Contents \ Promise!Of(r.key)) \cup {r} /\ Epoch' = Epoch
      BY <1>2, <2>1, <3>1, <3>3, MoveReplacesARecord
    <3>5. Promise!Follows(r)
      BY <2>3, <3>1, <3>2, RecordOfAKey, ContentKinds DEF Promise!Follows
    <3>6. Tokens' = Tokens
      BY <1>1, <1>4, <2>1, <2>4, TokensStay DEF IFiles, FilesTypeOK
    <3>7. Promise!Commit(c)
      BY <1>1, <2>1, <2>2, <2>4, <3>1, <3>4, <3>5, <3>6, SameNames DEF Promise!Commit
    <3> QED
      BY <3>7 DEF Promise!Next
  <2>5. CASE asked[c].op = "acquire"
    <3>1. r.key = Account /\ r.revision = lease[c] /\ locked["lease"] = c
      BY <1>2, <2>5
    <3>2. lease[c] = Epoch + 1
      BY <1>2, <2>5 DEF Follows, Epoch
    <3>3. target[f].is = "whole" => target[f].record.key = r.key
      BY <1>2, <3>1, AccountHasItsFile, ContentKinds, <2>3 DEF IFiles, FilesAreWhole
    <3>4. Contents' = Contents /\ Epoch' = Epoch + 1
      BY <1>2, <2>1, <3>1, <3>2, <3>3, MoveReplacesARecord
    <3>5. \A d \in Client : Tokens[d] = 0
      BY <1>1, <2>5, <3>1, NobodyElseHasAToken
    <3>6. Granted(c)' = Epoch + 1
      BY <1>1, <1>4, <2>1, <3>2 DEF Granted, IFiles, FilesTypeOK
    <3>7. \A d \in Client \ {c} : Granted(d)' = Granted(d)
      BY <1>1, <1>4, <2>1 DEF Granted, IFiles, FilesTypeOK
    <3>8. Tokens' = [Tokens EXCEPT ![c] = Epoch + 1]
      BY <3>6, <3>7 DEF Tokens
    <3>9. Promise!Acquire(c)
      BY <1>1, <2>1, <2>2, <2>5, <3>4, <3>5, <3>8, SameNames DEF Promise!Acquire
    <3> QED
      BY <3>9 DEF Promise!Next
  <2> QED
    BY <1>2, <2>4, <2>5 DEF Follows
<1> QED
  BY <1>3, <1>4 DEF MoveFile

LEMMA WriteIsPromised ==
    ASSUME IFiles, NEW c \in Client, WriteFile(c)
    PROVE  Promise!Next \/ UNCHANGED Promise!vars
<1>1. at[c] = "writes" /\ target' = target /\ asked' = asked
  BY DEF WriteFile
<1>2. CASE Fails(c)
  BY <1>1, <1>2, FailureIsPromised
<1>3. CASE at' = [at EXCEPT ![c] = "moves"] /\ told' = told /\ lease' = lease
  <2>1. Contents' = Contents /\ Epoch' = Epoch
    BY <1>1, ReadingChangesNothing
  <2>2. Tokens' = Tokens
    <3>1. \A d \in Client \ {c} : at'[d] = at[d]
      BY <1>3 DEF IFiles, FilesTypeOK
    <3>2. Granted(c)' = Granted(c)
      BY <1>1, <1>3 DEF Granted, IFiles, FilesTypeOK
    <3>3. \A d \in Client : Granted(d)' = Granted(d)
      BY <1>1, <1>3, <3>1, <3>2 DEF Granted
    <3> QED
      BY <3>3 DEF Tokens
  <2> QED
    BY <1>1, <1>3, <2>1, <2>2 DEF Promise!vars
<1> QED
  BY <1>2, <1>3 DEF WriteFile

LEMMA ReturnIsPromised ==
    ASSUME IFiles, NEW c \in Client, Return(c)
    PROVE  Promise!Next
<1>1. /\ at[c] = "leaves" /\ at' = [at EXCEPT ![c] = "idle"]
      /\ asked' = [asked EXCEPT ![c] = NoRequest]
      /\ told' = [told EXCEPT ![c] = Untold]
      /\ target' = target /\ lease' = lease
  BY DEF Return
<1>2. told[c] # Untold
  BY <1>1 DEF IFiles, ClientIsInOrder, RequestIsHeld
<1>3. Tokens' = Tokens
  BY <1>1, TokensStay DEF IFiles, FilesTypeOK
<1>4. Promise!Return(c)
  BY <1>1, <1>2, <1>3, ReadingChangesNothing, SameNames DEF Promise!Return
<1> QED
  BY <1>4 DEF Promise!Next

LEMMA ReleaseIsPromised ==
    ASSUME IFiles, NEW c \in Client, ReleaseLease(c)
    PROVE  Promise!Next
<1>1. /\ at[c] = "idle" /\ at' = at /\ asked' = asked /\ told' = told
      /\ target' = target /\ lease' = [lease EXCEPT ![c] = 0]
  BY DEF ReleaseLease
<1>2. Granted(c)' = 0
  BY <1>1 DEF Granted, IFiles, FilesTypeOK
<1>3. \A d \in Client \ {c} : Granted(d)' = Granted(d)
  BY <1>1 DEF Granted, IFiles, FilesTypeOK
<1>4. Tokens' = [Tokens EXCEPT ![c] = 0]
  BY <1>2, <1>3 DEF Tokens
<1>5. Promise!Release(c)
  BY <1>1, <1>4, ReadingChangesNothing DEF Promise!Release
<1> QED
  BY <1>5 DEF Promise!Next

\* The death of clients, of one or of all.
LEMMA DeathIsPromised ==
    ASSUME IFiles, NEW C \in SUBSET Client, Die(C), target' = target
    PROVE  Promise!Next
<1>1. \A d \in Client : Granted(d)' = IF d \in C THEN 0 ELSE Granted(d)
  BY DEF Die, Granted
<1>2. Tokens' = [d \in Client |-> IF d \in C THEN 0 ELSE Tokens[d]]
  BY <1>1 DEF Tokens
<1>3. Promise!Die(C)
  BY <1>2, ReadingChangesNothing, SameNames DEF Promise!Die, Die
<1> QED
  BY <1>3 DEF Promise!Next

\* No record, no token and no answer at the start.
LEMMA StartIsPromised ==
    ASSUME FilesInit PROVE Promise!Init
<1>1. \A f \in File : target[f] = NoFile
  BY DEF FilesInit
<1>2. Contents = {}
  BY <1>1, NoneIsContent DEF Contents, Records
<1>3. Epoch = 0
  BY <1>1, AccountHasItsFile, NoneIsContent DEF Epoch, EpochIn
<1>4. Tokens = [c \in Client |-> 0]
  BY DEF Tokens, Granted, FilesInit
<1> QED
  BY <1>2, <1>3, <1>4, SameNames DEF Promise!Init, FilesInit

\* The files, their locks and their moves implement the abstract store: for any
\* number of clients, keys and revisions, and whatever keys share a file.
THEOREM FilesKeepTheirPromise == FilesSpec => StoresKeepTheirPromise
<1>1. IFiles /\ IFiles' /\ [FilesNext]_filesVars => [Promise!Next]_Promise!vars
  <2> SUFFICES ASSUME IFiles, IFiles', [FilesNext]_filesVars
               PROVE  Promise!Next \/ UNCHANGED Promise!vars
    OBVIOUS
  <2>1. CASE UNCHANGED filesVars
    <3>1. Contents' = Contents /\ Epoch' = Epoch
      BY <2>1, ReadingChangesNothing DEF filesVars
    <3>2. Tokens' = Tokens
      BY <2>1 DEF filesVars, Tokens, Granted
    <3> QED
      BY <2>1, <3>1, <3>2 DEF filesVars, Promise!vars
  <2>2. CASE PowerFails
    BY <2>2, PowerLosesNothingRead, DeathIsPromised DEF PowerFails
  <2>3. ASSUME NEW c \in Client, ClientStep(c)
        PROVE  Promise!Next \/ UNCHANGED Promise!vars
    <3>1. CASE Invoke(c)
      BY <3>1, InvokeIsPromised
    <3>2. CASE TakeLock(c)
      BY <3>2, LockIsNoStep
    <3>3. CASE LockIsRefused(c) \/ ReadFails(c)
      BY <3>3, LockRefusalIsPromised
    <3>4. CASE CommitRecord(c) \/ CommitReversal(c)
      BY <3>4, CommitIsPromised
    <3>5. CASE AcquireEpoch(c)
      BY <3>5, AcquireBeginsSilently
    <3>6. CASE WriteFile(c)
      BY <3>6, WriteIsPromised
    <3>7. CASE MoveFile(c)
      BY <3>7, MoveIsPromised
    <3>8. CASE LoadRecord(c) \/ LoadReversal(c)
      BY <3>8, LoadIsPromised
    <3>9. CASE ScanRecords(c) \/ ScanReversals(c)
      BY <3>9, ScanIsPromised
    <3>10. CASE Return(c)
      BY <3>10, ReturnIsPromised
    <3>11. CASE ReleaseLease(c)
      BY <3>11, ReleaseIsPromised
    <3>12. CASE ClientCrash(c)
      BY <3>12, DeathIsPromised DEF ClientCrash
    <3> QED
      BY <2>3, <3>1, <3>2, <3>3, <3>4, <3>5, <3>6, <3>7, <3>8, <3>9, <3>10,
         <3>11, <3>12 DEF ClientStep
  <2> QED
    BY <2>1, <2>2, <2>3 DEF FilesNext
<1> QED
  BY <1>1, StartIsPromised, InductiveFiles, PTL
  DEF FilesSpec, StoresKeepTheirPromise, Promise!Spec

=============================================================================
