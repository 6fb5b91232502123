------------------------- MODULE ManagedTradeState -------------------------
(***************************************************************************)
(* The logical state of one managed trade (src/trade/managed_trade.cpp):   *)
(* its validity rule and its mutators.                                     *)
(*                                                                         *)
(* Every mutator of the code builds a candidate, and replaces the state by *)
(* it only if the candidate is valid.  Here a mutator is the set of states *)
(* it can leave behind: one state, or none when it refuses.  Mutators are  *)
(* chained by taking the next one in each state the previous one left.     *)
(*                                                                         *)
(* ever_requested is left out: valid() ties it to requested.               *)
(***************************************************************************)
EXTENDS Naturals

CONSTANTS
    TargetVolume,    \* plan.target_volume
    MaxSliceVolume,  \* plan.max_slice_volume
    MaxOperations,   \* plan.max_operations
    MaxObservations  \* the largest observation epoch; the code's is 2^64 - 1

ASSUME PlanAssumption ==
    /\ TargetVolume \in Nat \ {0}
    /\ MaxSliceVolume \in 1 .. TargetVolume
    /\ MaxOperations \in Nat \ {0}
    /\ MaxObservations \in Nat

SliceKind == {"none", "open", "close", "cancel"}

SliceState ==
    {"idle", "dispatching", "submitting", "reconciling", "partially_filled",
     "filled", "cancelled", "rejected", "ambiguous"}

BrokerOutcome == {"none", "partial", "full", "rejected", "unknown"}

Slice ==
    [id: Nat, kind: SliceKind, state: SliceState, requested: Nat, result: Nat,
     outcome: BrokerOutcome, sent: Nat, attempt: Nat]

Trade ==
    [plan: {"running", "stopped"}, slices: Nat, open: Nat, pending: Nat,
     requested: BOOLEAN, satisfied: BOOLEAN, epoch: Nat, slice: Slice]

\* A slice that has no answer yet.
FreshSlice(id, kind, state, volume, epoch) ==
    [id |-> id, kind |-> kind, state |-> state, requested |-> volume,
     result |-> 0, outcome |-> "none", sent |-> 0, attempt |-> epoch]

\* reset_slice keeps the operation id and clears the rest.
IdleSlice(id) == FreshSlice(id, "none", "idle", 0, 0)

NewTrade ==
    [plan |-> "running", slices |-> 0, open |-> 0, pending |-> 0,
     requested |-> FALSE, satisfied |-> FALSE, epoch |-> 0,
     slice |-> IdleSlice(0)]

Active == {"dispatching", "submitting", "reconciling"}

Replaceable == {"idle", "partially_filled", "filled", "cancelled", "rejected"}

OpenMayFill(s) == s.kind = "open" /\ s.state \in Active \cup {"ambiguous"}

----------------------------------------------------------------------------
(* ManagedTradeState::valid() and what it calls.                           *)

ValidObligation(t) ==
    LET unresolved == t.slice.state \in Active \cup {"ambiguous"}
        flat == t.open = 0 /\ t.pending = 0 /\ ~unresolved
    IN  /\ t.satisfied => t.requested
        /\ t.requested => (t.satisfied <=> flat)

ValidSlice(s) ==
    /\ s.requested <= TargetVolume /\ s.result <= s.requested /\ s.sent <= 1
    /\ s.kind = "none" => s.state = "idle"
    /\ s.kind # "none" => s.id # 0 /\ s.requested # 0
    /\ s.state = "idle" => s = FreshSlice(s.id, "none", "idle", 0, s.attempt)
    /\ s.state \in {"dispatching", "submitting"} =>
          s.result = 0 /\ s.outcome = "none" /\ s.sent = 0
    /\ s.state = "reconciling" =>
          /\ s.sent = 1 /\ s.outcome # "none"
          /\ s.outcome = "partial" => s.kind # "cancel"
          /\ s.outcome = "full" /\ s.kind = "cancel" => s.result = 0
    /\ s.state = "ambiguous" => s.outcome = "unknown"
    /\ s.state = "partially_filled" =>
          s.kind # "cancel" /\ s.outcome = "partial" /\ s.sent = 1
    /\ s.state = "filled" =>
          s.kind # "cancel" /\ s.outcome = "full" /\ s.sent = 1
    /\ s.state = "cancelled" =>
          /\ s.kind = "cancel" /\ s.outcome = "full" /\ s.sent = 1
          /\ s.result = 0
    /\ s.state = "rejected" => s.outcome = "rejected" /\ s.sent = 1
    /\ s.outcome = "partial" => s.result \in 1 .. s.requested - 1
    /\ s.outcome = "full" /\ s.kind # "cancel" => s.result = s.requested
    /\ s.outcome \in {"rejected", "unknown"} => s.result = 0
    /\ s.sent = 1 =>
          s.state \notin {"idle", "dispatching", "submitting"}

ValidTrade(t) ==
    /\ t.slices <= MaxOperations /\ t.slice.id <= MaxOperations
    /\ t.open + t.pending <= TargetVolume
    /\ t.slices <= t.slice.id
    /\ (t.slices = 0) = (t.slice.id = 0)
    /\ ValidSlice(t.slice)
    /\ ValidObligation(t)
    /\ t.slice.attempt <= t.epoch
    /\ t.slice.state = "ambiguous" => t.slice.sent = 1

\* commit_candidate, behind the mutator's own refusals.
Mutation(allowed, candidate) ==
    IF allowed /\ ValidTrade(candidate) THEN {candidate} ELSE {}

----------------------------------------------------------------------------
(* Starting operations.  next_operation_id refuses the id past the limit.  *)

Started(t, kind, state, volume) ==
    [t EXCEPT !.slice = FreshSlice(t.slice.id + 1, kind, state, volume, t.epoch)]

StartOpenSlice(t, volume) ==
    Mutation(/\ t.plan = "running"
             /\ t.slice.state \in Replaceable
             /\ ~t.requested
             /\ t.pending = 0
             /\ volume \in 1 .. MaxSliceVolume
             /\ t.open + volume <= TargetVolume
             /\ t.slices < MaxOperations
             /\ t.slice.id < MaxOperations,
             [Started(t, "open", "dispatching", volume) EXCEPT !.slices = @ + 1])

RequestClose(t) ==
    Mutation(/\ ~t.requested /\ ~t.satisfied
             /\ t.open # 0 \/ t.pending # 0 \/ OpenMayFill(t.slice),
             [t EXCEPT !.requested = TRUE])

\* Faulty: a CLOSE may ask for what is still resting.
StartCloseOverPending(t, volume) ==
    Mutation(/\ t.requested /\ ~t.satisfied
             /\ t.slice.state \in Replaceable
             /\ ~(t.slice.kind = "close" /\ t.slice.state = "partially_filled")
             /\ volume \in 1 .. t.open + t.pending
             /\ t.slice.id < MaxOperations,
             Started(t, "close", "dispatching", volume))

StartClose(t, volume) ==
    Mutation(/\ t.requested /\ ~t.satisfied
             /\ t.slice.state \in Replaceable
             /\ ~(t.slice.kind = "close" /\ t.slice.state = "partially_filled")
             /\ t.pending = 0
             /\ volume \in 1 .. t.open
             /\ t.slice.id < MaxOperations,
             Started(t, "close", "dispatching", volume))

StartCancel(t) ==
    Mutation(/\ t.pending # 0
             /\ t.slice.state \in Replaceable
             /\ t.slice.id < MaxOperations,
             Started(t, "cancel", "dispatching", t.pending))

RestoreCancelReconciliation(t, id, volume) ==
    Mutation(/\ t.slice.kind = "open"
             /\ t.slice.state \in {"partially_filled", "filled"}
             /\ id = t.slice.id + 1 /\ id <= MaxOperations
             /\ volume # 0
             /\ volume >= t.pending /\ volume < t.slice.requested,
             Started(t, "cancel", "submitting", volume))

\* Faulty: an attempt whose outcome is unknown is submitted again.
EnterSubmittingAgain(t) ==
    Mutation(t.slice.state \in {"dispatching", "ambiguous"},
             [t EXCEPT !.slice.state = "submitting", !.slice.outcome = "none",
                       !.slice.sent = 0])

EnterSubmitting(t) ==
    Mutation(t.slice.state = "dispatching" /\ t.slice.kind # "none",
             [t EXCEPT !.slice.state = "submitting"])

----------------------------------------------------------------------------
(* Recording the broker's answer, and reconciling it.                      *)

AwaitsAnswer(t) ==
    t.slice.state = "submitting" /\ t.slice.kind # "none" /\ t.slice.sent = 0

Answered(t, outcome, volume) ==
    [t EXCEPT !.slice = [@ EXCEPT !.state = "reconciling", !.outcome = outcome,
                                  !.result = volume, !.sent = 1]]

RecordFill(t, volume) ==
    Mutation(/\ AwaitsAnswer(t)
             /\ t.slice.kind \in {"open", "close"}
             /\ volume \in 1 .. t.slice.requested,
             Answered(t, IF volume = t.slice.requested THEN "full"
                                                       ELSE "partial", volume))

RecordCancelAccepted(t) ==
    Mutation(AwaitsAnswer(t) /\ t.slice.kind = "cancel",
             Answered(t, "full", 0))

RecordRejected(t) == Mutation(AwaitsAnswer(t), Answered(t, "rejected", 0))

RecordUnknown(t) == Mutation(AwaitsAnswer(t), Answered(t, "unknown", 0))

Settled(t, state) == [t EXCEPT !.slice.state = state]

NoExposure(t) == t.open = 0 /\ t.pending = 0

\* The obligation is discharged when a settlement leaves no exposure.
Discharged(t) ==
    [t EXCEPT !.satisfied = @ \/ (t.requested /\ NoExposure(t))]

\* A completed CLOSE does so without asking whether a close was requested.
DischargedByClose(t) == [t EXCEPT !.satisfied = @ \/ NoExposure(t)]

ReconcileOpen(t) ==
    LET s == t.slice
        bought == [t EXCEPT !.open = @ + s.result]
        fits == t.open + s.result <= TargetVolume
    IN  Mutation(s.outcome = "full" /\ fits,
                 Settled([bought EXCEPT !.pending = 0], "filled"))
        \cup Mutation(s.outcome = "partial" /\ fits,
                      Settled([bought EXCEPT !.pending = s.requested - s.result],
                              "partially_filled"))
        \cup Mutation(s.outcome = "rejected", Discharged(Settled(t, "rejected")))
        \cup Mutation(s.outcome \in {"unknown", "none"}, Settled(t, "ambiguous"))

ReconcileClose(t) ==
    LET s == t.slice
        sold == [t EXCEPT !.open = @ - s.result]
    IN  Mutation(s.outcome = "full" /\ s.result <= t.open,
                 DischargedByClose(Settled(sold, "filled")))
        \cup Mutation(s.outcome = "partial" /\ s.result <= t.open,
                      Settled(sold, "partially_filled"))
        \cup Mutation(s.outcome = "rejected", Settled(t, "rejected"))
        \cup Mutation(s.outcome \in {"unknown", "none"}, Settled(t, "ambiguous"))

\* Faulty: a cancelled remainder leaves the close obligation as it was.
ReconcileCancelOnly(t) ==
    Mutation(t.slice.outcome = "full", Settled([t EXCEPT !.pending = 0], "cancelled"))
    \cup Mutation(t.slice.outcome = "rejected", Settled(t, "rejected"))
    \cup Mutation(t.slice.outcome = "unknown", Settled(t, "ambiguous"))

ReconcileCancel(t) ==
    Mutation(t.slice.outcome = "full",
             Discharged(Settled([t EXCEPT !.pending = 0], "cancelled")))
    \cup Mutation(t.slice.outcome = "rejected", Settled(t, "rejected"))
    \cup Mutation(t.slice.outcome = "unknown", Settled(t, "ambiguous"))

Reconcile(t) ==
    IF t.slice.state # "reconciling" \/ t.slice.sent # 1 THEN {}
    ELSE IF t.slice.kind = "open" THEN ReconcileOpen(t)
    ELSE IF t.slice.kind = "close" THEN ReconcileClose(t)
    ELSE ReconcileCancel(t)

----------------------------------------------------------------------------
(* Late fills.                                                             *)

LateEntry(t, volume) == [t EXCEPT !.open = @ + volume, !.pending = @ - volume]

ObservePendingRemainder(t, volume) ==
    LET s == t.slice
    IN  Mutation(/\ volume \in 1 .. t.pending
                 /\ s.kind = "open" /\ s.state = "partially_filled"
                 /\ s.result + volume <= s.requested,
                 [LateEntry(t, volume) EXCEPT !.slice =
                     IF volume = t.pending
                       THEN [s EXCEPT !.result = @ + volume,
                                      !.outcome = "full", !.state = "filled"]
                       ELSE [s EXCEPT !.result = @ + volume]])

\* Faulty: the fill that races a cancellation stays in the resting volume.
CancelFillStaysPending(t, volume) ==
    Mutation(/\ t.slice.kind = "cancel"
             /\ t.slice.state \in {"submitting", "reconciling"}
             /\ volume \in 1 .. t.pending,
             [t EXCEPT !.open = @ + volume])

ObserveCancelRemainder(t, volume) ==
    Mutation(/\ t.slice.kind = "cancel"
             /\ t.slice.state \in {"submitting", "reconciling"}
             /\ volume \in 1 .. t.pending,
             LateEntry(t, volume))

ObserveCloseRemainder(t, volume) ==
    LET s == t.slice
        sold == [t EXCEPT !.open = @ - volume, !.slice.result = @ + volume]
    IN  Mutation(/\ s.kind = "close" /\ s.state = "partially_filled"
                 /\ volume \in 1 .. s.requested - s.result
                 /\ volume <= t.open,
                 IF s.result + volume = s.requested
                   THEN DischargedByClose([sold EXCEPT !.slice.outcome = "full",
                                                       !.slice.state = "filled"])
                   ELSE sold)

----------------------------------------------------------------------------
(* The plan, and retiring an ambiguous attempt.                            *)

StopPlan(t) == Mutation(t.plan = "running", [t EXCEPT !.plan = "stopped"])

ApplyFreshSnapshot(t, open, pending) ==
    Mutation(/\ t.slice.state = "ambiguous"
             /\ t.epoch < MaxObservations
             /\ open + pending <= TargetVolume,
             [t EXCEPT !.open = open, !.pending = pending, !.epoch = @ + 1])

AcknowledgeAmbiguous(t) ==
    Mutation(t.slice.state = "ambiguous" /\ t.epoch > t.slice.attempt,
             Discharged([t EXCEPT !.slice = IdleSlice(@.id)]))

============================================================================
