---------------------------- MODULE ManagedTrade ----------------------------
(***************************************************************************)
(* One managed trade under an arbitrary owner and an arbitrary broker:     *)
(* every mutator of ManagedTradeState is an action, called in any order    *)
(* and with any input.  A mutator that refuses is a stuttering step.       *)
(***************************************************************************)
EXTENDS ManagedTradeState

VARIABLE trade

TypeOK == trade \in Trade

Init == trade = NewTrade

Volumes == 1 .. TargetVolume

----------------------------------------------------------------------------
(* The owner's decisions.                                                  *)

OpenNextSlice == \E v \in Volumes : trade' \in StartOpenSlice(trade, v)

AskToClose == trade' \in RequestClose(trade)

CloseSlice == \E v \in Volumes : trade' \in StartClose(trade, v)

CancelRemainder == trade' \in StartCancel(trade)

Submit == trade' \in EnterSubmitting(trade)

Stop == trade' \in StopPlan(trade)

\* A restart rebuilds the OPEN first and then the CANCEL in flight on top.
RecoverCancel ==
    \E id \in 1 .. MaxOperations, v \in Volumes :
        trade' \in RestoreCancelReconciliation(trade, id, v)

----------------------------------------------------------------------------
(* What the broker does, as the owner learns of it.                        *)

Answers(t) ==
    (UNION {RecordFill(t, v) : v \in Volumes})
        \cup RecordCancelAccepted(t) \cup RecordRejected(t) \cup RecordUnknown(t)

Answer == trade' \in Answers(trade)

Apply == trade' \in Reconcile(trade)

FillPending == \E v \in Volumes : trade' \in ObservePendingRemainder(trade, v)

FillCancelled == \E v \in Volumes : trade' \in ObserveCancelRemainder(trade, v)

FillClose == \E v \in Volumes : trade' \in ObserveCloseRemainder(trade, v)

Refresh ==
    \E open, pending \in 0 .. TargetVolume :
        trade' \in ApplyFreshSnapshot(trade, open, pending)

Acknowledge == trade' \in AcknowledgeAmbiguous(trade)

Next ==
    \/ OpenNextSlice \/ AskToClose \/ CloseSlice \/ CancelRemainder \/ Submit
    \/ Stop \/ RecoverCancel
    \/ Answer \/ Apply
    \/ FillPending \/ FillCancelled \/ FillClose
    \/ Refresh \/ Acknowledge

Spec == Init /\ [][Next]_trade

----------------------------------------------------------------------------
(* Properties.                                                             *)

\* No answer is a dead end: whatever the broker answers to a submitted
\* operation can be recorded, and what is recorded can be applied, whatever
\* late fills, snapshots and close requests came in between.  A candidate that
\* valid() refuses there would leave the slice active for ever.
EvidenceIsApplied ==
    /\ trade.slice.state = "reconciling" => Reconcile(trade) # {}
    /\ trade.slice.state = "submitting" => Answers(trade) # {}
    /\ \A t \in Answers(trade) : Reconcile(t) # {}

InFlight(t, kind) ==
    IF t.slice.kind = kind /\ t.slice.state \in Active
      THEN t.slice.requested ELSE 0

\* Held, resting or still to be answered as an entry.
Exposure(t) == t.open + t.pending + InFlight(t, "open")

\* Volume is neither invented nor forgotten.  Exposure grows only when a new
\* OPEN starts or a snapshot says so; what is held falls only by a fill of the
\* current CLOSE or by a snapshot; and a late fill moves volume from resting to
\* held and loses none.
ExposureIsConserved ==
    [][trade'.epoch = trade.epoch =>
          /\ Exposure(trade') > Exposure(trade) =>
                trade'.slices = trade.slices + 1
          /\ trade'.open < trade.open =>
                trade.slice.kind = "close"
                    /\ trade.slice.state \in {"reconciling", "partially_filled"}
          /\ trade'.open > trade.open /\ trade.slice.sent = 0 =>
                trade'.open + trade'.pending = trade.open + trade.pending]_trade

\* One operation id is one attempt: ids count up by one, never past an attempt
\* whose outcome is open, and no step under the same id takes an answered
\* attempt back to where it could be sent again.
AttemptIsNeverRepeated ==
    [][/\ trade'.slice.id # trade.slice.id =>
             /\ trade'.slice.id = trade.slice.id + 1
             /\ trade.slice.state \notin Active \cup {"ambiguous"}
       /\ trade'.slice.id = trade.slice.id /\ trade.slice.sent = 1 =>
             trade'.slice.state \notin {"dispatching", "submitting"}]_trade

----------------------------------------------------------------------------
(* Progress.                                                               *)

\* An owner that keeps working on the obligation, and a broker that answers
\* what was submitted.  Nothing forces late fills to arrive.
Fairness ==
    /\ WF_trade(Submit)
    /\ WF_trade(Answer)
    /\ WF_trade(Apply)
    /\ WF_trade(CloseSlice)
    /\ WF_trade(CancelRemainder)
    /\ WF_trade(Refresh)
    /\ WF_trade(Acknowledge)

FairSpec == Spec /\ Fairness

\* The operation ids or the observation epochs are used up.
Exhausted == trade.slice.id = MaxOperations \/ trade.epoch = MaxObservations

\* No replacement CLOSE may start while one is partially filled.
AwaitsCloseRemainder ==
    trade.slice.kind = "close" /\ trade.slice.state = "partially_filled"

\* A requested close is discharged in the end, through rejections, unknown
\* outcomes and a resting remainder, unless a bound is reached or the broker
\* leaves the remainder of a partial CLOSE open.
ObligationDischarged ==
    trade.requested ~> (trade.satisfied \/ Exhausted \/ AwaitsCloseRemainder)

============================================================================
