------------------------- MODULE ManagedTradeOwner -------------------------
(***************************************************************************)
(* ManagedTradeOwner (src/dispatch/managed_trade_owner.cpp): one owner     *)
(* loop that keeps a managed trade in memory, its operations in the        *)
(* durable journal and its orders at the broker, through lost replies,     *)
(* late fills, crashes and restarts.                                       *)
(*                                                                         *)
(* The owner is the only writer here, so its cache is the journal; what    *)
(* several writers can do to each other is the subject of DispatchJournal. *)
(* A handler is one action, which ends complete, or interrupted between    *)
(* two of its durable commits: by a crash, or, if fallible, by a commit    *)
(* that the store refuses while the process goes on.  Fills happen at the  *)
(* broker at any time.                                                     *)
(***************************************************************************)
EXTENDS JournalRecord, ManagedTradeState, FiniteSetsExt

CONSTANTS
    Descriptors,  \* the descriptors of OPEN and CLOSE intents
    CommitFails   \* whether a commit may fail without a crash: what to check

ASSUME OwnerAssumption ==
    /\ Descriptors \subseteq Descriptor \ {"none"}
    /\ CommitFails \subseteq BOOLEAN

VARIABLES
    trade,    \* state_ of the owner; NewTrade while there is no owner
    up,       \* whether an owner is constructed
    journal,  \* [Id -> Record], this trade's records by operation id
    orders,   \* [Id -> Order], what each operation did at the broker
    fallible  \* whether the store may refuse a commit, in this behaviour

vars == <<trade, up, journal, orders, fallible>>

Id == 1 .. MaxOperations

\* For a CANCEL, live says that the broker has yet to act on it.
Order == [live: BOOLEAN, filled: Nat]

NoOrder == [live |-> FALSE, filled |-> 0]

TypeOK ==
    /\ trade \in Trade
    /\ up \in BOOLEAN
    /\ journal \in [Id -> Record]
    /\ orders \in [Id -> Order]
    /\ fallible \in CommitFails

Init ==
    /\ trade = NewTrade
    /\ up = TRUE
    /\ journal = [o \in Id |-> Absent]
    /\ orders = [o \in Id |-> NoOrder]
    /\ fallible \in CommitFails

\* Chained mutators: the second is applied to what the first left behind.
Then(states, Mutator(_)) == UNION {Mutator(t) : t \in states}

\* The process is gone, and with it the owner's memory.
Dies == up' = FALSE /\ trade' = NewTrade

\* A handler that stops between two commits leaves its memory as it was.
Interrupted == Dies \/ (fallible /\ UNCHANGED <<trade, up>>)

Completes(states) == trade' \in states /\ UNCHANGED up

Current == trade.slice.id

CurrentRecord == journal[Current]

WriteRecord(o, r) == journal' = [journal EXCEPT ![o] = r]

----------------------------------------------------------------------------
(* prepare_open, prepare_close, prepare_cancel.                            *)

\* The five commits of prepare_durable_operation, in order.
Preparation(kind, desc, requested) ==
    LET created     == Created(kind)
        prechecking == OperationAdvanced(created, "prechecking", 0)
        prechecked  == JournalAdvanced(prechecking, "prechecked", 0)
        intent      == JournalAdvanced(prechecked, "dispatch_intent_persisted", 0)
    IN  <<created, prechecking, prechecked, intent,
          Described(intent, desc, requested)>>

Prepare(kind, candidates, desc) ==
    /\ up
    /\ \E t \in candidates :
          LET id      == t.slice.id
              commits == Preparation(kind, desc, t.slice.requested)
          IN  /\ journal[id].rev = 0
              /\ \/ WriteRecord(id, commits[5]) /\ Completes({t})
                 \/ \E k \in 1 .. 4 : WriteRecord(id, commits[k]) /\ Interrupted
    /\ UNCHANGED orders

PrepareOpen ==
    \E volume \in 1 .. MaxSliceVolume, desc \in Descriptors :
        Prepare("open", StartOpenSlice(trade, volume), desc)

PrepareClose ==
    \E volume \in 1 .. TargetVolume, desc \in Descriptors :
        LET asked == IF trade.requested THEN {trade} ELSE RequestClose(trade)
        IN  Prepare("close", Then(asked, LAMBDA t : StartClose(t, volume)), desc)

\* The OPEN whose remainder a cancellation is about: the operation just before
\* a CANCEL, or else the current, partially filled OPEN.
OpenForCancel ==
    LET id == IF trade.slice.kind = "cancel" THEN Current - 1 ELSE Current
    IN  IF /\ trade.slice.kind = "cancel"
              \/ /\ trade.pending # 0
                 /\ trade.slice.kind = "open"
                 /\ trade.slice.state = "partially_filled"
           /\ id # 0
           /\ journal[id].kind = "open"
           /\ journal[id].js = "reconciling"
           /\ journal[id].os \in FillState
           /\ journal[id].settled # 0
          THEN {id} ELSE {}

\* The CANCEL's only predicate is the absence of the order, by its ticket.
PrepareCancel ==
    /\ OpenForCancel # {}
    /\ Prepare("cancel", StartCancel(trade), "ticketed")

----------------------------------------------------------------------------
(* execute_pending: admission, the one-shot backend, and what the owner    *)
(* makes of the outcome.  A refused admission changes nothing.             *)

MayExecute ==
    /\ up
    /\ trade.slice.state = "dispatching"
    /\ CurrentRecord.js = "dispatch_intent_persisted"
    /\ CurrentRecord.desc # "none"

Admitted == JournalAdvanced(CurrentRecord, "dispatching", 1)

Submitting == OperationAdvanced(Admitted, "submitting", 0)

Persisted(answer) == ResultPersisted(Submitting, answer)

OrderIs(live) == orders' = [orders EXCEPT ![Current].live = live]

\* The account probe, the lease or the submitting commit stops the execution
\* past the barrier and before the call.  The slice stays as it is.
ExecuteRefused ==
    /\ MayExecute
    /\ WriteRecord(Current, Admitted)
    /\ Dies \/ UNCHANGED <<trade, up>>
    /\ UNCHANGED orders

\* Past the submitting commit nothing is known for certain: the call was not
\* made, or its reply was lost, is unbindable or could not be persisted.  The
\* journal is moved to reconciling, which a record without its bindings cannot.
ExecuteUncertain ==
    LET marked == JournalAdvanced(Submitting, "reconciling", 0)
    IN  /\ MayExecute
        /\ \E live \in BOOLEAN : OrderIs(live)
        /\ \/ /\ ValidRecord(marked)
              /\ WriteRecord(Current, marked)
              /\ Completes(EnterSubmitting(trade))
           \/ /\ ~ValidRecord(marked)
              /\ WriteRecord(Current, Submitting)
              /\ UNCHANGED <<trade, up>>
           \/ WriteRecord(Current, Submitting) /\ Interrupted

ExecuteRejected ==
    /\ MayExecute
    /\ WriteRecord(Current, RejectionPersisted(Submitting, "rejected"))
    /\ Completes(Then(Then(EnterSubmitting(trade), RecordRejected), Reconcile))
    /\ UNCHANGED orders

ExecuteAccepted ==
    \E answer \in Reply \ {"rejected"} :
        /\ MayExecute
        /\ MayPersistResult(Submitting, answer)
        /\ OrderIs(TRUE)
        /\ \/ \E final \in {"accepted", "reconciling"} :
                 /\ WriteRecord(Current,
                                OperationAdvanced(Persisted(answer), final, 0))
                 /\ Completes(EnterSubmitting(trade))
           \/ /\ fallible
              /\ WriteRecord(Current, Persisted(answer))
              /\ Completes(EnterSubmitting(trade))
           \/ WriteRecord(Current, Persisted(answer)) /\ Dies

----------------------------------------------------------------------------
(* The settlement handlers.  Each steps a reconciliation worker, which     *)
(* first normalizes the record, and then acts on fresh broker evidence.    *)

NormalizedOnce(r) ==
    IF r.os \in {"prechecking", "submitting", "accepted"}
      THEN OperationAdvanced(r, "reconciling", 0) ELSE r

Normalized(r) ==
    LET once == NormalizedOnce(r)
    IN  IF once.js = "reconciling" THEN once
                                   ELSE JournalAdvanced(once, "reconciling", 0)

MaySettle(kinds, states) ==
    /\ up
    /\ trade.slice.kind \in kinds
    /\ trade.slice.state \in states
    /\ CurrentRecord.os \notin Terminal
    /\ CurrentRecord.js \in AtLeastDispatching

\* A CANCEL is only settled next to the OPEN it cancels.
MaySettleSubmitted ==
    /\ MaySettle({"open", "close", "cancel"}, {"submitting"})
    /\ trade.slice.kind = "cancel" => OpenForCancel # {}

\* The evidence does not settle anything yet.
SettleUnresolved ==
    /\ MaySettleSubmitted
    /\ \/ /\ WriteRecord(Current, Normalized(CurrentRecord))
          /\ UNCHANGED <<trade, up>>
       \/ WriteRecord(Current, NormalizedOnce(CurrentRecord)) /\ Interrupted
    /\ UNCHANGED orders

\* Contradictory evidence makes the record ambiguous.  The slice follows if the
\* evidence was admitted to the graph; a refused refresh leaves it submitting.
SettleAmbiguous ==
    /\ MaySettleSubmitted
    /\ WriteRecord(Current,
                   OperationAdvanced(Normalized(CurrentRecord), "ambiguous", 0))
    /\ \/ Completes(Then(RecordUnknown(trade), Reconcile))
       \/ UNCHANGED <<trade, up>>
       \/ Dies
    /\ UNCHANGED orders

FillStateOf(volume, requested) ==
    IF volume = requested THEN "filled" ELSE "partially_filled"

\* The durable fill is committed before the memory takes it over.
CommitFill(r, volume, candidates) ==
    /\ candidates # {}
    /\ \/ /\ WriteRecord(Current,
                OperationAdvanced(r, FillStateOf(volume, r.requested), volume))
          /\ Completes(candidates) \/ Dies
       \/ WriteRecord(Current, r) /\ Interrupted
    /\ UNCHANGED orders

\* Fills are attributed through the deal ticket bound by the broker's reply;
\* evidence may be older than the newest fill.
SettleFill ==
    /\ MaySettle({"open", "close"}, {"submitting"})
    /\ CurrentRecord.desc = "unbound"
    /\ \E volume \in 1 .. orders[Current].filled :
          /\ trade.slice.kind = "close" => volume <= trade.open
          /\ CommitFill(Normalized(CurrentRecord), volume,
                        Then(RecordFill(trade, volume), Reconcile))

SettlePendingRemainder ==
    /\ MaySettle({"open"}, {"partially_filled"})
    /\ trade.pending # 0
    /\ CurrentRecord.os = "partially_filled"
    /\ CurrentRecord.settled = trade.slice.result
    /\ \E volume \in CurrentRecord.settled + 1 .. orders[Current].filled :
          CommitFill(CurrentRecord, volume,
              ObservePendingRemainder(trade, volume - CurrentRecord.settled))

SettleCloseRemainder ==
    /\ MaySettle({"close"}, {"partially_filled"})
    /\ CurrentRecord.os = "partially_filled"
    /\ \E volume \in CurrentRecord.settled + 1 .. orders[Current].filled :
          CommitFill(CurrentRecord, volume,
              ObserveCloseRemainder(trade, volume - CurrentRecord.settled))

\* Faulty: a late fill reaches the memory, and the OPEN in the journal is left.
SettleCancelOnly ==
    /\ MaySettle({"cancel"}, {"submitting"})
    /\ \E open \in OpenForCancel :
          LET late     == orders[open].filled - journal[open].settled
              observed == IF late = 0 THEN {trade}
                          ELSE ObserveCancelRemainder(trade, late)
          IN  /\ ~orders[open].live
              /\ WriteRecord(Current, OperationAdvanced(Normalized(CurrentRecord),
                                                        "cancelled", 0))
              /\ Completes(Then(Then(observed, RecordCancelAccepted), Reconcile))
    /\ UNCHANGED orders

\* Faulty: the order's absence alone settles the cancellation.
SettleCancelOnAbsence ==
    /\ MaySettle({"cancel"}, {"submitting"})
    /\ \E open \in OpenForCancel : ~orders[open].live
    /\ WriteRecord(Current, OperationAdvanced(Normalized(CurrentRecord),
                                              "cancelled", 0))
    /\ Completes(Then(RecordCancelAccepted(trade), Reconcile))
    /\ UNCHANGED orders

\* The order is gone from the active orders and the deal history, read after
\* them, is complete: a late fill is committed to the OPEN first, then the
\* CANCEL, and only then does the memory take over both.
SettleCancel ==
    /\ MaySettle({"cancel"}, {"submitting"})
    /\ \E open \in OpenForCancel :
          LET bought   == journal[open]
              late     == orders[open].filled - bought.settled
              cancel   == Normalized(CurrentRecord)
              filled   == IF late = 0 THEN bought
                          ELSE OperationAdvanced(bought,
                                   FillStateOf(orders[open].filled,
                                               bought.requested),
                                   orders[open].filled)
              observed == IF late = 0 THEN {trade}
                          ELSE ObserveCancelRemainder(trade, late)
              settled  == Then(Then(observed, RecordCancelAccepted), Reconcile)
              Write(o, c) ==
                  journal' = [journal EXCEPT ![open] = o, ![Current] = c]
          IN  /\ ~orders[open].live
              /\ settled # {}
              /\ \/ /\ Write(filled, OperationAdvanced(cancel, "cancelled", 0))
                    /\ Completes(settled) \/ Dies
                 \/ Write(filled, cancel) /\ Interrupted
                 \/ Write(bought, cancel) /\ Interrupted
    /\ UNCHANGED orders

----------------------------------------------------------------------------
(* Crash and restart.                                                      *)

Crash == up /\ Dies /\ UNCHANGED <<journal, orders>>

\* Only settled records, and a CANCEL being reconciled, can be replayed.
Replayable(r) ==
    /\ r.js = "reconciling"
    /\ r.requested # 0
    /\ \/ r.kind \in {"open", "close"} /\ r.os \in FillState
       \/ r.kind = "cancel" /\ r.os \in {"reconciling", "cancelled"}

Refilled(states, volume) ==
    Then(Then(Then(states, EnterSubmitting),
              LAMBDA t : RecordFill(t, volume)), Reconcile)

ReplayOpen(t, r) ==
    IF r.requested <= MaxSliceVolume /\ r.os = FillStateOf(r.settled, r.requested)
      THEN Refilled(StartOpenSlice(t, r.requested), r.settled) ELSE {}

ReplayClose(t, r) ==
    LET asked == IF t.requested THEN {t} ELSE RequestClose(t)
    IN  IF r.os = FillStateOf(r.settled, r.requested)
          THEN Refilled(Then(asked, LAMBDA s : StartClose(s, r.requested)),
                        r.settled)
          ELSE {}

ReplayCancel(t, id, r) ==
    LET restored == RestoreCancelReconciliation(t, id, r.requested)
    IN  IF r.os = "cancelled"
          THEN Then(Then(restored, RecordCancelAccepted), Reconcile)
          ELSE restored

Replay(t, id, r) ==
    IF t.slice.id + 1 # id \/ ~Replayable(r) THEN {}
    ELSE IF r.kind = "open" THEN ReplayOpen(t, r)
    ELSE IF r.kind = "close" THEN ReplayClose(t, r)
    ELSE ReplayCancel(t, id, r)

\* recover_settled_trade: the records in operation-id order, or nothing.
Replays(records) ==
    LET upTo[id \in 0 .. MaxOperations] ==
            IF id = 0 THEN {NewTrade}
            ELSE IF records[id].rev = 0 THEN upTo[id - 1]
            ELSE Then(upTo[id - 1], LAMBDA t : Replay(t, id, records[id]))
    IN  upTo

Recovered == Replays(journal)[MaxOperations]

Restart ==
    /\ ~up
    /\ trade' \in Recovered
    /\ up' = TRUE
    /\ UNCHANGED <<journal, orders>>

----------------------------------------------------------------------------
(* The broker.                                                             *)

Kind(o) == journal[o].kind

Sum(volume, kind) ==
    MapThenSumSet(LAMBDA o : volume[o], {o \in Id : Kind(o) = kind})

Filled == [o \in Id |-> orders[o].filled]

Working ==
    [o \in Id |-> IF orders[o].live THEN journal[o].requested - orders[o].filled
                                    ELSE 0]

Position == Sum(Filled, "open") - Sum(Filled, "close")

\* One more lot of a working order; a CLOSE is filled from the position.
BrokerFills(o) ==
    /\ orders[o].live
    /\ Kind(o) \in {"open", "close"}
    /\ Kind(o) = "close" => Position > 0
    /\ orders' = [orders EXCEPT ![o] =
                     [filled |-> @.filled + 1,
                      live   |-> @.filled + 1 < journal[o].requested]]
    /\ UNCHANGED <<trade, up, journal>>

\* The broker ends a working order by itself.
BrokerEnds(o) ==
    /\ orders[o].live
    /\ orders' = [orders EXCEPT ![o].live = FALSE]
    /\ UNCHANGED <<trade, up, journal>>

\* A CANCEL takes the newest OPEN before it off the book.
BrokerCancels(o) ==
    \E open \in 1 .. o - 1 :
        /\ orders[o].live
        /\ Kind(o) = "cancel"
        /\ Kind(open) = "open"
        /\ \A p \in open + 1 .. o - 1 : Kind(p) # "open"
        /\ orders' = [orders EXCEPT ![o].live = FALSE, ![open].live = FALSE]
        /\ UNCHANGED <<trade, up, journal>>

----------------------------------------------------------------------------
Next ==
    \/ PrepareOpen \/ PrepareClose \/ PrepareCancel
    \/ ExecuteRefused \/ ExecuteUncertain \/ ExecuteRejected \/ ExecuteAccepted
    \/ SettleUnresolved \/ SettleAmbiguous
    \/ SettleFill \/ SettlePendingRemainder \/ SettleCloseRemainder
    \/ SettleCancel
    \/ Crash \/ Restart
    \/ \E o \in Id : BrokerFills(o) \/ BrokerEnds(o) \/ BrokerCancels(o)

Spec == Init /\ [][UNCHANGED fallible /\ Next]_vars

----------------------------------------------------------------------------
(* Properties.                                                             *)

\* A restart changes nothing: whatever the journal can be replayed to is what
\* the owner holds in memory, at every moment at which it could crash.
RecoveryAgrees == up /\ ~fallible => Recovered \subseteq {trade}

\* What an owner in memory accounts for: held, resting, or in an OPEN that is
\* under way or whose outcome is unknown.
Accounted ==
    trade.open + trade.pending
        + (IF OpenMayFill(trade.slice) THEN trade.slice.requested ELSE 0)

\* docs/adr/0029-durable-exit-settlement.md:46: no fill and no working order is
\* ever erased: the owner accounts for at least what the broker holds and works.
ExposureIsTracked == up => Position + Sum(Working, "open") <= Accounted

\* It is so however the process crashes and restarts, between any two commits.
CrashesForgetNothing == ~fallible => ExposureIsTracked

\* The broker never holds or works more than the plan's target, over any number
\* of slices, cancellations, late fills and restarts.
BrokerExposureIsBounded ==
    ~fallible => Position + Sum(Working, "open") <= TargetVolume

\* Working CLOSE orders can never turn the position over, whatever was lost,
\* refused or restarted in between.
CloseNeverReverses == Sum(Working, "close") <= Position

\* What the broker holds stays between nothing and the plan's target.
BrokerStaysInPlan == BrokerExposureIsBounded /\ CloseNeverReverses

============================================================================
