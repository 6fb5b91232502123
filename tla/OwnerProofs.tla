---------------------------- MODULE OwnerProofs ----------------------------
(***************************************************************************)
(* The owner of a managed trade, for every plan and any interruptions.     *)
(***************************************************************************)
EXTENDS ManagedTradeOwner, SetSums

----------------------------------------------------------------------------
(* What the journal and the broker have in common, whoever looks at them.  *)
(* j is a journal, w are the orders.                                       *)

Traded == {"open", "close"}

Present(j, o) == j[o].rev # 0

\* A record that says how much was settled is in a state that agrees.
RecordFits(r) ==
    /\ r.rev = 0 => r = Absent
    /\ r.settled # 0 => r.os \in FillState
    /\ r.os = "cancelled" => r.kind = "cancel"
    /\ r.os \in FillState =>
          /\ r.kind \in Traded
          /\ r.settled \in 1 .. r.requested
          /\ r.os = FillStateOf(r.settled, r.requested)

\* What was settled was filled, and no more is filled than was requested.
OrderFits(r, x) ==
    /\ r.rev = 0 => x = NoOrder
    /\ r.kind \in Traded =>
          /\ r.settled <= x.filled
          /\ x.filled <= r.requested
          /\ x.live => x.filled < r.requested
    /\ r.kind \notin Traded => x.filled = 0

\* The broker is done with an order, and the journal knows all of it.
Quiet(r, x) == ~ x.live /\ x.filled = r.settled

\* Operation p could not have begun, or not have come so far, unless the broker
\* was done with o.
Ends(j, p, o) ==
    /\ p > o /\ Present(j, p)
    /\ j[o].kind = "close" \/ j[p].kind # "cancel" \/ j[p].os = "cancelled"

History(j, w) ==
    /\ j \in [Id -> Record] /\ w \in [Id -> Order]
    /\ \A o, p \in Id : p <= o /\ Present(j, o) => Present(j, p)
    /\ \A o \in Id : RecordFits(j[o]) /\ OrderFits(j[o], w[o])
    /\ \A o \in Id : j[o].kind \in Traded =>
          /\ j[o].os = "rejected" => Quiet(j[o], w[o])
          /\ \A p \in Id : Ends(j, p, o) => Quiet(j[o], w[o])

----------------------------------------------------------------------------
(* Sums over the operations of a kind.                                     *)

ByKind(j, v, kind) == [o \in Id |-> IF j[o].kind = kind THEN v[o] ELSE 0]

OfKind(j, v, kind) == SumOver(ByKind(j, v, kind), Id)

SettledIn(j) == [o \in Id |-> j[o].settled]

FilledIn(w) == [o \in Id |-> w[o].filled]

WorkingIn(j, w) ==
    [o \in Id |-> IF w[o].live THEN j[o].requested - w[o].filled ELSE 0]

\* What the journal says that is held, what is held, and what may become so.
BookedIn(j) == OfKind(j, SettledIn(j), "open") - OfKind(j, SettledIn(j), "close")

PositionIn(j, w) == OfKind(j, FilledIn(w), "open") - OfKind(j, FilledIn(w), "close")

BuyingIn(j, w) == OfKind(j, WorkingIn(j, w), "open")

SellingIn(j, w) == OfKind(j, WorkingIn(j, w), "close")

LEMMA IdsAreFinite == IsFiniteSet(Id) /\ Id \subseteq Nat \ {0}
<1>1. MaxOperations \in Nat
  BY PlanAssumption
<1>2. IsFiniteSet(1 .. MaxOperations)
  BY <1>1, FS_Interval
<1> QED
  BY <1>1, <1>2 DEF Id

\* A sum over the operations of a kind, in the form that the lemmas are about.
LEMMA SumIsOfKind ==
    ASSUME NEW j, NEW v \in [Id -> Nat], NEW kind
    PROVE  SumOver(v, {o \in Id : j[o].kind = kind}) = OfKind(j, v, kind)
<1> DEFINE f == ByKind(j, v, kind)
           S == {o \in Id : j[o].kind = kind}
<1>1. \A o \in Id : f[o] \in Nat
  BY DEF ByKind
<1>2. S \in SUBSET Id /\ \A o \in Id \ S : f[o] = 0
  BY DEF ByKind
<1>3. \A o \in S : v[o] \in Nat /\ v[o] = f[o]
  BY DEF ByKind
<1>4. IsFiniteSet(S)
  BY <1>2, IdsAreFinite, FS_Subset
<1> HIDE DEF f, S
<1>5. SumOver(f, Id) = SumOver(f, S)
  BY <1>1, <1>2, IdsAreFinite, SumOfZeros
<1>6. SumOver(v, S) = SumOver(f, S)
  BY <1>3, <1>4, SumOfEquals
<1>7. SumOver(v, S) = SumOver(f, Id)
  BY <1>5, <1>6
<1> QED
  BY <1>7 DEF f, S, OfKind

LEMMA OfKindType ==
    ASSUME NEW j, NEW v \in [Id -> Nat], NEW kind
    PROVE  OfKind(j, v, kind) \in Nat
<1>1. \A o \in Id : ByKind(j, v, kind)[o] \in Nat
  BY DEF ByKind
<1> QED
  BY <1>1, IdsAreFinite, SumType DEF OfKind

\* When a record and its value change.
LEMMA OfKindChanges ==
    ASSUME NEW j, NEW k, NEW v \in [Id -> Nat], NEW u \in [Id -> Nat], NEW kind,
           NEW c \in Id, \A o \in Id \ {c} : k[o].kind = j[o].kind /\ u[o] = v[o]
    PROVE  OfKind(k, u, kind) + (IF j[c].kind = kind THEN v[c] ELSE 0)
           = OfKind(j, v, kind) + (IF k[c].kind = kind THEN u[c] ELSE 0)
<1> DEFINE f == ByKind(j, v, kind)
           e == ByKind(k, u, kind)
<1>1. \A o \in Id : f[o] \in Nat /\ e[o] \in Nat
  BY DEF ByKind
<1>2. \A o \in Id \ {c} : e[o] = f[o]
  BY DEF ByKind
<1>3. f[c] = (IF j[c].kind = kind THEN v[c] ELSE 0)
      /\ e[c] = (IF k[c].kind = kind THEN u[c] ELSE 0)
  BY DEF ByKind
<1> HIDE DEF f, e
<1>4. SumOver(e, Id) + f[c] = SumOver(f, Id) + e[c]
  <2>1. IsFiniteSet(Id) /\ c \in Id
    BY IdsAreFinite
  <2> QED
    BY ONLY <1>1, <1>2, <2>1, SumChanges
<1> QED
  BY <1>3, <1>4 DEF f, e, OfKind

\* Values that are the same for a kind.
LEMMA OfKindEquals ==
    ASSUME NEW j, NEW k, NEW v \in [Id -> Nat], NEW u \in [Id -> Nat], NEW kind,
           \A o \in Id : /\ j[o].kind = kind <=> k[o].kind = kind
                         /\ k[o].kind = kind => u[o] = v[o]
    PROVE  OfKind(k, u, kind) = OfKind(j, v, kind)
<1> DEFINE f == ByKind(j, v, kind)
           e == ByKind(k, u, kind)
<1>1. \A o \in Id : f[o] \in Nat /\ f[o] = e[o]
  BY DEF ByKind
<1>2. IsFiniteSet(Id)
  BY IdsAreFinite
<1> HIDE DEF f, e
<1>3. SumOver(f, Id) = SumOver(e, Id)
  BY ONLY <1>1, <1>2, SumOfEquals
<1> QED
  BY <1>3 DEF f, e, OfKind

\* Values that are no larger for a kind.
LEMMA OfKindSmaller ==
    ASSUME NEW j, NEW v \in [Id -> Nat], NEW u \in [Id -> Nat], NEW kind,
           \A o \in Id : j[o].kind = kind => v[o] <= u[o]
    PROVE  OfKind(j, v, kind) <= OfKind(j, u, kind)
<1>1. \A o \in Id : /\ ByKind(j, v, kind)[o] \in Nat /\ ByKind(j, u, kind)[o] \in Nat
                    /\ ByKind(j, v, kind)[o] <= ByKind(j, u, kind)[o]
  BY DEF ByKind
<1> QED
  BY <1>1, IdsAreFinite, SumOfSmaller DEF OfKind

\* Values that are zero for a kind.
LEMMA OfKindZero ==
    ASSUME NEW j, NEW v \in [Id -> Nat], NEW kind,
           \A o \in Id : j[o].kind = kind => v[o] = 0
    PROVE  OfKind(j, v, kind) = 0
<1>1. \A o \in Id : ByKind(j, v, kind)[o] = 0
  BY DEF ByKind
<1>2. \A o \in Id : ByKind(j, v, kind)[o] \in Nat
  BY <1>1
<1>3. {} \in SUBSET Id /\ \A o \in Id \ {} : ByKind(j, v, kind)[o] = 0
  BY <1>1
<1>4. SumOver(ByKind(j, v, kind), Id) = SumOver(ByKind(j, v, kind), {})
  BY <1>2, <1>3, IdsAreFinite, SumOfZeros
<1>5. SumOver(ByKind(j, v, kind), {}) = 0
  BY <1>2, IdsAreFinite, SumType
<1> QED
  BY <1>4, <1>5 DEF OfKind

\* The functions that are summed.
LEMMA SummedTypes ==
    ASSUME NEW j, NEW w, History(j, w)
    PROVE  /\ SettledIn(j) \in [Id -> Nat] /\ FilledIn(w) \in [Id -> Nat]
           /\ \A o \in Id : /\ j[o].settled \in Nat /\ w[o].filled \in Nat
                            /\ j[o].requested \in Nat /\ w[o].live \in BOOLEAN
                            /\ j[o].rev \in Nat
<1>1. \A o \in Id : j[o] \in Record /\ w[o] \in Order
  BY DEF History
<1>2. \A o \in Id : /\ j[o].settled \in Nat /\ w[o].filled \in Nat
                    /\ j[o].requested \in Nat /\ w[o].live \in BOOLEAN
                    /\ j[o].rev \in Nat
  BY <1>1 DEF Record, Order
<1> QED
  BY <1>2 DEF SettledIn, FilledIn

\* A CANCEL has no fills, so that what works is a number.
LEMMA WorkingType ==
    ASSUME NEW j, NEW w, History(j, w)
    PROVE  WorkingIn(j, w) \in [Id -> Nat]
<1>1. ASSUME NEW o \in Id
      PROVE  w[o].live => j[o].requested - w[o].filled \in Nat
  <2>1. j[o].requested \in Nat /\ w[o].filled \in Nat
    BY SummedTypes
  <2>2. OrderFits(j[o], w[o])
    BY DEF History
  <2>3. w[o].filled <= j[o].requested
    BY <2>1, <2>2 DEF OrderFits
  <2> QED
    BY <2>1, <2>3
<1> QED
  BY <1>1 DEF WorkingIn

----------------------------------------------------------------------------
(* A trade, as what an operation made of the trade before it.              *)

Sliced(id, kind, state, requested, result, outcome, sent, attempt) ==
    [id |-> id, kind |-> kind, state |-> state, requested |-> requested,
     result |-> result, outcome |-> outcome, sent |-> sent, attempt |-> attempt]

Made(a, slices, open, pending, requested, satisfied, slice) ==
    [plan |-> a.plan, slices |-> slices, open |-> open, pending |-> pending,
     requested |-> requested, satisfied |-> satisfied, epoch |-> a.epoch,
     slice |-> slice]

\* States of a slice whose answer was not unfavourable.
Traceable == {"dispatching", "submitting", "partially_filled", "filled", "cancelled"}

OutcomeIn(state) ==
    IF state \in {"filled", "cancelled"} THEN "full"
    ELSE IF state = "partially_filled" THEN "partial" ELSE "none"

SentIn(state) == IF state \in {"dispatching", "submitting"} THEN 0 ELSE 1

SliceAfter(a, kind, state, volume, result) ==
    Sliced(a.slice.id + 1, kind, state, volume, result, OutcomeIn(state),
           SentIn(state), a.epoch)

OpenTrade(a, state, volume, result) ==
    Made(a, a.slices + 1, a.open + result,
         IF state = "partially_filled" THEN volume - result ELSE 0,
         a.requested, a.satisfied, SliceAfter(a, "open", state, volume, result))

CloseTrade(a, state, volume, result) ==
    Made(a, a.slices, a.open - result, a.pending, TRUE,
         a.satisfied \/ (state = "filled" /\ a.open = result /\ a.pending = 0),
         SliceAfter(a, "close", state, volume, result))

CancelTrade(a, state, volume) ==
    Made(a, a.slices, a.open, IF state = "cancelled" THEN 0 ELSE a.pending,
         a.requested,
         a.satisfied \/ (state = "cancelled" /\ a.requested /\ a.open = 0),
         SliceAfter(a, "cancel", state, volume, 0))

\* The fields of a trade.
LEMMA FieldTypes ==
    ASSUME NEW t \in Trade
    PROVE  /\ t.slices \in Nat /\ t.open \in Nat /\ t.pending \in Nat /\ t.epoch \in Nat
           /\ t.requested \in BOOLEAN /\ t.satisfied \in BOOLEAN
           /\ t.plan \in {"running", "stopped"} /\ t.slice \in Slice
           /\ t.slice.id \in Nat /\ t.slice.requested \in Nat /\ t.slice.result \in Nat
           /\ t.slice.sent \in Nat /\ t.slice.attempt \in Nat
           /\ t.slice.kind \in SliceKind /\ t.slice.state \in SliceState
           /\ t.slice.outcome \in BrokerOutcome
BY DEF Trade, Slice

LEMMA SliceAfterIs ==
    ASSUME NEW a \in Trade, NEW kind \in SliceKind, NEW state \in Traceable,
           NEW volume \in Nat, NEW result \in Nat
    PROVE  LET s == SliceAfter(a, kind, state, volume, result)
           IN  /\ s \in Slice
               /\ s.id = a.slice.id + 1 /\ s.kind = kind /\ s.state = state
               /\ s.requested = volume /\ s.result = result
               /\ s.outcome = OutcomeIn(state) /\ s.sent = SentIn(state)
               /\ s.attempt = a.epoch
<1>1. a.slice.id + 1 \in Nat /\ a.epoch \in Nat
  BY FieldTypes
<1>2. state \in SliceState /\ OutcomeIn(state) \in BrokerOutcome /\ SentIn(state) \in Nat
  BY DEF Traceable, SliceState, OutcomeIn, SentIn, BrokerOutcome
<1> QED
  BY <1>1, <1>2 DEF SliceAfter, Sliced, Slice

LEMMA OpenTradeIs ==
    ASSUME NEW a \in Trade, NEW state \in Traceable, NEW volume \in Nat,
           NEW result \in 0 .. volume
    PROVE  LET t == OpenTrade(a, state, volume, result)
           IN  /\ t \in Trade
               /\ t.plan = a.plan /\ t.slices = a.slices + 1
               /\ t.open = a.open + result
               /\ t.pending = IF state = "partially_filled" THEN volume - result ELSE 0
               /\ t.requested = a.requested /\ t.satisfied = a.satisfied
               /\ t.epoch = a.epoch
               /\ t.slice = SliceAfter(a, "open", state, volume, result)
<1>1. /\ a.slices + 1 \in Nat /\ a.open + result \in Nat /\ volume - result \in Nat
      /\ a.requested \in BOOLEAN /\ a.satisfied \in BOOLEAN
  BY FieldTypes
<1>2. SliceAfter(a, "open", state, volume, result) \in Slice
  BY SliceAfterIs DEF SliceKind
<1>3. (IF state = "partially_filled" THEN volume - result ELSE 0) \in Nat
  BY <1>1
<1> QED
  BY <1>1, <1>2, <1>3, FieldTypes DEF OpenTrade, Made, Trade

LEMMA CloseTradeIs ==
    ASSUME NEW a \in Trade, NEW state \in Traceable, NEW volume \in Nat,
           NEW result \in 0 .. a.open
    PROVE  LET t == CloseTrade(a, state, volume, result)
           IN  /\ t \in Trade
               /\ t.plan = a.plan /\ t.slices = a.slices
               /\ t.open = a.open - result /\ t.pending = a.pending
               /\ t.requested
               /\ t.satisfied <=> a.satisfied \/ (state = "filled" /\ a.open = result
                                                  /\ a.pending = 0)
               /\ t.epoch = a.epoch
               /\ t.slice = SliceAfter(a, "close", state, volume, result)
<1>1. /\ a.slices \in Nat /\ a.open - result \in Nat /\ a.pending \in Nat
      /\ result \in Nat /\ a.satisfied \in BOOLEAN
  BY FieldTypes
<1>2. SliceAfter(a, "close", state, volume, result) \in Slice
  BY <1>1, SliceAfterIs DEF SliceKind
<1>3. (a.satisfied \/ (state = "filled" /\ a.open = result /\ a.pending = 0)) \in BOOLEAN
  OBVIOUS
<1> QED
  BY <1>1, <1>2, <1>3, FieldTypes DEF CloseTrade, Made, Trade

LEMMA CancelTradeIs ==
    ASSUME NEW a \in Trade, NEW state \in Traceable, NEW volume \in Nat
    PROVE  LET t == CancelTrade(a, state, volume)
           IN  /\ t \in Trade
               /\ t.plan = a.plan /\ t.slices = a.slices /\ t.open = a.open
               /\ t.pending = IF state = "cancelled" THEN 0 ELSE a.pending
               /\ t.requested = a.requested
               /\ t.satisfied <=> a.satisfied \/ (state = "cancelled" /\ a.requested
                                                  /\ a.open = 0)
               /\ t.epoch = a.epoch
               /\ t.slice = SliceAfter(a, "cancel", state, volume, 0)
<1>1. /\ a.slices \in Nat /\ a.open \in Nat /\ a.pending \in Nat
      /\ a.requested \in BOOLEAN /\ a.satisfied \in BOOLEAN
  BY FieldTypes
<1>2. SliceAfter(a, "cancel", state, volume, 0) \in Slice
  BY SliceAfterIs DEF SliceKind
<1>3. (a.satisfied \/ (state = "cancelled" /\ a.requested /\ a.open = 0)) \in BOOLEAN
  OBVIOUS
<1>4. (IF state = "cancelled" THEN 0 ELSE a.pending) \in Nat
  BY <1>1
<1> QED
  BY <1>1, <1>2, <1>3, <1>4, FieldTypes DEF CancelTrade, Made, Trade

----------------------------------------------------------------------------
(* What the mutators do to it.                                             *)

\* What a mutation leaves behind, and that it was allowed.
LEMMA MutationIs ==
    ASSUME NEW allowed, NEW candidate, NEW u \in Mutation(allowed, candidate)
    PROVE  allowed /\ u = candidate /\ ValidTrade(candidate)
BY Zenon DEF Mutation

\* A trade is its fields.
LEMMA TradesEqual ==
    ASSUME NEW t \in Trade, NEW u \in Trade,
           t.plan = u.plan, t.slices = u.slices, t.open = u.open,
           t.pending = u.pending, t.requested <=> u.requested,
           t.satisfied <=> u.satisfied, t.epoch = u.epoch, t.slice = u.slice
    PROVE  t = u
BY DEF Trade

\* Another field in a trade.
LEMMA SliceSet ==
    ASSUME NEW t \in Trade, NEW s \in Slice
    PROVE  LET u == [t EXCEPT !.slice = s]
           IN  /\ u \in Trade /\ u.slice = s
               /\ u.plan = t.plan /\ u.slices = t.slices /\ u.open = t.open
               /\ u.pending = t.pending /\ u.requested = t.requested
               /\ u.satisfied = t.satisfied /\ u.epoch = t.epoch
BY DEF Trade

LEMMA SlicesSet ==
    ASSUME NEW t \in Trade, NEW n \in Nat
    PROVE  LET u == [t EXCEPT !.slices = n]
           IN  /\ u \in Trade /\ u.slices = n
               /\ u.plan = t.plan /\ u.slice = t.slice /\ u.open = t.open
               /\ u.pending = t.pending /\ u.requested = t.requested
               /\ u.satisfied = t.satisfied /\ u.epoch = t.epoch
BY DEF Trade

LEMMA VolumesSet ==
    ASSUME NEW t \in Trade, NEW m \in Nat, NEW n \in Nat
    PROVE  LET u == [t EXCEPT !.open = m, !.pending = n]
           IN  /\ u \in Trade /\ u.open = m /\ u.pending = n
               /\ u.plan = t.plan /\ u.slice = t.slice /\ u.slices = t.slices
               /\ u.requested = t.requested
               /\ u.satisfied = t.satisfied /\ u.epoch = t.epoch
BY DEF Trade

LEMMA OpenSet ==
    ASSUME NEW t \in Trade, NEW m \in Nat
    PROVE  LET u == [t EXCEPT !.open = m]
           IN  /\ u \in Trade /\ u.open = m /\ u.pending = t.pending
               /\ u.plan = t.plan /\ u.slice = t.slice /\ u.slices = t.slices
               /\ u.requested = t.requested
               /\ u.satisfied = t.satisfied /\ u.epoch = t.epoch
BY DEF Trade

LEMMA PendingSet ==
    ASSUME NEW t \in Trade, NEW n \in Nat
    PROVE  LET u == [t EXCEPT !.pending = n]
           IN  /\ u \in Trade /\ u.open = t.open /\ u.pending = n
               /\ u.plan = t.plan /\ u.slice = t.slice /\ u.slices = t.slices
               /\ u.requested = t.requested
               /\ u.satisfied = t.satisfied /\ u.epoch = t.epoch
BY DEF Trade

LEMMA RequestedSet ==
    ASSUME NEW t \in Trade
    PROVE  LET u == [t EXCEPT !.requested = TRUE]
           IN  /\ u \in Trade /\ u.requested
               /\ u.plan = t.plan /\ u.slice = t.slice /\ u.slices = t.slices
               /\ u.open = t.open /\ u.pending = t.pending
               /\ u.satisfied = t.satisfied /\ u.epoch = t.epoch
BY DEF Trade

LEMMA SatisfiedSet ==
    ASSUME NEW t \in Trade, NEW b \in BOOLEAN
    PROVE  LET u == [t EXCEPT !.satisfied = b]
           IN  /\ u \in Trade /\ u.satisfied = b
               /\ u.plan = t.plan /\ u.slice = t.slice /\ u.slices = t.slices
               /\ u.open = t.open /\ u.pending = t.pending
               /\ u.requested = t.requested /\ u.epoch = t.epoch
BY DEF Trade

LEMMA StartedIs ==
    ASSUME NEW t \in Trade, NEW kind \in SliceKind, NEW volume \in Nat
    PROVE  LET u == Started(t, kind, "dispatching", volume)
           IN  /\ u \in Trade /\ u.slice = SliceAfter(t, kind, "dispatching", volume, 0)
               /\ u.plan = t.plan /\ u.slices = t.slices /\ u.open = t.open
               /\ u.pending = t.pending /\ u.requested = t.requested
               /\ u.satisfied = t.satisfied /\ u.epoch = t.epoch
<1> DEFINE s == SliceAfter(t, kind, "dispatching", volume, 0)
<1>1. s \in Slice
  BY SliceAfterIs DEF Traceable
<1>2. FreshSlice(t.slice.id + 1, kind, "dispatching", volume, t.epoch) = s
  BY DEF FreshSlice, SliceAfter, Sliced, OutcomeIn, SentIn
<1>3. Started(t, kind, "dispatching", volume) = [t EXCEPT !.slice = s]
  BY <1>2 DEF Started
<1> HIDE DEF s
<1> DEFINE u == Started(t, kind, "dispatching", volume)
<1> HIDE DEF u
<1>4. u = [t EXCEPT !.slice = s]
  BY <1>3 DEF u
<1>5. /\ u \in Trade /\ u.slice = s
      /\ u.plan = t.plan /\ u.slices = t.slices /\ u.open = t.open
      /\ u.pending = t.pending /\ u.requested = t.requested
      /\ u.satisfied = t.satisfied /\ u.epoch = t.epoch
  BY <1>1, <1>4, SliceSet
<1> QED
  BY <1>5 DEF s, u

LEMMA OpenStarts ==
    ASSUME NEW t \in Trade, NEW volume, NEW u \in StartOpenSlice(t, volume)
    PROVE  /\ u = OpenTrade(t, "dispatching", volume, 0)
           /\ t.slice.state \in Replaceable /\ ~ t.requested /\ t.pending = 0
           /\ volume \in 1 .. MaxSliceVolume /\ t.open + volume <= TargetVolume
           /\ t.slice.id < MaxOperations
<1> DEFINE d == Started(t, "open", "dispatching", volume)
           c == [d EXCEPT !.slices = d.slices + 1]
           o == OpenTrade(t, "dispatching", volume, 0)
<1>1. /\ u = c
      /\ t.slice.state \in Replaceable /\ ~ t.requested /\ t.pending = 0
      /\ volume \in 1 .. MaxSliceVolume /\ t.open + volume <= TargetVolume
      /\ t.slice.id < MaxOperations
  BY MutationIs DEF StartOpenSlice
<1>2. volume \in Nat /\ 0 \in 0 .. volume /\ t.open + 0 = t.open /\ t.slices + 1 \in Nat
  BY <1>1, FieldTypes, PlanAssumption
<1>3. /\ d \in Trade /\ d.slice = SliceAfter(t, "open", "dispatching", volume, 0)
      /\ d.plan = t.plan /\ d.slices = t.slices /\ d.open = t.open
      /\ d.pending = t.pending /\ d.requested = t.requested
      /\ d.satisfied = t.satisfied /\ d.epoch = t.epoch
  BY <1>2, StartedIs DEF SliceKind
<1>4. /\ o \in Trade /\ o.plan = t.plan /\ o.slices = t.slices + 1
      /\ o.open = t.open /\ o.pending = 0
      /\ o.requested = t.requested /\ o.satisfied = t.satisfied /\ o.epoch = t.epoch
      /\ o.slice = SliceAfter(t, "open", "dispatching", volume, 0)
  BY <1>2, OpenTradeIs DEF Traceable
<1> HIDE DEF d, o
<1>5. /\ c \in Trade /\ c.slice = d.slice
      /\ c.plan = d.plan /\ c.slices = t.slices + 1 /\ c.open = d.open
      /\ c.pending = d.pending /\ c.requested = d.requested
      /\ c.satisfied = d.satisfied /\ c.epoch = d.epoch
  BY <1>2, <1>3, SlicesSet
<1> HIDE DEF c
<1>6. c = o
  BY <1>1, <1>3, <1>4, <1>5, TradesEqual
<1> QED
  BY <1>1, <1>6 DEF o

LEMMA CloseStarts ==
    ASSUME NEW t \in Trade, NEW volume,
           NEW b \in IF t.requested THEN {t} ELSE RequestClose(t),
           NEW u \in StartClose(b, volume)
    PROVE  /\ u = CloseTrade(t, "dispatching", volume, 0)
           /\ t.slice.state \in Replaceable /\ t.pending = 0
           /\ volume \in 1 .. t.open /\ t.slice.id < MaxOperations
           /\ ~ (t.slice.kind = "close" /\ t.slice.state = "partially_filled")
           /\ ~ t.satisfied
<1> DEFINE d == [t EXCEPT !.requested = TRUE]
           c == Started(b, "close", "dispatching", volume)
           o == CloseTrade(t, "dispatching", volume, 0)
<1>1. /\ d \in Trade /\ d.requested
      /\ d.plan = t.plan /\ d.slice = t.slice /\ d.slices = t.slices
      /\ d.open = t.open /\ d.pending = t.pending
      /\ d.satisfied = t.satisfied /\ d.epoch = t.epoch
  BY RequestedSet
<1>2. b = d
  <2>1. CASE t.requested
    <3> HIDE DEF d
    <3> QED
      BY <2>1, <1>1, TradesEqual
  <2>2. CASE ~ t.requested
    BY <2>2, MutationIs DEF RequestClose
  <2> QED
    BY <2>1, <2>2
<1> HIDE DEF d
<1>3. /\ u = c
      /\ b.slice.state \in Replaceable /\ b.pending = 0
      /\ volume \in 1 .. b.open /\ b.slice.id < MaxOperations
      /\ ~ (b.slice.kind = "close" /\ b.slice.state = "partially_filled")
      /\ ~ b.satisfied
  BY MutationIs DEF StartClose
<1>4. /\ t.slice.state \in Replaceable /\ t.pending = 0
      /\ volume \in 1 .. t.open /\ t.slice.id < MaxOperations
      /\ ~ (t.slice.kind = "close" /\ t.slice.state = "partially_filled")
      /\ ~ t.satisfied
  BY <1>1, <1>2, <1>3
<1>5. volume \in Nat /\ 0 \in 0 .. t.open /\ t.open - 0 = t.open
  BY <1>4, FieldTypes
<1>6. /\ c \in Trade /\ c.slice = SliceAfter(b, "close", "dispatching", volume, 0)
      /\ c.plan = b.plan /\ c.slices = b.slices /\ c.open = b.open
      /\ c.pending = b.pending /\ c.requested = b.requested
      /\ c.satisfied = b.satisfied /\ c.epoch = b.epoch
  BY <1>1, <1>2, <1>5, StartedIs DEF SliceKind
<1>7. SliceAfter(b, "close", "dispatching", volume, 0)
      = SliceAfter(t, "close", "dispatching", volume, 0)
  BY <1>1, <1>2 DEF SliceAfter
<1>8. /\ o \in Trade /\ o.plan = t.plan /\ o.slices = t.slices
      /\ o.open = t.open /\ o.pending = t.pending
      /\ o.requested /\ (o.satisfied <=> t.satisfied) /\ o.epoch = t.epoch
      /\ o.slice = SliceAfter(t, "close", "dispatching", volume, 0)
  BY <1>5, CloseTradeIs DEF Traceable
<1> HIDE DEF c, o
<1>9. c = o
  BY <1>1, <1>2, <1>6, <1>7, <1>8, TradesEqual
<1> QED
  BY <1>3, <1>4, <1>9 DEF o

LEMMA CancelStarts ==
    ASSUME NEW t \in Trade, NEW u \in StartCancel(t)
    PROVE  /\ u = CancelTrade(t, "dispatching", t.pending)
           /\ t.slice.state \in Replaceable /\ t.pending # 0
           /\ t.slice.id < MaxOperations
<1> DEFINE c == Started(t, "cancel", "dispatching", t.pending)
           o == CancelTrade(t, "dispatching", t.pending)
<1>1. /\ u = c
      /\ t.slice.state \in Replaceable /\ t.pending # 0
      /\ t.slice.id < MaxOperations
  BY MutationIs DEF StartCancel
<1>2. t.pending \in Nat
  BY FieldTypes
<1>3. /\ c \in Trade /\ c.slice = SliceAfter(t, "cancel", "dispatching", t.pending, 0)
      /\ c.plan = t.plan /\ c.slices = t.slices /\ c.open = t.open
      /\ c.pending = t.pending /\ c.requested = t.requested
      /\ c.satisfied = t.satisfied /\ c.epoch = t.epoch
  BY <1>2, StartedIs DEF SliceKind
<1>4. /\ o \in Trade /\ o.plan = t.plan /\ o.slices = t.slices
      /\ o.open = t.open /\ o.pending = t.pending
      /\ o.requested = t.requested /\ (o.satisfied <=> t.satisfied)
      /\ o.epoch = t.epoch
      /\ o.slice = SliceAfter(t, "cancel", "dispatching", t.pending, 0)
  BY <1>2, CancelTradeIs DEF Traceable
<1> HIDE DEF c, o
<1>5. c = o
  BY <1>3, <1>4, TradesEqual
<1> QED
  BY <1>1, <1>5 DEF o

\* A slice that is submitted.
LEMMA SubmitIs ==
    ASSUME NEW a \in Trade, NEW kind \in SliceKind, NEW volume \in Nat,
           NEW t \in Trade, t.slice = SliceAfter(a, kind, "dispatching", volume, 0),
           NEW u \in EnterSubmitting(t)
    PROVE  /\ u \in Trade /\ u.slice = SliceAfter(a, kind, "submitting", volume, 0)
           /\ u.plan = t.plan /\ u.slices = t.slices /\ u.open = t.open
           /\ u.pending = t.pending /\ u.requested = t.requested
           /\ u.satisfied = t.satisfied /\ u.epoch = t.epoch
<1> DEFINE s == SliceAfter(a, kind, "submitting", volume, 0)
<1>1. s \in Slice
  BY SliceAfterIs DEF Traceable
<1>2. [t.slice EXCEPT !.state = "submitting"] = s
  BY DEF SliceAfter, Sliced, OutcomeIn, SentIn
<1>3. u = [t EXCEPT !.slice = [t.slice EXCEPT !.state = "submitting"]]
  BY MutationIs DEF EnterSubmitting, Trade
<1> HIDE DEF s
<1>4. u = [t EXCEPT !.slice = s]
  BY <1>2, <1>3
<1>5. /\ u \in Trade /\ u.slice = s
      /\ u.plan = t.plan /\ u.slices = t.slices /\ u.open = t.open
      /\ u.pending = t.pending /\ u.requested = t.requested
      /\ u.satisfied = t.satisfied /\ u.epoch = t.epoch
  BY <1>1, <1>4, SliceSet
<1> QED
  BY <1>5 DEF s

LEMMA OpenSubmits ==
    ASSUME NEW a \in Trade, NEW volume \in Nat,
           NEW u \in EnterSubmitting(OpenTrade(a, "dispatching", volume, 0))
    PROVE  u = OpenTrade(a, "submitting", volume, 0)
<1> DEFINE t == OpenTrade(a, "dispatching", volume, 0)
           o == OpenTrade(a, "submitting", volume, 0)
<1>1. 0 \in 0 .. volume
  OBVIOUS
<1>2. /\ t \in Trade /\ t.plan = a.plan /\ t.slices = a.slices + 1
      /\ t.open = a.open + 0 /\ t.pending = 0 /\ t.requested = a.requested
      /\ t.satisfied = a.satisfied /\ t.epoch = a.epoch
      /\ t.slice = SliceAfter(a, "open", "dispatching", volume, 0)
  BY <1>1, OpenTradeIs DEF Traceable
<1>3. /\ o \in Trade /\ o.plan = a.plan /\ o.slices = a.slices + 1
      /\ o.open = a.open + 0 /\ o.pending = 0 /\ o.requested = a.requested
      /\ o.satisfied = a.satisfied /\ o.epoch = a.epoch
      /\ o.slice = SliceAfter(a, "open", "submitting", volume, 0)
  BY <1>1, OpenTradeIs DEF Traceable
<1> HIDE DEF t, o
<1>4. u \in EnterSubmitting(t)
  BY DEF t
<1>5. /\ u \in Trade /\ u.slice = SliceAfter(a, "open", "submitting", volume, 0)
      /\ u.plan = t.plan /\ u.slices = t.slices /\ u.open = t.open
      /\ u.pending = t.pending /\ u.requested = t.requested
      /\ u.satisfied = t.satisfied /\ u.epoch = t.epoch
  <2>1. /\ a \in Trade /\ "open" \in SliceKind /\ volume \in Nat /\ t \in Trade
        /\ t.slice = SliceAfter(a, "open", "dispatching", volume, 0)
        /\ u \in EnterSubmitting(t)
    BY <1>2, <1>4 DEF SliceKind
  <2> QED
    BY ONLY <2>1, SubmitIs
<1>6. /\ u \in Trade /\ o \in Trade /\ u.plan = o.plan /\ u.slices = o.slices
      /\ u.open = o.open /\ u.pending = o.pending /\ (u.requested <=> o.requested)
      /\ (u.satisfied <=> o.satisfied) /\ u.epoch = o.epoch /\ u.slice = o.slice
  BY <1>2, <1>3, <1>5
<1>7. u = o
  BY ONLY <1>6, TradesEqual
<1> QED
  BY <1>7 DEF o

LEMMA CloseSubmits ==
    ASSUME NEW a \in Trade, NEW volume \in Nat,
           NEW u \in EnterSubmitting(CloseTrade(a, "dispatching", volume, 0))
    PROVE  u = CloseTrade(a, "submitting", volume, 0)
<1> DEFINE t == CloseTrade(a, "dispatching", volume, 0)
           o == CloseTrade(a, "submitting", volume, 0)
<1>1. 0 \in 0 .. a.open
  BY FieldTypes
<1>2. /\ t \in Trade /\ t.plan = a.plan /\ t.slices = a.slices
      /\ t.open = a.open - 0 /\ t.pending = a.pending /\ t.requested
      /\ (t.satisfied <=> a.satisfied) /\ t.epoch = a.epoch
      /\ t.slice = SliceAfter(a, "close", "dispatching", volume, 0)
  BY <1>1, CloseTradeIs DEF Traceable
<1>3. /\ o \in Trade /\ o.plan = a.plan /\ o.slices = a.slices
      /\ o.open = a.open - 0 /\ o.pending = a.pending /\ o.requested
      /\ (o.satisfied <=> a.satisfied) /\ o.epoch = a.epoch
      /\ o.slice = SliceAfter(a, "close", "submitting", volume, 0)
  BY <1>1, CloseTradeIs DEF Traceable
<1> HIDE DEF t, o
<1>4. u \in EnterSubmitting(t)
  BY DEF t
<1>5. /\ u \in Trade /\ u.slice = SliceAfter(a, "close", "submitting", volume, 0)
      /\ u.plan = t.plan /\ u.slices = t.slices /\ u.open = t.open
      /\ u.pending = t.pending /\ u.requested = t.requested
      /\ u.satisfied = t.satisfied /\ u.epoch = t.epoch
  <2>1. /\ a \in Trade /\ "close" \in SliceKind /\ volume \in Nat /\ t \in Trade
        /\ t.slice = SliceAfter(a, "close", "dispatching", volume, 0)
        /\ u \in EnterSubmitting(t)
    BY <1>2, <1>4 DEF SliceKind
  <2> QED
    BY ONLY <2>1, SubmitIs
<1>6. /\ u \in Trade /\ o \in Trade /\ u.plan = o.plan /\ u.slices = o.slices
      /\ u.open = o.open /\ u.pending = o.pending /\ (u.requested <=> o.requested)
      /\ (u.satisfied <=> o.satisfied) /\ u.epoch = o.epoch /\ u.slice = o.slice
  BY <1>2, <1>3, <1>5
<1>7. u = o
  BY ONLY <1>6, TradesEqual
<1> QED
  BY <1>7 DEF o

LEMMA CancelSubmits ==
    ASSUME NEW a \in Trade, NEW volume \in Nat,
           NEW u \in EnterSubmitting(CancelTrade(a, "dispatching", volume))
    PROVE  u = CancelTrade(a, "submitting", volume)
<1> DEFINE t == CancelTrade(a, "dispatching", volume)
           o == CancelTrade(a, "submitting", volume)
<1>1. /\ t \in Trade /\ t.plan = a.plan /\ t.slices = a.slices
      /\ t.open = a.open /\ t.pending = a.pending /\ t.requested = a.requested
      /\ (t.satisfied <=> a.satisfied) /\ t.epoch = a.epoch
      /\ t.slice = SliceAfter(a, "cancel", "dispatching", volume, 0)
  BY CancelTradeIs DEF Traceable
<1>2. /\ o \in Trade /\ o.plan = a.plan /\ o.slices = a.slices
      /\ o.open = a.open /\ o.pending = a.pending /\ o.requested = a.requested
      /\ (o.satisfied <=> a.satisfied) /\ o.epoch = a.epoch
      /\ o.slice = SliceAfter(a, "cancel", "submitting", volume, 0)
  BY CancelTradeIs DEF Traceable
<1> HIDE DEF t, o
<1>3. u \in EnterSubmitting(t)
  BY DEF t
<1>4. /\ u \in Trade /\ u.slice = SliceAfter(a, "cancel", "submitting", volume, 0)
      /\ u.plan = t.plan /\ u.slices = t.slices /\ u.open = t.open
      /\ u.pending = t.pending /\ u.requested = t.requested
      /\ u.satisfied = t.satisfied /\ u.epoch = t.epoch
  BY <1>1, <1>3, SubmitIs DEF SliceKind
<1>5. u = o
  BY <1>1, <1>2, <1>4, TradesEqual
<1> QED
  BY <1>5 DEF o

----------------------------------------------------------------------------
(* An answer, and what is made of it.                                      *)

AnsweredSlice(a, kind, volume, outcome, result) ==
    Sliced(a.slice.id + 1, kind, "reconciling", volume, result, outcome, 1, a.epoch)

LEMMA AnsweredSliceIs ==
    ASSUME NEW a \in Trade, NEW kind \in SliceKind, NEW volume \in Nat,
           NEW outcome \in BrokerOutcome, NEW result \in Nat
    PROVE  LET s == AnsweredSlice(a, kind, volume, outcome, result)
           IN  /\ s \in Slice
               /\ s.id = a.slice.id + 1 /\ s.kind = kind /\ s.state = "reconciling"
               /\ s.requested = volume /\ s.result = result /\ s.outcome = outcome
               /\ s.sent = 1 /\ s.attempt = a.epoch
<1>1. a.slice.id + 1 \in Nat /\ a.epoch \in Nat /\ "reconciling" \in SliceState /\ 1 \in Nat
  BY FieldTypes DEF SliceState
<1> QED
  BY <1>1 DEF AnsweredSlice, Sliced, Slice

LEMMA AnsweredIs ==
    ASSUME NEW a \in Trade, NEW kind \in SliceKind, NEW volume \in Nat,
           NEW outcome \in BrokerOutcome, NEW result \in Nat,
           NEW t \in Trade, t.slice = SliceAfter(a, kind, "submitting", volume, 0)
    PROVE  LET u == Answered(t, outcome, result)
           IN  /\ u \in Trade
               /\ u.slice = AnsweredSlice(a, kind, volume, outcome, result)
               /\ u.plan = t.plan /\ u.slices = t.slices /\ u.open = t.open
               /\ u.pending = t.pending /\ u.requested = t.requested
               /\ u.satisfied = t.satisfied /\ u.epoch = t.epoch
<1> DEFINE s == AnsweredSlice(a, kind, volume, outcome, result)
           u == Answered(t, outcome, result)
<1>1. s \in Slice
  BY AnsweredSliceIs
<1>2. [t.slice EXCEPT !.state = "reconciling", !.outcome = outcome,
                      !.result = result, !.sent = 1] = s
  <2> DEFINE q == t.slice
             e == [q EXCEPT !.state = "reconciling", !.outcome = outcome,
                            !.result = result, !.sent = 1]
  <2>1. /\ q \in Slice /\ q.id = a.slice.id + 1 /\ q.kind = kind
        /\ q.requested = volume /\ q.attempt = a.epoch
    BY SliceAfterIs DEF Traceable
  <2>2. /\ s.id = a.slice.id + 1 /\ s.kind = kind /\ s.state = "reconciling"
        /\ s.requested = volume /\ s.result = result /\ s.outcome = outcome
        /\ s.sent = 1 /\ s.attempt = a.epoch
    BY AnsweredSliceIs
  <2> HIDE DEF s, q
  <2>3. "reconciling" \in SliceState /\ 1 \in Nat
    BY DEF SliceState
  <2>4. /\ e \in Slice /\ e.id = q.id /\ e.kind = q.kind
        /\ e.state = "reconciling" /\ e.requested = q.requested
        /\ e.result = result /\ e.outcome = outcome /\ e.sent = 1
        /\ e.attempt = q.attempt
    BY <2>1, <2>3 DEF Slice
  <2> HIDE DEF e
  <2>5. e = s
    BY <1>1, <2>1, <2>2, <2>4 DEF Slice
  <2> QED
    BY <2>5 DEF e, q
<1>3. u = [t EXCEPT !.slice = [t.slice EXCEPT !.state = "reconciling", !.outcome = outcome,
                                              !.result = result, !.sent = 1]]
  BY DEF Answered, Trade
<1> HIDE DEF s, u
<1>4. u = [t EXCEPT !.slice = s]
  BY <1>2, <1>3
<1>5. /\ u \in Trade /\ u.slice = s
      /\ u.plan = t.plan /\ u.slices = t.slices /\ u.open = t.open
      /\ u.pending = t.pending /\ u.requested = t.requested
      /\ u.satisfied = t.satisfied /\ u.epoch = t.epoch
  BY <1>1, <1>4, SliceSet
<1> QED
  BY <1>5 DEF s, u

\* A slice that leaves reconciling for another state.
LEMMA SettledIs ==
    ASSUME NEW a \in Trade, NEW kind \in SliceKind, NEW volume \in Nat,
           NEW result \in Nat, NEW state \in Traceable \ {"dispatching", "submitting"},
           NEW t \in Trade,
           t.slice = AnsweredSlice(a, kind, volume, OutcomeIn(state), result)
    PROVE  LET u == Settled(t, state)
           IN  /\ u \in Trade
               /\ u.slice = SliceAfter(a, kind, state, volume, result)
               /\ u.plan = t.plan /\ u.slices = t.slices /\ u.open = t.open
               /\ u.pending = t.pending /\ u.requested = t.requested
               /\ u.satisfied = t.satisfied /\ u.epoch = t.epoch
<1> DEFINE s == SliceAfter(a, kind, state, volume, result)
           u == Settled(t, state)
<1>1. s \in Slice
  BY SliceAfterIs
<1>2. SentIn(state) = 1
  BY DEF SentIn, Traceable
<1>3. [t.slice EXCEPT !.state = state] = s
  BY <1>2 DEF SliceAfter, AnsweredSlice, Sliced
<1>4. u = [t EXCEPT !.slice = [t.slice EXCEPT !.state = state]]
  BY DEF Settled, Trade
<1> HIDE DEF s, u
<1>5. u = [t EXCEPT !.slice = s]
  BY <1>3, <1>4
<1>6. /\ u \in Trade /\ u.slice = s
      /\ u.plan = t.plan /\ u.slices = t.slices /\ u.open = t.open
      /\ u.pending = t.pending /\ u.requested = t.requested
      /\ u.satisfied = t.satisfied /\ u.epoch = t.epoch
  BY <1>1, <1>5, SliceSet
<1> QED
  BY <1>6 DEF s, u

\* A fill is recorded when its slice awaits an answer.
LEMMA FillIsRecorded ==
    ASSUME NEW a \in Trade, NEW kind \in Traded, NEW volume \in Nat, NEW fill,
           NEW t \in Trade, t.slice = SliceAfter(a, kind, "submitting", volume, 0),
           NEW x \in RecordFill(t, fill)
    PROVE  /\ fill \in 1 .. volume /\ x \in Trade
           /\ x.slice = AnsweredSlice(a, kind, volume,
                                      OutcomeIn(FillStateOf(fill, volume)), fill)
           /\ x.plan = t.plan /\ x.slices = t.slices /\ x.open = t.open
           /\ x.pending = t.pending /\ x.requested = t.requested
           /\ x.satisfied = t.satisfied /\ x.epoch = t.epoch
<1> DEFINE outcome == IF fill = t.slice.requested THEN "full" ELSE "partial"
<1>1. fill \in 1 .. t.slice.requested /\ x = Answered(t, outcome, fill)
  BY MutationIs DEF RecordFill
<1>2. t.slice.requested = volume
  BY DEF SliceAfter, Sliced
<1>3. outcome = OutcomeIn(FillStateOf(fill, volume)) /\ outcome \in BrokerOutcome
  BY <1>2 DEF OutcomeIn, FillStateOf, BrokerOutcome
<1>4. fill \in Nat /\ kind \in SliceKind
  BY <1>1, <1>2 DEF Traded, SliceKind
<1> HIDE DEF outcome
<1> QED
  BY <1>1, <1>2, <1>3, <1>4, AnsweredIs

LEMMA OpenReconciles ==
    ASSUME NEW a \in Trade, NEW volume \in Nat, NEW result \in 1 .. volume,
           NEW x \in Trade,
           x.slice = AnsweredSlice(a, "open", volume,
                                   OutcomeIn(FillStateOf(result, volume)), result),
           NEW u \in Reconcile(x)
    PROVE  LET state == FillStateOf(result, volume)
           IN  /\ u \in Trade /\ u.slice = SliceAfter(a, "open", state, volume, result)
               /\ u.open = x.open + result
               /\ u.pending = IF state = "partially_filled" THEN volume - result ELSE 0
               /\ u.plan = x.plan /\ u.slices = x.slices
               /\ u.requested = x.requested /\ u.satisfied = x.satisfied
               /\ u.epoch = x.epoch
<1> DEFINE state == FillStateOf(result, volume)
           rest == IF state = "partially_filled" THEN volume - result ELSE 0
           y == [x EXCEPT !.open = x.open + result]
           z == [y EXCEPT !.pending = rest]
           c == Settled(z, state)
<1>1. /\ x.slice.state = "reconciling" /\ x.slice.sent = 1 /\ x.slice.kind = "open"
      /\ x.slice.outcome = OutcomeIn(state) /\ x.slice.result = result
      /\ x.slice.requested = volume
  BY DEF AnsweredSlice, Sliced
<1>2. x.open + result \in Nat /\ rest \in Nat /\ result \in Nat
  BY FieldTypes
<1>3. state \in FillState /\ state \in Traceable \ {"dispatching", "submitting"}
  BY DEF FillStateOf, FillState, Traceable
<1>4. u \in ReconcileOpen(x)
  BY <1>1 DEF Reconcile
<1>5. y = [x EXCEPT !.open = @ + x.slice.result]
  BY <1>1 DEF Trade
<1>6. u = c
  <2>1. CASE state = "filled"
    <3>1. OutcomeIn(state) = "full" /\ rest = 0
      BY <2>1 DEF OutcomeIn
    <3>2. u \in Mutation(x.slice.outcome = "full" /\ x.open + x.slice.result <= TargetVolume,
                         Settled([y EXCEPT !.pending = 0], "filled"))
      <4> HIDE DEF y
      <4> QED
        BY <1>1, <1>4, <1>5, <3>1 DEF ReconcileOpen, Mutation
    <3>3. u = Settled([y EXCEPT !.pending = 0], "filled")
      BY <3>2, MutationIs
    <3> HIDE DEF y
    <3> QED
      BY <2>1, <3>1, <3>3
  <2>2. CASE state = "partially_filled"
    <3>1. OutcomeIn(state) = "partial" /\ rest = volume - result
      BY <2>2 DEF OutcomeIn
    <3>2. u \in Mutation(x.slice.outcome = "partial" /\ x.open + x.slice.result <= TargetVolume,
                         Settled([y EXCEPT !.pending = x.slice.requested - x.slice.result],
                                 "partially_filled"))
      <4> HIDE DEF y
      <4> QED
        BY <1>1, <1>4, <1>5, <3>1 DEF ReconcileOpen, Mutation
    <3>3. u = Settled([y EXCEPT !.pending = x.slice.requested - x.slice.result],
                      "partially_filled")
      BY <3>2, MutationIs
    <3> HIDE DEF y
    <3> QED
      BY <1>1, <2>2, <3>1, <3>3
  <2> QED
    BY <1>3, <2>1, <2>2 DEF FillState
<1>7. /\ y \in Trade /\ y.slice = x.slice /\ y.open = x.open + result
      /\ y.plan = x.plan /\ y.slices = x.slices
      /\ y.requested = x.requested /\ y.satisfied = x.satisfied /\ y.epoch = x.epoch
  BY <1>2, OpenSet
<1> HIDE DEF y
<1>8. /\ z \in Trade /\ z.slice = x.slice /\ z.open = x.open + result /\ z.pending = rest
      /\ z.plan = x.plan /\ z.slices = x.slices
      /\ z.requested = x.requested /\ z.satisfied = x.satisfied /\ z.epoch = x.epoch
  BY <1>2, <1>7, PendingSet
<1> HIDE DEF z, rest
<1>9. /\ c \in Trade /\ c.slice = SliceAfter(a, "open", state, volume, result)
      /\ c.open = z.open /\ c.pending = z.pending /\ c.plan = z.plan
      /\ c.slices = z.slices /\ c.requested = z.requested
      /\ c.satisfied = z.satisfied /\ c.epoch = z.epoch
  <2> HIDE DEF state
  <2>1. "open" \in SliceKind
    BY DEF SliceKind
  <2>2. z.slice = AnsweredSlice(a, "open", volume, OutcomeIn(state), result)
    BY <1>8 DEF state
  <2> QED
    BY <1>2, <1>3, <1>8, <2>1, <2>2, SettledIs
<1> QED
  BY <1>6, <1>8, <1>9 DEF rest

LEMMA CloseReconciles ==
    ASSUME NEW a \in Trade, NEW volume \in Nat, NEW result \in 1 .. volume,
           NEW x \in Trade,
           x.slice = AnsweredSlice(a, "close", volume,
                                   OutcomeIn(FillStateOf(result, volume)), result),
           NEW u \in Reconcile(x)
    PROVE  LET state == FillStateOf(result, volume)
           IN  /\ u \in Trade /\ u.slice = SliceAfter(a, "close", state, volume, result)
               /\ result <= x.open /\ u.open = x.open - result
               /\ u.pending = x.pending
               /\ u.satisfied <=> x.satisfied \/ (state = "filled" /\ x.open = result
                                                  /\ x.pending = 0)
               /\ u.plan = x.plan /\ u.slices = x.slices
               /\ u.requested = x.requested /\ u.epoch = x.epoch
<1> DEFINE state == FillStateOf(result, volume)
           y == [x EXCEPT !.open = x.open - result]
           z == Settled(y, state)
           done == z.satisfied \/ NoExposure(z)
           c == [z EXCEPT !.satisfied = done]
<1>1. /\ x.slice.state = "reconciling" /\ x.slice.sent = 1 /\ x.slice.kind = "close"
      /\ x.slice.outcome = OutcomeIn(state) /\ x.slice.result = result
      /\ x.slice.requested = volume
  BY DEF AnsweredSlice, Sliced
<1>2. state \in FillState /\ state \in Traceable \ {"dispatching", "submitting"}
  BY DEF FillStateOf, FillState, Traceable
<1>3. u \in ReconcileClose(x)
  BY <1>1 DEF Reconcile
<1>4. y = [x EXCEPT !.open = @ - x.slice.result]
  BY <1>1 DEF Trade
<1>5. /\ result <= x.open
      /\ state = "filled" => u = DischargedByClose(z)
      /\ state = "partially_filled" => u = z
  <2>1. CASE state = "filled"
    <3>1. OutcomeIn(state) = "full"
      BY <2>1 DEF OutcomeIn
    <3>2. u \in Mutation(x.slice.outcome = "full" /\ x.slice.result <= x.open,
                         DischargedByClose(Settled(y, "filled")))
      <4> HIDE DEF y
      <4> QED
        BY <1>1, <1>3, <1>4, <3>1 DEF ReconcileClose, Mutation
    <3>3. u = DischargedByClose(Settled(y, "filled")) /\ x.slice.result <= x.open
      BY <3>2, MutationIs
    <3> HIDE DEF y
    <3> QED
      BY <1>1, <2>1, <3>3
  <2>2. CASE state = "partially_filled"
    <3>1. OutcomeIn(state) = "partial"
      BY <2>2 DEF OutcomeIn
    <3>2. u \in Mutation(x.slice.outcome = "partial" /\ x.slice.result <= x.open,
                         Settled(y, "partially_filled"))
      <4> HIDE DEF y
      <4> QED
        BY <1>1, <1>3, <1>4, <3>1 DEF ReconcileClose, Mutation
    <3>3. u = Settled(y, "partially_filled") /\ x.slice.result <= x.open
      BY <3>2, MutationIs
    <3> HIDE DEF y
    <3> QED
      BY <1>1, <2>2, <3>3
  <2> QED
    BY <1>2, <2>1, <2>2 DEF FillState
<1>6. x.open - result \in Nat /\ result \in Nat /\ x.open \in Nat
  BY <1>5, FieldTypes
<1>7. /\ y \in Trade /\ y.slice = x.slice /\ y.open = x.open - result
      /\ y.pending = x.pending /\ y.plan = x.plan /\ y.slices = x.slices
      /\ y.requested = x.requested /\ y.satisfied = x.satisfied /\ y.epoch = x.epoch
  BY <1>6, OpenSet
<1> HIDE DEF y
<1>8. /\ z \in Trade /\ z.slice = SliceAfter(a, "close", state, volume, result)
      /\ z.open = y.open /\ z.pending = y.pending /\ z.plan = y.plan
      /\ z.slices = y.slices /\ z.requested = y.requested
      /\ z.satisfied = y.satisfied /\ z.epoch = y.epoch
  <2> HIDE DEF state
  <2>1. "close" \in SliceKind
    BY DEF SliceKind
  <2>2. y.slice = AnsweredSlice(a, "close", volume, OutcomeIn(state), result)
    BY <1>7 DEF state
  <2> QED
    BY <1>2, <1>6, <1>7, <2>1, <2>2, SettledIs
<1> HIDE DEF z
<1>9. done \in BOOLEAN /\ (done <=> x.satisfied \/ (x.open = result /\ x.pending = 0))
  BY <1>6, <1>7, <1>8 DEF NoExposure
<1>10. DischargedByClose(z) = c
  BY DEF DischargedByClose, Trade
<1> HIDE DEF done
<1>11. /\ c \in Trade /\ c.slice = z.slice /\ (c.satisfied <=> done)
       /\ c.open = z.open /\ c.pending = z.pending /\ c.plan = z.plan
       /\ c.slices = z.slices /\ c.requested = z.requested /\ c.epoch = z.epoch
  BY <1>8, <1>9, SatisfiedSet
<1> HIDE DEF c
<1>12. CASE state = "filled"
  BY <1>5, <1>7, <1>8, <1>9, <1>10, <1>11, <1>12
<1>13. CASE state = "partially_filled"
  BY <1>5, <1>7, <1>8, <1>13
<1> QED
  BY <1>2, <1>12, <1>13 DEF FillState

LEMMA CancelReconciles ==
    ASSUME NEW a \in Trade, NEW volume \in Nat, NEW x \in Trade,
           x.slice = AnsweredSlice(a, "cancel", volume, "full", 0),
           NEW u \in Reconcile(x)
    PROVE  /\ u \in Trade /\ u.slice = SliceAfter(a, "cancel", "cancelled", volume, 0)
           /\ u.open = x.open /\ u.pending = 0
           /\ u.satisfied <=> x.satisfied \/ (x.requested /\ x.open = 0)
           /\ u.plan = x.plan /\ u.slices = x.slices
           /\ u.requested = x.requested /\ u.epoch = x.epoch
<1> DEFINE y == [x EXCEPT !.pending = 0]
           z == Settled(y, "cancelled")
           done == z.satisfied \/ (z.requested /\ NoExposure(z))
           c == [z EXCEPT !.satisfied = done]
<1>1. /\ x.slice.state = "reconciling" /\ x.slice.sent = 1 /\ x.slice.kind = "cancel"
      /\ x.slice.outcome = "full"
  BY DEF AnsweredSlice, Sliced
<1>2. u \in ReconcileCancel(x)
  BY <1>1 DEF Reconcile
<1>3. u = Discharged(z)
  <2>1. u \in Mutation(x.slice.outcome = "full", Discharged(z))
    <3> HIDE DEF z
    <3>1. u \in Mutation(x.slice.outcome = "full",
                         Discharged(Settled([x EXCEPT !.pending = 0], "cancelled")))
      BY <1>1, <1>2 DEF ReconcileCancel, Mutation
    <3> QED
      BY <3>1 DEF z
  <2> HIDE DEF z
  <2> QED
    BY <2>1, MutationIs
<1>4. 0 \in Nat /\ x.open \in Nat
  BY FieldTypes
<1>5. /\ y \in Trade /\ y.slice = x.slice /\ y.open = x.open
      /\ y.pending = 0 /\ y.plan = x.plan /\ y.slices = x.slices
      /\ y.requested = x.requested /\ y.satisfied = x.satisfied /\ y.epoch = x.epoch
  BY <1>4, PendingSet
<1> HIDE DEF y
<1>6. /\ z \in Trade /\ z.slice = SliceAfter(a, "cancel", "cancelled", volume, 0)
      /\ z.open = y.open /\ z.pending = y.pending /\ z.plan = y.plan
      /\ z.slices = y.slices /\ z.requested = y.requested
      /\ z.satisfied = y.satisfied /\ z.epoch = y.epoch
  <2>1. "cancel" \in SliceKind /\ "cancelled" \in Traceable \ {"dispatching", "submitting"}
    BY DEF SliceKind, Traceable
  <2>2. y.slice = AnsweredSlice(a, "cancel", volume, OutcomeIn("cancelled"), 0)
    BY <1>5 DEF OutcomeIn
  <2> QED
    BY <1>4, <1>5, <2>1, <2>2, SettledIs
<1> HIDE DEF z
<1>7. done \in BOOLEAN /\ (done <=> x.satisfied \/ (x.requested /\ x.open = 0))
  BY <1>5, <1>6 DEF NoExposure
<1>8. Discharged(z) = c
  BY DEF Discharged, Trade
<1> HIDE DEF done
<1>9. /\ c \in Trade /\ c.slice = z.slice /\ (c.satisfied <=> done)
      /\ c.open = z.open /\ c.pending = z.pending /\ c.plan = z.plan
      /\ c.slices = z.slices /\ c.requested = z.requested /\ c.epoch = z.epoch
  BY <1>6, <1>7, SatisfiedSet
<1> HIDE DEF c
<1> QED
  BY <1>3, <1>5, <1>6, <1>7, <1>8, <1>9

\* The first fill of an operation.
LEMMA OpenFills ==
    ASSUME NEW a \in Trade, NEW volume \in Nat, NEW fill,
           NEW u \in Then(RecordFill(OpenTrade(a, "submitting", volume, 0), fill), Reconcile)
    PROVE  /\ fill \in 1 .. volume
           /\ u = OpenTrade(a, FillStateOf(fill, volume), volume, fill)
<1> DEFINE t == OpenTrade(a, "submitting", volume, 0)
           state == FillStateOf(fill, volume)
           o == OpenTrade(a, state, volume, fill)
<1>1. PICK x \in RecordFill(t, fill) : u \in Reconcile(x)
  BY DEF Then
<1>2. "open" \in Traded /\ 0 \in 0 .. volume /\ "submitting" \in Traceable
  BY DEF Traded, Traceable
<1>3. /\ t \in Trade /\ t.plan = a.plan /\ t.slices = a.slices + 1
      /\ t.open = a.open + 0 /\ t.requested = a.requested
      /\ t.satisfied = a.satisfied /\ t.epoch = a.epoch
      /\ t.slice = SliceAfter(a, "open", "submitting", volume, 0)
  BY <1>2, OpenTradeIs
<1> HIDE DEF t
<1>4. /\ fill \in 1 .. volume /\ x \in Trade
      /\ x.slice = AnsweredSlice(a, "open", volume, OutcomeIn(state), fill)
      /\ x.plan = t.plan /\ x.slices = t.slices /\ x.open = t.open
      /\ x.requested = t.requested /\ x.satisfied = t.satisfied /\ x.epoch = t.epoch
  BY <1>1, <1>2, <1>3, FillIsRecorded
<1>5. state \in Traceable /\ fill \in 0 .. volume /\ a.open \in Nat
  BY <1>4, FieldTypes DEF FillStateOf, Traceable
<1>6. /\ o \in Trade /\ o.plan = a.plan /\ o.slices = a.slices + 1
      /\ o.open = a.open + fill
      /\ o.pending = IF state = "partially_filled" THEN volume - fill ELSE 0
      /\ o.requested = a.requested /\ o.satisfied = a.satisfied /\ o.epoch = a.epoch
      /\ o.slice = SliceAfter(a, "open", state, volume, fill)
  <2> HIDE DEF state
  <2> QED
    BY <1>5, OpenTradeIs
<1> HIDE DEF o
<1>7. /\ u \in Trade /\ u.slice = SliceAfter(a, "open", state, volume, fill)
      /\ u.open = x.open + fill
      /\ u.pending = IF state = "partially_filled" THEN volume - fill ELSE 0
      /\ u.plan = x.plan /\ u.slices = x.slices
      /\ u.requested = x.requested /\ u.satisfied = x.satisfied
      /\ u.epoch = x.epoch
  BY <1>1, <1>4, OpenReconciles
<1>8. u = o
  <2> HIDE DEF state
  <2> QED
    BY <1>3, <1>4, <1>5, <1>6, <1>7, TradesEqual
<1> QED
  BY <1>4, <1>8 DEF o

LEMMA CloseFills ==
    ASSUME NEW a \in Trade, NEW volume \in Nat, NEW fill,
           NEW u \in Then(RecordFill(CloseTrade(a, "submitting", volume, 0), fill), Reconcile)
    PROVE  /\ fill \in 1 .. volume /\ fill <= a.open
           /\ u = CloseTrade(a, FillStateOf(fill, volume), volume, fill)
<1> DEFINE t == CloseTrade(a, "submitting", volume, 0)
           state == FillStateOf(fill, volume)
           o == CloseTrade(a, state, volume, fill)
<1>1. PICK x \in RecordFill(t, fill) : u \in Reconcile(x)
  BY DEF Then
<1>2. "close" \in Traded /\ 0 \in 0 .. a.open /\ "submitting" \in Traceable /\ a.open \in Nat
  BY FieldTypes DEF Traded, Traceable
<1>3. /\ t \in Trade /\ t.plan = a.plan /\ t.slices = a.slices
      /\ t.open = a.open - 0 /\ t.pending = a.pending /\ t.requested
      /\ (t.satisfied <=> a.satisfied) /\ t.epoch = a.epoch
      /\ t.slice = SliceAfter(a, "close", "submitting", volume, 0)
  BY <1>2, CloseTradeIs
<1> HIDE DEF t
<1>4. /\ fill \in 1 .. volume /\ x \in Trade
      /\ x.slice = AnsweredSlice(a, "close", volume, OutcomeIn(state), fill)
      /\ x.plan = t.plan /\ x.slices = t.slices /\ x.open = t.open
      /\ x.pending = t.pending
      /\ x.requested = t.requested /\ x.satisfied = t.satisfied /\ x.epoch = t.epoch
  <2>1. t \in Trade /\ t.slice = SliceAfter(a, "close", "submitting", volume, 0)
    BY <1>3
  <2> QED
    BY <1>1, <1>2, <2>1, FillIsRecorded
<1>5. /\ u \in Trade /\ u.slice = SliceAfter(a, "close", state, volume, fill)
      /\ fill <= x.open /\ u.open = x.open - fill /\ u.pending = x.pending
      /\ u.satisfied <=> x.satisfied \/ (state = "filled" /\ x.open = fill
                                         /\ x.pending = 0)
      /\ u.plan = x.plan /\ u.slices = x.slices
      /\ u.requested = x.requested /\ u.epoch = x.epoch
  BY <1>1, <1>4, CloseReconciles
<1>6. state \in Traceable /\ fill \in 0 .. a.open
  BY <1>2, <1>3, <1>4, <1>5 DEF FillStateOf, Traceable
<1> HIDE DEF state
<1>7. /\ o \in Trade /\ o.plan = a.plan /\ o.slices = a.slices
      /\ o.open = a.open - fill /\ o.pending = a.pending /\ o.requested
      /\ o.satisfied <=> a.satisfied \/ (state = "filled" /\ a.open = fill
                                         /\ a.pending = 0)
      /\ o.epoch = a.epoch /\ o.slice = SliceAfter(a, "close", state, volume, fill)
  BY <1>6, CloseTradeIs
<1> HIDE DEF o
<1>8. u = o
  <2>1. x.open = a.open /\ x.pending = a.pending /\ x.satisfied = t.satisfied
    BY <1>2, <1>3, <1>4
  <2>2. u.satisfied <=> o.satisfied
    BY <1>3, <1>5, <1>7, <2>1
  <2>3. /\ u.open = o.open /\ u.pending = o.pending /\ u.slices = o.slices
        /\ u.plan = o.plan /\ u.epoch = o.epoch /\ u.slice = o.slice
        /\ u.requested /\ o.requested
    BY <1>3, <1>4, <1>5, <1>7, <2>1
  <2> QED
    BY <1>5, <1>7, <2>2, <2>3, TradesEqual
<1> QED
  BY <1>4, <1>6, <1>8 DEF o, state

LEMMA CancelAccepted ==
    ASSUME NEW a \in Trade, NEW volume \in Nat,
           NEW u \in Then(RecordCancelAccepted(CancelTrade(a, "submitting", volume)),
                          Reconcile)
    PROVE  u = CancelTrade(a, "cancelled", volume)
<1> DEFINE t == CancelTrade(a, "submitting", volume)
           o == CancelTrade(a, "cancelled", volume)
<1>1. PICK x \in RecordCancelAccepted(t) : u \in Reconcile(x)
  BY DEF Then
<1>2. /\ "submitting" \in Traceable /\ "cancelled" \in Traceable /\ "cancel" \in SliceKind
      /\ "full" \in BrokerOutcome
  BY DEF Traceable, SliceKind, BrokerOutcome
<1>3. /\ t \in Trade /\ t.plan = a.plan /\ t.slices = a.slices
      /\ t.open = a.open /\ t.requested = a.requested
      /\ (t.satisfied <=> a.satisfied) /\ t.epoch = a.epoch
      /\ t.slice = SliceAfter(a, "cancel", "submitting", volume, 0)
  BY <1>2, CancelTradeIs
<1>4. /\ o \in Trade /\ o.plan = a.plan /\ o.slices = a.slices
      /\ o.open = a.open /\ o.pending = 0 /\ o.requested = a.requested
      /\ (o.satisfied <=> a.satisfied \/ (a.requested /\ a.open = 0))
      /\ o.epoch = a.epoch
      /\ o.slice = SliceAfter(a, "cancel", "cancelled", volume, 0)
  BY <1>2, CancelTradeIs
<1> HIDE DEF t, o
<1>5. x = Answered(t, "full", 0)
  BY <1>1, MutationIs DEF RecordCancelAccepted
<1>6. /\ x \in Trade /\ x.slice = AnsweredSlice(a, "cancel", volume, "full", 0)
      /\ x.plan = t.plan /\ x.slices = t.slices /\ x.open = t.open
      /\ x.requested = t.requested /\ x.satisfied = t.satisfied /\ x.epoch = t.epoch
  BY <1>2, <1>3, <1>5, AnsweredIs
<1>7. /\ u \in Trade /\ u.slice = SliceAfter(a, "cancel", "cancelled", volume, 0)
      /\ u.open = x.open /\ u.pending = 0
      /\ u.satisfied <=> x.satisfied \/ (x.requested /\ x.open = 0)
      /\ u.plan = x.plan /\ u.slices = x.slices
      /\ u.requested = x.requested /\ u.epoch = x.epoch
  BY <1>1, <1>6, CancelReconciles
<1>8. u = o
  BY <1>3, <1>4, <1>6, <1>7, TradesEqual
<1> QED
  BY <1>8 DEF o

----------------------------------------------------------------------------
(* Late fills.                                                             *)

\* More of a partial fill, and the rest of it.
MoreOf(s, more) == [s EXCEPT !.result = s.result + more]

AllOf(s, more) ==
    [s EXCEPT !.result = s.result + more, !.outcome = "full", !.state = "filled"]

LEMMA SliceFills ==
    ASSUME NEW a \in Trade, NEW kind \in SliceKind, NEW volume \in Nat,
           NEW result \in Nat, NEW more \in Nat,
           NEW s, s = SliceAfter(a, kind, "partially_filled", volume, result)
    PROVE  /\ MoreOf(s, more)
              = SliceAfter(a, kind, "partially_filled", volume, result + more)
           /\ AllOf(s, more) = SliceAfter(a, kind, "filled", volume, result + more)
<1> DEFINE p == SliceAfter(a, kind, "partially_filled", volume, result + more)
           q == SliceAfter(a, kind, "filled", volume, result + more)
           x == [s EXCEPT !.result = s.result + more]
           y == [s EXCEPT !.result = s.result + more, !.outcome = "full",
                          !.state = "filled"]
<1>1. /\ "partially_filled" \in Traceable /\ "filled" \in Traceable
      /\ OutcomeIn("partially_filled") = "partial" /\ OutcomeIn("filled") = "full"
      /\ SentIn("partially_filled") = 1 /\ SentIn("filled") = 1
      /\ "full" \in BrokerOutcome /\ "filled" \in SliceState /\ result + more \in Nat
  BY DEF Traceable, OutcomeIn, SentIn, BrokerOutcome, SliceState
<1>2. /\ s \in Slice /\ s.id = a.slice.id + 1 /\ s.kind = kind
      /\ s.state = "partially_filled" /\ s.requested = volume /\ s.result = result
      /\ s.outcome = "partial" /\ s.sent = 1 /\ s.attempt = a.epoch
  BY <1>1, SliceAfterIs
<1>3. /\ p \in Slice /\ p.id = a.slice.id + 1 /\ p.kind = kind
      /\ p.state = "partially_filled" /\ p.requested = volume
      /\ p.result = result + more
      /\ p.outcome = "partial" /\ p.sent = 1 /\ p.attempt = a.epoch
  BY <1>1, SliceAfterIs
<1>4. /\ q \in Slice /\ q.id = a.slice.id + 1 /\ q.kind = kind
      /\ q.state = "filled" /\ q.requested = volume /\ q.result = result + more
      /\ q.outcome = "full" /\ q.sent = 1 /\ q.attempt = a.epoch
  BY <1>1, SliceAfterIs
<1> HIDE DEF p, q
<1>5. x = p
  <2>1. /\ x \in Slice /\ x.id = s.id /\ x.kind = s.kind /\ x.state = s.state
        /\ x.requested = s.requested /\ x.result = result + more
        /\ x.outcome = s.outcome /\ x.sent = s.sent /\ x.attempt = s.attempt
    BY <1>1, <1>2 DEF Slice
  <2> HIDE DEF x
  <2> QED
    BY <1>2, <1>3, <2>1 DEF Slice
<1>6. y = q
  <2>1. /\ y \in Slice /\ y.id = s.id /\ y.kind = s.kind /\ y.state = "filled"
        /\ y.requested = s.requested /\ y.result = result + more
        /\ y.outcome = "full" /\ y.sent = s.sent /\ y.attempt = s.attempt
    BY <1>1, <1>2 DEF Slice
  <2> HIDE DEF y
  <2> QED
    BY <1>2, <1>4, <2>1 DEF Slice
<1> QED
  BY <1>5, <1>6 DEF p, q, MoreOf, AllOf

LEMMA OpenFillsMore ==
    ASSUME NEW a \in Trade, NEW volume \in Nat, NEW result \in 0 .. volume, NEW more,
           NEW u \in ObservePendingRemainder(
                         OpenTrade(a, "partially_filled", volume, result), more)
    PROVE  /\ more \in 1 .. volume - result
           /\ u = OpenTrade(a, FillStateOf(result + more, volume), volume, result + more)
<1> DEFINE t == OpenTrade(a, "partially_filled", volume, result)
           state == FillStateOf(result + more, volume)
           o == OpenTrade(a, state, volume, result + more)
<1>1. "partially_filled" \in Traceable /\ "open" \in SliceKind /\ result \in Nat
      /\ a.open \in Nat
  BY FieldTypes DEF Traceable, SliceKind
<1>2. /\ t \in Trade /\ t.plan = a.plan /\ t.slices = a.slices + 1
      /\ t.open = a.open + result /\ t.pending = volume - result
      /\ t.requested = a.requested /\ t.satisfied = a.satisfied /\ t.epoch = a.epoch
      /\ t.slice = SliceAfter(a, "open", "partially_filled", volume, result)
  BY <1>1, OpenTradeIs
<1> HIDE DEF t
<1>3. more \in 1 .. t.pending
      /\ u = [LateEntry(t, more) EXCEPT !.slice =
                 IF more = t.pending
                   THEN [t.slice EXCEPT !.result = @ + more,
                                        !.outcome = "full", !.state = "filled"]
                   ELSE [t.slice EXCEPT !.result = @ + more]]
  <2>1. u \in ObservePendingRemainder(t, more)
    BY DEF t
  <2> DEFINE d == [LateEntry(t, more) EXCEPT !.slice =
                     IF more = t.pending
                       THEN [t.slice EXCEPT !.result = @ + more,
                                            !.outcome = "full", !.state = "filled"]
                       ELSE [t.slice EXCEPT !.result = @ + more]]
  <2>2. u \in Mutation(/\ more \in 1 .. t.pending
                       /\ t.slice.kind = "open" /\ t.slice.state = "partially_filled"
                       /\ t.slice.result + more <= t.slice.requested, d)
    BY <2>1 DEF ObservePendingRemainder
  <2> HIDE DEF d
  <2>3. more \in 1 .. t.pending /\ u = d
    BY <2>2, MutationIs
  <2> QED
    BY <2>3 DEF d
<1>4. more \in Nat /\ more \in 1 .. volume - result /\ result + more \in 0 .. volume
  BY <1>1, <1>2, <1>3
<1>5. state \in Traceable
  BY DEF FillStateOf, Traceable
<1> DEFINE s == SliceAfter(a, "open", state, volume, result + more)
<1>6. (IF more = t.pending THEN [t.slice EXCEPT !.result = @ + more,
                                                !.outcome = "full", !.state = "filled"]
                           ELSE [t.slice EXCEPT !.result = @ + more]) = s
  <2>1. MoreOf(t.slice, more)
        = SliceAfter(a, "open", "partially_filled", volume, result + more)
    BY <1>1, <1>2, <1>4, SliceFills
  <2>2. AllOf(t.slice, more)
        = SliceAfter(a, "open", "filled", volume, result + more)
    BY <1>1, <1>2, <1>4, SliceFills
  <2>3. more = t.pending <=> result + more = volume
    BY <1>1, <1>2, <1>4
  <2>4. t.slice \in Slice
    BY <1>2, FieldTypes
  <2>5. [t.slice EXCEPT !.result = @ + more] = MoreOf(t.slice, more)
    BY <2>4 DEF MoreOf, Slice
  <2>6. [t.slice EXCEPT !.result = @ + more, !.outcome = "full", !.state = "filled"]
        = AllOf(t.slice, more)
    BY <2>4 DEF AllOf, Slice
  <2> QED
    BY <2>1, <2>2, <2>3, <2>5, <2>6 DEF FillStateOf
<1> DEFINE e == LateEntry(t, more)
<1>7. e = [t EXCEPT !.open = t.open + more, !.pending = t.pending - more]
  BY <1>2 DEF LateEntry, Trade
<1>8. t.open + more \in Nat /\ t.pending - more \in Nat
  BY <1>1, <1>2, <1>4
<1> HIDE DEF e
<1>9. /\ e \in Trade /\ e.open = t.open + more /\ e.pending = t.pending - more
      /\ e.plan = t.plan /\ e.slice = t.slice /\ e.slices = t.slices
      /\ e.requested = t.requested /\ e.satisfied = t.satisfied /\ e.epoch = t.epoch
  <2> DEFINE m == t.open + more
             n == t.pending - more
  <2>1. m \in Nat /\ n \in Nat /\ e = [t EXCEPT !.open = m, !.pending = n]
    BY <1>7, <1>8
  <2> HIDE DEF m, n
  <2>2. /\ e \in Trade /\ e.open = m /\ e.pending = n
        /\ e.plan = t.plan /\ e.slice = t.slice /\ e.slices = t.slices
        /\ e.requested = t.requested /\ e.satisfied = t.satisfied /\ e.epoch = t.epoch
    BY <1>2, <2>1 DEF Trade
  <2> QED
    BY <2>2 DEF m, n
<1>10. s \in Slice
  BY <1>1, <1>4, <1>5, SliceAfterIs
<1>11. o.slice = s /\ o \in Trade /\ o.plan = a.plan /\ o.slices = a.slices + 1
       /\ o.open = a.open + (result + more)
       /\ o.pending = (IF state = "partially_filled" THEN volume - (result + more) ELSE 0)
       /\ o.requested = a.requested /\ o.satisfied = a.satisfied /\ o.epoch = a.epoch
  <2> DEFINE sum == result + more
  <2>1. /\ a \in Trade /\ state \in Traceable /\ volume \in Nat /\ sum \in 0 .. volume
        /\ o = OpenTrade(a, state, volume, sum)
        /\ s = SliceAfter(a, "open", state, volume, sum)
    BY <1>4, <1>5
  <2> HIDE DEF state, sum, o, s
  <2>2. o \in Trade /\ o.slice = s
    BY ONLY <2>1, OpenTradeIs
  <2>3. /\ o.plan = a.plan /\ o.slices = a.slices + 1 /\ o.open = a.open + sum
        /\ o.pending = (IF state = "partially_filled" THEN volume - sum ELSE 0)
        /\ o.requested = a.requested /\ o.satisfied = a.satisfied /\ o.epoch = a.epoch
    BY ONLY <2>1 DEF OpenTrade, Made
  <2> QED
    BY <2>2, <2>3 DEF sum
<1> HIDE DEF s, o
<1>12. u = [e EXCEPT !.slice = s]
  BY <1>3, <1>6 DEF e
<1>13. /\ u \in Trade /\ u.slice = s
       /\ u.plan = e.plan /\ u.slices = e.slices /\ u.open = e.open
       /\ u.pending = e.pending /\ u.requested = e.requested
       /\ u.satisfied = e.satisfied /\ u.epoch = e.epoch
  BY <1>9, <1>10, <1>12, SliceSet
<1>14. t.pending - more = IF state = "partially_filled" THEN volume - (result + more) ELSE 0
  BY <1>1, <1>2, <1>4 DEF FillStateOf
<1>15. u.open = o.open /\ u.pending = o.pending
  <2> HIDE DEF state
  <2> QED
    BY <1>1, <1>2, <1>4, <1>9, <1>11, <1>13, <1>14
<1> HIDE DEF state
<1>16. u = o
  BY <1>2, <1>9, <1>11, <1>13, <1>15, TradesEqual
<1> QED
  BY <1>4, <1>16 DEF o, state

LEMMA CloseFillsMore ==
    ASSUME NEW a \in Trade, NEW volume \in Nat, NEW result \in 0 .. volume, NEW more,
           result <= a.open,
           NEW u \in ObserveCloseRemainder(
                         CloseTrade(a, "partially_filled", volume, result), more)
    PROVE  /\ more \in 1 .. volume - result /\ result + more <= a.open
           /\ u = CloseTrade(a, FillStateOf(result + more, volume), volume, result + more)
<1> DEFINE t == CloseTrade(a, "partially_filled", volume, result)
           state == FillStateOf(result + more, volume)
           o == CloseTrade(a, state, volume, result + more)
           s == SliceAfter(a, "close", state, volume, result + more)
           y == [t EXCEPT !.open = t.open - more]
           z == [y EXCEPT !.slice = s]
           done == z.satisfied \/ NoExposure(z)
           c == [z EXCEPT !.satisfied = done]
<1>1. "partially_filled" \in Traceable /\ "close" \in SliceKind /\ result \in Nat
      /\ a.open \in Nat /\ result \in 0 .. a.open
  BY FieldTypes DEF Traceable, SliceKind
<1>2. /\ t \in Trade /\ t.plan = a.plan /\ t.slices = a.slices
      /\ t.open = a.open - result /\ t.pending = a.pending
      /\ t.requested /\ (t.satisfied <=> a.satisfied) /\ t.epoch = a.epoch
      /\ t.slice = SliceAfter(a, "close", "partially_filled", volume, result)
  BY <1>1, CloseTradeIs
<1>3. t.slice.result = result /\ t.slice.requested = volume /\ t.slice \in Slice
  BY <1>1, <1>2, SliceAfterIs
<1> HIDE DEF t
<1> DEFINE sold == [t EXCEPT !.open = @ - more, !.slice.result = @ + more]
           whole == [sold EXCEPT !.slice.outcome = "full", !.slice.state = "filled"]
<1>4. /\ more \in 1 .. volume - result /\ more <= t.open
      /\ u = IF result + more = volume THEN DischargedByClose(whole) ELSE sold
  <2>1. u \in ObserveCloseRemainder(t, more)
    BY DEF t
  <2> DEFINE d == IF t.slice.result + more = t.slice.requested
                    THEN DischargedByClose(whole) ELSE sold
  <2>2. u \in Mutation(/\ t.slice.kind = "close" /\ t.slice.state = "partially_filled"
                       /\ more \in 1 .. t.slice.requested - t.slice.result
                       /\ more <= t.open, d)
    BY <2>1 DEF ObserveCloseRemainder
  <2> HIDE DEF d
  <2>3. /\ more \in 1 .. t.slice.requested - t.slice.result /\ more <= t.open
        /\ u = d
    BY <2>2, MutationIs
  <2> HIDE DEF sold, whole
  <2> QED
    BY <1>3, <2>3 DEF d
<1>5. more \in Nat /\ result + more \in 0 .. volume /\ result + more \in 0 .. a.open
      /\ result + more \in Nat
  BY <1>1, <1>2, <1>4
<1>6. state \in Traceable
  BY DEF FillStateOf, Traceable
<1>7. s \in Slice
  BY <1>1, <1>5, <1>6, SliceAfterIs
<1>8. /\ y \in Trade /\ y.open = t.open - more /\ y.slice = t.slice
      /\ y.pending = t.pending /\ y.plan = t.plan /\ y.slices = t.slices
      /\ y.requested = t.requested /\ y.satisfied = t.satisfied /\ y.epoch = t.epoch
  <2>1. t.open - more \in Nat
    BY <1>2, <1>4, FieldTypes
  <2> QED
    BY <1>2, <2>1, OpenSet
<1>9. sold = [y EXCEPT !.slice = MoreOf(t.slice, more)]
  BY <1>2, <1>3 DEF Trade, Slice, MoreOf
<1>10. whole = [y EXCEPT !.slice = AllOf(t.slice, more)]
  BY <1>2, <1>3 DEF Trade, Slice, AllOf
<1>11. /\ result + more # volume => sold = z
       /\ result + more = volume => whole = z
  <2> DEFINE q == t.slice
  <2>0. q = SliceAfter(a, "close", "partially_filled", volume, result)
    BY <1>2
  <2> HIDE DEF q
  <2>1. MoreOf(q, more)
        = SliceAfter(a, "close", "partially_filled", volume, result + more)
    BY <1>1, <1>5, <2>0, SliceFills
  <2>2. AllOf(q, more)
        = SliceAfter(a, "close", "filled", volume, result + more)
    BY <1>1, <1>5, <2>0, SliceFills
  <2> HIDE DEF y, sold, whole
  <2> QED
    BY <1>9, <1>10, <2>1, <2>2 DEF FillStateOf, q
<1> HIDE DEF y, sold, whole
<1>12. /\ o.slice = s /\ o \in Trade /\ o.plan = a.plan /\ o.slices = a.slices
       /\ o.open = a.open - (result + more) /\ o.pending = a.pending /\ o.requested
       /\ o.satisfied <=> a.satisfied \/ (state = "filled" /\ a.open = result + more
                                          /\ a.pending = 0)
       /\ o.epoch = a.epoch
  <2> HIDE DEF state
  <2> QED
    BY <1>5, <1>6, CloseTradeIs
<1> HIDE DEF s, o
<1>13. /\ z \in Trade /\ z.slice = s /\ z.open = y.open /\ z.pending = y.pending
       /\ z.plan = y.plan /\ z.slices = y.slices /\ z.requested = y.requested
       /\ z.satisfied = y.satisfied /\ z.epoch = y.epoch
  BY <1>7, <1>8, SliceSet
<1> HIDE DEF z
<1>14. z.open = a.open - (result + more) /\ z.pending = a.pending /\ z.requested
       /\ (z.satisfied <=> a.satisfied)
  BY <1>1, <1>2, <1>5, <1>8, <1>13
<1>15. done \in BOOLEAN
       /\ (done <=> a.satisfied \/ (a.open = result + more /\ a.pending = 0))
  BY <1>1, <1>5, <1>13, <1>14 DEF NoExposure
<1>16. DischargedByClose(z) = c
  BY <1>13 DEF DischargedByClose, Trade
<1> HIDE DEF done
<1>17. /\ c \in Trade /\ c.slice = z.slice /\ (c.satisfied <=> done)
       /\ c.open = z.open /\ c.pending = z.pending /\ c.plan = z.plan
       /\ c.slices = z.slices /\ c.requested = z.requested /\ c.epoch = z.epoch
  BY <1>13, <1>15, SatisfiedSet
<1> HIDE DEF c
<1>18. CASE result + more = volume
  <2>1. state = "filled"
    BY <1>18 DEF FillStateOf
  <2>2. u = c
    BY <1>4, <1>11, <1>16, <1>18
  <2>3. u.satisfied <=> o.satisfied
    BY <1>12, <1>15, <1>17, <2>1, <2>2
  <2> HIDE DEF state
  <2>4. u = o
    <3>1. /\ u.open = o.open /\ u.pending = o.pending /\ u.slices = o.slices
          /\ u.plan = o.plan /\ u.epoch = o.epoch /\ u.slice = o.slice
          /\ (u.requested <=> o.requested) /\ u \in Trade /\ o \in Trade
      BY <1>2, <1>8, <1>12, <1>13, <1>14, <1>17, <2>2
    <3> QED
      BY <2>3, <3>1, TradesEqual
  <2> QED
    BY <1>4, <1>5, <2>4 DEF o, state
<1>19. CASE result + more # volume
  <2>1. state = "partially_filled"
    BY <1>19 DEF FillStateOf
  <2>2. u = z
    BY <1>4, <1>11, <1>19
  <2>3. u.satisfied <=> o.satisfied
    BY <1>12, <1>14, <2>1, <2>2
  <2> HIDE DEF state
  <2>4. u = o
    <3>1. /\ u.open = o.open /\ u.pending = o.pending /\ u.slices = o.slices
          /\ u.plan = o.plan /\ u.epoch = o.epoch /\ u.slice = o.slice
          /\ (u.requested <=> o.requested) /\ u \in Trade /\ o \in Trade
      BY <1>2, <1>8, <1>12, <1>13, <1>14, <2>2
    <3> QED
      BY <2>3, <3>1, TradesEqual
  <2> QED
    BY <1>4, <1>5, <2>4 DEF o, state
<1> QED
  BY <1>18, <1>19

\* A late fill of the order that is being cancelled; b has that fill as well.
LEMMA CancelFillsMore ==
    ASSUME NEW a \in Trade, NEW volume \in Nat, NEW more,
           NEW u \in ObserveCancelRemainder(CancelTrade(a, "submitting", volume), more)
    PROVE  /\ more \in 1 .. a.pending
           /\ \A b \in Trade :
                /\ b.plan = a.plan /\ b.slices = a.slices /\ b.epoch = a.epoch
                /\ b.slice.id = a.slice.id
                /\ b.requested <=> a.requested
                /\ b.satisfied <=> a.satisfied
                /\ b.open = a.open + more /\ b.pending = a.pending - more
                => u = CancelTrade(b, "submitting", volume)
<1> DEFINE t == CancelTrade(a, "submitting", volume)
<1>1. "submitting" \in Traceable /\ a.pending \in Nat /\ a.open \in Nat
  BY FieldTypes DEF Traceable
<1>2. /\ t \in Trade /\ t.plan = a.plan /\ t.slices = a.slices
      /\ t.open = a.open /\ t.pending = a.pending /\ t.requested = a.requested
      /\ (t.satisfied <=> a.satisfied) /\ t.epoch = a.epoch
      /\ t.slice = SliceAfter(a, "cancel", "submitting", volume, 0)
  BY <1>1, CancelTradeIs
<1> HIDE DEF t
<1>3. more \in 1 .. t.pending /\ u = LateEntry(t, more)
  <2>1. u \in ObserveCancelRemainder(t, more)
    BY DEF t
  <2> DEFINE d == LateEntry(t, more)
  <2>2. u \in Mutation(/\ t.slice.kind = "cancel"
                       /\ t.slice.state \in {"submitting", "reconciling"}
                       /\ more \in 1 .. t.pending, d)
    BY <2>1 DEF ObserveCancelRemainder
  <2> HIDE DEF d
  <2>3. more \in 1 .. t.pending /\ u = d
    BY <2>2, MutationIs
  <2> QED
    BY <2>3 DEF d
<1>4. u = [t EXCEPT !.open = t.open + more, !.pending = t.pending - more]
  BY <1>2, <1>3 DEF LateEntry, Trade
<1>5. t.open + more \in Nat /\ t.pending - more \in Nat
  BY <1>1, <1>2, <1>3
<1>6. /\ u \in Trade /\ u.open = t.open + more /\ u.pending = t.pending - more
      /\ u.plan = t.plan /\ u.slice = t.slice /\ u.slices = t.slices
      /\ u.requested = t.requested /\ u.satisfied = t.satisfied /\ u.epoch = t.epoch
  BY <1>2, <1>4, <1>5 DEF Trade
<1>7. ASSUME NEW b \in Trade,
             b.plan = a.plan, b.slices = a.slices, b.epoch = a.epoch,
             b.slice.id = a.slice.id, b.requested <=> a.requested,
             b.satisfied <=> a.satisfied,
             b.open = a.open + more, b.pending = a.pending - more
      PROVE  u = CancelTrade(b, "submitting", volume)
  <2> DEFINE o == CancelTrade(b, "submitting", volume)
  <2>1. /\ o \in Trade /\ o.plan = b.plan /\ o.slices = b.slices
        /\ o.open = b.open /\ o.pending = b.pending /\ o.requested = b.requested
        /\ (o.satisfied <=> b.satisfied) /\ o.epoch = b.epoch
        /\ o.slice = SliceAfter(b, "cancel", "submitting", volume, 0)
    BY <1>1, CancelTradeIs
  <2> HIDE DEF o
  <2>2. SliceAfter(b, "cancel", "submitting", volume, 0)
        = SliceAfter(a, "cancel", "submitting", volume, 0)
    BY <1>7 DEF SliceAfter
  <2>3. u = o
    BY <1>2, <1>6, <1>7, <2>1, <2>2, TradesEqual
  <2> QED
    BY <2>3 DEF o
<1> QED
  BY <1>1, <1>2, <1>3, <1>7

\* An answer that no volume comes of.
LEMMA RefusedIs ==
    ASSUME NEW t \in Trade, NEW outcome \in {"rejected", "unknown"},
           NEW state, state = IF outcome = "rejected" THEN "rejected" ELSE "ambiguous",
           t.slice.kind \in {"open", "close", "cancel"},
           NEW x, x = Answered(t, outcome, 0),
           NEW u \in Reconcile(x)
    PROVE  /\ u \in Trade /\ u.open = t.open /\ u.pending = t.pending
           /\ u.slice.id = t.slice.id /\ u.slice.kind = t.slice.kind
           /\ u.slice.requested = t.slice.requested
           /\ u.slice.state = state
<1> DEFINE q == [t.slice EXCEPT !.state = "reconciling", !.outcome = outcome,
                                !.result = 0, !.sent = 1]
           p == [q EXCEPT !.state = state]
           z == Settled(x, state)
           done == z.satisfied \/ (z.requested /\ NoExposure(z))
           c == [z EXCEPT !.satisfied = done]
<1>1. x = [t EXCEPT !.slice = q]
  BY DEF Answered, Trade
<1>2. /\ q \in Slice /\ q.id = t.slice.id /\ q.kind = t.slice.kind
      /\ q.requested = t.slice.requested /\ q.state = "reconciling"
      /\ q.outcome = outcome /\ q.sent = 1
  <2>1. t.slice \in Slice
    BY FieldTypes
  <2>2. "reconciling" \in SliceState /\ outcome \in BrokerOutcome /\ 0 \in Nat /\ 1 \in Nat
    BY DEF SliceState, BrokerOutcome
  <2> QED
    BY <2>1, <2>2 DEF Slice
<1> HIDE DEF q
<1>3. /\ x \in Trade /\ x.slice = q /\ x.open = t.open /\ x.pending = t.pending
      /\ x.plan = t.plan /\ x.slices = t.slices
      /\ x.requested = t.requested /\ x.satisfied = t.satisfied /\ x.epoch = t.epoch
  BY <1>1, <1>2 DEF Trade
<1>4. /\ p \in Slice /\ p.id = t.slice.id /\ p.kind = t.slice.kind
      /\ p.requested = t.slice.requested /\ p.state = state
  <2>1. state \in SliceState
    BY DEF SliceState
  <2> QED
    BY <1>2, <2>1 DEF Slice
<1>5. z = [x EXCEPT !.slice = p]
  BY <1>3 DEF Settled, Trade
<1> HIDE DEF p, z
<1>6. /\ z \in Trade /\ z.slice = p /\ z.open = x.open /\ z.pending = x.pending
  BY <1>3, <1>4, <1>5, SliceSet
<1>7. /\ c \in Trade /\ c.slice = z.slice /\ c.open = z.open /\ c.pending = z.pending
  <2>1. done \in BOOLEAN
    BY <1>6 DEF NoExposure, Trade
  <2> HIDE DEF done
  <2> QED
    BY <1>6, <2>1, SatisfiedSet
<1>8. Discharged(z) = c
  BY <1>6 DEF Discharged, Trade
<1> HIDE DEF c
<1>9. u = z \/ u = Discharged(z)
  <2>1. u \in ReconcileOpen(x) \cup ReconcileClose(x) \cup ReconcileCancel(x)
    BY <1>2, <1>3 DEF Reconcile
  <2>2. x.slice.outcome = outcome /\ outcome # "full" /\ outcome # "partial"
        /\ outcome # "none"
    BY <1>2, <1>3
  <2>3. /\ outcome = "rejected" => z = Settled(x, "rejected")
        /\ outcome = "unknown" => z = Settled(x, "ambiguous")
    BY DEF z
  <2>4. u \in ReconcileOpen(x) => u = z \/ u = Discharged(z)
    BY <2>2, <2>3, Zenon DEF ReconcileOpen, Mutation
  <2>5. u \in ReconcileClose(x) => u = z
    BY <2>2, <2>3, Zenon DEF ReconcileClose, Mutation
  <2>6. u \in ReconcileCancel(x) => u = z
    BY <2>2, <2>3, Zenon DEF ReconcileCancel, Mutation
  <2> QED
    BY <2>1, <2>4, <2>5, <2>6
<1> QED
  BY <1>3, <1>4, <1>6, <1>7, <1>8, <1>9

LEMMA RejectionIs ==
    ASSUME NEW t \in Trade, NEW u \in Then(RecordRejected(t), Reconcile)
    PROVE  /\ u \in Trade /\ u.open = t.open /\ u.pending = t.pending
           /\ u.slice.id = t.slice.id /\ u.slice.kind = t.slice.kind
           /\ u.slice.requested = t.slice.requested
           /\ u.slice.state = "rejected"
<1>1. PICK x \in RecordRejected(t) : u \in Reconcile(x)
  BY DEF Then
<1>2. AwaitsAnswer(t) /\ x = Answered(t, "rejected", 0)
  BY <1>1, MutationIs DEF RecordRejected
<1>3. t.slice.kind \in {"open", "close", "cancel"}
  BY <1>2, FieldTypes DEF AwaitsAnswer, SliceKind
<1> QED
  BY <1>1, <1>2, <1>3, RefusedIs

LEMMA AmbiguityIs ==
    ASSUME NEW t \in Trade, NEW u \in Then(RecordUnknown(t), Reconcile)
    PROVE  /\ u \in Trade /\ u.open = t.open /\ u.pending = t.pending
           /\ u.slice.id = t.slice.id /\ u.slice.kind = t.slice.kind
           /\ u.slice.requested = t.slice.requested
           /\ u.slice.state = "ambiguous"
<1>1. PICK x \in RecordUnknown(t) : u \in Reconcile(x)
  BY DEF Then
<1>2. AwaitsAnswer(t) /\ x = Answered(t, "unknown", 0)
  BY <1>1, MutationIs DEF RecordUnknown
<1>3. t.slice.kind \in {"open", "close", "cancel"}
  BY <1>2, FieldTypes DEF AwaitsAnswer, SliceKind
<1> QED
  BY <1>1, <1>2, <1>3, RefusedIs

----------------------------------------------------------------------------
(* What a record is replayed to.                                           *)

LEMMA OpenReplays ==
    ASSUME NEW t \in Trade, NEW r \in Record, NEW u \in ReplayOpen(t, r)
    PROVE  /\ u = OpenTrade(t, r.os, r.requested, r.settled)
           /\ r.settled \in 1 .. r.requested
           /\ r.os = FillStateOf(r.settled, r.requested)
           /\ t.slice.state \in Replaceable /\ ~ t.requested /\ t.pending = 0
           /\ t.open + r.requested <= TargetVolume
<1>1. /\ r.os = FillStateOf(r.settled, r.requested)
      /\ u \in Refilled(StartOpenSlice(t, r.requested), r.settled)
  BY DEF ReplayOpen
<1>2. PICK y \in Then(Then(StartOpenSlice(t, r.requested), EnterSubmitting),
                      LAMBDA v : RecordFill(v, r.settled)) : u \in Reconcile(y)
  BY <1>1 DEF Refilled, Then
<1>3. PICK x \in Then(StartOpenSlice(t, r.requested), EnterSubmitting) :
        y \in RecordFill(x, r.settled)
  BY <1>2 DEF Then
<1>4. PICK s \in StartOpenSlice(t, r.requested) : x \in EnterSubmitting(s)
  BY <1>3 DEF Then
<1>5. /\ s = OpenTrade(t, "dispatching", r.requested, 0)
      /\ t.slice.state \in Replaceable /\ ~ t.requested /\ t.pending = 0
      /\ t.open + r.requested <= TargetVolume
  BY <1>4, OpenStarts
<1>6. r.requested \in Nat
  BY DEF Record
<1>7. x = OpenTrade(t, "submitting", r.requested, 0)
  BY <1>4, <1>5, <1>6, OpenSubmits
<1>8. u \in Then(RecordFill(OpenTrade(t, "submitting", r.requested, 0), r.settled), Reconcile)
  BY <1>2, <1>3, <1>7 DEF Then
<1>9. /\ r.settled \in 1 .. r.requested
      /\ u = OpenTrade(t, FillStateOf(r.settled, r.requested), r.requested, r.settled)
  BY <1>6, <1>8, OpenFills
<1> QED
  BY <1>1, <1>5, <1>9

LEMMA CloseReplays ==
    ASSUME NEW t \in Trade, NEW r \in Record, NEW u \in ReplayClose(t, r)
    PROVE  /\ u = CloseTrade(t, r.os, r.requested, r.settled)
           /\ r.settled \in 1 .. r.requested
           /\ r.os = FillStateOf(r.settled, r.requested)
           /\ t.slice.state \in Replaceable /\ t.pending = 0
           /\ r.requested \in 1 .. t.open
<1> DEFINE Asked == IF t.requested THEN {t} ELSE RequestClose(t)
<1>1. /\ r.os = FillStateOf(r.settled, r.requested)
      /\ u \in Refilled(Then(Asked, LAMBDA s : StartClose(s, r.requested)), r.settled)
  BY DEF ReplayClose
<1> HIDE DEF Asked
<1>2. PICK y \in Then(Then(Then(Asked, LAMBDA s : StartClose(s, r.requested)),
                           EnterSubmitting),
                      LAMBDA v : RecordFill(v, r.settled)) : u \in Reconcile(y)
  BY <1>1 DEF Refilled, Then
<1>3. PICK x \in Then(Then(Asked, LAMBDA s : StartClose(s, r.requested)), EnterSubmitting) :
        y \in RecordFill(x, r.settled)
  BY <1>2 DEF Then
<1>4. PICK s \in Then(Asked, LAMBDA b : StartClose(b, r.requested)) :
        x \in EnterSubmitting(s)
  BY <1>3 DEF Then
<1>5. PICK b \in Asked : s \in StartClose(b, r.requested)
  BY <1>4 DEF Then
<1>6. /\ s = CloseTrade(t, "dispatching", r.requested, 0)
      /\ t.slice.state \in Replaceable /\ t.pending = 0
      /\ r.requested \in 1 .. t.open
  BY <1>5, CloseStarts DEF Asked
<1>7. r.requested \in Nat
  BY DEF Record
<1>8. x = CloseTrade(t, "submitting", r.requested, 0)
  BY <1>4, <1>6, <1>7, CloseSubmits
<1>9. u \in Then(RecordFill(CloseTrade(t, "submitting", r.requested, 0), r.settled), Reconcile)
  BY <1>2, <1>3, <1>8 DEF Then
<1>10. /\ r.settled \in 1 .. r.requested
       /\ u = CloseTrade(t, FillStateOf(r.settled, r.requested), r.requested, r.settled)
  BY <1>7, <1>9, CloseFills
<1> QED
  BY <1>1, <1>6, <1>10

LEMMA CancelReplays ==
    ASSUME NEW t \in Trade, NEW r \in Record, NEW id,
           NEW u \in ReplayCancel(t, id, r)
    PROVE  /\ u = CancelTrade(t, IF r.os = "cancelled" THEN "cancelled" ELSE "submitting",
                              r.requested)
           /\ t.slice.kind = "open" /\ t.slice.state \in FillState
<1> DEFINE Restored == RestoreCancelReconciliation(t, id, r.requested)
           o == CancelTrade(t, "submitting", r.requested)
<1>1. r.requested \in Nat
  BY DEF Record
<1>2. ASSUME NEW x \in Restored
      PROVE  x = o /\ t.slice.kind = "open" /\ t.slice.state \in FillState
  <2> DEFINE c == Started(t, "cancel", "submitting", r.requested)
             s == SliceAfter(t, "cancel", "submitting", r.requested, 0)
  <2>1. /\ t.slice.kind = "open" /\ t.slice.state \in FillState
        /\ x = c
    <3> HIDE DEF c
    <3>1. x \in Mutation(/\ t.slice.kind = "open"
                         /\ t.slice.state \in {"partially_filled", "filled"}
                         /\ id = t.slice.id + 1 /\ id <= MaxOperations
                         /\ r.requested # 0
                         /\ r.requested >= t.pending /\ r.requested < t.slice.requested, c)
      BY <1>2 DEF RestoreCancelReconciliation, c
    <3> QED
      BY <3>1, MutationIs DEF FillState
  <2>2. "cancel" \in SliceKind /\ "submitting" \in Traceable
    BY DEF SliceKind, Traceable
  <2>3. s \in Slice
    BY <1>1, <2>2, SliceAfterIs
  <2>4. FreshSlice(t.slice.id + 1, "cancel", "submitting", r.requested, t.epoch) = s
    BY DEF FreshSlice, SliceAfter, Sliced, OutcomeIn, SentIn
  <2>5. c = [t EXCEPT !.slice = s]
    BY <2>4 DEF Started
  <2>6. /\ o \in Trade /\ o.plan = t.plan /\ o.slices = t.slices
        /\ o.open = t.open /\ o.pending = t.pending /\ o.requested = t.requested
        /\ (o.satisfied <=> t.satisfied) /\ o.epoch = t.epoch
        /\ o.slice = s
    BY <1>1, <2>2, CancelTradeIs
  <2> HIDE DEF s, o, c
  <2>7. /\ c \in Trade /\ c.slice = s
        /\ c.plan = t.plan /\ c.slices = t.slices /\ c.open = t.open
        /\ c.pending = t.pending /\ c.requested = t.requested
        /\ c.satisfied = t.satisfied /\ c.epoch = t.epoch
    BY <2>3, <2>5, SliceSet
  <2>8. c = o
    BY <2>6, <2>7, TradesEqual
  <2> QED
    BY <2>1, <2>8
<1>3. CASE r.os = "cancelled"
  <2>1. u \in Then(Then(Restored, RecordCancelAccepted), Reconcile)
    BY <1>3 DEF ReplayCancel
  <2> HIDE DEF Restored, o
  <2>2. PICK y \in Then(Restored, RecordCancelAccepted) : u \in Reconcile(y)
    BY <2>1 DEF Then
  <2>3. PICK x \in Restored : y \in RecordCancelAccepted(x)
    BY <2>2 DEF Then
  <2>4. x = o
    BY <1>2, <2>3
  <2>5. u \in Then(RecordCancelAccepted(CancelTrade(t, "submitting", r.requested)), Reconcile)
    BY <2>2, <2>3, <2>4 DEF Then, o
  <2>6. u = CancelTrade(t, "cancelled", r.requested)
    BY <1>1, <2>5, CancelAccepted
  <2> QED
    BY <1>2, <1>3, <2>3, <2>6
<1>4. CASE r.os # "cancelled"
  <2>1. u \in Restored
    BY <1>4 DEF ReplayCancel
  <2> HIDE DEF Restored
  <2> QED
    BY <1>2, <1>4, <2>1
<1> QED
  BY <1>3, <1>4

----------------------------------------------------------------------------
(* What the memory has in common with the journal.                         *)

\* t is what the operation in its slice made of a.
Follows(t, a) ==
    LET s == t.slice
    IN  /\ s.state \in Traceable
        /\ s.state \notin FillState => s.result = 0
        /\ \/ /\ s.kind = "open" /\ s.result <= s.requested
              /\ t = OpenTrade(a, s.state, s.requested, s.result)
           \/ /\ s.kind = "close" /\ s.result <= s.requested /\ s.result <= a.open
              /\ t = CloseTrade(a, s.state, s.requested, s.result)
           \/ /\ s.kind = "cancel"
              /\ t = CancelTrade(a, s.state, s.requested)

Concluded == {"partially_filled", "filled", "rejected", "cancelled", "ambiguous"}

\* A slice and its record, and what the slice says of the volumes.
Recorded(t, r, x) ==
    LET s == t.slice
    IN  /\ s.kind \in {"open", "close", "cancel"}
        /\ s.state \in {"dispatching", "submitting"} \cup Concluded
        /\ r.kind = s.kind /\ r.requested = s.requested /\ s.requested # 0
        /\ s.state = "dispatching" =>
              /\ r.os \in {"prechecking", "submitting"}
              /\ r.js = "dispatch_intent_persisted" => x = NoOrder
        /\ s.state = "submitting" => r.os \notin FillState \cup {"cancelled"}
        /\ s.state \in Concluded => r.os = s.state
        /\ s.state \in FillState => s.result = r.settled

Shaped(t) ==
    LET s == t.slice
    IN  /\ s.state \in Traceable => \E a \in Trade : Follows(t, a)
        /\ s.kind = "open" =>
              /\ t.pending = IF s.state = "partially_filled" THEN s.requested - s.result
                                                             ELSE 0
              /\ s.state = "dispatching" => t.open + s.requested <= TargetVolume
        /\ s.kind = "close" =>
              /\ t.pending = 0
              /\ s.state = "dispatching" => s.requested <= t.open
        /\ s.kind = "cancel" =>
              /\ s.state \in {"dispatching", "rejected"} => t.pending # 0
              /\ s.state = "cancelled" => t.pending = 0

\* The OPEN that a run of CANCELs up to c is about.
CancelledBy(j, b, c) ==
    j[b].kind = "open" /\ b < c /\ \A p \in b + 1 .. c : j[p].kind = "cancel"

Memory(t, j, w, f) ==
    LET s == t.slice
    IN  /\ t \in Trade /\ s.id \in 0 .. MaxOperations
        /\ \A o \in Id : o <= s.id => Present(j, o)
        /\ \A o \in Id : o > s.id /\ Present(j, o) => f /\ s.state \in Replaceable
        /\ s.id = 0 => t = NewTrade
        /\ s.id # 0 => Recorded(t, j[s.id], w[s.id]) /\ Shaped(t)
        /\ t.open <= BookedIn(j)
        /\ ~ f => t.open = BookedIn(j)
        /\ ~ f /\ s.kind = "cancel" /\ s.state # "cancelled" =>
              \A b \in Id : CancelledBy(j, b, s.id) =>
                  t.pending = j[b].requested - j[b].settled

\* The memory is what the operations before it can be replayed to, and what the
\* last one, or the last one and the CANCEL after it, made of that.
Retraced(t, j) ==
    LET s == t.slice
    IN  s.state \in Traceable =>
          /\ s.kind \in Traded => \A a \in Replays(j)[s.id - 1] : Follows(t, a)
          /\ (s.kind = "cancel" /\ s.id > 1 /\ j[s.id - 1].kind = "open"
                 /\ j[s.id - 1].os \in FillState) =>
                \A a \in Replays(j)[s.id - 2] :
                    Follows(t, OpenTrade(a, j[s.id - 1].os, j[s.id - 1].requested,
                                         j[s.id - 1].settled))

----------------------------------------------------------------------------
(* The replay of a journal.                                                *)

\* One more operation.
ReplayedWith(j, n, states) ==
    IF j[n].rev = 0 THEN states ELSE Then(states, LAMBDA t : Replay(t, n, j[n]))

Replayed(j, f, n) == f[n] = IF n = 0 THEN {NewTrade} ELSE ReplayedWith(j, n, f[n - 1])

LEMMA ReplaysAre ==
    ASSUME NEW j
    PROVE  /\ Replays(j)[0] = {NewTrade}
           /\ \A n \in Id : Replays(j)[n] = ReplayedWith(j, n, Replays(j)[n - 1])
<1> DEFINE N == MaxOperations
           Whole(f) == f = [id \in 0 .. N |->
                              IF id = 0 THEN {NewTrade}
                              ELSE IF j[id].rev = 0 THEN f[id - 1]
                              ELSE Then(f[id - 1], LAMBDA t : Replay(t, id, j[id]))]
           Good == {n \in 0 .. N : \E f : \A m \in 0 .. n : Replayed(j, f, m)}
           c == CHOOSE f : Whole(f)
<1>1. N \in Nat
  BY PlanAssumption
<1>2. 0 \in Good
  <2> DEFINE f == [m \in {0} |-> {NewTrade}]
  <2>1. \A m \in 0 .. 0 : Replayed(j, f, m)
    BY DEF Replayed
  <2> QED
    BY <1>1, <2>1
<1>3. ASSUME NEW n \in 1 .. N, n - 1 \in Good
      PROVE  n \in Good
  <2>1. PICK f : \A m \in 0 .. n - 1 : Replayed(j, f, m)
    BY <1>3
  <2> DEFINE g == [m \in 0 .. n |-> IF m = n THEN ReplayedWith(j, n, f[n - 1]) ELSE f[m]]
  <2>2. g[n] = ReplayedWith(j, n, f[n - 1]) /\ \A m \in 0 .. n - 1 : g[m] = f[m]
    BY <1>1
  <2> HIDE DEF g
  <2>3. n - 1 \in 0 .. n - 1 /\ g[n - 1] = f[n - 1] /\ n # 0
    BY <1>1, <2>2
  <2>4. Replayed(j, g, n)
    BY <2>2, <2>3 DEF Replayed
  <2>5. ASSUME NEW m \in 0 .. n - 1
        PROVE  Replayed(j, g, m)
    <3>1. Replayed(j, f, m) /\ g[m] = f[m]
      BY <2>1, <2>2
    <3>2. m # 0 => g[m - 1] = f[m - 1]
      BY <1>1, <2>2
    <3> QED
      BY <3>1, <3>2 DEF Replayed
  <2>6. \A m \in 0 .. n : Replayed(j, g, m)
    BY <1>1, <2>4, <2>5
  <2> QED
    BY <2>6
<1>4. N \in Good
  <2>1. Good = 0 .. N
    <3>1. Good \in SUBSET (0 .. N) /\ \A m \in 1 .. N : m - 1 \in Good => m \in Good
      BY <1>3
    <3> HIDE DEF Good, N
    <3> QED
      BY <1>1, <1>2, <3>1, Upwards
  <2> QED
    BY <1>1, <2>1
<1>5. PICK f : \A m \in 0 .. N : Replayed(j, f, m)
  BY <1>4
<1>6. \E g : Whole(g)
  <2> DEFINE g == [m \in 0 .. N |-> f[m]]
             e == [id \in 0 .. N |->
                      IF id = 0 THEN {NewTrade}
                      ELSE IF j[id].rev = 0 THEN g[id - 1]
                      ELSE Then(g[id - 1], LAMBDA t : Replay(t, id, j[id]))]
  <2>1. ASSUME NEW m \in 0 .. N
        PROVE  f[m] = IF m = 0 THEN {NewTrade}
                      ELSE IF j[m].rev = 0 THEN g[m - 1]
                      ELSE Then(g[m - 1], LAMBDA t : Replay(t, m, j[m]))
    <3>1. m # 0 => g[m - 1] = f[m - 1]
      BY <1>1
    <3> HIDE DEF g
    <3> QED
      BY <1>5, <3>1, Zenon DEF Replayed, ReplayedWith
  <2>2. g = e
    BY <2>1
  <2> HIDE DEF g
  <2>3. Whole(g)
    BY <2>2
  <2> QED
    BY <2>3
<1>7. Whole(c)
  <2> HIDE DEF Whole
  <2> QED
    BY <1>6
<1>8. Replays(j) = c
  BY DEF Replays
<1> HIDE DEF c
<1>9. c[0] = {NewTrade}
  BY <1>1, <1>7
<1>10. ASSUME NEW n \in Id
       PROVE  c[n] = ReplayedWith(j, n, c[n - 1])
  <2>1. n \in 0 .. N /\ n # 0
    BY DEF Id
  <2> DEFINE e(id) == IF id = 0 THEN {NewTrade}
                      ELSE IF j[id].rev = 0 THEN c[id - 1]
                      ELSE Then(c[id - 1], LAMBDA t : Replay(t, id, j[id]))
  <2>2. c = [id \in 0 .. N |-> e(id)]
    BY <1>7
  <2>3. c[n] = e(n)
    <3> HIDE DEF e
    <3> QED
      BY <2>1, <2>2
  <2> QED
    BY <2>1, <2>3 DEF ReplayedWith
<1> QED
  BY <1>8, <1>9, <1>10

LEMMA ReplaysSame ==
    ASSUME NEW j, NEW k, NEW n \in 0 .. MaxOperations, \A o \in 1 .. n : j[o] = k[o]
    PROVE  \A m \in 0 .. n : Replays(j)[m] = Replays(k)[m]
<1> DEFINE G == {m \in 0 .. n : Replays(j)[m] = Replays(k)[m]}
<1>1. MaxOperations \in Nat /\ n \in Nat
  BY PlanAssumption
<1>2. 0 \in G
  BY <1>1, ReplaysAre
<1>3. ASSUME NEW m \in 1 .. n, m - 1 \in G
      PROVE  m \in G
  <2>1. m \in Id /\ j[m] = k[m] /\ Replays(j)[m - 1] = Replays(k)[m - 1]
    BY <1>1, <1>3 DEF Id
  <2>2. Replays(j)[m] = ReplayedWith(j, m, Replays(j)[m - 1])
        /\ Replays(k)[m] = ReplayedWith(k, m, Replays(k)[m - 1])
    BY <2>1, ReplaysAre
  <2>3. ReplayedWith(j, m, Replays(j)[m - 1]) = ReplayedWith(k, m, Replays(k)[m - 1])
    BY <2>1 DEF ReplayedWith
  <2> QED
    BY <2>2, <2>3
<1>4. G = 0 .. n
  <2>1. G \in SUBSET (0 .. n) /\ \A m \in 1 .. n : m - 1 \in G => m \in G
    BY <1>3
  <2> HIDE DEF G
  <2> QED
    BY <1>1, <1>2, <2>1, Upwards
<1> QED
  BY <1>4

\* What follows an operation, with the fields that matter.
LEMMA OpenFollows ==
    ASSUME NEW a \in Trade, NEW state \in Traceable, NEW volume \in Nat,
           NEW result \in 0 .. volume, state \notin FillState => result = 0,
           NEW t, t = OpenTrade(a, state, volume, result)
    PROVE  /\ t \in Trade /\ Follows(t, a) /\ t.open = a.open + result
           /\ state = "partially_filled" => t.pending = volume - result
           /\ state # "partially_filled" => t.pending = 0
           /\ t.slice.id = a.slice.id + 1 /\ t.slice.kind = "open"
           /\ t.slice.state = state /\ t.slice.requested = volume
           /\ t.slice.result = result
           /\ t.requested <=> a.requested
<1>1. /\ t \in Trade /\ t.open = a.open + result /\ t.requested = a.requested
      /\ t.pending = IF state = "partially_filled" THEN volume - result ELSE 0
      /\ t.slice = SliceAfter(a, "open", state, volume, result)
  BY OpenTradeIs
<1>2. /\ t.slice.id = a.slice.id + 1 /\ t.slice.kind = "open"
      /\ t.slice.state = state /\ t.slice.requested = volume
      /\ t.slice.result = result
  BY <1>1, SliceAfterIs DEF SliceKind
<1>3. Follows(t, a)
  BY <1>2 DEF Follows
<1> QED
  BY <1>1, <1>2, <1>3

LEMMA CloseFollows ==
    ASSUME NEW a \in Trade, NEW state \in Traceable, NEW volume \in Nat,
           NEW result \in 0 .. volume, state \notin FillState => result = 0,
           result <= a.open,
           NEW t, t = CloseTrade(a, state, volume, result)
    PROVE  /\ t \in Trade /\ Follows(t, a) /\ t.open = a.open - result
           /\ t.pending = a.pending
           /\ t.slice.id = a.slice.id + 1 /\ t.slice.kind = "close"
           /\ t.slice.state = state /\ t.slice.requested = volume
           /\ t.slice.result = result
           /\ t.requested
<1>1. result \in 0 .. a.open /\ result \in Nat
  BY FieldTypes
<1>2. /\ t \in Trade /\ t.open = a.open - result /\ t.requested /\ t.pending = a.pending
      /\ t.slice = SliceAfter(a, "close", state, volume, result)
  BY <1>1, CloseTradeIs
<1>3. /\ t.slice.id = a.slice.id + 1 /\ t.slice.kind = "close"
      /\ t.slice.state = state /\ t.slice.requested = volume
      /\ t.slice.result = result
  BY <1>1, <1>2, SliceAfterIs DEF SliceKind
<1>4. Follows(t, a)
  BY <1>1, <1>3 DEF Follows
<1> QED
  BY <1>2, <1>3, <1>4

LEMMA CancelFollows ==
    ASSUME NEW a \in Trade, NEW state \in Traceable \ FillState, NEW volume \in Nat,
           NEW t, t = CancelTrade(a, state, volume)
    PROVE  /\ t \in Trade /\ Follows(t, a) /\ t.open = a.open
           /\ t.pending = IF state = "cancelled" THEN 0 ELSE a.pending
           /\ t.slice.id = a.slice.id + 1 /\ t.slice.kind = "cancel"
           /\ t.slice.state = state /\ t.slice.requested = volume
           /\ t.slice.result = 0
           /\ t.requested <=> a.requested
<1>1. /\ t \in Trade /\ t.open = a.open /\ t.requested = a.requested
      /\ t.pending = IF state = "cancelled" THEN 0 ELSE a.pending
      /\ t.slice = SliceAfter(a, "cancel", state, volume, 0)
  BY CancelTradeIs
<1>2. /\ t.slice.id = a.slice.id + 1 /\ t.slice.kind = "cancel"
      /\ t.slice.state = state /\ t.slice.requested = volume
      /\ t.slice.result = 0
  BY <1>1, SliceAfterIs DEF SliceKind
<1>3. Follows(t, a)
  BY <1>2 DEF Follows
<1> QED
  BY <1>1, <1>2, <1>3

\* What was settled by the first n operations.
SettledUpTo(j, n) == [o \in Id |-> IF o <= n THEN j[o].settled ELSE 0]

BookedUpTo(j, n) ==
    OfKind(j, SettledUpTo(j, n), "open") - OfKind(j, SettledUpTo(j, n), "close")

\* What volume v of a record counts for in a position.
Net(r, v) == IF r.kind = "open" THEN v ELSE IF r.kind = "close" THEN 0 - v ELSE 0

LEMMA BookedUpToType ==
    ASSUME NEW j, NEW w, History(j, w), NEW n \in 0 .. MaxOperations
    PROVE  SettledUpTo(j, n) \in [Id -> Nat] /\ BookedUpTo(j, n) \in Int
<1>1. \A o \in Id : j[o].settled \in Nat
  BY SummedTypes
<1>2. SettledUpTo(j, n) \in [Id -> Nat]
  BY <1>1 DEF SettledUpTo
<1>3. /\ OfKind(j, SettledUpTo(j, n), "open") \in Nat
      /\ OfKind(j, SettledUpTo(j, n), "close") \in Nat
  BY <1>2, OfKindType
<1> QED
  BY <1>2, <1>3 DEF BookedUpTo

LEMMA BookedUpToNext ==
    ASSUME NEW j, NEW w, History(j, w), NEW n \in Id
    PROVE  BookedUpTo(j, n) = BookedUpTo(j, n - 1) + Net(j[n], j[n].settled)
<1> DEFINE v == SettledUpTo(j, n - 1)
           u == SettledUpTo(j, n)
<1>1. n \in 0 .. MaxOperations /\ n - 1 \in 0 .. MaxOperations /\ n - 1 < n
  BY PlanAssumption DEF Id
<1>2. v \in [Id -> Nat] /\ u \in [Id -> Nat]
  BY <1>1, BookedUpToType
<1>3. v[n] = 0 /\ u[n] = j[n].settled /\ \A o \in Id \ {n} : u[o] = v[o]
  BY <1>1 DEF SettledUpTo, Id
<1>4. j[n].settled \in Nat
  BY SummedTypes
<1> HIDE DEF v, u
<1>5. ASSUME NEW kind
      PROVE  /\ OfKind(j, u, kind) \in Nat /\ OfKind(j, v, kind) \in Nat
             /\ OfKind(j, u, kind) = OfKind(j, v, kind)
                  + (IF j[n].kind = kind THEN j[n].settled ELSE 0)
  <2>1. OfKind(j, u, kind) \in Nat /\ OfKind(j, v, kind) \in Nat
    BY <1>2, OfKindType
  <2>2. \A o \in Id \ {n} : j[o].kind = j[o].kind /\ u[o] = v[o]
    BY <1>3
  <2>3. OfKind(j, u, kind) + (IF j[n].kind = kind THEN v[n] ELSE 0)
        = OfKind(j, v, kind) + (IF j[n].kind = kind THEN u[n] ELSE 0)
    BY <1>2, <2>2, OfKindChanges
  <2> QED
    BY <1>3, <1>4, <2>1, <2>3
<1>6. /\ OfKind(j, u, "open") = OfKind(j, v, "open")
                + (IF j[n].kind = "open" THEN j[n].settled ELSE 0)
      /\ OfKind(j, u, "close") = OfKind(j, v, "close")
                + (IF j[n].kind = "close" THEN j[n].settled ELSE 0)
      /\ OfKind(j, v, "open") \in Nat /\ OfKind(j, v, "close") \in Nat
  BY <1>5
<1> QED
  BY <1>4, <1>6 DEF BookedUpTo, Net, u, v

LEMMA BookedUpToEnds ==
    ASSUME NEW j, NEW w, History(j, w)
    PROVE  BookedUpTo(j, 0) = 0 /\ BookedUpTo(j, MaxOperations) = BookedIn(j)
<1>1. MaxOperations \in Nat
  BY PlanAssumption
<1>2. /\ SettledUpTo(j, 0) \in [Id -> Nat] /\ SettledUpTo(j, MaxOperations) \in [Id -> Nat]
      /\ SettledIn(j) \in [Id -> Nat]
  BY <1>1, BookedUpToType, SummedTypes
<1>3. \A o \in Id : SettledUpTo(j, 0)[o] = 0
  BY DEF SettledUpTo, Id
<1>4. \A o \in Id : SettledUpTo(j, MaxOperations)[o] = SettledIn(j)[o]
  BY DEF SettledUpTo, SettledIn, Id
<1>5. /\ OfKind(j, SettledUpTo(j, 0), "open") = 0
      /\ OfKind(j, SettledUpTo(j, 0), "close") = 0
  BY <1>2, <1>3, OfKindZero
<1>6. ASSUME NEW kind
      PROVE  OfKind(j, SettledUpTo(j, MaxOperations), kind) = OfKind(j, SettledIn(j), kind)
  BY <1>2, <1>4, OfKindEquals
<1> QED
  BY <1>5, <1>6 DEF BookedUpTo, BookedIn

----------------------------------------------------------------------------
(* What holds of a trade that the first n operations were replayed to.     *)

Base(j, n, t) ==
    LET s == t.slice
    IN  /\ t \in Trade /\ s.id \in 0 .. n
        /\ \A o \in Id : o <= s.id => Present(j, o)
        /\ \A o \in Id : o <= n /\ Present(j, o) => o <= s.id
        /\ s.id = 0 => t = NewTrade
        /\ s.id # 0 => Recorded(t, j[s.id], NoOrder) /\ Shaped(t)
        /\ t.open = BookedUpTo(j, n)
        /\ s.kind = "cancel" /\ s.state # "cancelled" =>
              \A b \in Id : CancelledBy(j, b, s.id) =>
                  t.pending = j[b].requested - j[b].settled
        /\ Retraced(t, j)

LEMMA NewTradeIs ==
    /\ NewTrade \in Trade /\ NewTrade.slice.id = 0 /\ NewTrade.slice.kind = "none"
    /\ NewTrade.slice.state = "idle" /\ NewTrade.open = 0 /\ NewTrade.pending = 0
    /\ ~ NewTrade.requested
BY DEF NewTrade, IdleSlice, FreshSlice, Trade, Slice, SliceKind, SliceState, BrokerOutcome

\* What one record is replayed to.
LEMMA BaseOfNext ==
    ASSUME NEW j, NEW w, History(j, w), NEW n \in Id, Present(j, n),
           NEW a, Base(j, n - 1, a), \A x \in Replays(j)[n - 1] : x = a,
           NEW t \in Replay(a, n, j[n])
    PROVE  /\ Base(j, n, t)
           /\ t = IF j[n].kind = "open"
                    THEN OpenTrade(a, j[n].os, j[n].requested, j[n].settled)
                  ELSE IF j[n].kind = "close"
                    THEN CloseTrade(a, j[n].os, j[n].requested, j[n].settled)
                  ELSE CancelTrade(a, IF j[n].os = "cancelled" THEN "cancelled"
                                                               ELSE "submitting",
                                   j[n].requested)
<1> DEFINE r == j[n]
<1>1. a.slice.id + 1 = n /\ Replayable(r)
  BY DEF Replay
<1>2. /\ a \in Trade /\ a.slice.id \in Nat /\ a.open \in Nat /\ a.pending \in Nat
      /\ a.slice.requested \in Nat /\ a.slice.result \in Nat
  BY FieldTypes DEF Base
<1>3. n \in Nat /\ n # 0 /\ n \in 1 .. MaxOperations /\ n - 1 = a.slice.id
  BY <1>1, <1>2, PlanAssumption DEF Id
<1>4. /\ r \in Record /\ r.requested \in Nat /\ r.settled \in Nat /\ r.requested # 0
      /\ RecordFits(r)
  BY <1>1, SummedTypes DEF History, Replayable
<1>5. \A o \in Id : o <= n => Present(j, o)
  BY DEF History
<1>6. BookedUpTo(j, n) = a.open + Net(r, r.settled)
  BY BookedUpToNext DEF Base
<1>7. \A x \in Replays(j)[n - 1] : x = a
  OBVIOUS
<1>8. CASE r.kind = "open"
  <2>1. t \in ReplayOpen(a, r)
    BY <1>8 DEF Replay
  <2>2. /\ t = OpenTrade(a, r.os, r.requested, r.settled)
        /\ r.settled \in 1 .. r.requested
        /\ r.os = FillStateOf(r.settled, r.requested)
    BY <1>2, <1>4, <2>1, OpenReplays
  <2>3. /\ r.os \in FillState /\ r.os \in Traceable /\ r.settled \in 0 .. r.requested
        /\ r.os \in Concluded /\ r.os # "dispatching" /\ r.os # "submitting"
    BY <2>2 DEF FillStateOf, FillState, Traceable, Concluded
  <2>4. /\ t \in Trade /\ Follows(t, a) /\ t.open = a.open + r.settled
        /\ r.os = "partially_filled" => t.pending = r.requested - r.settled
        /\ r.os # "partially_filled" => t.pending = 0
        /\ t.slice.id = a.slice.id + 1 /\ t.slice.kind = "open"
        /\ t.slice.state = r.os /\ t.slice.requested = r.requested
        /\ t.slice.result = r.settled
    <3> DEFINE state == r.os
               volume == r.requested
               result == r.settled
    <3>1. /\ a \in Trade /\ state \in Traceable /\ volume \in Nat
          /\ result \in 0 .. volume /\ (state \notin FillState => result = 0)
          /\ t = OpenTrade(a, state, volume, result)
      BY <1>2, <1>4, <2>2, <2>3
    <3> HIDE DEF state, volume, result
    <3>2. t \in Trade /\ Follows(t, a)
      BY ONLY <3>1, OpenFollows
    <3>6. t.open = a.open + result
      BY ONLY <3>1 DEF OpenTrade, Made
    <3>3. /\ state = "partially_filled" => t.pending = volume - result
          /\ state # "partially_filled" => t.pending = 0
      BY ONLY <3>1, OpenFollows
    <3>4. t.slice.id = a.slice.id + 1 /\ t.slice.kind = "open"
      BY ONLY <3>1, OpenFollows
    <3>5. t.slice.state = state /\ t.slice.requested = volume /\ t.slice.result = result
      BY ONLY <3>1, OpenFollows
    <3> QED
      BY <3>2, <3>3, <3>4, <3>5, <3>6 DEF state, volume, result
  <2>5. Recorded(t, r, NoOrder)
    BY <1>4, <1>8, <2>3, <2>4 DEF Recorded
  <2>6. Shaped(t)
    BY <1>2, <2>3, <2>4 DEF Shaped
  <2>7. Retraced(t, j)
    BY <1>1, <1>3, <1>7, <2>4 DEF Retraced, Traded
  <2>8. t.open = BookedUpTo(j, n)
    BY <1>6, <1>8, <2>4 DEF Net
  <2>9. Base(j, n, t)
    BY <1>1, <1>3, <1>5, <2>4, <2>5, <2>6, <2>7, <2>8 DEF Base
  <2> QED
    BY <1>8, <2>2, <2>9
<1>9. CASE r.kind = "close"
  <2>1. t \in ReplayClose(a, r)
    BY <1>9 DEF Replay
  <2>2. /\ t = CloseTrade(a, r.os, r.requested, r.settled)
        /\ r.settled \in 1 .. r.requested /\ a.pending = 0
        /\ r.os = FillStateOf(r.settled, r.requested)
        /\ r.requested \in 1 .. a.open
    BY <1>2, <1>4, <2>1, CloseReplays
  <2>3. /\ r.os \in FillState /\ r.os \in Traceable /\ r.settled \in 0 .. r.requested
        /\ r.os \in Concluded /\ r.os # "dispatching" /\ r.os # "submitting"
        /\ r.settled <= a.open
    BY <1>2, <1>4, <2>2 DEF FillStateOf, FillState, Traceable, Concluded
  <2>4. /\ t \in Trade /\ Follows(t, a) /\ t.open = a.open - r.settled
        /\ t.pending = a.pending
        /\ t.slice.id = a.slice.id + 1 /\ t.slice.kind = "close"
        /\ t.slice.state = r.os /\ t.slice.requested = r.requested
        /\ t.slice.result = r.settled
    <3>1. /\ a \in Trade /\ r.os \in Traceable /\ r.requested \in Nat
          /\ r.settled \in 0 .. r.requested /\ (r.os \notin FillState => r.settled = 0)
          /\ r.settled <= a.open
          /\ t = CloseTrade(a, r.os, r.requested, r.settled)
      BY <1>2, <1>4, <2>2, <2>3
    <3> QED
      BY ONLY <3>1, CloseFollows
  <2>5. Recorded(t, r, NoOrder)
    BY <1>4, <1>9, <2>3, <2>4 DEF Recorded
  <2>6. Shaped(t)
    BY <1>2, <2>2, <2>3, <2>4 DEF Shaped
  <2>7. Retraced(t, j)
    BY <1>1, <1>3, <1>7, <2>4 DEF Retraced, Traded
  <2>8. t.open = BookedUpTo(j, n)
    BY <1>2, <1>4, <1>6, <1>9, <2>4 DEF Net
  <2>9. Base(j, n, t)
    BY <1>1, <1>3, <1>5, <2>4, <2>5, <2>6, <2>7, <2>8 DEF Base
  <2> QED
    BY <1>9, <2>2, <2>9
<1>10. CASE r.kind = "cancel"
  <2> DEFINE state == IF r.os = "cancelled" THEN "cancelled" ELSE "submitting"
  <2>1. t \in ReplayCancel(a, n, r)
    BY <1>10 DEF Replay
  <2>2. /\ t = CancelTrade(a, state, r.requested)
        /\ a.slice.kind = "open" /\ a.slice.state \in FillState
    BY <1>2, <1>4, <2>1, CancelReplays
  <2>3. r.os \in {"reconciling", "cancelled"}
    BY <1>1, <1>10 DEF Replayable
  <2>4. /\ state \in Traceable \ FillState /\ state # "dispatching" /\ state # "rejected"
        /\ state = "submitting" => r.os = "reconciling"
        /\ state # "submitting" => r.os = "cancelled" /\ state = "cancelled"
        /\ r.os \notin FillState
    BY <2>3 DEF FillState, Traceable
  <2> HIDE DEF state
  <2>5. /\ t \in Trade /\ Follows(t, a) /\ t.open = a.open
        /\ t.pending = IF state = "cancelled" THEN 0 ELSE a.pending
        /\ t.slice.id = a.slice.id + 1 /\ t.slice.kind = "cancel"
        /\ t.slice.state = state /\ t.slice.requested = r.requested
        /\ t.slice.result = 0
    <3>1. /\ a \in Trade /\ state \in Traceable \ FillState /\ r.requested \in Nat
          /\ t = CancelTrade(a, state, r.requested)
      BY <1>2, <1>4, <2>2, <2>4
    <3> QED
      BY ONLY <3>1, CancelFollows
  <2>6. Recorded(t, r, NoOrder)
    BY <1>4, <1>10, <2>4, <2>5 DEF Recorded, FillState, Concluded
  <2>7. Shaped(t)
    BY <1>2, <2>4, <2>5 DEF Shaped
  <2>8. a.slice.id # 0
    BY <2>2, NewTradeIs DEF Base
  <2> DEFINE b == n - 1
  <2>9. b \in Id /\ b = a.slice.id /\ b < n
    <3>1. b = a.slice.id
      BY <1>3
    <3> QED
      BY ONLY <1>2, <1>3, <2>8, <3>1, PlanAssumption DEF Id
  <2>10. /\ j[b].kind = "open" /\ j[b].requested = a.slice.requested
         /\ j[b].os = a.slice.state /\ j[b].settled = a.slice.result
    BY <2>2, <2>8, <2>9 DEF Base, Recorded, FillState, Concluded
  <2>11. t.open = BookedUpTo(j, n)
    BY <1>2, <1>6, <1>10, <2>5 DEF Net
  <2>12. RecordFits(j[b])
    BY <2>9 DEF History
  <2>13. a.pending = j[b].requested - j[b].settled
    <3>1. a.pending = IF a.slice.state = "partially_filled"
                        THEN a.slice.requested - a.slice.result ELSE 0
      BY <2>2, <2>8 DEF Base, Shaped
    <3>2. a.slice.state = "filled" => a.slice.requested = a.slice.result
      BY <2>2, <2>10, <2>12 DEF RecordFits, FillStateOf, FillState
    <3> QED
      BY <1>2, <2>2, <2>10, <3>1, <3>2 DEF FillState
  <2>14. ASSUME NEW o \in Id, CancelledBy(j, o, t.slice.id), state # "cancelled"
         PROVE  t.pending = j[o].requested - j[o].settled
    <3>1. o = b
      <4>1. o < n /\ \A p \in o + 1 .. n : j[p].kind = "cancel"
        BY <1>1, <2>5, <2>14 DEF CancelledBy
      <4>2. o \in Nat /\ b \in Nat
        BY <2>9 DEF Id
      <4>3. o >= b
        <5> SUFFICES ASSUME o < b
                     PROVE  FALSE
          BY <4>2
        <5>1. b \in o + 1 .. n
          BY <1>3, <2>9, <4>2
        <5> QED
          BY <2>10, <4>1, <5>1
      <4> QED
        BY <1>3, <4>1, <4>2, <4>3
    <3> QED
      BY <2>5, <2>13, <2>14, <3>1
  <2>15. Retraced(t, j)
    <3>1. t.slice.id - 1 = b /\ t.slice.id - 2 = b - 1
      BY <1>1, <1>3, <2>5
    <3>2. ASSUME NEW x \in Replays(j)[b - 1]
          PROVE  Follows(t, OpenTrade(x, j[b].os, j[b].requested, j[b].settled))
      <4>1. Follows(a, x)
        BY <2>2, <2>9 DEF Base, Retraced, Traded, Traceable, FillState
      <4>2. a = OpenTrade(x, j[b].os, j[b].requested, j[b].settled)
        BY <2>2, <2>10, <4>1 DEF Follows
      <4> QED
        BY <2>5, <4>2
    <3> QED
      BY <2>5, <3>1, <3>2 DEF Retraced, Traded
  <2>16. Base(j, n, t)
    BY <1>1, <1>3, <1>5, <2>5, <2>6, <2>7, <2>11, <2>14, <2>15 DEF Base
  <2> QED
    BY <1>10, <2>2, <2>16 DEF state
<1> QED
  BY <1>1, <1>8, <1>9, <1>10 DEF Replayable

\* Every trade that a journal is replayed to, and there is at most one.
LEMMA BasesAre ==
    ASSUME NEW j, NEW w, History(j, w)
    PROVE  \A n \in 0 .. MaxOperations : \A t, u \in Replays(j)[n] : Base(j, n, t) /\ u = t
<1> DEFINE G == {n \in 0 .. MaxOperations :
                   \A t, u \in Replays(j)[n] : Base(j, n, t) /\ u = t}
<1>1. MaxOperations \in Nat
  BY PlanAssumption
<1>2. 0 \in G
  <2>1. Replays(j)[0] = {NewTrade}
    BY ReplaysAre
  <2>2. Base(j, 0, NewTrade)
    <3>1. Retraced(NewTrade, j)
      BY NewTradeIs DEF Retraced, Traceable
    <3>2. \A o \in Id : ~ (o <= 0)
      BY DEF Id
    <3> QED
      BY <3>1, <3>2, NewTradeIs, BookedUpToEnds DEF Base
  <2> QED
    BY <1>1, <2>1, <2>2
<1>3. ASSUME NEW n \in 1 .. MaxOperations, n - 1 \in G
      PROVE  n \in G
  <2>1. n \in Id /\ n \in 0 .. MaxOperations /\ n \in Nat /\ n - 1 \in 0 .. MaxOperations
    BY <1>1, <1>3 DEF Id
  <2>2. \A t, u \in Replays(j)[n - 1] : Base(j, n - 1, t) /\ u = t
    BY <1>3
  <2>3. Replays(j)[n] = ReplayedWith(j, n, Replays(j)[n - 1])
    BY <2>1, ReplaysAre
  <2>4. CASE j[n].rev = 0
    <3>1. Replays(j)[n] = Replays(j)[n - 1]
      BY <2>3, <2>4 DEF ReplayedWith
    <3>2. ~ Present(j, n)
      BY <2>4 DEF Present
    <3>3. BookedUpTo(j, n) = BookedUpTo(j, n - 1)
      <4>1. BookedUpTo(j, n) = BookedUpTo(j, n - 1) + Net(j[n], j[n].settled)
        BY <2>1, BookedUpToNext
      <4>2. j[n] = Absent
        BY <2>1, <2>4 DEF History, RecordFits
      <4>3. Net(j[n], j[n].settled) = 0
        BY <4>2 DEF Net, Absent
      <4>4. BookedUpTo(j, n - 1) \in Int
        BY <2>1, BookedUpToType
      <4> QED
        BY <4>1, <4>3, <4>4
    <3>4. ASSUME NEW t \in Replays(j)[n - 1]
          PROVE  Base(j, n, t)
      <4>1. Base(j, n - 1, t)
        BY <2>2
      <4>2. t.slice.id \in 0 .. n
        BY <2>1, <4>1 DEF Base
      <4>3. ASSUME NEW o \in Id, o <= n, Present(j, o)
            PROVE  o <= t.slice.id
        <5>1. o # n /\ o \in Nat
          BY <3>2, <4>3 DEF Id
        <5>2. o <= n - 1
          BY <2>1, <4>3, <5>1
        <5> QED
          BY <4>1, <4>3, <5>2 DEF Base
      <4> QED
        BY <3>3, <4>1, <4>2, <4>3 DEF Base
    <3> QED
      BY <2>1, <2>2, <3>1, <3>4
  <2>5. CASE j[n].rev # 0
    <3>1. Present(j, n)
      BY <2>5 DEF Present
    <3>2. \A t \in Replays(j)[n] : \E a \in Replays(j)[n - 1] : t \in Replay(a, n, j[n])
      BY <2>3, <2>5 DEF ReplayedWith, Then
    <3>3. SUFFICES ASSUME NEW t \in Replays(j)[n], NEW u \in Replays(j)[n]
                   PROVE  Base(j, n, t) /\ u = t
      BY <2>1
    <3>4. PICK a \in Replays(j)[n - 1] : t \in Replay(a, n, j[n])
      BY <3>2
    <3>5. u \in Replay(a, n, j[n])
      BY <2>2, <3>2
    <3>6. Base(j, n - 1, a) /\ \A x \in Replays(j)[n - 1] : x = a
      BY <2>2
    <3> DEFINE c == IF j[n].kind = "open"
                      THEN OpenTrade(a, j[n].os, j[n].requested, j[n].settled)
                    ELSE IF j[n].kind = "close"
                      THEN CloseTrade(a, j[n].os, j[n].requested, j[n].settled)
                    ELSE CancelTrade(a, IF j[n].os = "cancelled" THEN "cancelled"
                                                                 ELSE "submitting",
                                     j[n].requested)
    <3>7. Base(j, n, t) /\ t = c
      BY <2>1, <3>1, <3>4, <3>6, BaseOfNext
    <3>8. u = c
      BY <2>1, <3>1, <3>5, <3>6, BaseOfNext
    <3> QED
      BY <3>7, <3>8
  <2> QED
    BY <2>4, <2>5
<1>4. G = 0 .. MaxOperations
  <2>1. G \in SUBSET (0 .. MaxOperations)
        /\ \A n \in 1 .. MaxOperations : n - 1 \in G => n \in G
    BY <1>3
  <2> HIDE DEF G
  <2> QED
    BY <1>1, <1>2, <2>1, Upwards
<1> QED
  BY <1>4

\* Nothing is replayed after the last operation.
LEMMA ReplaysStop ==
    ASSUME NEW j, NEW n \in 0 .. MaxOperations, \A o \in Id : o > n => ~ Present(j, o)
    PROVE  Replays(j)[MaxOperations] = Replays(j)[n]
<1> DEFINE G == {m \in 0 .. MaxOperations : m >= n => Replays(j)[m] = Replays(j)[n]}
<1>1. MaxOperations \in Nat /\ n \in Nat
  BY PlanAssumption
<1>2. 0 \in G
  BY <1>1
<1>3. ASSUME NEW m \in 1 .. MaxOperations, m - 1 \in G
      PROVE  m \in G
  <2>1. m \in Id /\ m \in 0 .. MaxOperations /\ m \in Nat
    BY <1>1 DEF Id
  <2>2. CASE m <= n
    BY <1>1, <2>1, <2>2
  <2>3. CASE m > n
    <3>1. j[m].rev = 0
      BY <2>1, <2>3 DEF Present
    <3>2. Replays(j)[m] = Replays(j)[m - 1]
      BY <2>1, <3>1, ReplaysAre DEF ReplayedWith
    <3>3. m - 1 >= n
      BY <1>1, <2>1, <2>3
    <3> QED
      BY <1>3, <2>1, <3>2, <3>3
  <2> QED
    BY <1>1, <2>1, <2>2, <2>3
<1>4. G = 0 .. MaxOperations
  <2>1. G \in SUBSET (0 .. MaxOperations)
        /\ \A m \in 1 .. MaxOperations : m - 1 \in G => m \in G
    BY <1>3
  <2> HIDE DEF G
  <2> QED
    BY <1>1, <1>2, <2>1, Upwards
<1>5. MaxOperations \in G /\ MaxOperations >= n
  BY <1>1, <1>4
<1> QED
  BY <1>5

\* What a restart makes of the journal is a memory of it.
LEMMA RecoveredIsMemory ==
    ASSUME NEW j, NEW w, History(j, w), NEW f \in BOOLEAN,
           NEW t \in Replays(j)[MaxOperations]
    PROVE  Memory(t, j, w, f) /\ Retraced(t, j)
<1>1. MaxOperations \in Nat /\ MaxOperations \in 0 .. MaxOperations
  BY PlanAssumption
<1>2. Base(j, MaxOperations, t)
  BY <1>1, BasesAre
<1>3. t.open = BookedIn(j) /\ t.open \in Nat
  <2>1. t.open = BookedIn(j)
    BY <1>2, BookedUpToEnds DEF Base
  <2>2. t \in Trade
    BY <1>2 DEF Base
  <2> QED
    BY <2>1, <2>2, FieldTypes
<1>4. \A o \in Id : ~ (o > t.slice.id /\ Present(j, o))
  <2>1. t.slice.id \in Nat
    BY <1>1, <1>2 DEF Base
  <2>2. \A o \in Id : o \in Nat /\ o <= MaxOperations
    BY <1>1 DEF Id
  <2> QED
    BY <1>2, <2>1, <2>2 DEF Base
<1>5. t.slice.id # 0 => Recorded(t, j[t.slice.id], w[t.slice.id])
  <2> SUFFICES ASSUME t.slice.id # 0
               PROVE  Recorded(t, j[t.slice.id], w[t.slice.id])
    OBVIOUS
  <2>1. PICK n \in Id : n = t.slice.id /\ Present(j, n)
    <3>1. t.slice.id \in Id
      BY <1>1, <1>2 DEF Base, Id
    <3> QED
      BY <1>2, <3>1 DEF Base, Id
  <2>2. PICK a \in Replays(j)[n - 1] : t \in Replay(a, n, j[n])
    <3>1. t \in Replays(j)[n]
      <4>1. n \in 0 .. MaxOperations
        BY DEF Id
      <4>2. \A o \in Id : o > n => ~ Present(j, o)
        BY <1>4, <2>1
      <4> QED
        BY <4>1, <4>2, ReplaysStop
    <3>2. Replays(j)[n] = ReplayedWith(j, n, Replays(j)[n - 1])
      BY ReplaysAre
    <3> QED
      BY <2>1, <3>1, <3>2 DEF ReplayedWith, Then, Present
  <2>3. Replayable(j[n])
    BY <2>2 DEF Replay
  <2>4. Recorded(t, j[n], NoOrder)
    BY <1>2, <2>1 DEF Base
  <2>5. t.slice.state # "dispatching"
    BY <2>3, <2>4 DEF Recorded, Replayable, FillState
  <2> QED
    BY <2>1, <2>4, <2>5 DEF Recorded
<1> QED
  BY <1>1, <1>2, <1>3, <1>4, <1>5 DEF Base, Memory

\* What a restart makes of the journal is what is in memory.
LEMMA MemoryIsRecovered ==
    ASSUME NEW j, NEW w, History(j, w), NEW t, Memory(t, j, w, FALSE), Retraced(t, j),
           NEW u \in Replays(j)[MaxOperations]
    PROVE  u = t
<1>1. MaxOperations \in Nat /\ MaxOperations \in 0 .. MaxOperations
  BY PlanAssumption
<1>2. Base(j, MaxOperations, u)
  BY <1>1, BasesAre
<1> DEFINE c == t.slice.id
<1>3. u.slice.id = c /\ c \in Nat
  <2>1. u.slice.id \in 0 .. MaxOperations /\ c \in 0 .. MaxOperations
    BY <1>2 DEF Base, Memory
  <2>2. ~ (u.slice.id > c)
    <3> SUFFICES ASSUME u.slice.id > c
                 PROVE  FALSE
      OBVIOUS
    <3>1. u.slice.id \in Id
      BY <1>1, <2>1 DEF Id
    <3>2. Present(j, u.slice.id)
      BY <1>1, <1>2, <2>1, <3>1 DEF Base
    <3> QED
      BY <3>1, <3>2 DEF Memory
  <2>3. ~ (c > u.slice.id)
    <3> SUFFICES ASSUME c > u.slice.id
                 PROVE  FALSE
      OBVIOUS
    <3>1. c \in Id
      BY <1>1, <2>1 DEF Id
    <3>2. Present(j, c)
      BY <1>1, <2>1, <3>1 DEF Memory
    <3>3. c <= u.slice.id
      BY <1>1, <1>2, <2>1, <3>1, <3>2 DEF Base
    <3> QED
      BY <1>1, <2>1, <3>3
  <2> QED
    BY <1>1, <2>1, <2>2, <2>3
<1>4. CASE c = 0
  BY <1>2, <1>3, <1>4 DEF Base, Memory
<1>5. CASE c # 0
  <2> DEFINE r == j[c]
  <2>1. c \in Id /\ c \in 0 .. MaxOperations
    BY <1>1, <1>5 DEF Memory, Id
  <2>2. Present(j, c) /\ Recorded(t, r, w[c])
    BY <1>3, <1>5, <2>1 DEF Memory
  <2>3. \A o \in Id : o > c => ~ Present(j, o)
    BY DEF Memory
  <2> HIDE DEF c
  <2>4. u \in Replays(j)[c]
    BY <2>1, <2>3, ReplaysStop
  <2>5. PICK a \in Replays(j)[c - 1] : u \in Replay(a, c, r)
    <3>1. Replays(j)[c] = ReplayedWith(j, c, Replays(j)[c - 1])
      BY <2>1, ReplaysAre
    <3> QED
      BY <2>2, <2>4, <3>1 DEF ReplayedWith, Then, Present
  <2>6. Base(j, c - 1, a) /\ \A x \in Replays(j)[c - 1] : x = a
    <3>1. c - 1 \in 0 .. MaxOperations
      BY <1>1, <2>1 DEF Id
    <3> QED
      BY <2>5, <3>1, BasesAre
  <2>7. /\ r.kind = "open" => u = OpenTrade(a, r.os, r.requested, r.settled)
        /\ r.kind = "close" => u = CloseTrade(a, r.os, r.requested, r.settled)
        /\ r.kind = "cancel" =>
              u = CancelTrade(a, IF r.os = "cancelled" THEN "cancelled" ELSE "submitting",
                              r.requested)
    BY <2>1, <2>2, <2>5, <2>6, BaseOfNext
  <2>8. Replayable(r) /\ a.slice.id + 1 = c
    BY <2>5 DEF Replay
  <2>9. r.os \in FillState => t.slice.state = r.os /\ t.slice.result = r.settled
    BY <2>2 DEF Recorded, FillState
  <2>10. FillState \subseteq Traceable
    BY DEF FillState, Traceable
  <2>11. CASE r.kind \in {"open", "close"}
    <3>1. r.os \in FillState /\ t.slice.kind = r.kind /\ t.slice.requested = r.requested
      BY <2>2, <2>8, <2>11 DEF Replayable, Recorded
    <3>2. Follows(t, a)
      BY <2>5, <2>9, <2>10, <2>11, <3>1 DEF Retraced, Traded, c
    <3> QED
      BY <2>7, <2>9, <2>11, <3>1, <3>2 DEF Follows
  <2>12. CASE r.kind = "cancel"
    <3>1. u \in ReplayCancel(a, c, r)
      BY <2>5, <2>12 DEF Replay
    <3>2. a \in Trade /\ r \in Record
      BY <2>1, <2>6 DEF Base, History
    <3>3. a.slice.kind = "open" /\ a.slice.state \in FillState
      BY <3>1, <3>2, CancelReplays
    <3>4. a.slice.id # 0 /\ a.slice.id \in 0 .. c - 1
      BY <2>6, <3>3, NewTradeIs DEF Base
    <3> DEFINE b == c - 1
    <3>5. b \in Id /\ b = a.slice.id /\ b - 1 = c - 2 /\ b \in 0 .. MaxOperations
          /\ b - 1 \in 0 .. MaxOperations
      <4>1. c \in 1 .. MaxOperations
        BY <2>1 DEF Id
      <4> QED
        BY <1>1, <2>8, <3>4, <4>1 DEF Id
    <3>6. Present(j, b) /\ Recorded(a, j[b], NoOrder)
      BY <1>1, <2>6, <3>4, <3>5 DEF Base
    <3>7. j[b].kind = "open" /\ j[b].os \in FillState
      BY <3>3, <3>6 DEF Recorded, Concluded, FillState
    <3> HIDE DEF b
    <3>8. PICK x \in Replays(j)[b - 1] : a \in Replay(x, b, j[b])
      <4>1. Replays(j)[b] = ReplayedWith(j, b, Replays(j)[b - 1])
        BY <3>5, ReplaysAre
      <4>2. a \in Replays(j)[b]
        BY <2>5 DEF b
      <4> QED
        BY <3>6, <4>1, <4>2 DEF ReplayedWith, Then, Present
    <3>9. Base(j, b - 1, x) /\ \A y \in Replays(j)[b - 1] : y = x
      BY <3>5, <3>8, BasesAre
    <3>10. a = OpenTrade(x, j[b].os, j[b].requested, j[b].settled)
      BY <3>5, <3>6, <3>7, <3>8, <3>9, BaseOfNext
    <3>11. r.os \in {"reconciling", "cancelled"}
      BY <2>8, <2>12 DEF Replayable
    <3>12. t.slice.state = IF r.os = "cancelled" THEN "cancelled" ELSE "submitting"
      BY <2>2, <3>11 DEF Recorded, Concluded
    <3>13. t.slice.kind = "cancel" /\ t.slice.requested = r.requested
           /\ t.slice.state \in Traceable
      BY <2>2, <2>12, <3>12 DEF Recorded, Traceable
    <3>14. Follows(t, a)
      <4>1. x \in Replays(j)[c - 2]
        BY <3>5, <3>8
      <4>2. c > 1
        BY <1>3, <3>5 DEF b, Id
      <4>3. Follows(t, OpenTrade(x, j[c - 1].os, j[c - 1].requested, j[c - 1].settled))
        BY <3>7, <3>13, <4>1, <4>2 DEF Retraced, b, c
      <4> QED
        BY <3>10, <4>3 DEF b
    <3> QED
      BY <2>7, <2>12, <3>12, <3>13, <3>14 DEF Follows
  <2> QED
    BY <2>8, <2>11, <2>12 DEF Replayable
<1> QED
  BY <1>4, <1>5

----------------------------------------------------------------------------
(* Records, and what becomes of a history when one of them changes.        *)

LEMMA RecordIs ==
    ASSUME NEW r \in Record
    PROVE  /\ r.os \in OperationState /\ r.js \in JournalState /\ r.rev \in Nat
           /\ r.src \in Nat /\ r.tok \in Nat /\ r.kind \in OperationKind
           /\ r.desc \in Descriptor /\ r.requested \in Nat /\ r.settled \in Nat
           /\ r.result \in Reply \cup {"none"} /\ r.rev + 1 \in Nat /\ r.rev + 1 # 0
BY DEF Record

LEMMA JournalAdvances ==
    ASSUME NEW r \in Record, NEW next \in JournalState, NEW token \in Nat,
           NEW s, s = JournalAdvanced(r, next, token)
    PROVE  /\ s \in Record /\ s.rev # 0 /\ s.js = next /\ s.os = r.os
           /\ s.kind = r.kind /\ s.desc = r.desc
           /\ s.requested = r.requested /\ s.settled = r.settled
<1> DEFINE tok == IF next = "dispatching" THEN token ELSE r.tok
           x == [r EXCEPT !.js = next, !.tok = tok]
<1>1. tok \in Nat
  BY RecordIs
<1>2. s = Revised(x)
  BY DEF JournalAdvanced
<1> HIDE DEF tok
<1>3. /\ x \in Record /\ x.js = next /\ x.os = r.os /\ x.kind = r.kind
      /\ x.desc = r.desc /\ x.requested = r.requested /\ x.settled = r.settled
  BY <1>1 DEF Record
<1> HIDE DEF x
<1>4. s = [x EXCEPT !.rev = x.rev + 1]
  BY <1>2, <1>3 DEF Revised, Record
<1>5. x.rev + 1 \in Nat /\ x.rev + 1 # 0
  BY <1>3, RecordIs
<1>6. /\ s \in Record /\ s.rev # 0 /\ s.js = x.js /\ s.os = x.os /\ s.kind = x.kind
      /\ s.desc = x.desc /\ s.requested = x.requested /\ s.settled = x.settled
  BY <1>3, <1>4, <1>5 DEF Record
<1> QED
  BY <1>3, <1>6

LEMMA OperationAdvances ==
    ASSUME NEW r \in Record, NEW next \in OperationState, NEW volume \in Nat,
           NEW s, s = OperationAdvanced(r, next, volume)
    PROVE  /\ s \in Record /\ s.rev # 0 /\ s.js = r.js /\ s.os = next
           /\ s.kind = r.kind /\ s.desc = r.desc
           /\ s.requested = r.requested
           /\ volume # 0 => s.settled = volume
           /\ volume = 0 /\ next \notin FillState => s.settled = 0
<1> DEFINE amount == IF volume # 0 THEN volume
                     ELSE IF next \in FillState THEN r.settled ELSE 0
           x == [r EXCEPT !.os = next, !.settled = amount]
<1>1. /\ amount \in Nat
      /\ volume # 0 => amount = volume
      /\ volume = 0 /\ next \notin FillState => amount = 0
  BY RecordIs
<1>2. s = Revised(x)
  BY DEF OperationAdvanced
<1> HIDE DEF amount
<1>3. /\ x \in Record /\ x.js = r.js /\ x.os = next /\ x.kind = r.kind
      /\ x.desc = r.desc /\ x.requested = r.requested /\ x.settled = amount
  BY <1>1 DEF Record
<1> HIDE DEF x
<1>4. s = [x EXCEPT !.rev = x.rev + 1]
  BY <1>2, <1>3 DEF Revised, Record
<1>5. x.rev + 1 \in Nat /\ x.rev + 1 # 0
  BY <1>3, RecordIs
<1>6. /\ s \in Record /\ s.rev # 0 /\ s.js = x.js /\ s.os = x.os /\ s.kind = x.kind
      /\ s.desc = x.desc /\ s.requested = x.requested /\ s.settled = x.settled
  BY <1>3, <1>4, <1>5 DEF Record
<1> QED
  BY <1>1, <1>3, <1>6

LEMMA ResultPersists ==
    ASSUME NEW r \in Record, NEW reply \in Reply,
           NEW s, s = ResultPersisted(r, reply)
    PROVE  /\ s \in Record /\ s.rev # 0 /\ s.js = "result_persisted" /\ s.os = r.os
           /\ s.kind = r.kind /\ s.desc = r.desc
           /\ s.requested = r.requested /\ s.settled = r.settled
<1> DEFINE x == [r EXCEPT !.js = "result_persisted", !.result = reply, !.src = r.rev + 1]
<1>1. s = Revised(x)
  BY DEF ResultPersisted
<1>2. "result_persisted" \in JournalState /\ r.rev + 1 \in Nat
  BY RecordIs DEF JournalState
<1>3. /\ x \in Record /\ x.js = "result_persisted" /\ x.os = r.os /\ x.kind = r.kind
      /\ x.desc = r.desc /\ x.requested = r.requested /\ x.settled = r.settled
  BY <1>2 DEF Record
<1> HIDE DEF x
<1>4. s = [x EXCEPT !.rev = x.rev + 1]
  BY <1>1, <1>3 DEF Revised, Record
<1>5. x.rev + 1 \in Nat /\ x.rev + 1 # 0
  BY <1>3, RecordIs
<1>6. /\ s \in Record /\ s.rev # 0 /\ s.js = x.js /\ s.os = x.os /\ s.kind = x.kind
      /\ s.desc = x.desc /\ s.requested = x.requested /\ s.settled = x.settled
  BY <1>3, <1>4, <1>5 DEF Record
<1> QED
  BY <1>3, <1>6

LEMMA RejectionPersists ==
    ASSUME NEW r \in Record,
           NEW s, s = RejectionPersisted(r, "rejected")
    PROVE  /\ s \in Record /\ s.rev # 0 /\ s.js = "result_persisted" /\ s.os = "rejected"
           /\ s.kind = r.kind /\ s.requested = r.requested /\ s.settled = r.settled
<1> DEFINE x == ResultPersisted(r, "rejected")
<1>1. "rejected" \in Reply /\ "rejected" \in OperationState
  BY DEF Reply, OperationState
<1>2. /\ x \in Record /\ x.rev # 0 /\ x.js = "result_persisted" /\ x.os = r.os
      /\ x.kind = r.kind /\ x.requested = r.requested /\ x.settled = r.settled
  BY <1>1, ResultPersists
<1>3. s = [x EXCEPT !.os = "rejected"]
  BY DEF RejectionPersisted
<1> HIDE DEF x
<1>4. /\ s \in Record /\ s.rev = x.rev /\ s.js = x.js /\ s.os = "rejected"
      /\ s.kind = x.kind /\ s.requested = x.requested /\ s.settled = x.settled
  BY <1>1, <1>2, <1>3 DEF Record
<1> QED
  BY <1>2, <1>4

\* The five records that an operation is prepared with.
LEMMA CreatedIs ==
    ASSUME NEW kind \in OperationKind
    PROVE  LET r == Created(kind)
           IN  /\ r \in Record /\ r.rev # 0 /\ r.kind = kind /\ r.settled = 0
               /\ r.os = "queued"
<1> DEFINE a == Absent
<1>1. /\ "queued" \in OperationState /\ "created" \in JournalState
      /\ "unspecified" \in OperationKind /\ "none" \in Descriptor
  BY DEF OperationState, JournalState, OperationKind, Descriptor
<1>2. /\ a \in Record /\ a.settled = 0 /\ a.os = "queued"
  BY <1>1 DEF Absent, Record
<1>3. Created(kind) = [a EXCEPT !.rev = 1, !.kind = kind]
  BY DEF Created
<1> DEFINE r == Created(kind)
<1> HIDE DEF a
<1>4. 1 \in Nat /\ 1 # 0
  OBVIOUS
<1>5. /\ r \in Record /\ r.rev = 1 /\ r.kind = kind /\ r.settled = a.settled
      /\ r.os = a.os
  BY <1>2, <1>3, <1>4 DEF Record
<1> HIDE DEF r
<1>6. r \in Record /\ r.rev # 0 /\ r.kind = kind /\ r.settled = 0 /\ r.os = "queued"
  BY <1>2, <1>4, <1>5
<1> QED
  BY <1>6 DEF r

LEMMA DescribedIs ==
    ASSUME NEW r \in Record, NEW desc \in Descriptor, NEW requested \in Nat,
           NEW s, s = Described(r, desc, requested)
    PROVE  /\ s \in Record /\ s.rev # 0 /\ s.js = r.js /\ s.os = r.os
           /\ s.kind = r.kind /\ s.requested = requested /\ s.settled = r.settled
<1> DEFINE x == [r EXCEPT !.desc = desc, !.requested = requested]
<1>1. s = Revised(x)
  BY DEF Described
<1>2. /\ x \in Record /\ x.js = r.js /\ x.os = r.os /\ x.kind = r.kind
      /\ x.requested = requested /\ x.settled = r.settled
  BY DEF Record
<1> HIDE DEF x
<1>3. s = [x EXCEPT !.rev = x.rev + 1]
  BY <1>1, <1>2 DEF Revised, Record
<1>4. x.rev + 1 \in Nat /\ x.rev + 1 # 0
  BY <1>2, RecordIs
<1>5. /\ s \in Record /\ s.rev # 0 /\ s.js = x.js /\ s.os = x.os /\ s.kind = x.kind
      /\ s.requested = x.requested /\ s.settled = x.settled
  BY <1>2, <1>3, <1>4 DEF Record
<1> QED
  BY <1>2, <1>5

LEMMA PreparationIs ==
    ASSUME NEW kind \in {"open", "close", "cancel"}, NEW desc \in Descriptor,
           NEW requested \in Nat, NEW k \in 1 .. 5,
           NEW r, r = Preparation(kind, desc, requested)[k]
    PROVE  /\ r \in Record /\ r.rev # 0 /\ r.kind = kind /\ r.settled = 0
           /\ r.os \in {"queued", "prechecking"}
           /\ k = 5 => /\ r.os = "prechecking" /\ r.js = "dispatch_intent_persisted"
                       /\ r.requested = requested
<1> DEFINE p1 == Created(kind)
           p2 == OperationAdvanced(p1, "prechecking", 0)
           p3 == JournalAdvanced(p2, "prechecked", 0)
           p4 == JournalAdvanced(p3, "dispatch_intent_persisted", 0)
           p5 == Described(p4, desc, requested)
<1>1. /\ "prechecking" \in OperationState /\ "prechecking" \notin FillState
      /\ "prechecked" \in JournalState /\ "dispatch_intent_persisted" \in JournalState
      /\ kind \in OperationKind /\ 0 \in Nat
  BY DEF OperationState, JournalState, FillState, OperationKind
<1>2. r = <<p1, p2, p3, p4, p5>>[k]
  BY DEF Preparation
<1>3. /\ p1 \in Record /\ p1.rev # 0 /\ p1.kind = kind /\ p1.settled = 0
      /\ p1.os = "queued"
  BY <1>1, CreatedIs
<1>4. /\ p2 \in Record /\ p2.rev # 0 /\ p2.kind = kind /\ p2.settled = 0
      /\ p2.os = "prechecking"
  <2> HIDE DEF p1
  <2> QED
    BY <1>1, <1>3, OperationAdvances DEF p2
<1>5. /\ p3 \in Record /\ p3.rev # 0 /\ p3.kind = kind /\ p3.settled = 0
      /\ p3.os = "prechecking"
  <2>1. /\ p2 \in Record /\ "prechecked" \in JournalState /\ 0 \in Nat
        /\ p3 = JournalAdvanced(p2, "prechecked", 0)
    BY <1>1, <1>4 DEF p3
  <2> HIDE DEF p1, p2, p3
  <2>2. p3 \in Record /\ p3.rev # 0 /\ p3.os = p2.os
    BY ONLY <2>1, JournalAdvances
  <2>3. p3.kind = p2.kind /\ p3.settled = p2.settled
    BY ONLY <2>1, JournalAdvances
  <2> QED
    BY <1>4, <2>2, <2>3
<1>6. /\ p4 \in Record /\ p4.rev # 0 /\ p4.kind = kind /\ p4.settled = 0
      /\ p4.os = "prechecking" /\ p4.js = "dispatch_intent_persisted"
  <2>1. p4 = JournalAdvanced(p3, "dispatch_intent_persisted", 0)
    BY DEF p4
  <2>2. p3 \in Record /\ "dispatch_intent_persisted" \in JournalState /\ 0 \in Nat
    BY <1>1, <1>5
  <2> HIDE DEF p1, p2, p3, p4
  <2>3. /\ p4 \in Record /\ p4.rev # 0 /\ p4.js = "dispatch_intent_persisted"
        /\ p4.os = p3.os /\ p4.kind = p3.kind /\ p4.settled = p3.settled
    BY ONLY <2>1, <2>2, JournalAdvances
  <2> QED
    BY <1>5, <2>3
<1>7. /\ p5 \in Record /\ p5.rev # 0 /\ p5.kind = kind /\ p5.settled = 0
      /\ p5.os = "prechecking" /\ p5.js = "dispatch_intent_persisted"
      /\ p5.requested = requested
  <2>1. p5 = Described(p4, desc, requested)
    BY DEF p5
  <2> HIDE DEF p1, p2, p3, p4, p5
  <2> QED
    BY <1>6, <2>1, DescribedIs
<1> HIDE DEF p1, p2, p3, p4, p5
<1>8. r = IF k = 1 THEN p1 ELSE IF k = 2 THEN p2 ELSE IF k = 3 THEN p3
          ELSE IF k = 4 THEN p4 ELSE p5
  BY <1>2
<1> QED
  BY <1>3, <1>4, <1>5, <1>6, <1>7, <1>8

----------------------------------------------------------------------------
(* What one operation's record and order contribute to the sums.           *)

\* What may still be filled of an order.
WorkingOf(r, x) == IF x.live THEN r.requested - x.filled ELSE 0

Part(kind, r, v) == IF r.kind = kind THEN v ELSE 0

LEMMA SumsAreNumbers ==
    ASSUME NEW j, NEW w, History(j, w)
    PROVE  /\ PositionIn(j, w) \in Int /\ BookedIn(j) \in Int
           /\ BuyingIn(j, w) \in Nat /\ SellingIn(j, w) \in Nat
<1>1. /\ SettledIn(j) \in [Id -> Nat] /\ FilledIn(w) \in [Id -> Nat]
      /\ WorkingIn(j, w) \in [Id -> Nat]
  BY SummedTypes, WorkingType
<1>2. \A kind : /\ OfKind(j, SettledIn(j), kind) \in Nat
                /\ OfKind(j, FilledIn(w), kind) \in Nat
                /\ OfKind(j, WorkingIn(j, w), kind) \in Nat
  BY <1>1, OfKindType
<1> QED
  BY <1>2 DEF PositionIn, BookedIn, BuyingIn, SellingIn

\* The change of one operation's record and order.
Changes(j, w, c, r, x, k, y) ==
    /\ History(j, w) /\ c \in Id /\ r \in Record /\ x \in Order /\ OrderFits(r, x)
    /\ k = [j EXCEPT ![c] = r] /\ y = [w EXCEPT ![c] = x]

\* What it does to the sums.
Shifted(j, w, c, r, x, k, y) ==
    /\ BookedIn(k) = BookedIn(j) + Net(r, r.settled) - Net(j[c], j[c].settled)
    /\ PositionIn(k, y) = PositionIn(j, w) + Net(r, x.filled) - Net(j[c], w[c].filled)
    /\ BuyingIn(k, y) + Part("open", j[c], WorkingOf(j[c], w[c]))
       = BuyingIn(j, w) + Part("open", r, WorkingOf(r, x))
    /\ SellingIn(k, y) + Part("close", j[c], WorkingOf(j[c], w[c]))
       = SellingIn(j, w) + Part("close", r, WorkingOf(r, x))

LEMMA SumsShift ==
    ASSUME NEW j, NEW w, NEW c, NEW r, NEW x, NEW k, NEW y, Changes(j, w, c, r, x, k, y)
    PROVE  Shifted(j, w, c, r, x, k, y)
<1>0. /\ History(j, w) /\ c \in Id /\ r \in Record /\ x \in Order /\ OrderFits(r, x)
      /\ k = [j EXCEPT ![c] = r] /\ y = [w EXCEPT ![c] = x]
  BY DEF Changes
<1>1. /\ j \in [Id -> Record] /\ w \in [Id -> Order]
  BY <1>0 DEF History
<1>2. /\ k \in [Id -> Record] /\ y \in [Id -> Order] /\ k[c] = r /\ y[c] = x
      /\ \A o \in Id \ {c} : k[o] = j[o] /\ y[o] = w[o]
  BY <1>0, <1>1
<1>3. /\ r.settled \in Nat /\ r.requested \in Nat /\ x.filled \in Nat /\ x.live \in BOOLEAN
  BY <1>0 DEF Record, Order
<1>4. /\ j[c].settled \in Nat /\ j[c].requested \in Nat /\ w[c].filled \in Nat
      /\ w[c].live \in BOOLEAN
  BY <1>0, SummedTypes
<1>5. /\ SettledIn(j) \in [Id -> Nat] /\ FilledIn(w) \in [Id -> Nat]
      /\ WorkingIn(j, w) \in [Id -> Nat]
  BY <1>0, SummedTypes, WorkingType
<1>6. x.live => r.requested - x.filled \in Nat
  BY <1>0, <1>3 DEF OrderFits
<1>7. SettledIn(k) \in [Id -> Nat] /\ FilledIn(y) \in [Id -> Nat]
  <2>1. \A o \in Id : k[o].settled \in Nat /\ y[o].filled \in Nat
    BY <1>2 DEF Record, Order
  <2> QED
    BY <2>1 DEF SettledIn, FilledIn
<1>8. WorkingIn(k, y) \in [Id -> Nat]
  <2>1. \A o \in Id : (IF y[o].live THEN k[o].requested - y[o].filled ELSE 0) \in Nat
    <3>1. \A o \in Id \ {c} :
            (IF w[o].live THEN j[o].requested - w[o].filled ELSE 0) \in Nat
      BY <1>5 DEF WorkingIn
    <3> QED
      BY <1>2, <1>6, <3>1
  <2> QED
    BY <2>1 DEF WorkingIn
<1>9. /\ SettledIn(j)[c] = j[c].settled /\ SettledIn(k)[c] = r.settled
      /\ FilledIn(w)[c] = w[c].filled /\ FilledIn(y)[c] = x.filled
      /\ WorkingIn(j, w)[c] = WorkingOf(j[c], w[c])
      /\ WorkingIn(k, y)[c] = WorkingOf(r, x)
  BY <1>0, <1>2 DEF SettledIn, FilledIn, WorkingIn, WorkingOf
<1>10. \A o \in Id \ {c} : /\ SettledIn(k)[o] = SettledIn(j)[o]
                           /\ FilledIn(y)[o] = FilledIn(w)[o]
                           /\ WorkingIn(k, y)[o] = WorkingIn(j, w)[o]
  BY <1>2 DEF SettledIn, FilledIn, WorkingIn
<1> DEFINE s1 == SettledIn(j)
           s2 == SettledIn(k)
           f1 == FilledIn(w)
           f2 == FilledIn(y)
           w1 == WorkingIn(j, w)
           w2 == WorkingIn(k, y)
<1>11. \A o \in Id \ {c} : k[o].kind = j[o].kind
  BY <1>2
<1>12. ASSUME NEW kind
       PROVE  /\ OfKind(j, s1, kind) \in Nat /\ OfKind(k, s2, kind) \in Nat
              /\ OfKind(j, f1, kind) \in Nat /\ OfKind(k, f2, kind) \in Nat
              /\ OfKind(k, s2, kind) + Part(kind, j[c], j[c].settled)
                 = OfKind(j, s1, kind) + Part(kind, r, r.settled)
              /\ OfKind(k, f2, kind) + Part(kind, j[c], w[c].filled)
                 = OfKind(j, f1, kind) + Part(kind, r, x.filled)
              /\ OfKind(k, w2, kind) + Part(kind, j[c], WorkingOf(j[c], w[c]))
                 = OfKind(j, w1, kind) + Part(kind, r, WorkingOf(r, x))
  <2>1. /\ s1 \in [Id -> Nat] /\ s2 \in [Id -> Nat] /\ f1 \in [Id -> Nat]
        /\ f2 \in [Id -> Nat] /\ w1 \in [Id -> Nat] /\ w2 \in [Id -> Nat]
        /\ s1[c] = j[c].settled /\ s2[c] = r.settled
        /\ f1[c] = w[c].filled /\ f2[c] = x.filled
        /\ w1[c] = WorkingOf(j[c], w[c]) /\ w2[c] = WorkingOf(r, x)
    BY <1>5, <1>7, <1>8, <1>9
  <2>2. /\ \A o \in Id \ {c} : k[o].kind = j[o].kind /\ s2[o] = s1[o]
        /\ \A o \in Id \ {c} : k[o].kind = j[o].kind /\ f2[o] = f1[o]
        /\ \A o \in Id \ {c} : k[o].kind = j[o].kind /\ w2[o] = w1[o]
    BY <1>10, <1>11
  <2> HIDE DEF s1, s2, f1, f2, w1, w2
  <2>3. /\ OfKind(j, s1, kind) \in Nat /\ OfKind(k, s2, kind) \in Nat
        /\ OfKind(j, f1, kind) \in Nat /\ OfKind(k, f2, kind) \in Nat
    BY <2>1, OfKindType
  <2>4. OfKind(k, s2, kind) + (IF j[c].kind = kind THEN s1[c] ELSE 0)
        = OfKind(j, s1, kind) + (IF k[c].kind = kind THEN s2[c] ELSE 0)
    <3>1. /\ s1 \in [Id -> Nat] /\ s2 \in [Id -> Nat] /\ c \in Id
          /\ \A o \in Id \ {c} : k[o].kind = j[o].kind /\ s2[o] = s1[o]
      BY <1>0, <2>1, <2>2
    <3> QED
      BY ONLY <3>1, OfKindChanges
  <2>5. OfKind(k, f2, kind) + (IF j[c].kind = kind THEN f1[c] ELSE 0)
        = OfKind(j, f1, kind) + (IF k[c].kind = kind THEN f2[c] ELSE 0)
    <3>1. /\ f1 \in [Id -> Nat] /\ f2 \in [Id -> Nat] /\ c \in Id
          /\ \A o \in Id \ {c} : k[o].kind = j[o].kind /\ f2[o] = f1[o]
      BY <1>0, <2>1, <2>2
    <3> QED
      BY ONLY <3>1, OfKindChanges
  <2>6. OfKind(k, w2, kind) + (IF j[c].kind = kind THEN w1[c] ELSE 0)
        = OfKind(j, w1, kind) + (IF k[c].kind = kind THEN w2[c] ELSE 0)
    <3>1. /\ w1 \in [Id -> Nat] /\ w2 \in [Id -> Nat] /\ c \in Id
          /\ \A o \in Id \ {c} : k[o].kind = j[o].kind /\ w2[o] = w1[o]
      BY <1>0, <2>1, <2>2
    <3> QED
      BY ONLY <3>1, OfKindChanges
  <2> QED
    BY <1>2, <2>1, <2>3, <2>4, <2>5, <2>6 DEF Part
<1>13. ASSUME NEW q \in Record, NEW v \in Nat
       PROVE  /\ Net(q, v) = Part("open", q, v) - Part("close", q, v)
              /\ Part("open", q, v) \in Nat /\ Part("close", q, v) \in Nat
  BY DEF Net, Part
<1>14. j[c] \in Record
  BY <1>0, <1>1
<1>15. ASSUME NEW n1 \in Nat, NEW n2 \in Nat, NEW m1 \in Nat, NEW m2 \in Nat,
              NEW v1 \in Nat, NEW v2 \in Nat,
              n2 + Part("open", j[c], v1) = n1 + Part("open", r, v2),
              m2 + Part("close", j[c], v1) = m1 + Part("close", r, v2)
       PROVE  n2 - m2 = (n1 - m1) + Net(r, v2) - Net(j[c], v1)
  <2> DEFINE a1 == Part("open", j[c], v1)
             a2 == Part("open", r, v2)
             b1 == Part("close", j[c], v1)
             b2 == Part("close", r, v2)
             e1 == Net(j[c], v1)
             e2 == Net(r, v2)
  <2>1. /\ e2 = a2 - b2 /\ a2 \in Nat /\ b2 \in Nat
        /\ e1 = a1 - b1 /\ a1 \in Nat /\ b1 \in Nat
    BY <1>0, <1>13, <1>14
  <2>2. n2 + a1 = n1 + a2 /\ m2 + b1 = m1 + b2
    BY <1>15
  <2> HIDE DEF a1, a2, b1, b2, e1, e2
  <2>3. n2 - m2 = (n1 - m1) + e2 - e1
    BY <2>1, <2>2
  <2> QED
    BY <2>3 DEF e1, e2
<1> HIDE DEF s1, s2, f1, f2, w1, w2
<1>16. OfKind(k, s2, "open") - OfKind(k, s2, "close")
       = (OfKind(j, s1, "open") - OfKind(j, s1, "close"))
           + Net(r, r.settled) - Net(j[c], j[c].settled)
  <2> DEFINE n1 == OfKind(j, s1, "open")
             n2 == OfKind(k, s2, "open")
             m1 == OfKind(j, s1, "close")
             m2 == OfKind(k, s2, "close")
             v1 == j[c].settled
             v2 == r.settled
  <2>1. /\ n1 \in Nat /\ n2 \in Nat /\ m1 \in Nat /\ m2 \in Nat
        /\ v1 \in Nat /\ v2 \in Nat
        /\ n2 + Part("open", j[c], v1) = n1 + Part("open", r, v2)
        /\ m2 + Part("close", j[c], v1) = m1 + Part("close", r, v2)
    BY <1>3, <1>4, <1>12
  <2> HIDE DEF n1, n2, m1, m2, v1, v2
  <2>2. n2 - m2 = (n1 - m1) + Net(r, v2) - Net(j[c], v1)
    BY ONLY <2>1, <1>15
  <2> QED
    BY <2>2 DEF n1, n2, m1, m2, v1, v2
<1>17. OfKind(k, f2, "open") - OfKind(k, f2, "close")
       = (OfKind(j, f1, "open") - OfKind(j, f1, "close"))
           + Net(r, x.filled) - Net(j[c], w[c].filled)
  <2> DEFINE n1 == OfKind(j, f1, "open")
             n2 == OfKind(k, f2, "open")
             m1 == OfKind(j, f1, "close")
             m2 == OfKind(k, f2, "close")
             v1 == w[c].filled
             v2 == x.filled
  <2>1. /\ n1 \in Nat /\ n2 \in Nat /\ m1 \in Nat /\ m2 \in Nat
        /\ v1 \in Nat /\ v2 \in Nat
        /\ n2 + Part("open", j[c], v1) = n1 + Part("open", r, v2)
        /\ m2 + Part("close", j[c], v1) = m1 + Part("close", r, v2)
    BY <1>3, <1>4, <1>12
  <2> HIDE DEF n1, n2, m1, m2, v1, v2
  <2>2. n2 - m2 = (n1 - m1) + Net(r, v2) - Net(j[c], v1)
    BY ONLY <2>1, <1>15
  <2> QED
    BY <2>2 DEF n1, n2, m1, m2, v1, v2
<1>18. /\ OfKind(k, w2, "open") + Part("open", j[c], WorkingOf(j[c], w[c]))
          = OfKind(j, w1, "open") + Part("open", r, WorkingOf(r, x))
       /\ OfKind(k, w2, "close") + Part("close", j[c], WorkingOf(j[c], w[c]))
          = OfKind(j, w1, "close") + Part("close", r, WorkingOf(r, x))
  BY <1>12
<1> QED
  BY <1>16, <1>17, <1>18
     DEF Shifted, BookedIn, PositionIn, BuyingIn, SellingIn, s1, s2, f1, f2, w1, w2

\* When the journal knows all the fills, it knows what is held.
LEMMA QuietIsBooked ==
    ASSUME NEW j, NEW w, History(j, w),
           \A o \in Id : j[o].kind \in Traded => w[o].filled = j[o].settled
    PROVE  PositionIn(j, w) = BookedIn(j)
<1>1. SettledIn(j) \in [Id -> Nat] /\ FilledIn(w) \in [Id -> Nat]
  BY SummedTypes
<1>2. \A o \in Id : j[o].kind \in Traded => FilledIn(w)[o] = SettledIn(j)[o]
  BY DEF FilledIn, SettledIn
<1>3. ASSUME NEW kind \in Traded
      PROVE  OfKind(j, FilledIn(w), kind) = OfKind(j, SettledIn(j), kind)
  <2>1. \A o \in Id : /\ j[o].kind = kind <=> j[o].kind = kind
                      /\ j[o].kind = kind => FilledIn(w)[o] = SettledIn(j)[o]
    BY <1>2
  <2> QED
    BY <1>1, <2>1, OfKindEquals
<1> QED
  BY <1>3 DEF PositionIn, BookedIn, Traded

LEMMA NothingBuys ==
    ASSUME NEW j, NEW w, History(j, w), \A o \in Id : j[o].kind = "open" => ~ w[o].live
    PROVE  BuyingIn(j, w) = 0
<1>1. WorkingIn(j, w) \in [Id -> Nat]
  BY WorkingType
<1>2. \A o \in Id : j[o].kind = "open" => WorkingIn(j, w)[o] = 0
  BY DEF WorkingIn
<1> QED
  BY <1>1, <1>2, OfKindZero DEF BuyingIn

LEMMA NothingSells ==
    ASSUME NEW j, NEW w, History(j, w), \A o \in Id : j[o].kind = "close" => ~ w[o].live
    PROVE  SellingIn(j, w) = 0
<1>1. WorkingIn(j, w) \in [Id -> Nat]
  BY WorkingType
<1>2. \A o \in Id : j[o].kind = "close" => WorkingIn(j, w)[o] = 0
  BY DEF WorkingIn
<1> QED
  BY <1>1, <1>2, OfKindZero DEF SellingIn

\* What has to be shown of one changed operation for the history to remain one.
LEMMA HistoryChanges ==
    ASSUME NEW j, NEW w, History(j, w), NEW c \in Id, NEW r \in Record, NEW x \in Order,
           NEW k, k = [j EXCEPT ![c] = r], NEW y, y = [w EXCEPT ![c] = x],
           r.rev # 0, RecordFits(r), OrderFits(r, x),
           r.kind \in Traded /\ r.os = "rejected" => Quiet(r, x),
           \A p \in Id \ {c} : r.kind \in Traded /\ Ends(k, p, c) => Quiet(r, x),
           \A o \in Id \ {c} : j[o].kind \in Traded /\ Ends(k, c, o) => Quiet(j[o], w[o]),
           \A o \in Id : o < c => Present(j, o)
    PROVE  History(k, y)
<1>1. /\ j \in [Id -> Record] /\ w \in [Id -> Order]
      /\ \A o, p \in Id : p <= o /\ Present(j, o) => Present(j, p)
      /\ \A o \in Id : RecordFits(j[o]) /\ OrderFits(j[o], w[o])
      /\ \A o \in Id : j[o].kind \in Traded =>
            /\ j[o].os = "rejected" => Quiet(j[o], w[o])
            /\ \A p \in Id : Ends(j, p, o) => Quiet(j[o], w[o])
  BY DEF History
<1>2. /\ k \in [Id -> Record] /\ y \in [Id -> Order] /\ k[c] = r /\ y[c] = x
      /\ \A o \in Id \ {c} : k[o] = j[o] /\ y[o] = w[o]
  BY <1>1
<1>3. Id \subseteq Nat
  BY IdsAreFinite
<1>4. ASSUME NEW o \in Id, NEW p \in Id, p <= o, Present(k, o)
      PROVE  Present(k, p)
  <2>1. CASE p = c
    BY <1>2, <2>1 DEF Present
  <2>2. CASE p # c /\ o = c
    <3>1. p < c
      BY <1>3, <1>4, <2>2
    <3> QED
      BY <1>2, <2>2, <3>1 DEF Present
  <2>3. CASE p # c /\ o # c
    BY <1>1, <1>2, <1>4, <2>3 DEF Present
  <2> QED
    BY <2>1, <2>2, <2>3
<1>5. \A o \in Id : RecordFits(k[o]) /\ OrderFits(k[o], y[o])
  BY <1>1, <1>2
<1>6. ASSUME NEW o \in Id, k[o].kind \in Traded
      PROVE  /\ k[o].os = "rejected" => Quiet(k[o], y[o])
             /\ \A p \in Id : Ends(k, p, o) => Quiet(k[o], y[o])
  <2>1. CASE o = c
    <3>1. ~ Ends(k, c, c)
      BY <1>3 DEF Ends
    <3> QED
      BY <1>2, <1>6, <2>1, <3>1
  <2>2. CASE o # c
    <3>1. k[o] = j[o] /\ y[o] = w[o]
      BY <1>2, <2>2
    <3>2. ASSUME NEW p \in Id, Ends(k, p, o)
          PROVE  Quiet(j[o], w[o])
      <4>1. CASE p = c
        BY <1>6, <2>2, <3>1, <3>2, <4>1
      <4>2. CASE p # c
        <5>1. Ends(j, p, o)
          BY <1>2, <2>2, <3>2, <4>2 DEF Ends, Present
        <5> QED
          BY <1>1, <1>6, <3>1, <5>1
      <4> QED
        BY <4>1, <4>2
    <3> QED
      BY <1>1, <1>6, <3>1, <3>2
  <2> QED
    BY <2>1, <2>2
<1> QED
  BY <1>2, <1>4, <1>5, <1>6 DEF History

----------------------------------------------------------------------------
(* What a mutator makes of a trade that follows another.                   *)

\* What stays of a trade while its operation goes on.
SameOperation(u, t) ==
    /\ u.slice.id = t.slice.id /\ u.slice.kind = t.slice.kind
    /\ u.slice.requested = t.slice.requested

\* The three forms of a trade that follows another, by its kind.
LEMMA FollowsIs ==
    ASSUME NEW t \in Trade, NEW a \in Trade, Follows(t, a)
    PROVE  LET s == t.slice
           IN  /\ s.state \in Traceable /\ s.requested \in Nat /\ s.result \in Nat
               /\ s.kind \in {"open", "close", "cancel"}
               /\ s.state \notin FillState => s.result = 0
               /\ s.kind = "open" => /\ s.result \in 0 .. s.requested
                                     /\ t = OpenTrade(a, s.state, s.requested, s.result)
               /\ s.kind = "close" => /\ s.result \in 0 .. s.requested /\ s.result <= a.open
                                      /\ t = CloseTrade(a, s.state, s.requested, s.result)
               /\ s.kind = "cancel" => t = CancelTrade(a, s.state, s.requested)
               /\ a.open \in Nat /\ a.pending \in Nat /\ t.open \in Nat /\ t.pending \in Nat
BY FieldTypes DEF Follows

LEMMA SubmitFollows ==
    ASSUME NEW t \in Trade, NEW a \in Trade, Follows(t, a), NEW u \in EnterSubmitting(t)
    PROVE  /\ u \in Trade /\ Follows(u, a) /\ SameOperation(u, t)
           /\ t.slice.state = "dispatching" /\ u.slice.state = "submitting"
           /\ u.open = t.open /\ u.pending = t.pending
<1> DEFINE s == t.slice
           v == s.requested
<1>1. s.state = "dispatching"
  BY DEF EnterSubmitting, Mutation
<1>2. /\ v \in Nat /\ s.result = 0 /\ a.open \in Nat /\ a.pending \in Nat
      /\ s.kind \in {"open", "close", "cancel"}
      /\ s.kind = "open" => t = OpenTrade(a, "dispatching", v, 0)
      /\ s.kind = "close" => t = CloseTrade(a, "dispatching", v, 0)
      /\ s.kind = "cancel" => t = CancelTrade(a, "dispatching", v)
  BY <1>1, FollowsIs DEF FillState
<1>3. /\ "dispatching" \in Traceable \ FillState /\ "submitting" \in Traceable \ FillState
      /\ 0 \in 0 .. v /\ 0 <= a.open
  BY <1>2 DEF Traceable, FillState
<1> HIDE DEF s, v
<1>4. CASE s.kind = "open"
  <2>1. t = OpenTrade(a, "dispatching", v, 0)
    BY <1>2, <1>4
  <2>2. u = OpenTrade(a, "submitting", v, 0)
    BY <1>2, <2>1, OpenSubmits
  <2>3. /\ u \in Trade /\ Follows(u, a) /\ u.open = a.open + 0 /\ u.pending = 0
        /\ u.slice.id = a.slice.id + 1 /\ u.slice.kind = "open"
        /\ u.slice.state = "submitting" /\ u.slice.requested = v
    <3>1. /\ a \in Trade /\ "submitting" \in Traceable /\ v \in Nat /\ 0 \in 0 .. v
          /\ "submitting" \notin FillState /\ "submitting" # "partially_filled"
      BY <1>2, <1>3
    <3> QED
      BY ONLY <2>2, <3>1, OpenFollows
  <2>4. /\ t.open = a.open + 0 /\ t.pending = 0 /\ t.slice.id = a.slice.id + 1
    BY ONLY <2>1 DEF OpenTrade, Made, SliceAfter, Sliced
  <2> QED
    BY <1>1, <1>4, <2>3, <2>4 DEF s, v, SameOperation
<1>5. CASE s.kind = "close"
  <2>1. t = CloseTrade(a, "dispatching", v, 0)
    BY <1>2, <1>5
  <2>2. u = CloseTrade(a, "submitting", v, 0)
    BY <1>2, <2>1, CloseSubmits
  <2>3. /\ u \in Trade /\ Follows(u, a) /\ u.open = a.open - 0 /\ u.pending = a.pending
        /\ u.slice.id = a.slice.id + 1 /\ u.slice.kind = "close"
        /\ u.slice.state = "submitting" /\ u.slice.requested = v
    BY <1>2, <1>3, <2>2, CloseFollows
  <2>4. /\ t.open = a.open - 0 /\ t.pending = a.pending /\ t.slice.id = a.slice.id + 1
    BY <1>2, <1>3, <2>1, CloseFollows
  <2> QED
    BY <1>1, <1>5, <2>3, <2>4 DEF s, v, SameOperation
<1>6. CASE s.kind = "cancel"
  <2>1. t = CancelTrade(a, "dispatching", v)
    BY <1>2, <1>6
  <2>2. u = CancelTrade(a, "submitting", v)
    BY <1>2, <2>1, CancelSubmits
  <2>3. /\ u \in Trade /\ Follows(u, a) /\ u.open = a.open /\ u.pending = a.pending
        /\ u.slice.id = a.slice.id + 1 /\ u.slice.kind = "cancel"
        /\ u.slice.state = "submitting" /\ u.slice.requested = v
    <3>1. /\ a \in Trade /\ "submitting" \in Traceable \ FillState /\ v \in Nat
          /\ "submitting" # "cancelled"
      BY <1>2, <1>3
    <3> QED
      BY ONLY <2>2, <3>1, CancelFollows
  <2>4. /\ t.open = a.open /\ t.pending = a.pending /\ t.slice.id = a.slice.id + 1
    <3>1. /\ a \in Trade /\ "dispatching" \in Traceable \ FillState /\ v \in Nat
          /\ "dispatching" # "cancelled"
      BY <1>2, <1>3
    <3> QED
      BY ONLY <2>1, <3>1, CancelFollows
  <2> QED
    BY <1>1, <1>6, <2>3, <2>4 DEF s, v, SameOperation
<1> QED
  BY <1>2, <1>4, <1>5, <1>6 DEF s

\* How much an OPEN or a CLOSE adds to the open volume.
Signed(kind, volume) == IF kind = "open" THEN volume ELSE 0 - volume

\* A trade whose OPEN or CLOSE is filled up to a volume.
FilledUpTo(u, t, volume) ==
    /\ u \in Trade /\ SameOperation(u, t)
    /\ volume \in 1 .. t.slice.requested
    /\ u.slice.state = FillStateOf(volume, t.slice.requested)
    /\ u.slice.result = volume
    /\ u.open = t.open + Signed(t.slice.kind, volume - t.slice.result)
    /\ t.slice.kind = "open" =>
          u.pending = IF u.slice.state = "partially_filled" THEN u.slice.requested - volume
                                                            ELSE 0
    /\ t.slice.kind = "close" => u.pending = t.pending

LEMMA FillStates ==
    ASSUME NEW volume, NEW requested
    PROVE  FillStateOf(volume, requested) \in FillState
           /\ FillStateOf(volume, requested) \in Traceable
BY DEF FillStateOf, FillState, Traceable

\* The common end of the three ways to be filled.
LEMMA OpenIsFilled ==
    ASSUME NEW t \in Trade, NEW a \in Trade, Follows(t, a), t.slice.kind = "open",
           NEW volume \in 1 .. t.slice.requested,
           NEW u, u = OpenTrade(a, FillStateOf(volume, t.slice.requested),
                                t.slice.requested, volume)
    PROVE  Follows(u, a) /\ FilledUpTo(u, t, volume)
<1> DEFINE s == t.slice
           v == s.requested
           state == FillStateOf(volume, v)
<1>1. /\ v \in Nat /\ s.result \in 0 .. v /\ a.open \in Nat /\ s.state \in Traceable
      /\ s.state \notin FillState => s.result = 0
      /\ t = OpenTrade(a, s.state, v, s.result)
  BY FollowsIs
<1>2. state \in FillState /\ state \in Traceable
  BY FillStates
<1>3. volume \in 0 .. v /\ volume \in Nat /\ s.result \in Nat
  BY <1>1
<1> HIDE DEF s, v, state
<1>4. u = OpenTrade(a, state, v, volume) /\ s.kind = "open"
  BY DEF s, v, state
<1>5. /\ u \in Trade /\ Follows(u, a) /\ u.open = a.open + volume
      /\ state = "partially_filled" => u.pending = v - volume
      /\ state # "partially_filled" => u.pending = 0
      /\ u.slice.id = a.slice.id + 1 /\ u.slice.kind = "open"
      /\ u.slice.state = state /\ u.slice.requested = v /\ u.slice.result = volume
  <2>1. /\ a \in Trade /\ state \in Traceable /\ v \in Nat /\ volume \in 0 .. v
        /\ (state \notin FillState => volume = 0) /\ u = OpenTrade(a, state, v, volume)
    BY <1>1, <1>2, <1>3, <1>4
  <2>2. /\ u \in Trade /\ Follows(u, a) /\ u.open = a.open + volume
        /\ u.slice.id = a.slice.id + 1 /\ u.slice.kind = "open"
    BY ONLY <2>1, OpenFollows
  <2>3. /\ u.slice.state = state /\ u.slice.requested = v /\ u.slice.result = volume
    BY ONLY <2>1, OpenFollows
  <2>4. state = "partially_filled" => u.pending = v - volume
    BY ONLY <2>1, OpenFollows
  <2>5. state # "partially_filled" => u.pending = 0
    BY ONLY <2>1, OpenFollows
  <2> QED
    BY <2>2, <2>3, <2>4, <2>5
<1>6. t.open = a.open + s.result /\ t.slice.id = a.slice.id + 1
  <2> DEFINE was == s.state
             result == s.result
  <2>1. /\ a \in Trade /\ was \in Traceable /\ v \in Nat /\ result \in 0 .. v
        /\ (was \notin FillState => result = 0) /\ t = OpenTrade(a, was, v, result)
    BY <1>1
  <2> HIDE DEF was, result
  <2>2. t.open = a.open + result
    BY ONLY <2>1 DEF OpenTrade, Made
  <2>3. t.slice.id = a.slice.id + 1
    BY ONLY <2>1 DEF OpenTrade, Made, SliceAfter, Sliced
  <2> QED
    BY <2>2, <2>3 DEF result
<1>7. u.open = t.open + (volume - s.result)
  BY <1>1, <1>3, <1>5, <1>6
<1> QED
  BY <1>4, <1>5, <1>6, <1>7 DEF s, v, state, FilledUpTo, SameOperation, Signed

LEMMA CloseIsFilled ==
    ASSUME NEW t \in Trade, NEW a \in Trade, Follows(t, a), t.slice.kind = "close",
           NEW volume \in 1 .. t.slice.requested, volume <= a.open,
           NEW u, u = CloseTrade(a, FillStateOf(volume, t.slice.requested),
                                 t.slice.requested, volume)
    PROVE  Follows(u, a) /\ FilledUpTo(u, t, volume)
<1> DEFINE s == t.slice
           v == s.requested
           state == FillStateOf(volume, v)
<1>1. /\ v \in Nat /\ s.result \in 0 .. v /\ a.open \in Nat /\ s.state \in Traceable
      /\ s.state \notin FillState => s.result = 0
      /\ s.result <= a.open
      /\ t = CloseTrade(a, s.state, v, s.result)
  BY FollowsIs
<1>2. state \in FillState /\ state \in Traceable
  BY FillStates
<1>3. volume \in 0 .. v /\ volume \in Nat /\ s.result \in Nat
  BY <1>1
<1> HIDE DEF s, v, state
<1>4. u = CloseTrade(a, state, v, volume) /\ s.kind = "close"
  BY DEF s, v, state
<1>5. /\ u \in Trade /\ Follows(u, a) /\ u.open = a.open - volume
      /\ u.pending = a.pending
      /\ u.slice.id = a.slice.id + 1 /\ u.slice.kind = "close"
      /\ u.slice.state = state /\ u.slice.requested = v /\ u.slice.result = volume
  <2>1. /\ a \in Trade /\ state \in Traceable /\ v \in Nat /\ volume \in 0 .. v
        /\ (state \notin FillState => volume = 0) /\ volume <= a.open
        /\ u = CloseTrade(a, state, v, volume)
    BY <1>1, <1>2, <1>3, <1>4
  <2>2. u \in Trade /\ Follows(u, a)
    BY ONLY <2>1, CloseFollows
  <2>5. u.open = a.open - volume
    BY ONLY <2>1 DEF CloseTrade, Made
  <2>3. u.pending = a.pending /\ u.slice.id = a.slice.id + 1 /\ u.slice.kind = "close"
    BY ONLY <2>1, CloseFollows
  <2>4. u.slice.state = state /\ u.slice.requested = v /\ u.slice.result = volume
    BY ONLY <2>1, CloseFollows
  <2> QED
    BY <2>2, <2>3, <2>4, <2>5
<1>6. t.open = a.open - s.result /\ t.slice.id = a.slice.id + 1 /\ t.pending = a.pending
  <2> DEFINE was == s.state
             result == s.result
  <2>1. /\ a \in Trade /\ was \in Traceable /\ v \in Nat /\ result \in 0 .. v
        /\ (was \notin FillState => result = 0) /\ result <= a.open
        /\ t = CloseTrade(a, was, v, result)
    BY <1>1
  <2> HIDE DEF was, result
  <2>2. t.open = a.open - result /\ t.pending = a.pending
    BY ONLY <2>1 DEF CloseTrade, Made
  <2>3. t.slice.id = a.slice.id + 1
    BY ONLY <2>1 DEF CloseTrade, Made, SliceAfter, Sliced
  <2> QED
    BY <2>2, <2>3 DEF result
<1>7. u.open = t.open + (0 - (volume - s.result))
  BY <1>1, <1>3, <1>5, <1>6
<1> QED
  BY <1>4, <1>5, <1>6, <1>7 DEF s, v, state, FilledUpTo, SameOperation, Signed

LEMMA FillFollows ==
    ASSUME NEW t \in Trade, NEW a \in Trade, Follows(t, a), t.slice.kind \in Traded,
           NEW volume, NEW u \in Then(RecordFill(t, volume), Reconcile)
    PROVE  Follows(u, a) /\ FilledUpTo(u, t, volume) /\ t.slice.state = "submitting"
<1> DEFINE s == t.slice
           v == s.requested
<1>1. s.state = "submitting"
  BY DEF Then, RecordFill, Mutation, AwaitsAnswer
<1>2. /\ v \in Nat /\ s.result = 0 /\ a.open \in Nat
      /\ s.kind \in {"open", "close"}
      /\ s.kind = "open" => t = OpenTrade(a, "submitting", v, 0)
      /\ s.kind = "close" => t = CloseTrade(a, "submitting", v, 0)
  BY <1>1, FollowsIs DEF FillState, Traded
<1> HIDE DEF s, v
<1>3. CASE s.kind = "open"
  <2>1. t = OpenTrade(a, "submitting", v, 0)
    BY <1>2, <1>3
  <2>2. volume \in 1 .. v /\ u = OpenTrade(a, FillStateOf(volume, v), v, volume)
    BY <1>2, <2>1, OpenFills
  <2> QED
    BY <1>1, <1>3, <2>2, OpenIsFilled DEF s, v
<1>4. CASE s.kind = "close"
  <2>1. t = CloseTrade(a, "submitting", v, 0)
    BY <1>2, <1>4
  <2>2. /\ volume \in 1 .. v /\ volume <= a.open
        /\ u = CloseTrade(a, FillStateOf(volume, v), v, volume)
    BY <1>2, <2>1, CloseFills
  <2> QED
    BY <1>1, <1>4, <2>2, CloseIsFilled DEF s, v
<1> QED
  BY <1>2, <1>3, <1>4

LEMMA RemainderFollows ==
    ASSUME NEW t \in Trade, NEW a \in Trade, Follows(t, a), t.slice.kind = "open",
           t.slice.state = "partially_filled",
           NEW more, NEW u \in ObservePendingRemainder(t, more)
    PROVE  Follows(u, a) /\ FilledUpTo(u, t, t.slice.result + more)
<1> DEFINE s == t.slice
           v == s.requested
           q == s.result
<1>1. /\ v \in Nat /\ q \in 0 .. v /\ t = OpenTrade(a, "partially_filled", v, q)
  BY FollowsIs
<1> HIDE DEF s, v, q
<1>2. /\ more \in 1 .. v - q
      /\ u = OpenTrade(a, FillStateOf(q + more, v), v, q + more)
  BY <1>1, OpenFillsMore
<1>3. q + more \in 1 .. v
  BY <1>1, <1>2
<1> QED
  BY <1>2, <1>3, OpenIsFilled DEF s, v, q

LEMMA CloseRemainderFollows ==
    ASSUME NEW t \in Trade, NEW a \in Trade, Follows(t, a), t.slice.kind = "close",
           t.slice.state = "partially_filled",
           NEW more, NEW u \in ObserveCloseRemainder(t, more)
    PROVE  Follows(u, a) /\ FilledUpTo(u, t, t.slice.result + more)
<1> DEFINE s == t.slice
           v == s.requested
           q == s.result
<1>1. /\ v \in Nat /\ q \in 0 .. v /\ t = CloseTrade(a, "partially_filled", v, q)
      /\ q <= a.open
  BY FollowsIs
<1> HIDE DEF s, v, q
<1>2. /\ more \in 1 .. v - q /\ q + more <= a.open
      /\ u = CloseTrade(a, FillStateOf(q + more, v), v, q + more)
  BY <1>1, CloseFillsMore
<1>3. q + more \in 1 .. v
  BY <1>1, <1>2
<1> QED
  BY <1>2, <1>3, CloseIsFilled DEF s, v, q

\* A trade whose OPEN had a late fill before its remainder was cancelled.
LateBase(b, a, late) ==
    /\ b \in Trade
    /\ b.plan = a.plan /\ b.slices = a.slices /\ b.epoch = a.epoch
    /\ b.slice.id = a.slice.id
    /\ b.requested <=> a.requested
    /\ b.satisfied <=> a.satisfied
    /\ b.open = a.open + late /\ b.pending = a.pending - late

LEMMA CancelSettles ==
    ASSUME NEW t \in Trade, NEW a \in Trade, Follows(t, a), t.slice.kind = "cancel",
           t.slice.state = "submitting", NEW late \in Nat,
           NEW o \in IF late = 0 THEN {t} ELSE ObserveCancelRemainder(t, late),
           NEW u \in Then(RecordCancelAccepted(o), Reconcile)
    PROVE  /\ late <= a.pending
           /\ \A b : LateBase(b, a, late) => Follows(u, b)
           /\ \E b \in Trade : Follows(u, b)
           /\ u \in Trade /\ SameOperation(u, t) /\ u.slice.state = "cancelled"
           /\ u.open = t.open + late /\ u.pending = 0
<1> DEFINE v == t.slice.requested
<1>1. /\ v \in Nat /\ a.open \in Nat /\ a.pending \in Nat
      /\ t = CancelTrade(a, "submitting", v)
  BY FollowsIs
<1>2. "submitting" \in Traceable \ FillState /\ "cancelled" \in Traceable \ FillState
  BY DEF Traceable, FillState
<1> HIDE DEF v
<1>3. t.open = a.open /\ t.slice.id = a.slice.id + 1 /\ t.slice.kind = "cancel"
      /\ t.slice.requested = v
  <2>1. /\ a \in Trade /\ "submitting" \in Traceable \ FillState /\ v \in Nat
        /\ t = CancelTrade(a, "submitting", v)
    BY <1>1, <1>2
  <2> QED
    BY ONLY <2>1, CancelFollows
<1>4. late <= a.pending
      /\ \A b : LateBase(b, a, late) => o = CancelTrade(b, "submitting", v)
  <2>1. CASE late = 0
    <3>1. o = t
      BY <2>1
    <3>2. ASSUME NEW b, LateBase(b, a, late)
          PROVE  CancelTrade(b, "submitting", v) = CancelTrade(a, "submitting", v)
      <4>1. b.open = a.open /\ b.pending = a.pending
        BY <1>1, <2>1, <3>2 DEF LateBase
      <4>2. /\ a \in Trade /\ b \in Trade /\ b.plan = a.plan /\ b.slices = a.slices
            /\ b.epoch = a.epoch /\ b.slice.id = a.slice.id
            /\ (b.requested <=> a.requested) /\ (b.satisfied <=> a.satisfied)
        BY <3>2 DEF LateBase
      <4>3. SliceAfter(b, "cancel", "submitting", v, 0)
            = SliceAfter(a, "cancel", "submitting", v, 0)
        BY <4>2 DEF SliceAfter
      <4>4. "submitting" \in Traceable
        BY <1>2
      <4> DEFINE x == CancelTrade(b, "submitting", v)
                 y == CancelTrade(a, "submitting", v)
      <4>5. /\ x \in Trade /\ x.plan = b.plan /\ x.slices = b.slices /\ x.open = b.open
            /\ x.pending = b.pending /\ x.requested = b.requested
            /\ (x.satisfied <=> b.satisfied) /\ x.epoch = b.epoch
            /\ x.slice = SliceAfter(b, "cancel", "submitting", v, 0)
        <5>1. b \in Trade /\ "submitting" \in Traceable /\ v \in Nat
          BY <1>1, <4>2, <4>4
        <5> QED
          BY ONLY <5>1, CancelTradeIs
      <4>6. /\ y \in Trade /\ y.plan = a.plan /\ y.slices = a.slices /\ y.open = a.open
            /\ y.pending = a.pending /\ y.requested = a.requested
            /\ (y.satisfied <=> a.satisfied) /\ y.epoch = a.epoch
            /\ y.slice = SliceAfter(a, "cancel", "submitting", v, 0)
        <5>1. a \in Trade /\ "submitting" \in Traceable /\ v \in Nat
          BY <1>1, <4>2, <4>4
        <5> QED
          BY ONLY <5>1, CancelTradeIs
      <4> HIDE DEF x, y
      <4>7. /\ x \in Trade /\ y \in Trade /\ x.plan = y.plan /\ x.slices = y.slices
            /\ x.open = y.open /\ x.pending = y.pending /\ (x.requested <=> y.requested)
            /\ (x.satisfied <=> y.satisfied) /\ x.epoch = y.epoch /\ x.slice = y.slice
        BY <4>1, <4>2, <4>3, <4>5, <4>6
      <4>8. x = y
        BY ONLY <4>7, TradesEqual
      <4> QED
        BY <4>8 DEF x, y
    <3> QED
      BY <1>1, <2>1, <3>1, <3>2
  <2>2. CASE late # 0
    <3>1. o \in ObserveCancelRemainder(CancelTrade(a, "submitting", v), late)
      BY <1>1, <2>2
    <3>2. /\ late \in 1 .. a.pending
          /\ \A b \in Trade :
                /\ b.plan = a.plan /\ b.slices = a.slices /\ b.epoch = a.epoch
                /\ b.slice.id = a.slice.id
                /\ b.requested <=> a.requested
                /\ b.satisfied <=> a.satisfied
                /\ b.open = a.open + late /\ b.pending = a.pending - late
                => o = CancelTrade(b, "submitting", v)
      BY <1>1, <3>1, CancelFillsMore
    <3>3. late <= a.pending
      BY <1>1, <3>2
    <3> QED
      BY <3>2, <3>3 DEF LateBase
  <2> QED
    BY <2>1, <2>2
<1>5. \E b : LateBase(b, a, late)
  <2>1. a.open + late \in Nat /\ a.pending - late \in Nat
    BY <1>1, <1>4
  <2>2. ASSUME NEW m \in Nat, NEW n \in Nat, m = a.open + late, n = a.pending - late
        PROVE  \E b : LateBase(b, a, late)
    <3> DEFINE b == [a EXCEPT !.open = m, !.pending = n]
    <3>1. /\ b \in Trade /\ b.open = m /\ b.pending = n
          /\ b.plan = a.plan /\ b.slice = a.slice /\ b.slices = a.slices
          /\ b.requested = a.requested /\ b.satisfied = a.satisfied /\ b.epoch = a.epoch
      BY DEF Trade
    <3> HIDE DEF b
    <3>2. LateBase(b, a, late)
      BY <2>2, <3>1 DEF LateBase
    <3> QED
      BY <3>2
  <2> QED
    BY <2>1, <2>2
<1>6. ASSUME NEW b, LateBase(b, a, late)
      PROVE  /\ Follows(u, b) /\ u \in Trade /\ SameOperation(u, t)
             /\ u.slice.state = "cancelled" /\ u.open = t.open + late /\ u.pending = 0
  <2>1. b \in Trade /\ b.slice.id = a.slice.id /\ b.open = a.open + late
    BY <1>6 DEF LateBase
  <2>2. o = CancelTrade(b, "submitting", v)
    BY <1>4, <1>6
  <2>3. u = CancelTrade(b, "cancelled", v)
    BY <1>1, <2>1, <2>2, CancelAccepted
  <2>4. /\ u \in Trade /\ Follows(u, b) /\ u.open = b.open /\ u.pending = 0
        /\ u.slice.id = b.slice.id + 1 /\ u.slice.kind = "cancel"
        /\ u.slice.state = "cancelled" /\ u.slice.requested = v
    <3>1. /\ b \in Trade /\ "cancelled" \in Traceable \ FillState /\ v \in Nat
      BY <1>1, <1>2, <2>1
    <3> QED
      BY ONLY <2>3, <3>1, CancelFollows
  <2> QED
    BY <1>3, <2>1, <2>4 DEF SameOperation
<1>7. \E b \in Trade : Follows(u, b)
  BY <1>5, <1>6 DEF LateBase
<1> QED
  BY <1>4, <1>5, <1>6, <1>7

----------------------------------------------------------------------------
(* The invariant, and what a step of the journal has to bring along.       *)

\* What the broker does stays in bounds.
Bounded(j, w, f) ==
    /\ SellingIn(j, w) <= PositionIn(j, w)
    /\ ~ f => PositionIn(j, w) + BuyingIn(j, w) <= TargetVolume

Stands(t, j, w, f) == Memory(t, j, w, f) /\ (~ f => Retraced(t, j))

\* u may be the memory when t was, and r and x are the record and the order of
\* its operation from now on.
MayBecome(u, t, j, r, x, f) ==
    /\ t.slice.id \in Id /\ r.rev # 0 /\ r.kind = j[t.slice.id].kind
    /\ u \in Trade /\ SameOperation(u, t) /\ Recorded(u, r, x) /\ Shaped(u)
    /\ \/ u.slice.state = t.slice.state \/ u.slice.state \in Replaceable
       \/ t.slice.state \notin Replaceable
    /\ u.slice.kind = "cancel" /\ u.slice.state # "cancelled" =>
          u.pending = t.pending /\ t.slice.state # "cancelled"
    /\ ~ f => \/ u.slice.state \notin Traceable
              \/ /\ t.slice.state \in Traceable
                 /\ \A a \in Trade : Follows(t, a) => Follows(u, a)

\* What the journal books is what the memory holds, unless a commit was refused.
BookedFor(u, k, f) == u.open <= BookedIn(k) /\ (~ f => u.open = BookedIn(k))

\* The record and the order of the operation of t change, and t becomes u.
Recommitted(u, t, j, w, f, c, r, x, k, y) ==
    /\ History(j, w) /\ Memory(t, j, w, f) /\ MayBecome(u, t, j, r, x, f)
    /\ c = t.slice.id /\ k = [j EXCEPT ![c] = r] /\ y[c] = x /\ BookedFor(u, k, f)

\* An operation's record and order change, and the memory with them.
LEMMA MemoryChanges ==
    ASSUME NEW u, NEW t, NEW j, NEW w, NEW f, NEW c, NEW r, NEW x, NEW k, NEW y,
           Recommitted(u, t, j, w, f, c, r, x, k, y)
    PROVE  Memory(u, k, y, f)
<1> /\ History(j, w) /\ Memory(t, j, w, f) /\ MayBecome(u, t, j, r, x, f)
    /\ c = t.slice.id /\ k = [j EXCEPT ![c] = r] /\ y[c] = x /\ BookedFor(u, k, f)
  BY DEF Recommitted
<1>0. /\ c \in Id /\ r.rev # 0 /\ r.kind = j[c].kind
      /\ u \in Trade /\ SameOperation(u, t) /\ Recorded(u, r, x) /\ Shaped(u)
      /\ u.slice.state = t.slice.state \/ u.slice.state \in Replaceable
           \/ t.slice.state \notin Replaceable
      /\ u.slice.kind = "cancel" /\ u.slice.state # "cancelled" =>
            u.pending = t.pending /\ t.slice.state # "cancelled"
      /\ k = [j EXCEPT ![c] = r] /\ y[c] = x
  BY DEF MayBecome
<1>1. j \in [Id -> Record]
  BY DEF History
<1>2. k[c] = r /\ \A o \in Id \ {c} : k[o] = j[o]
  BY <1>0, <1>1
<1>3. c \in Nat /\ c # 0 /\ c \in 0 .. MaxOperations /\ Id \subseteq Nat
  BY <1>0, IdsAreFinite DEF Memory
<1>4. \A o \in Id : o <= c => Present(k, o)
  <2>1. \A o \in Id : o <= c => Present(j, o)
    BY DEF Memory
  <2> QED
    BY <1>0, <1>2, <2>1 DEF Present
<1>5. \A o \in Id : o > c /\ Present(k, o) => f /\ u.slice.state \in Replaceable
  <2>1. \A o \in Id : o > c /\ Present(j, o) => f /\ t.slice.state \in Replaceable
    BY DEF Memory
  <2>2. \A o \in Id : o > c => k[o] = j[o]
    BY <1>2, <1>3
  <2> QED
    BY <1>0, <2>1, <2>2 DEF Present
<1>6. ASSUME ~ f, u.slice.kind = "cancel", u.slice.state # "cancelled",
             NEW b \in Id, CancelledBy(k, b, c)
      PROVE  u.pending = k[b].requested - k[b].settled
  <2>1. b < c /\ b \in Nat
    BY <1>3, <1>6 DEF CancelledBy
  <2>2. k[b] = j[b]
    BY <1>2, <1>3, <2>1
  <2>3. CancelledBy(j, b, c)
    <3>1. ASSUME NEW p \in b + 1 .. c
          PROVE  j[p].kind = "cancel"
      <4>1. k[p].kind = "cancel"
        BY <1>6, <3>1 DEF CancelledBy
      <4>2. p \in Id
        BY <1>3, <2>1, <3>1, PlanAssumption DEF Id
      <4> QED
        BY <1>0, <1>2, <4>1, <4>2
    <3> QED
      BY <1>6, <2>1, <2>2, <3>1 DEF CancelledBy
  <2>4. t.slice.kind = "cancel"
    BY <1>0, <1>6 DEF SameOperation
  <2> QED
    BY <1>0, <1>6, <2>2, <2>3, <2>4 DEF Memory
<1>7. u.slice.id = c
  BY <1>0 DEF SameOperation
<1> QED
  BY <1>0, <1>2, <1>3, <1>4, <1>5, <1>6, <1>7 DEF Memory, BookedFor

\* Every state of a replay is a trade.
LEMMA ReplaysAreTrades ==
    ASSUME NEW j, NEW w, History(j, w), NEW n \in 0 .. MaxOperations,
           NEW a \in Replays(j)[n]
    PROVE  a \in Trade
BY BasesAre DEF Base

LEMMA OpenIsTrade ==
    ASSUME NEW j, NEW w, History(j, w), NEW b \in Id, j[b].os \in FillState,
           NEW a \in Trade
    PROVE  OpenTrade(a, j[b].os, j[b].requested, j[b].settled) \in Trade
<1>1. /\ j[b].os \in Traceable /\ j[b].requested \in Nat
      /\ j[b].settled \in 1 .. j[b].requested
  BY SummedTypes DEF History, RecordFits, FillState, Traceable
<1> QED
  BY <1>1, OpenTradeIs

\* The memory of an operation changes, and follows the same trade as before.
LEMMA RetracedChanges ==
    ASSUME NEW j, NEW w, History(j, w), NEW t, NEW f, Memory(t, j, w, f), Retraced(t, j),
           NEW c \in Id, c = t.slice.id,
           NEW r, NEW k, k = [j EXCEPT ![c] = r],
           NEW u, SameOperation(u, t), t.slice.state \in Traceable,
           \A a \in Trade : Follows(t, a) => Follows(u, a)
    PROVE  Retraced(u, k)
<1>1. /\ j \in [Id -> Record] /\ c \in 1 .. MaxOperations /\ MaxOperations \in Nat
  BY PlanAssumption DEF History, Id
<1>2. \A o \in 1 .. c - 1 : j[o] = k[o]
  BY <1>1 DEF Id
<1>3. c - 1 \in 0 .. MaxOperations
  BY <1>1
<1>4. \A m \in 0 .. c - 1 : Replays(j)[m] = Replays(k)[m]
  BY ONLY <1>2, <1>3, ReplaysSame
<1>5. u.slice.id = c /\ u.slice.kind = t.slice.kind
  BY DEF SameOperation
<1>6. ASSUME u.slice.kind \in Traded, NEW a \in Replays(k)[c - 1]
      PROVE  Follows(u, a)
  <2>1. a \in Replays(j)[c - 1]
    <3>1. c - 1 \in 0 .. c - 1
      BY <1>1
    <3> QED
      BY <1>4, <1>6, <3>1
  <2>2. a \in Trade
    BY <1>3, <2>1, ReplaysAreTrades
  <2> QED
    BY <1>5, <1>6, <2>1, <2>2 DEF Retraced
<1>7. ASSUME u.slice.kind = "cancel", c > 1, k[c - 1].kind = "open",
             k[c - 1].os \in FillState, NEW a \in Replays(k)[c - 2]
      PROVE  Follows(u, OpenTrade(a, k[c - 1].os, k[c - 1].requested, k[c - 1].settled))
  <2>1. c - 1 \in Id /\ c - 2 \in 0 .. MaxOperations /\ c - 2 \in 0 .. c - 1
        /\ c - 1 \in 1 .. c - 1
    BY <1>1, <1>7 DEF Id
  <2>2. k[c - 1] = j[c - 1]
    BY <1>2, <2>1
  <2>3. a \in Replays(j)[c - 2]
    BY <1>4, <1>7, <2>1
  <2> DEFINE b == OpenTrade(a, j[c - 1].os, j[c - 1].requested, j[c - 1].settled)
  <2>4. a \in Trade /\ j[c - 1].os \in FillState
    BY <1>7, <2>1, <2>2, <2>3, ReplaysAreTrades
  <2>5. b \in Trade
    BY <2>1, <2>4, OpenIsTrade
  <2>6. Follows(t, b)
    BY <1>5, <1>7, <2>2, <2>3 DEF Retraced
  <2> HIDE DEF b
  <2>7. Follows(u, b)
    BY <2>5, <2>6
  <2> QED
    BY <2>2, <2>7 DEF b
<1> QED
  BY <1>5, <1>6, <1>7 DEF Retraced

----------------------------------------------------------------------------
(* The ways in which one operation's record or order changes.              *)

LEMMA OperationOf ==
    ASSUME NEW j, NEW w, History(j, w), NEW c \in Id
    PROVE  /\ j[c] \in Record /\ w[c] \in Order
           /\ j[c].settled \in Nat /\ j[c].requested \in Nat
           /\ w[c].filled \in Nat /\ w[c].live \in BOOLEAN
           /\ RecordFits(j[c]) /\ OrderFits(j[c], w[c])
           /\ [w EXCEPT ![c] = w[c]] = w /\ [j EXCEPT ![c] = j[c]] = j
           /\ j[c].kind \in Traded =>
                 /\ j[c].os = "rejected" => Quiet(j[c], w[c])
                 /\ \A p \in Id : Ends(j, p, c) => Quiet(j[c], w[c])
           /\ Present(j, c) => \A o \in Id : o < c => Present(j, o)
<1>1. Id \subseteq Nat
  BY IdsAreFinite
<1> QED
  BY <1>1, SummedTypes DEF History

\* A history that stays one, with the same open volume in its records.
SameBooks(j, k, y, f) == History(k, y) /\ Bounded(k, y, f) /\ BookedIn(k) = BookedIn(j)

\* What Ends says of other operations, when one of them keeps its kind.
LEMMA EndsSame ==
    ASSUME NEW j, NEW w, History(j, w), NEW c \in Id, NEW r,
           NEW k, k = [j EXCEPT ![c] = r],
           r.kind = j[c].kind, Present(j, c),
           r.os = "cancelled" => j[c].os = "cancelled"
    PROVE  /\ \A p \in Id \ {c} : Ends(k, p, c) => Ends(j, p, c)
           /\ \A o \in Id \ {c} : Ends(k, c, o) => Ends(j, c, o)
<1>1. k[c] = r /\ \A o \in Id \ {c} : k[o] = j[o]
  BY DEF History
<1> QED
  BY <1>1 DEF Ends, Present

LEMMA RecordTouched ==
    ASSUME NEW j, NEW w, NEW f \in BOOLEAN, History(j, w), Bounded(j, w, f),
           NEW c \in Id, Present(j, c),
           NEW r \in Record, r.rev # 0, r.kind = j[c].kind,
           r.requested = j[c].requested, r.settled = j[c].settled,
           r.settled # 0 => r.os \in FillState,
           r.os \in FillState \cup {"cancelled"} => r.os = j[c].os,
           r.kind \in Traded /\ r.os = "rejected" => Quiet(j[c], w[c]),
           NEW k, k = [j EXCEPT ![c] = r]
    PROVE  SameBooks(j, k, w, f)
<1> DEFINE x == w[c]
           y == [w EXCEPT ![c] = x]
<1>1. /\ x \in Order /\ x.filled \in Nat /\ r.settled \in Nat /\ r.requested \in Nat
      /\ RecordFits(j[c]) /\ OrderFits(j[c], x) /\ y = w
      /\ j[c].kind \in Traded => \A p \in Id : Ends(j, p, c) => Quiet(j[c], x)
      /\ \A o \in Id : o < c => Present(j, o)
  BY OperationOf, RecordIs
<1>2. RecordFits(r) /\ OrderFits(r, x)
  BY <1>1 DEF RecordFits, OrderFits, Present
<1>3. Quiet(r, x) <=> Quiet(j[c], x)
  BY DEF Quiet
<1>4. /\ \A p \in Id \ {c} : Ends(k, p, c) => Ends(j, p, c)
      /\ \A o \in Id \ {c} : Ends(k, c, o) => Ends(j, c, o)
  BY EndsSame
<1>5. /\ r.kind \in Traded /\ r.os = "rejected" => Quiet(r, x)
      /\ \A p \in Id \ {c} : r.kind \in Traded /\ Ends(k, p, c) => Quiet(r, x)
      /\ \A o \in Id \ {c} : j[o].kind \in Traded /\ Ends(k, c, o) => Quiet(j[o], w[o])
  BY <1>1, <1>3, <1>4 DEF History
<1>6. History(k, y)
  <2> HIDE DEF x
  <2> QED
    BY <1>1, <1>2, <1>5, HistoryChanges
<1>7. Shifted(j, w, c, r, x, k, y)
  <2>1. Changes(j, w, c, r, x, k, y)
    BY <1>1, <1>2 DEF Changes
  <2> HIDE DEF x, y
  <2> QED
    BY ONLY <2>1, SumsShift
<1>8. /\ PositionIn(j, w) \in Int /\ BookedIn(j) \in Int
      /\ BuyingIn(j, w) \in Nat /\ SellingIn(j, w) \in Nat
      /\ BuyingIn(k, y) \in Nat /\ SellingIn(k, y) \in Nat
  BY <1>6, SumsAreNumbers
<1>9. /\ Net(r, r.settled) = Net(j[c], j[c].settled) /\ Net(r, x.filled) = Net(j[c], x.filled)
      /\ Net(r, r.settled) \in Int /\ Net(r, x.filled) \in Int
  BY <1>1 DEF Net
<1>10. /\ Part("open", j[c], WorkingOf(j[c], x)) = Part("open", r, WorkingOf(r, x))
       /\ Part("close", j[c], WorkingOf(j[c], x)) = Part("close", r, WorkingOf(r, x))
       /\ Part("open", r, WorkingOf(r, x)) \in Int /\ Part("close", r, WorkingOf(r, x)) \in Int
  BY <1>1 DEF Part, WorkingOf
<1> HIDE DEF x, y
<1>11. /\ BookedIn(k) = BookedIn(j) /\ PositionIn(k, y) = PositionIn(j, w)
       /\ BuyingIn(k, y) = BuyingIn(j, w) /\ SellingIn(k, y) = SellingIn(j, w)
  <2>1. w[c] = x
    BY DEF x
  <2> QED
    BY <1>7, <1>8, <1>9, <1>10, <2>1 DEF Shifted
<1> QED
  BY <1>1, <1>6, <1>11 DEF SameBooks, Bounded

\* A history that stays one, with more booked in its records.
MoreBooked(j, k, w, f, more) ==
    History(k, w) /\ Bounded(k, w, f) /\ BookedIn(k) = BookedIn(j) + more

\* A fill is settled that the broker reported.
LEMMA FillSettled ==
    ASSUME NEW j, NEW w, NEW f \in BOOLEAN, History(j, w), Bounded(j, w, f),
           NEW c \in Id, Present(j, c), j[c].kind \in Traded,
           NEW r \in Record, r.rev # 0, r.kind = j[c].kind,
           r.requested = j[c].requested, r.settled # 0,
           j[c].settled <= r.settled, r.settled <= w[c].filled,
           r.os = FillStateOf(r.settled, r.requested),
           NEW k, k = [j EXCEPT ![c] = r]
    PROVE  MoreBooked(j, k, w, f, Signed(j[c].kind, r.settled - j[c].settled))
<1> DEFINE x == w[c]
           y == [w EXCEPT ![c] = x]
<1>1. /\ x \in Order /\ x.filled \in Nat /\ r.settled \in Nat /\ r.requested \in Nat
      /\ j[c].settled \in Nat
      /\ RecordFits(j[c]) /\ OrderFits(j[c], x) /\ y = w
      /\ j[c].kind \in Traded => \A p \in Id : Ends(j, p, c) => Quiet(j[c], x)
      /\ \A o \in Id : o < c => Present(j, o)
  BY OperationOf, RecordIs
<1>2. r.os \in FillState /\ r.os # "cancelled" /\ r.os # "rejected"
  BY DEF FillStateOf, FillState
<1>3. x.filled <= r.requested /\ (x.live => x.filled < r.requested)
  BY <1>1 DEF OrderFits
<1>4. RecordFits(r) /\ OrderFits(r, x)
  <2>1. r.settled \in 1 .. r.requested
    BY <1>1, <1>3
  <2> QED
    BY <1>1, <1>2, <1>3, <2>1 DEF RecordFits, OrderFits
<1>5. Quiet(j[c], x) => Quiet(r, x)
  BY <1>1 DEF Quiet
<1>6. /\ \A p \in Id \ {c} : Ends(k, p, c) => Ends(j, p, c)
      /\ \A o \in Id \ {c} : Ends(k, c, o) => Ends(j, c, o)
  BY <1>2, EndsSame
<1>7. /\ r.kind \in Traded /\ r.os = "rejected" => Quiet(r, x)
      /\ \A p \in Id \ {c} : r.kind \in Traded /\ Ends(k, p, c) => Quiet(r, x)
      /\ \A o \in Id \ {c} : j[o].kind \in Traded /\ Ends(k, c, o) => Quiet(j[o], w[o])
  BY <1>1, <1>2, <1>5, <1>6 DEF History
<1>8. History(k, y)
  <2> HIDE DEF x
  <2> QED
    BY <1>1, <1>4, <1>7, HistoryChanges
<1>9. Shifted(j, w, c, r, x, k, y)
  <2>1. Changes(j, w, c, r, x, k, y)
    BY <1>1, <1>4 DEF Changes
  <2> HIDE DEF x, y
  <2> QED
    BY ONLY <2>1, SumsShift
<1>10. /\ PositionIn(j, w) \in Int /\ BookedIn(j) \in Int
       /\ BuyingIn(j, w) \in Nat /\ SellingIn(j, w) \in Nat
       /\ BuyingIn(k, y) \in Nat /\ SellingIn(k, y) \in Nat
  BY <1>8, SumsAreNumbers
<1>11. /\ Net(r, x.filled) = Net(j[c], x.filled) /\ Net(r, x.filled) \in Int
       /\ Net(r, r.settled) \in Int /\ Net(j[c], j[c].settled) \in Int
       /\ Net(r, r.settled) - Net(j[c], j[c].settled)
          = Signed(j[c].kind, r.settled - j[c].settled)
  BY <1>1 DEF Net, Signed, Traded
<1>12. /\ Part("open", j[c], WorkingOf(j[c], x)) = Part("open", r, WorkingOf(r, x))
       /\ Part("close", j[c], WorkingOf(j[c], x)) = Part("close", r, WorkingOf(r, x))
       /\ Part("open", r, WorkingOf(r, x)) \in Int /\ Part("close", r, WorkingOf(r, x)) \in Int
  BY <1>1 DEF Part, WorkingOf
<1> HIDE DEF x, y
<1>13. /\ BookedIn(k) = BookedIn(j) + Signed(j[c].kind, r.settled - j[c].settled)
       /\ PositionIn(k, y) = PositionIn(j, w)
       /\ BuyingIn(k, y) = BuyingIn(j, w) /\ SellingIn(k, y) = SellingIn(j, w)
  <2>1. w[c] = x
    BY DEF x
  <2> QED
    BY <1>9, <1>10, <1>11, <1>12, <2>1 DEF Shifted
<1> QED
  BY <1>1, <1>8, <1>13 DEF Bounded, MoreBooked

\* The broker fills one more lot of a working order, or ends it.
LEMMA OrderChanged ==
    ASSUME NEW j, NEW w, NEW f \in BOOLEAN, History(j, w), Bounded(j, w, f),
           NEW c \in Id, w[c].live, NEW x \in Order,
           \/ x.filled = w[c].filled /\ ~ x.live
           \/ /\ j[c].kind \in Traded /\ x.filled = w[c].filled + 1
              /\ x.live <=> x.filled < j[c].requested,
           NEW y, y = [w EXCEPT ![c] = x]
    PROVE  History(j, y) /\ Bounded(j, y, f)
<1> DEFINE r == j[c]
           k == [j EXCEPT ![c] = r]
<1>1. /\ r \in Record /\ x.filled \in Nat /\ x.live \in BOOLEAN /\ w[c].filled \in Nat
      /\ r.settled \in Nat /\ r.requested \in Nat
      /\ RecordFits(r) /\ OrderFits(r, w[c]) /\ k = j
      /\ r.kind \in Traded => /\ r.os = "rejected" => Quiet(r, w[c])
                              /\ \A p \in Id : Ends(j, p, c) => Quiet(r, w[c])
      /\ Present(j, c) => \A o \in Id : o < c => Present(j, o)
  BY OperationOf DEF Order
<1>2. r.rev # 0 /\ Present(j, c) /\ ~ Quiet(r, w[c])
  BY <1>1 DEF OrderFits, NoOrder, Present, Quiet
<1>3. r.kind \in Traded => w[c].filled < r.requested
  BY <1>1 DEF OrderFits
<1>4. OrderFits(r, x)
  BY <1>1, <1>2, <1>3 DEF OrderFits
<1>5. /\ r.kind \in Traded /\ r.os = "rejected" => Quiet(r, x)
      /\ \A p \in Id \ {c} : r.kind \in Traded /\ Ends(k, p, c) => Quiet(r, x)
      /\ \A o \in Id \ {c} : j[o].kind \in Traded /\ Ends(k, c, o) => Quiet(j[o], w[o])
  BY <1>1, <1>2 DEF History
<1>6. History(k, y)
  <2> HIDE DEF r
  <2> QED
    BY <1>1, <1>2, <1>4, <1>5, HistoryChanges
<1>7. /\ PositionIn(k, y) = PositionIn(j, w) + Net(r, x.filled) - Net(r, w[c].filled)
      /\ BuyingIn(k, y) + Part("open", r, WorkingOf(r, w[c]))
         = BuyingIn(j, w) + Part("open", r, WorkingOf(r, x))
      /\ SellingIn(k, y) + Part("close", r, WorkingOf(r, w[c]))
         = SellingIn(j, w) + Part("close", r, WorkingOf(r, x))
  <2>1. Changes(j, w, c, r, x, k, y)
    BY <1>1, <1>4 DEF Changes
  <2>2. Shifted(j, w, c, r, x, k, y)
    <3> HIDE DEF r, k
    <3> QED
      BY ONLY <2>1, SumsShift
  <2> QED
    BY <2>2 DEF Shifted
<1>8. /\ PositionIn(j, w) \in Int /\ BuyingIn(j, w) \in Nat /\ SellingIn(j, w) \in Nat
      /\ BuyingIn(k, y) \in Nat /\ SellingIn(k, y) \in Nat
  BY <1>6, SumsAreNumbers
<1>9. WorkingOf(r, w[c]) = r.requested - w[c].filled
  BY DEF WorkingOf
<1>10. WorkingOf(r, x) = IF x.live THEN r.requested - x.filled ELSE 0
  BY DEF WorkingOf
<1>11. CASE r.kind = "open"
  <2>1. /\ PositionIn(k, y) = PositionIn(j, w) + x.filled - w[c].filled
        /\ BuyingIn(k, y) + WorkingOf(r, w[c]) = BuyingIn(j, w) + WorkingOf(r, x)
        /\ SellingIn(k, y) = SellingIn(j, w)
    BY <1>7, <1>8, <1>11 DEF Net, Part
  <2>2. w[c].filled < r.requested
    BY <1>3, <1>11 DEF Traded
  <2> HIDE DEF r, k
  <2>3. /\ PositionIn(k, y) >= PositionIn(j, w)
        /\ PositionIn(k, y) + BuyingIn(k, y) <= PositionIn(j, w) + BuyingIn(j, w)
        /\ PositionIn(k, y) \in Int
    <3>1. CASE x.filled = w[c].filled /\ ~ x.live
      BY <1>1, <1>8, <1>9, <1>10, <2>1, <2>2, <3>1
    <3>2. CASE x.filled = w[c].filled + 1 /\ (x.live <=> x.filled < r.requested)
      BY <1>1, <1>8, <1>9, <1>10, <2>1, <2>2, <3>2
    <3> QED
      BY <3>1, <3>2 DEF r
  <2> QED
    BY <1>1, <1>6, <1>8, <2>1, <2>3, PlanAssumption DEF Bounded
<1>12. CASE r.kind = "close"
  <2>1. /\ PositionIn(k, y) = PositionIn(j, w) - x.filled + w[c].filled
        /\ BuyingIn(k, y) = BuyingIn(j, w)
        /\ SellingIn(k, y) + WorkingOf(r, w[c]) = SellingIn(j, w) + WorkingOf(r, x)
    BY <1>1, <1>7, <1>8, <1>12 DEF Net, Part
  <2>2. w[c].filled < r.requested
    BY <1>3, <1>12 DEF Traded
  <2> HIDE DEF r, k
  <2>3. /\ PositionIn(k, y) <= PositionIn(j, w)
        /\ PositionIn(k, y) - SellingIn(k, y) >= PositionIn(j, w) - SellingIn(j, w)
        /\ PositionIn(k, y) \in Int
    <3>1. CASE x.filled = w[c].filled /\ ~ x.live
      BY <1>1, <1>8, <1>9, <1>10, <2>1, <2>2, <3>1
    <3>2. CASE x.filled = w[c].filled + 1 /\ (x.live <=> x.filled < r.requested)
      BY <1>1, <1>8, <1>9, <1>10, <2>1, <2>2, <3>2
    <3> QED
      BY <3>1, <3>2 DEF r
  <2> QED
    BY <1>1, <1>6, <1>8, <2>1, <2>3, PlanAssumption DEF Bounded
<1>13. CASE r.kind \notin Traded
  <2>1. /\ PositionIn(k, y) = PositionIn(j, w) /\ BuyingIn(k, y) = BuyingIn(j, w)
        /\ SellingIn(k, y) = SellingIn(j, w)
    BY <1>7, <1>8, <1>13 DEF Net, Part, Traded
  <2> QED
    BY <1>1, <1>6, <2>1 DEF Bounded
<1> QED
  BY <1>11, <1>12, <1>13 DEF Traded

----------------------------------------------------------------------------
(* Steps that rest on the broker being done with what came before.         *)

LEMMA AbsentIs ==
    ASSUME NEW j, NEW w, History(j, w), NEW o \in Id, ~ Present(j, o)
    PROVE  /\ j[o].kind \notin Traded \cup {"cancel"} /\ j[o].settled = 0
           /\ w[o] = NoOrder
BY OperationOf DEF RecordFits, OrderFits, Present, Absent, Traded

LEMMA OthersQuiet ==
    ASSUME NEW j, NEW w, History(j, w), NEW c \in Id, Present(j, c),
           j[c].kind # "cancel", \A o \in Id : o > c => ~ Present(j, o)
    PROVE  \A o \in Id \ {c} : j[o].kind \in Traded => Quiet(j[o], w[o])
<1> SUFFICES ASSUME NEW o \in Id \ {c}, j[o].kind \in Traded
             PROVE  Quiet(j[o], w[o])
  OBVIOUS
<1>1. Id \subseteq Nat
  BY IdsAreFinite
<1>2. CASE o > c
  BY <1>2, AbsentIs
<1>3. CASE o < c
  <2>1. Ends(j, c, o)
    BY <1>1, <1>3 DEF Ends
  <2> QED
    BY <2>1 DEF History
<1> QED
  BY <1>1, <1>2, <1>3

LEMMA QuietSums ==
    ASSUME NEW j, NEW w, History(j, w),
           \A o \in Id : j[o].kind \in Traded => Quiet(j[o], w[o])
    PROVE  /\ PositionIn(j, w) = BookedIn(j)
           /\ BuyingIn(j, w) = 0 /\ SellingIn(j, w) = 0
<1>1. \A o \in Id : j[o].kind \in Traded => w[o].filled = j[o].settled /\ ~ w[o].live
  BY DEF Quiet
<1> QED
  BY <1>1, QuietIsBooked, NothingBuys, NothingSells DEF Traded

\* An order is put on the book.
LEMMA OrderPlaced ==
    ASSUME NEW j, NEW w, NEW f \in BOOLEAN, History(j, w), Bounded(j, w, f),
           NEW c \in Id, Present(j, c), \A o \in Id : o > c => ~ Present(j, o),
           w[c] = NoOrder, j[c].settled = 0, j[c].requested # 0,
           NEW r \in Record, r.rev # 0, r.kind = j[c].kind,
           r.requested = j[c].requested, r.settled = 0,
           r.os \notin FillState \cup {"cancelled", "rejected"},
           NEW x \in Order, x.filled = 0,
           j[c].kind \in {"open", "close", "cancel"},
           j[c].kind = "close" => j[c].requested <= BookedIn(j),
           j[c].kind = "open" /\ ~ f => BookedIn(j) + j[c].requested <= TargetVolume,
           NEW k, k = [j EXCEPT ![c] = r], NEW y, y = [w EXCEPT ![c] = x]
    PROVE  SameBooks(j, k, y, f)
<1>1. /\ j[c].requested \in Nat /\ x.live \in BOOLEAN
      /\ OrderFits(j[c], w[c])
      /\ \A o \in Id : o < c => Present(j, o)
  BY OperationOf DEF Order
<1>2. RecordFits(r) /\ OrderFits(r, x)
  BY <1>1 DEF RecordFits, OrderFits, FillState
<1>3. \A p \in Id \ {c} : ~ Ends(k, p, c)
  <2>1. \A p \in Id \ {c} : k[p] = j[p]
    BY DEF History
  <2> QED
    BY <2>1 DEF Ends, Present
<1>4. \A o \in Id \ {c} : Ends(k, c, o) => Ends(j, c, o)
  <2>1. r.os = "cancelled" => j[c].os = "cancelled"
    OBVIOUS
  <2> QED
    BY <2>1, EndsSame
<1>5. History(k, y)
  <2>1. /\ r.kind \in Traded /\ r.os = "rejected" => Quiet(r, x)
        /\ \A p \in Id \ {c} : r.kind \in Traded /\ Ends(k, p, c) => Quiet(r, x)
        /\ \A o \in Id \ {c} : j[o].kind \in Traded /\ Ends(k, c, o) => Quiet(j[o], w[o])
    BY <1>3, <1>4 DEF History
  <2> QED
    BY <1>1, <1>2, <2>1, HistoryChanges
<1>6. Shifted(j, w, c, r, x, k, y)
  <2>1. Changes(j, w, c, r, x, k, y)
    BY <1>2 DEF Changes
  <2> QED
    BY ONLY <2>1, SumsShift
<1>7. /\ PositionIn(j, w) \in Int /\ BookedIn(j) \in Int
      /\ BuyingIn(j, w) \in Nat /\ SellingIn(j, w) \in Nat
      /\ BuyingIn(k, y) \in Nat /\ SellingIn(k, y) \in Nat
  BY <1>5, SumsAreNumbers
<1>8. /\ Net(r, r.settled) = 0 /\ Net(r, x.filled) = 0 /\ Net(j[c], j[c].settled) = 0
      /\ Net(j[c], w[c].filled) = 0
  BY DEF Net, NoOrder
<1>9. WorkingOf(j[c], w[c]) = 0 /\ WorkingOf(r, x) \in 0 .. j[c].requested
  BY <1>1 DEF WorkingOf, NoOrder
<1>10. /\ Part("open", j[c], WorkingOf(j[c], w[c])) = 0
       /\ Part("close", j[c], WorkingOf(j[c], w[c])) = 0
  BY <1>9 DEF Part
<1>11. /\ BookedIn(k) = BookedIn(j) /\ PositionIn(k, y) = PositionIn(j, w)
       /\ BuyingIn(k, y) = BuyingIn(j, w) + Part("open", r, WorkingOf(r, x))
       /\ SellingIn(k, y) = SellingIn(j, w) + Part("close", r, WorkingOf(r, x))
  BY <1>6, <1>7, <1>8, <1>10 DEF Shifted
<1>12. CASE r.kind = "cancel"
  <2>1. BuyingIn(k, y) = BuyingIn(j, w) /\ SellingIn(k, y) = SellingIn(j, w)
    BY <1>7, <1>11, <1>12 DEF Part
  <2> QED
    BY <1>5, <1>11, <2>1 DEF SameBooks, Bounded
<1>13. CASE r.kind \in Traded
  <2>1. Quiet(j[c], w[c])
    BY DEF Quiet, NoOrder
  <2>2. \A o \in Id : j[o].kind \in Traded => Quiet(j[o], w[o])
    BY <1>13, <2>1, OthersQuiet DEF Traded
  <2>3. PositionIn(j, w) = BookedIn(j) /\ BuyingIn(j, w) = 0 /\ SellingIn(j, w) = 0
    BY <2>2, QuietSums
  <2>4. CASE r.kind = "open"
    <3>1. SellingIn(k, y) = 0 /\ BuyingIn(k, y) <= j[c].requested
      BY <1>1, <1>7, <1>9, <1>11, <2>3, <2>4 DEF Part
    <3> QED
      BY <1>1, <1>5, <1>7, <1>11, <2>3, <2>4, <3>1, PlanAssumption DEF SameBooks, Bounded
  <2>5. CASE r.kind = "close"
    <3>1. BuyingIn(k, y) = 0 /\ SellingIn(k, y) <= j[c].requested
      BY <1>1, <1>7, <1>9, <1>11, <2>3, <2>5 DEF Part
    <3> QED
      BY <1>1, <1>5, <1>7, <1>11, <2>3, <2>5, <3>1, PlanAssumption DEF SameBooks, Bounded
  <2> QED
    BY <1>13, <2>4, <2>5 DEF Traded
<1> QED
  BY <1>12, <1>13 DEF Traded

\* What has to hold for a record r to be added as operation n.
MayBeAdded(j, w, n, r) ==
    /\ n \in Id /\ ~ Present(j, n) /\ \A o \in Id : o < n => Present(j, o)
    /\ r \in Record /\ r.rev # 0 /\ r.kind \in {"open", "close", "cancel"}
    /\ r.settled = 0 /\ r.os \in {"queued", "prechecking"}
    /\ \A o \in Id : j[o].kind \in Traded /\ (j[o].kind = "close" \/ r.kind # "cancel")
                        => Quiet(j[o], w[o])

\* One more operation is prepared.
LEMMA OperationPrepared ==
    ASSUME NEW j, NEW w, NEW f \in BOOLEAN, History(j, w), Bounded(j, w, f),
           NEW n, NEW r, MayBeAdded(j, w, n, r), NEW k, k = [j EXCEPT ![n] = r]
    PROVE  SameBooks(j, k, w, f)
<1> DEFINE x == w[n]
           y == [w EXCEPT ![n] = x]
<1>0. /\ n \in Id /\ ~ Present(j, n) /\ \A o \in Id : o < n => Present(j, o)
      /\ r \in Record /\ r.rev # 0 /\ r.kind \in {"open", "close", "cancel"}
      /\ r.settled = 0 /\ r.os \in {"queued", "prechecking"}
      /\ \A o \in Id : j[o].kind \in Traded /\ (j[o].kind = "close" \/ r.kind # "cancel")
                          => Quiet(j[o], w[o])
  BY DEF MayBeAdded
<1>1. /\ y = w /\ x \in Order /\ x = NoOrder /\ j[n].settled = 0
      /\ j[n].kind \notin Traded
  BY <1>0, OperationOf, AbsentIs
<1>2. x.filled = 0 /\ ~ x.live /\ r.requested \in Nat
  BY <1>0, <1>1, RecordIs DEF NoOrder
<1>3. RecordFits(r) /\ OrderFits(r, x)
  BY <1>0, <1>2 DEF RecordFits, OrderFits, FillState
<1>4. \A o \in Id \ {n} : k[o] = j[o]
  BY <1>0 DEF History
<1>5. k[n] = r
  BY <1>0 DEF History
<1>6. \A o \in Id : o > n => ~ Present(j, o)
  BY <1>0, IdsAreFinite DEF History
<1>7. /\ \A p \in Id \ {n} : ~ Ends(k, p, n)
      /\ \A o \in Id \ {n} : j[o].kind \in Traded /\ Ends(k, n, o) => Quiet(j[o], w[o])
  BY <1>0, <1>4, <1>5, <1>6 DEF Ends, Present
<1>8. r.kind \in Traded /\ r.os = "rejected" => Quiet(r, x)
  BY <1>0
<1>9. History(k, y)
  <2> HIDE DEF x
  <2> QED
    BY <1>0, <1>1, <1>3, <1>7, <1>8, HistoryChanges
<1>10. Shifted(j, w, n, r, x, k, y)
  <2>1. Changes(j, w, n, r, x, k, y)
    BY <1>0, <1>1, <1>3 DEF Changes
  <2> HIDE DEF x, y
  <2> QED
    BY ONLY <2>1, SumsShift
<1>11. /\ PositionIn(j, w) \in Int /\ BookedIn(j) \in Int
       /\ BuyingIn(j, w) \in Nat /\ SellingIn(j, w) \in Nat
       /\ BuyingIn(k, y) \in Nat /\ SellingIn(k, y) \in Nat
  BY <1>9, SumsAreNumbers
<1>12. /\ Net(r, r.settled) = 0 /\ Net(r, x.filled) = 0 /\ Net(j[n], j[n].settled) = 0
       /\ Net(j[n], w[n].filled) = 0
  BY <1>0, <1>1, <1>2 DEF Net
<1>13. /\ Part("open", j[n], WorkingOf(j[n], w[n])) = 0
       /\ Part("close", j[n], WorkingOf(j[n], w[n])) = 0
       /\ Part("open", r, WorkingOf(r, x)) = 0 /\ Part("close", r, WorkingOf(r, x)) = 0
  BY <1>2 DEF Part, WorkingOf
<1>14. /\ BookedIn(k) = BookedIn(j) /\ PositionIn(k, y) = PositionIn(j, w)
       /\ BuyingIn(k, y) = BuyingIn(j, w) /\ SellingIn(k, y) = SellingIn(j, w)
  BY <1>10, <1>11, <1>12, <1>13 DEF Shifted
<1> QED
  BY <1>1, <1>9, <1>14 DEF SameBooks, Bounded

----------------------------------------------------------------------------
(* The operations before the next one, as the memory has them.             *)

\* The current operation, as the memory and the journal have it.
LEMMA CurrentIs ==
    ASSUME NEW j, NEW w, NEW f, History(j, w), NEW t, Memory(t, j, w, f), t.slice.id # 0
    PROVE  LET c == t.slice.id
           IN  /\ c \in Id /\ Present(j, c) /\ Recorded(t, j[c], w[c]) /\ Shaped(t)
               /\ j[c].kind = t.slice.kind /\ t.slice.kind \in {"open", "close", "cancel"}
               /\ j[c].requested = t.slice.requested /\ t.slice.requested # 0
               /\ t.slice.state \notin Replaceable => \A o \in Id : o > c => ~ Present(j, o)
<1>1. t.slice.id \in Id
  BY PlanAssumption DEF Memory, Id
<1> QED
  BY <1>1 DEF Memory, Recorded

LEMMA SliceQuiet ==
    ASSUME NEW j, NEW w, NEW f, History(j, w), NEW t, Memory(t, j, w, f),
           t.slice.id # 0, t.slice.state \in Replaceable, t.slice.kind \in Traded,
           ~ (t.slice.kind = "close" /\ t.slice.state = "partially_filled"),
           t.slice.kind = "open" => t.pending = 0
    PROVE  Quiet(j[t.slice.id], w[t.slice.id])
<1> DEFINE c == t.slice.id
           r == j[c]
           x == w[c]
<1>1. /\ c \in Id /\ Recorded(t, r, x) /\ Shaped(t) /\ r.kind = t.slice.kind
      /\ r.requested = t.slice.requested
  BY CurrentIs
<1>2. t.slice.state \in {"partially_filled", "filled", "cancelled", "rejected"}
      /\ r.os = t.slice.state
  BY <1>1 DEF Recorded, Concluded, Replaceable
<1>3. /\ RecordFits(r) /\ OrderFits(r, x) /\ r.settled \in Nat /\ r.requested \in Nat
      /\ x.filled \in Nat /\ x.live \in BOOLEAN
      /\ r.kind \in Traded /\ r.os = "rejected" => Quiet(r, x)
  BY <1>1, OperationOf
<1>4. CASE r.os = "rejected"
  BY <1>1, <1>3, <1>4
<1>5. CASE r.os = "cancelled"
  BY <1>1, <1>3, <1>5 DEF RecordFits, Traded
<1>6. CASE r.os = "filled"
  <2>1. r.settled = r.requested
    BY <1>3, <1>6 DEF RecordFits, FillState, FillStateOf
  <2>2. r.settled <= x.filled /\ x.filled <= r.requested
        /\ (x.live => x.filled < r.requested)
    BY <1>1, <1>3 DEF OrderFits
  <2> QED
    BY <1>3, <2>1, <2>2 DEF Quiet
<1>7. CASE r.os = "partially_filled"
  <2>1. t.slice.kind = "open" /\ t.pending = 0
    BY <1>2, <1>7 DEF Traded
  <2>2. t.slice.result = r.settled
    BY <1>1, <1>2, <1>7 DEF Recorded, FillState
  <2>3. t.slice.requested - t.slice.result = 0
    BY <1>1, <1>2, <1>7, <2>1 DEF Shaped
  <2>4. r.settled # r.requested
    BY <1>3, <1>7 DEF RecordFits, FillState, FillStateOf
  <2> QED
    BY <1>1, <1>3, <2>2, <2>3, <2>4
<1> QED
  BY <1>2, <1>4, <1>5, <1>6, <1>7

LEMMA NothingPending ==
    ASSUME NEW j, NEW w, NEW f, History(j, w), NEW t, Memory(t, j, w, f),
           t.slice.state \in Replaceable, t.pending = 0,
           ~ (t.slice.kind = "close" /\ t.slice.state = "partially_filled"),
           \A o \in Id : o > t.slice.id => ~ Present(j, o)
    PROVE  \A o \in Id : j[o].kind \in Traded => Quiet(j[o], w[o])
<1> DEFINE c == t.slice.id
<1>1. SUFFICES ASSUME NEW o \in Id, j[o].kind \in Traded
               PROVE  Quiet(j[o], w[o])
  OBVIOUS
<1>2. Present(j, o) /\ o <= c /\ c # 0 /\ c \in Nat /\ Id \subseteq Nat \ {0}
  <2>1. Present(j, o)
    BY <1>1, AbsentIs
  <2> QED
    BY <2>1, IdsAreFinite DEF Memory
<1>3. /\ c \in Id /\ Present(j, c) /\ Recorded(t, j[c], w[c]) /\ Shaped(t)
      /\ j[c].kind = t.slice.kind /\ t.slice.kind \in {"open", "close", "cancel"}
  BY <1>2, CurrentIs
<1>4. CASE o = c
  BY <1>1, <1>2, <1>3, <1>4, SliceQuiet
<1>5. CASE o < c
  <2>1. t.slice.kind = "cancel" => j[c].os = "cancelled"
    <3>1. t.slice.kind = "cancel" => t.slice.state \notin {"dispatching", "rejected"}
      BY <1>3 DEF Shaped
    <3>2. t.slice.state \in {"rejected", "partially_filled", "filled", "cancelled"}
          /\ j[c].os = t.slice.state
      BY <1>3 DEF Recorded, Concluded, Replaceable
    <3>3. t.slice.kind = "cancel" => j[c].os \notin FillState
      BY <1>3, OperationOf DEF RecordFits, Traded
    <3> QED
      BY <3>1, <3>2, <3>3 DEF FillState
  <2>2. Ends(j, c, o)
    BY <1>2, <1>3, <1>5, <2>1 DEF Ends
  <2> QED
    BY <1>1, <1>3, <2>2 DEF History
<1> QED
  BY <1>2, <1>4, <1>5, IdsAreFinite

LEMMA ClosesAreOver ==
    ASSUME NEW j, NEW w, NEW f, History(j, w), NEW t, Memory(t, j, w, f), t.pending # 0,
           \A o \in Id : o > t.slice.id => ~ Present(j, o)
    PROVE  \A o \in Id : j[o].kind = "close" => Quiet(j[o], w[o])
<1> DEFINE c == t.slice.id
<1>1. SUFFICES ASSUME NEW o \in Id, j[o].kind = "close"
               PROVE  Quiet(j[o], w[o])
  OBVIOUS
<1>2. Present(j, o) /\ o <= c /\ c # 0 /\ c \in Nat /\ Id \subseteq Nat \ {0}
  <2>1. Present(j, o)
    BY <1>1, AbsentIs DEF Traded
  <2> QED
    BY <2>1, IdsAreFinite DEF Memory
<1>3. c \in Id /\ Present(j, c) /\ j[c].kind = t.slice.kind /\ Shaped(t)
  BY <1>2, CurrentIs
<1>4. o # c
  BY <1>1, <1>3 DEF Shaped
<1>5. Ends(j, c, o)
  BY <1>1, <1>2, <1>3, <1>4, IdsAreFinite DEF Ends
<1> QED
  BY <1>1, <1>3, <1>5 DEF History, Traded

\* A CLOSE is only made of a trade that is to be closed.
LEMMA ClosingIsRequested ==
    ASSUME NEW j, NEW w, NEW f, History(j, w), NEW t, Memory(t, j, w, f),
           t.slice.kind = "close", t.slice.state = "partially_filled"
    PROVE  t.requested
<1>1. t \in Trade /\ t.slice.id # 0
  BY NewTradeIs DEF Memory
<1>2. Shaped(t)
  BY <1>1, CurrentIs
<1>3. PICK a \in Trade : Follows(t, a)
  BY <1>2 DEF Shaped, Traceable
<1> DEFINE v == t.slice.requested
           q == t.slice.result
<1>4. v \in Nat /\ q \in 0 .. v /\ q <= a.open /\ a.open \in Nat
      /\ t = CloseTrade(a, "partially_filled", v, q)
  BY <1>1, <1>3, FollowsIs
<1>5. "partially_filled" \in Traceable /\ q \in 0 .. a.open
  BY <1>4 DEF Traceable
<1> HIDE DEF v, q
<1> QED
  BY <1>4, <1>5, CloseTradeIs

----------------------------------------------------------------------------
(* An operation is prepared.                                               *)

\* u is what a prepare handler made of t.
Starts(u, t) ==
    /\ u \in Trade /\ Follows(u, t) /\ u.slice.state = "dispatching"
    /\ u.slice.id = t.slice.id + 1 /\ u.slice.id \in Id
    /\ t.slice.state \in Replaceable /\ u.slice.requested # 0
    /\ u.open = t.open /\ u.pending = t.pending
    /\ u.slice.kind \in {"open", "close", "cancel"}
    /\ u.slice.kind = "open" => t.open + u.slice.requested <= TargetVolume
    /\ u.slice.kind = "close" => u.slice.requested <= t.open
    /\ u.slice.kind = "cancel" <=> t.pending # 0
    /\ u.slice.kind # "cancel" =>
          ~ (t.slice.kind = "close" /\ t.slice.state = "partially_filled")

LEMMA OpenIsStarted ==
    ASSUME NEW j, NEW w, NEW f, History(j, w), NEW t, Memory(t, j, w, f),
           NEW volume, NEW u \in StartOpenSlice(t, volume)
    PROVE  Starts(u, t)
<1>1. t \in Trade /\ t.slice.id \in Nat
  BY FieldTypes DEF Memory
<1>2. /\ u = OpenTrade(t, "dispatching", volume, 0)
      /\ t.slice.state \in Replaceable /\ ~ t.requested /\ t.pending = 0
      /\ volume \in 1 .. MaxSliceVolume /\ t.open + volume <= TargetVolume
      /\ t.slice.id < MaxOperations
  BY <1>1, OpenStarts
<1>3. ~ (t.slice.kind = "close" /\ t.slice.state = "partially_filled")
  BY <1>2, ClosingIsRequested
<1>4. /\ u \in Trade /\ Follows(u, t) /\ u.open = t.open + 0
      /\ u.pending = 0
      /\ u.slice.id = t.slice.id + 1 /\ u.slice.kind = "open"
      /\ u.slice.state = "dispatching" /\ u.slice.requested = volume
  <2>1. /\ "dispatching" \in Traceable /\ volume \in Nat /\ 0 \in 0 .. volume
        /\ "dispatching" # "partially_filled" /\ t \in Trade
    BY <1>1, <1>2, PlanAssumption DEF Traceable
  <2> QED
    BY ONLY <1>2, <2>1, OpenFollows
<1>5. t.open \in Nat /\ volume # 0 /\ t.slice.id + 1 \in Id
  BY <1>1, <1>2, FieldTypes, PlanAssumption DEF Id
<1> QED
  BY <1>2, <1>3, <1>4, <1>5 DEF Starts

LEMMA CloseIsStarted ==
    ASSUME NEW t \in Trade, NEW volume,
           NEW b \in IF t.requested THEN {t} ELSE RequestClose(t),
           NEW u \in StartClose(b, volume)
    PROVE  Starts(u, t)
<1>1. /\ u = CloseTrade(t, "dispatching", volume, 0)
      /\ t.slice.state \in Replaceable /\ t.pending = 0
      /\ volume \in 1 .. t.open /\ t.slice.id < MaxOperations
      /\ ~ (t.slice.kind = "close" /\ t.slice.state = "partially_filled")
  BY CloseStarts
<1>2. t.open \in Nat /\ t.slice.id \in Nat
  BY FieldTypes
<1>3. /\ u \in Trade /\ Follows(u, t) /\ u.open = t.open - 0 /\ u.pending = t.pending
      /\ u.slice.id = t.slice.id + 1 /\ u.slice.kind = "close"
      /\ u.slice.state = "dispatching" /\ u.slice.requested = volume
  <2>1. /\ "dispatching" \in Traceable /\ volume \in Nat /\ 0 \in 0 .. volume
        /\ "dispatching" \notin FillState /\ t \in Trade /\ 0 <= t.open
    BY <1>1, <1>2 DEF Traceable, FillState
  <2> QED
    BY ONLY <1>1, <2>1, CloseFollows
<1>4. volume # 0 /\ volume <= t.open /\ t.slice.id + 1 \in Id
  BY <1>1, <1>2, PlanAssumption DEF Id
<1> QED
  BY <1>1, <1>2, <1>3, <1>4 DEF Starts

LEMMA CancelIsStarted ==
    ASSUME NEW t \in Trade, NEW u \in StartCancel(t)
    PROVE  Starts(u, t)
<1>1. /\ u = CancelTrade(t, "dispatching", t.pending)
      /\ t.slice.state \in Replaceable /\ t.pending # 0 /\ t.slice.id < MaxOperations
  BY CancelStarts
<1>2. t.pending \in Nat /\ t.slice.id \in Nat
  BY FieldTypes
<1>3. /\ u \in Trade /\ Follows(u, t) /\ u.open = t.open /\ u.pending = t.pending
      /\ u.slice.id = t.slice.id + 1 /\ u.slice.kind = "cancel"
      /\ u.slice.state = "dispatching" /\ u.slice.requested = t.pending
  <2>1. "dispatching" \in Traceable \ FillState /\ "dispatching" # "cancelled"
    BY DEF Traceable, FillState
  <2> QED
    BY <1>1, <1>2, <2>1, CancelFollows
<1>4. t.slice.id + 1 \in Id
  BY <1>1, <1>2, PlanAssumption DEF Id
<1> QED
  BY <1>1, <1>3, <1>4 DEF Starts

\* What a prepare handler can rely on.
LEMMA StartsQuiet ==
    ASSUME NEW j, NEW w, NEW f, History(j, w), NEW t, Memory(t, j, w, f),
           NEW u, Starts(u, t), NEW n, n = u.slice.id, ~ Present(j, n)
    PROVE  /\ n \in Id /\ n = t.slice.id + 1 /\ t.slice.id \in Nat
           /\ \A o \in Id : o > t.slice.id => ~ Present(j, o)
           /\ \A o \in Id : o < n => Present(j, o)
           /\ \A o \in Id :
                 j[o].kind \in Traded /\ (j[o].kind = "close" \/ u.slice.kind # "cancel")
                 => Quiet(j[o], w[o])
<1>1. /\ t \in Trade /\ t.slice.id \in Nat /\ n = t.slice.id + 1 /\ n \in Id
      /\ Id \subseteq Nat
  BY FieldTypes, IdsAreFinite DEF Memory, Starts
<1>2. \A o \in Id : o < n => Present(j, o)
  BY <1>1 DEF Memory
<1>3. \A o \in Id : o > t.slice.id => ~ Present(j, o)
  BY <1>1 DEF History
<1>4. CASE u.slice.kind = "cancel"
  <2>1. t.pending # 0
    BY <1>4 DEF Starts
  <2>2. \A o \in Id : j[o].kind = "close" => Quiet(j[o], w[o])
    BY <1>3, <2>1, ClosesAreOver
  <2> QED
    BY <1>1, <1>2, <1>3, <1>4, <2>2
<1>5. CASE u.slice.kind # "cancel"
  <2>1. /\ t.pending = 0 /\ t.slice.state \in Replaceable
        /\ ~ (t.slice.kind = "close" /\ t.slice.state = "partially_filled")
    BY <1>5 DEF Starts
  <2>2. \A o \in Id : j[o].kind \in Traded => Quiet(j[o], w[o])
    BY <1>3, <2>1, NothingPending
  <2> QED
    BY <1>1, <1>2, <1>3, <2>2
<1> QED
  BY <1>4, <1>5

\* All five commits of a preparation, and the memory that goes with them.
LEMMA PreparationDone ==
    ASSUME NEW j, NEW w, NEW f \in BOOLEAN, History(j, w), Bounded(j, w, f),
           NEW t, Stands(t, j, w, f), NEW u, Starts(u, t),
           NEW n, n = u.slice.id, ~ Present(j, n),
           NEW desc \in Descriptor,
           NEW r, r = Preparation(u.slice.kind, desc, u.slice.requested)[5],
           NEW k, k = [j EXCEPT ![n] = r]
    PROVE  History(k, w) /\ Bounded(k, w, f) /\ Stands(u, k, w, f)
<1> DEFINE c == t.slice.id
<1>1. /\ u \in Trade /\ Follows(u, t) /\ u.slice.state = "dispatching"
      /\ t.slice.state \in Replaceable /\ u.slice.requested # 0
      /\ u.open = t.open /\ u.pending = t.pending /\ t \in Trade
      /\ u.slice.kind \in {"open", "close", "cancel"}
      /\ u.slice.kind = "open" => u.open + u.slice.requested <= TargetVolume
      /\ u.slice.kind = "close" => u.slice.requested <= u.open
      /\ u.slice.kind = "cancel" <=> t.pending # 0
  BY DEF Starts, Stands, Memory
<1>2. Memory(t, j, w, f) /\ (~ f => Retraced(t, j))
  BY DEF Stands
<1>3. /\ n \in Id /\ n = c + 1 /\ c \in Nat
      /\ \A o \in Id : o > c => ~ Present(j, o)
      /\ \A o \in Id : o < n => Present(j, o)
      /\ \A o \in Id :
            j[o].kind \in Traded /\ (j[o].kind = "close" \/ u.slice.kind # "cancel")
            => Quiet(j[o], w[o])
  BY <1>2, StartsQuiet
<1>4. u.slice.requested \in Nat /\ u.open \in Nat /\ u.pending \in Nat
  BY <1>1, FieldTypes
<1>5. /\ r \in Record /\ r.rev # 0 /\ r.kind = u.slice.kind /\ r.settled = 0
      /\ r.os = "prechecking" /\ r.js = "dispatch_intent_persisted"
      /\ r.requested = u.slice.requested
  <2> DEFINE kind == u.slice.kind
             requested == u.slice.requested
  <2>1. /\ kind \in {"open", "close", "cancel"} /\ desc \in Descriptor
        /\ requested \in Nat /\ 5 \in 1 .. 5
        /\ r = Preparation(kind, desc, requested)[5]
    BY <1>1, <1>4
  <2> HIDE DEF kind, requested
  <2>2. r \in Record /\ r.rev # 0 /\ r.kind = kind /\ r.settled = 0
    BY ONLY <2>1, PreparationIs
  <2>3. /\ r.os = "prechecking" /\ r.js = "dispatch_intent_persisted"
        /\ r.requested = requested
    BY ONLY <2>1, PreparationIs
  <2> QED
    BY <2>2, <2>3 DEF kind, requested
<1>6. History(k, w) /\ Bounded(k, w, f) /\ BookedIn(k) = BookedIn(j)
  <2>1. MayBeAdded(j, w, n, r)
    BY <1>1, <1>3, <1>5 DEF MayBeAdded
  <2>2. SameBooks(j, k, w, f)
    BY <2>1, OperationPrepared
  <2> QED
    BY <2>2 DEF SameBooks
<1>7. j \in [Id -> Record] /\ k[n] = r /\ \A o \in Id \ {n} : k[o] = j[o]
  BY <1>3 DEF History
<1>8. w[n] = NoOrder
  BY <1>3, AbsentIs
<1>9. Recorded(u, k[n], w[n])
  BY <1>1, <1>5, <1>7, <1>8 DEF Recorded, Concluded, FillState
<1>10. Shaped(u)
  BY <1>1 DEF Shaped
<1>11. /\ \A o \in Id : o <= n => Present(k, o)
       /\ \A o \in Id : o > n => ~ Present(k, o)
  BY <1>3, <1>5, <1>7, IdsAreFinite DEF Present
<1>12. ASSUME ~ f, u.slice.kind = "cancel", NEW b \in Id, CancelledBy(k, b, n)
       PROVE  u.pending = k[b].requested - k[b].settled
  <2>1. b < n /\ k[b].kind = "open" /\ b \in Nat /\ b <= c /\ k[b] = j[b] /\ c \in Id
    BY <1>3, <1>7, <1>12, IdsAreFinite, PlanAssumption DEF CancelledBy, Id
  <2>2. /\ Recorded(t, j[c], w[c]) /\ Shaped(t) /\ j[c].kind = t.slice.kind
        /\ j[c].requested = t.slice.requested
    <3>1. c \in Id /\ c # 0
      BY <2>1, IdsAreFinite
    <3> QED
      BY <1>2, <3>1, CurrentIs
  <2>3. CASE b = c
    <3>1. /\ t.slice.kind = "open"
          /\ t.pending = IF t.slice.state = "partially_filled"
                           THEN t.slice.requested - t.slice.result ELSE 0
      BY <2>1, <2>2, <2>3 DEF Shaped
    <3>2. t.slice.state = "partially_filled"
      BY <1>1, <1>12, <3>1
    <3>3. t.slice.result = j[c].settled
      BY <2>2, <3>2 DEF Recorded, FillState
    <3> QED
      BY <1>1, <2>1, <2>2, <2>3, <3>1, <3>2, <3>3
  <2>4. CASE b < c
    <3>1. \A p \in b + 1 .. c : j[p].kind = "cancel"
      <4>1. SUFFICES ASSUME NEW p \in b + 1 .. c
                     PROVE  j[p].kind = "cancel"
        OBVIOUS
      <4>2. p \in b + 1 .. n /\ p \in Id \ {n}
        BY <1>3, <2>1, <4>1, PlanAssumption DEF Id
      <4> QED
        BY <1>7, <1>12, <4>2 DEF CancelledBy
    <3>2. CancelledBy(j, b, c)
      BY <2>1, <2>4, <3>1 DEF CancelledBy
    <3>3. t.slice.kind = "cancel"
      BY <1>3, <2>1, <2>2, <2>4, <3>1
    <3>4. t.slice.state # "cancelled"
      BY <1>1, <1>12, <2>2, <3>3 DEF Shaped
    <3> QED
      BY <1>1, <1>2, <1>12, <2>1, <3>2, <3>3, <3>4 DEF Memory
  <2> QED
    BY <1>3, <2>1, <2>3, <2>4
<1>13. Memory(u, k, w, f)
  <2>1. n \in 0 .. MaxOperations /\ n # 0
    BY <1>3, PlanAssumption DEF Id
  <2>2. u.open <= BookedIn(k) /\ (~ f => u.open = BookedIn(k))
    BY <1>1, <1>2, <1>6 DEF Memory
  <2> QED
    BY <1>1, <1>9, <1>10, <1>11, <1>12, <2>1, <2>2 DEF Memory
<1>14. ASSUME ~ f
       PROVE  Retraced(u, k)
  <2>1. c \in 0 .. MaxOperations
    BY <1>3, PlanAssumption DEF Id
  <2>2. \A o \in 1 .. c : j[o] = k[o]
    BY <1>3, <1>7, PlanAssumption DEF Id
  <2>3. \A m \in 0 .. c : Replays(j)[m] = Replays(k)[m]
    <3> HIDE DEF c
    <3> QED
      BY ONLY <2>1, <2>2, ReplaysSame
  <2>4. \A a \in Replays(k)[c] : a = t
    <3>1. Replays(j)[MaxOperations] = Replays(k)[c]
      <4>1. \A o \in Id : o > c => ~ Present(j, o)
        BY <1>3
      <4>2. Replays(j)[c] = Replays(k)[c]
        <5>1. c \in 0 .. c
          BY <1>3
        <5> QED
          BY <2>3, <5>1
      <4> HIDE DEF c
      <4>3. Replays(j)[MaxOperations] = Replays(j)[c]
        BY ONLY <2>1, <4>1, ReplaysStop
      <4> QED
        BY <4>2, <4>3
    <3>2. Memory(t, j, w, FALSE)
      BY <1>2, <1>14
    <3> QED
      BY <1>2, <1>14, <3>1, <3>2, MemoryIsRecovered
  <2>5. n - 1 = c /\ n - 2 = c - 1
    BY <1>3
  <2>6. ASSUME u.slice.kind = "cancel", n > 1, k[c].kind = "open", k[c].os \in FillState,
               NEW a \in Replays(k)[c - 1]
        PROVE  Follows(u, OpenTrade(a, k[c].os, k[c].requested, k[c].settled))
    <3>1. c \in Id /\ c # 0 /\ k[c] = j[c] /\ c - 1 \in 0 .. c /\ c - 1 \in 0 .. MaxOperations
      BY <1>3, <1>7, <2>1, <2>6, PlanAssumption DEF Id
    <3>2. /\ Recorded(t, j[c], w[c]) /\ j[c].kind = t.slice.kind
          /\ j[c].requested = t.slice.requested
      BY <1>2, <3>1, CurrentIs
    <3>3. t.slice.state \in FillState /\ j[c].os = t.slice.state
          /\ t.slice.result = j[c].settled
      BY <1>1, <2>6, <3>1, <3>2 DEF Recorded, Concluded, Replaceable, FillState
    <3>4. t.slice.kind = "open" /\ t.slice.state \in Traceable
      BY <2>6, <3>1, <3>2, <3>3 DEF FillState, Traceable
    <3>5. a \in Replays(j)[c - 1]
      BY <2>3, <2>6, <3>1
    <3>6. Follows(t, a)
      BY <1>2, <1>14, <3>4, <3>5 DEF Retraced, Traded
    <3>7. a \in Trade
      BY <3>1, <3>5, ReplaysAreTrades
    <3>8. t = OpenTrade(a, t.slice.state, t.slice.requested, t.slice.result)
      BY <1>1, <3>4, <3>6, <3>7, FollowsIs
    <3>9. t = OpenTrade(a, k[c].os, k[c].requested, k[c].settled)
      BY <3>1, <3>2, <3>3, <3>8
    <3> QED
      BY <1>1, <3>9
  <2> QED
    BY <1>1, <2>4, <2>5, <2>6 DEF Retraced
<1> QED
  BY <1>6, <1>13, <1>14 DEF Stands

\* A preparation that stops before its last commit.
LEMMA PreparationStops ==
    ASSUME NEW j, NEW w, NEW f \in BOOLEAN, History(j, w), Bounded(j, w, f),
           NEW t, Stands(t, j, w, f), NEW u, Starts(u, t),
           NEW n, n = u.slice.id, ~ Present(j, n),
           NEW desc \in Descriptor, NEW m \in 1 .. 4,
           NEW r, r = Preparation(u.slice.kind, desc, u.slice.requested)[m],
           NEW k, k = [j EXCEPT ![n] = r]
    PROVE  History(k, w) /\ Bounded(k, w, f) /\ (f => Stands(t, k, w, f))
<1> DEFINE c == t.slice.id
<1>1. Memory(t, j, w, f)
  BY DEF Stands
<1>2. /\ n \in Id /\ n = c + 1 /\ c \in Nat
      /\ \A o \in Id : o > c => ~ Present(j, o)
      /\ \A o \in Id : o < n => Present(j, o)
      /\ \A o \in Id :
            j[o].kind \in Traded /\ (j[o].kind = "close" \/ u.slice.kind # "cancel")
            => Quiet(j[o], w[o])
  BY <1>1, StartsQuiet
<1>3. /\ u.slice.requested \in Nat /\ u.slice.kind \in {"open", "close", "cancel"}
      /\ t.slice.state \in Replaceable
  BY FieldTypes DEF Starts
<1>4. /\ r \in Record /\ r.rev # 0 /\ r.kind = u.slice.kind /\ r.settled = 0
      /\ r.os \in {"queued", "prechecking"}
  <2>1. m \in 1 .. 5
    OBVIOUS
  <2>2. u.slice.kind \in {"open", "close", "cancel"} /\ u.slice.requested \in Nat
    BY <1>3
  <2> DEFINE kind == u.slice.kind
             requested == u.slice.requested
  <2>3. r = Preparation(kind, desc, requested)[m]
    OBVIOUS
  <2> HIDE DEF kind, requested
  <2>4. kind \in {"open", "close", "cancel"} /\ requested \in Nat /\ desc \in Descriptor
    BY <2>2 DEF kind, requested
  <2>5. /\ r \in Record /\ r.rev # 0 /\ r.kind = kind /\ r.settled = 0
        /\ r.os \in {"queued", "prechecking"}
    BY ONLY <2>1, <2>3, <2>4, PreparationIs
  <2> QED
    BY <2>5 DEF kind
<1>5. History(k, w) /\ Bounded(k, w, f) /\ BookedIn(k) = BookedIn(j)
  <2>1. MayBeAdded(j, w, n, r)
    BY <1>2, <1>3, <1>4 DEF MayBeAdded
  <2>2. SameBooks(j, k, w, f)
    BY <2>1, OperationPrepared
  <2> QED
    BY <2>2 DEF SameBooks
<1>6. j \in [Id -> Record] /\ k[n] = r /\ \A o \in Id \ {n} : k[o] = j[o]
  BY <1>2 DEF History
<1>7. ASSUME f
      PROVE  Memory(t, k, w, f)
  <2>1. \A o \in Id : o <= c => Present(k, o) /\ k[o] = j[o]
    BY <1>1, <1>2, <1>6, IdsAreFinite DEF Memory, Present
  <2>2. c # 0 => c \in Id
    BY <1>1, CurrentIs
  <2>3. c # 0 => Recorded(t, k[c], w[c]) /\ Shaped(t)
    BY <1>1, <2>1, <2>2, IdsAreFinite DEF Memory
  <2> QED
    BY <1>1, <1>3, <1>5, <1>7, <2>1, <2>3 DEF Memory
<1> QED
  BY <1>5, <1>7 DEF Stands

----------------------------------------------------------------------------
(* What a step of one operation has to show of the memory.                 *)

LEMMA StandsChanges ==
    ASSUME NEW j, NEW w, NEW f \in BOOLEAN, History(j, w), NEW t, Stands(t, j, w, f),
           NEW r, NEW x, NEW u, MayBecome(u, t, j, r, x, f),
           NEW k, k = [j EXCEPT ![t.slice.id] = r], NEW y, y[t.slice.id] = x,
           BookedIn(k) = BookedIn(j) + (u.open - t.open)
    PROVE  Stands(u, k, y, f)
<1> DEFINE c == t.slice.id
<1>1. /\ c \in Id /\ r.rev # 0 /\ r.kind = j[c].kind
      /\ u \in Trade /\ SameOperation(u, t) /\ Recorded(u, r, x) /\ Shaped(u)
      /\ u.slice.state = t.slice.state \/ u.slice.state \in Replaceable
           \/ t.slice.state \notin Replaceable
      /\ u.slice.kind = "cancel" /\ u.slice.state # "cancelled" =>
            u.pending = t.pending /\ t.slice.state # "cancelled"
      /\ ~ f => \/ u.slice.state \notin Traceable
                \/ /\ t.slice.state \in Traceable
                   /\ \A a \in Trade : Follows(t, a) => Follows(u, a)
  BY DEF MayBecome
<1>2. Memory(t, j, w, f) /\ (~ f => Retraced(t, j)) /\ t \in Trade
  BY DEF Stands, Memory
<1>3. k = [j EXCEPT ![c] = r] /\ y[c] = x
  OBVIOUS
<1>4. BookedFor(u, k, f)
  <2>1. BookedIn(j) \in Int /\ u.open \in Nat /\ t.open \in Nat
    BY <1>1, <1>2, SumsAreNumbers, FieldTypes
  <2>2. t.open <= BookedIn(j) /\ (~ f => t.open = BookedIn(j))
    BY <1>2 DEF Memory
  <2> QED
    BY <2>1, <2>2 DEF BookedFor
<1>5. Memory(u, k, y, f)
  <2>1. Recommitted(u, t, j, w, f, c, r, x, k, y)
    BY <1>2, <1>3, <1>4 DEF Recommitted
  <2> QED
    BY ONLY <2>1, MemoryChanges
<1> HIDE DEF c
<1>6. ASSUME ~ f
      PROVE  Retraced(u, k)
  <2>1. CASE u.slice.state \notin Traceable
    BY <2>1 DEF Retraced
  <2>2. CASE /\ t.slice.state \in Traceable
             /\ \A a \in Trade : Follows(t, a) => Follows(u, a)
    <3>1. /\ History(j, w) /\ Memory(t, j, w, f) /\ Retraced(t, j)
          /\ c \in Id /\ c = t.slice.id /\ SameOperation(u, t)
      BY <1>1, <1>2, <1>6 DEF c
    <3> QED
      BY ONLY <1>3, <2>2, <3>1, RetracedChanges
  <2> QED
    BY <1>1, <1>6, <2>1, <2>2
<1> QED
  BY <1>5, <1>6 DEF Stands

\* The memory stays while the record or the order of its operation changes.
LEMMA StandsStays ==
    ASSUME NEW j, NEW w, NEW f \in BOOLEAN, History(j, w), NEW t, Stands(t, j, w, f),
           t.slice.id \in Id, NEW r, NEW x, r.rev # 0, r.kind = j[t.slice.id].kind,
           Recorded(t, r, x),
           NEW k, k = [j EXCEPT ![t.slice.id] = r], NEW y, y[t.slice.id] = x,
           BookedIn(k) = BookedIn(j)
    PROVE  Stands(t, k, y, f)
<1>1. t \in Trade /\ Shaped(t)
  BY IdsAreFinite DEF Stands, Memory
<1>2. MayBecome(t, t, j, r, x, f)
  BY <1>1 DEF MayBecome, SameOperation
<1>3. BookedIn(k) = BookedIn(j) + (t.open - t.open)
  BY <1>1, FieldTypes, SumsAreNumbers
<1> QED
  BY <1>2, <1>3, StandsChanges

----------------------------------------------------------------------------
(* The execution of an operation.                                          *)

\* What the execution relies on.
LEMMA DispatchIs ==
    ASSUME NEW j, NEW w, NEW f, History(j, w), NEW t, Stands(t, j, w, f),
           t.slice.state = "dispatching", NEW c, c = t.slice.id,
           j[c].js = "dispatch_intent_persisted"
    PROVE  /\ c \in Id /\ Present(j, c) /\ j[c] \in Record
           /\ \A o \in Id : o > c => ~ Present(j, o)
           /\ w[c] = NoOrder /\ j[c].settled = 0 /\ j[c].requested # 0
           /\ j[c].kind \in {"open", "close", "cancel"} /\ j[c].kind = t.slice.kind
           /\ j[c].os \in {"prechecking", "submitting"}
           /\ j[c].requested = t.slice.requested
           /\ j[c].kind = "close" => j[c].requested <= BookedIn(j)
           /\ j[c].kind = "open" /\ ~ f => BookedIn(j) + j[c].requested <= TargetVolume
           /\ t \in Trade /\ Shaped(t) /\ \E a \in Trade : Follows(t, a)
<1>1. Memory(t, j, w, f) /\ t \in Trade
  BY DEF Stands, Memory
<1>2. c # 0
  BY <1>1, NewTradeIs DEF Memory
<1>3. /\ c \in Id /\ Present(j, c) /\ Recorded(t, j[c], w[c]) /\ Shaped(t)
      /\ j[c].kind = t.slice.kind /\ t.slice.kind \in {"open", "close", "cancel"}
      /\ j[c].requested = t.slice.requested /\ t.slice.requested # 0
      /\ t.slice.state \notin Replaceable => \A o \in Id : o > c => ~ Present(j, o)
  BY <1>1, <1>2, CurrentIs
<1>4. t.slice.state \notin Replaceable /\ t.slice.state \in Traceable
  BY DEF Replaceable, Traceable
<1>5. j[c].os \in {"prechecking", "submitting"} /\ w[c] = NoOrder
  BY <1>3 DEF Recorded
<1>6. j[c] \in Record /\ RecordFits(j[c])
  BY <1>3, OperationOf
<1>7. j[c].settled = 0
  BY <1>5, <1>6 DEF RecordFits, FillState
<1>8. \E a \in Trade : Follows(t, a)
  BY <1>3, <1>4 DEF Shaped
<1>9. /\ t.open \in Nat /\ j[c].requested \in Nat /\ BookedIn(j) \in Int
      /\ t.open <= BookedIn(j) /\ (~ f => t.open = BookedIn(j))
  BY <1>1, <1>3, FieldTypes, SumsAreNumbers DEF Memory
<1>10. j[c].kind = "close" => j[c].requested <= BookedIn(j)
  BY <1>3, <1>9 DEF Shaped
<1>11. j[c].kind = "open" /\ ~ f => BookedIn(j) + j[c].requested <= TargetVolume
  BY <1>3, <1>9 DEF Shaped
<1> QED
  BY <1>1, <1>3, <1>4, <1>5, <1>6, <1>7, <1>8, <1>10, <1>11

----------------------------------------------------------------------------
(* The inductive invariant, in every state that a step can lead to.        *)

\* While there is no owner, what it will be made of is all in the journal.
Held(t, alive, j, w, f) ==
    /\ History(j, w) /\ Bounded(j, w, f)
    /\ alive \in BOOLEAN
    /\ alive => Stands(t, j, w, f)
    /\ ~ alive => t = NewTrade

\* A step that ends with the memory it had, or with the process.
LEMMA HeldOrDies ==
    ASSUME NEW j, NEW w, NEW f, History(j, w), Bounded(j, w, f),
           NEW t, NEW alive, NEW u,
           \/ alive = TRUE /\ u = t /\ Stands(t, j, w, f)
           \/ alive = FALSE /\ u = NewTrade
    PROVE  Held(u, alive, j, w, f)
BY DEF Held

\* The records of an operation that is being executed.
LEMMA SubmittingIs ==
    ASSUME CurrentRecord \in Record, CurrentRecord.settled = 0
    PROVE  /\ Admitted \in Record /\ Admitted.rev # 0 /\ Admitted.js = "dispatching"
           /\ Admitted.os = CurrentRecord.os /\ Admitted.kind = CurrentRecord.kind
           /\ Admitted.requested = CurrentRecord.requested /\ Admitted.settled = 0
           /\ Submitting \in Record /\ Submitting.rev # 0 /\ Submitting.js = "dispatching"
           /\ Submitting.os = "submitting" /\ Submitting.kind = CurrentRecord.kind
           /\ Submitting.requested = CurrentRecord.requested /\ Submitting.settled = 0
<1>1. /\ "dispatching" \in JournalState /\ "submitting" \in OperationState
      /\ "submitting" \notin FillState /\ 0 \in Nat /\ 1 \in Nat
  BY DEF JournalState, OperationState, FillState
<1> DEFINE r == CurrentRecord
           a == Admitted
           s == Submitting
<1>2. r \in Record /\ a = JournalAdvanced(r, "dispatching", 1)
  BY DEF Admitted
<1>3. s = OperationAdvanced(a, "submitting", 0)
  BY DEF Submitting
<1> HIDE DEF r, a, s
<1>4. /\ a \in Record /\ a.rev # 0 /\ a.js = "dispatching" /\ a.os = r.os
      /\ a.kind = r.kind /\ a.requested = r.requested /\ a.settled = r.settled
  BY ONLY <1>1, <1>2, JournalAdvances
<1>5. /\ s \in Record /\ s.rev # 0 /\ s.js = a.js /\ s.os = "submitting"
      /\ s.kind = a.kind /\ s.requested = a.requested /\ s.settled = 0
  <2>1. /\ s \in Record /\ s.rev # 0 /\ s.js = a.js /\ s.os = "submitting"
        /\ s.kind = a.kind /\ s.requested = a.requested
    BY ONLY <1>1, <1>3, <1>4, OperationAdvances
  <2>2. s.settled = 0
    BY <1>1, <1>3, <1>4, OperationAdvances
  <2> QED
    BY <2>1, <2>2
<1> QED
  BY <1>4, <1>5 DEF r, a, s

\* A history that remains one, and a memory of it.
Kept(u, k, y, f) == History(k, y) /\ Bounded(k, y, f) /\ Stands(u, k, y, f)

\* An operation that is being executed, and the record and order it ends with.
Executed(t, j, w, f, c) ==
    /\ History(j, w) /\ Bounded(j, w, f) /\ Stands(t, j, w, f)
    /\ t.slice.state = "dispatching" /\ c = t.slice.id
    /\ j[c].js = "dispatch_intent_persisted"

Yielded(j, w, c, r, x, k, y) ==
    /\ r \in Record /\ r.rev # 0 /\ r.kind = j[c].kind
    /\ r.requested = j[c].requested /\ r.settled = 0
    /\ k = [j EXCEPT ![c] = r]
    /\ x \in Order /\ x.filled = 0 /\ y = [w EXCEPT ![c] = x]

\* The execution stops before the call, or knows nothing of it.
LEMMA ExecutionStays ==
    ASSUME NEW j, NEW w, NEW f \in BOOLEAN, NEW t, NEW c, Executed(t, j, w, f, c),
           NEW r, NEW x, NEW k, NEW y, Yielded(j, w, c, r, x, k, y),
           r.os \in {j[c].os, "submitting"}, r.js # "dispatch_intent_persisted"
    PROVE  Kept(t, k, y, f)
<1> /\ History(j, w) /\ Bounded(j, w, f) /\ Stands(t, j, w, f)
    /\ t.slice.state = "dispatching" /\ c = t.slice.id
    /\ j[c].js = "dispatch_intent_persisted"
    /\ r \in Record /\ r.rev # 0 /\ r.kind = j[c].kind
    /\ r.requested = j[c].requested /\ r.settled = 0
    /\ k = [j EXCEPT ![c] = r]
    /\ x \in Order /\ x.filled = 0 /\ y = [w EXCEPT ![c] = x]
  BY DEF Executed, Yielded
<1>1. /\ c \in Id /\ Present(j, c) /\ j[c] \in Record
      /\ \A o \in Id : o > c => ~ Present(j, o)
      /\ w[c] = NoOrder /\ j[c].settled = 0 /\ j[c].requested # 0
      /\ j[c].kind \in {"open", "close", "cancel"} /\ j[c].kind = t.slice.kind
      /\ j[c].os \in {"prechecking", "submitting"}
      /\ j[c].requested = t.slice.requested
      /\ j[c].kind = "close" => j[c].requested <= BookedIn(j)
      /\ j[c].kind = "open" /\ ~ f => BookedIn(j) + j[c].requested <= TargetVolume
  BY DispatchIs
<1>2. r.os \in {"prechecking", "submitting"}
      /\ r.os \notin FillState \cup {"cancelled", "rejected"}
  BY <1>1 DEF FillState
<1>3. SameBooks(j, k, y, f)
  BY <1>1, <1>2, OrderPlaced
<1>4. Recorded(t, r, x)
  BY <1>1, <1>2 DEF Recorded, Concluded, FillState
<1>5. w \in [Id -> Order] /\ y[c] = x
  BY <1>1 DEF History
<1>6. BookedIn(k) = BookedIn(j)
  BY <1>3 DEF SameBooks
<1>7. Stands(t, k, y, f)
  BY <1>1, <1>4, <1>5, <1>6, StandsStays
<1> QED
  BY <1>3, <1>7 DEF SameBooks, Kept

\* The call was made, as far as the owner knows.
LEMMA ExecutionGoesOn ==
    ASSUME NEW j, NEW w, NEW f \in BOOLEAN, NEW t, NEW c, Executed(t, j, w, f, c),
           NEW r, NEW x, NEW k, NEW y, Yielded(j, w, c, r, x, k, y),
           r.os \in {"submitting", "accepted", "reconciling"},
           NEW u \in EnterSubmitting(t)
    PROVE  Kept(u, k, y, f)
<1> /\ History(j, w) /\ Bounded(j, w, f) /\ Stands(t, j, w, f)
    /\ t.slice.state = "dispatching" /\ c = t.slice.id
    /\ j[c].js = "dispatch_intent_persisted"
    /\ r \in Record /\ r.rev # 0 /\ r.kind = j[c].kind
    /\ r.requested = j[c].requested /\ r.settled = 0
    /\ k = [j EXCEPT ![c] = r]
    /\ x \in Order /\ x.filled = 0 /\ y = [w EXCEPT ![c] = x]
  BY DEF Executed, Yielded
<1>1. /\ c \in Id /\ Present(j, c) /\ j[c] \in Record
      /\ \A o \in Id : o > c => ~ Present(j, o)
      /\ w[c] = NoOrder /\ j[c].settled = 0 /\ j[c].requested # 0
      /\ j[c].kind \in {"open", "close", "cancel"} /\ j[c].kind = t.slice.kind
      /\ j[c].requested = t.slice.requested
      /\ j[c].kind = "close" => j[c].requested <= BookedIn(j)
      /\ j[c].kind = "open" /\ ~ f => BookedIn(j) + j[c].requested <= TargetVolume
      /\ t \in Trade /\ Shaped(t) /\ \E a \in Trade : Follows(t, a)
  BY DispatchIs
<1>2. r.os \notin FillState \cup {"cancelled", "rejected"}
  BY DEF FillState
<1>3. SameBooks(j, k, y, f)
  BY <1>1, <1>2, OrderPlaced
<1>4. PICK b \in Trade : Follows(t, b)
  BY <1>1
<1>5. /\ u \in Trade /\ Follows(u, b) /\ SameOperation(u, t)
      /\ u.slice.state = "submitting" /\ u.open = t.open /\ u.pending = t.pending
  BY <1>1, <1>4, SubmitFollows
<1>6. \A a \in Trade : Follows(t, a) => Follows(u, a)
  BY <1>1, SubmitFollows
<1>7. Recorded(u, r, x)
  BY <1>1, <1>2, <1>5 DEF Recorded, Concluded, FillState, SameOperation
<1>8. Shaped(u)
  BY <1>1, <1>4, <1>5 DEF Shaped, SameOperation
<1>9. MayBecome(u, t, j, r, x, f)
  BY <1>1, <1>5, <1>6, <1>7, <1>8 DEF MayBecome, Replaceable, Traceable
<1>10. w \in [Id -> Order] /\ y[c] = x
  BY <1>1 DEF History
<1>11. BookedIn(k) = BookedIn(j) + (u.open - t.open)
  <2>1. BookedIn(k) = BookedIn(j) /\ BookedIn(j) \in Int /\ u.open = t.open /\ t.open \in Nat
    BY <1>1, <1>3, <1>5, FieldTypes, SumsAreNumbers DEF SameBooks
  <2> QED
    BY <2>1
<1>12. Stands(u, k, y, f)
  <2>1. /\ f \in BOOLEAN /\ History(j, w) /\ Stands(t, j, w, f)
        /\ k = [j EXCEPT ![t.slice.id] = r] /\ y[t.slice.id] = x
    BY <1>10
  <2> QED
    BY ONLY <1>9, <1>11, <2>1, StandsChanges
<1> QED
  BY <1>3, <1>12 DEF SameBooks, Kept

\* The broker has refused the order.
LEMMA ExecutionRejects ==
    ASSUME NEW j, NEW w, NEW f \in BOOLEAN, History(j, w), Bounded(j, w, f),
           NEW t, Stands(t, j, w, f), t.slice.state = "dispatching",
           NEW c, c = t.slice.id, j[c].js = "dispatch_intent_persisted",
           NEW r \in Record, r.rev # 0, r.kind = j[c].kind,
           r.requested = j[c].requested, r.settled = 0, r.os = "rejected",
           NEW k, k = [j EXCEPT ![c] = r],
           NEW v \in EnterSubmitting(t), NEW u \in Then(RecordRejected(v), Reconcile)
    PROVE  History(k, w) /\ Bounded(k, w, f) /\ Stands(u, k, w, f)
<1>1. /\ c \in Id /\ Present(j, c) /\ j[c] \in Record
      /\ w[c] = NoOrder /\ j[c].settled = 0 /\ j[c].requested # 0
      /\ j[c].kind \in {"open", "close", "cancel"} /\ j[c].kind = t.slice.kind
      /\ j[c].requested = t.slice.requested
      /\ t \in Trade /\ Shaped(t) /\ \E a \in Trade : Follows(t, a)
  BY DispatchIs
<1>2. r.os \notin FillState \cup {"cancelled"} /\ Quiet(j[c], w[c])
  BY <1>1 DEF FillState, Quiet, NoOrder
<1>3. SameBooks(j, k, w, f)
  BY <1>1, <1>2, RecordTouched
<1>4. PICK b \in Trade : Follows(t, b)
  BY <1>1
<1>5. /\ v \in Trade /\ SameOperation(v, t)
      /\ v.open = t.open /\ v.pending = t.pending
  BY <1>1, <1>4, SubmitFollows
<1>6. /\ u \in Trade /\ u.open = v.open /\ u.pending = v.pending
      /\ u.slice.id = v.slice.id /\ u.slice.kind = v.slice.kind
      /\ u.slice.requested = v.slice.requested
      /\ u.slice.state = "rejected"
  BY <1>5, RejectionIs
<1>7. /\ SameOperation(u, t) /\ u.open = t.open /\ u.pending = t.pending
  BY <1>5, <1>6 DEF SameOperation
<1>8. Recorded(u, r, w[c])
  BY <1>1, <1>2, <1>6, <1>7 DEF Recorded, Concluded, FillState, SameOperation
<1>9. Shaped(u)
  BY <1>1, <1>6, <1>7 DEF Shaped, SameOperation, Traceable
<1>10. MayBecome(u, t, j, r, w[c], f)
  BY <1>1, <1>6, <1>7, <1>8, <1>9 DEF MayBecome, Replaceable, Traceable
<1>11. BookedIn(k) = BookedIn(j) + (u.open - t.open)
  <2>1. BookedIn(k) = BookedIn(j) /\ BookedIn(j) \in Int /\ u.open = t.open /\ t.open \in Nat
    BY <1>1, <1>3, <1>7, FieldTypes, SumsAreNumbers DEF SameBooks
  <2> QED
    BY <2>1
<1>12. Stands(u, k, w, f)
  BY <1>10, <1>11, StandsChanges
<1> QED
  BY <1>3, <1>12 DEF SameBooks

----------------------------------------------------------------------------
(* The settlement of an operation.                                         *)

\* The normalization of a record moves it to reconciling, and loses no fill.
LEMMA NormalizedIs ==
    ASSUME NEW r \in Record, r.rev # 0, RecordFits(r),
           NEW n \in {NormalizedOnce(r), Normalized(r)}
    PROVE  /\ n \in Record /\ n.rev # 0 /\ n.kind = r.kind
           /\ n.requested = r.requested /\ n.settled = r.settled
           /\ \/ n.os = r.os
              \/ n.os = "reconciling" /\ r.os \in {"prechecking", "submitting", "accepted"}
<1>1. /\ "reconciling" \in JournalState /\ "reconciling" \in OperationState
      /\ "reconciling" \notin FillState /\ 0 \in Nat
      /\ "prechecking" \notin FillState /\ "submitting" \notin FillState
      /\ "accepted" \notin FillState
  BY DEF JournalState, OperationState, FillState
<1> DEFINE once == NormalizedOnce(r)
<1>2. /\ once \in Record /\ once.rev # 0 /\ once.kind = r.kind
      /\ once.requested = r.requested /\ once.settled = r.settled
      /\ \/ once.os = r.os
         \/ once.os = "reconciling" /\ r.os \in {"prechecking", "submitting", "accepted"}
  <2>1. CASE r.os \in {"prechecking", "submitting", "accepted"}
    <3>1. once = OperationAdvanced(r, "reconciling", 0)
      BY <2>1 DEF NormalizedOnce
    <3>2. r.settled = 0
      BY <1>1, <2>1 DEF RecordFits
    <3> HIDE DEF once
    <3>3. /\ once \in Record /\ once.rev # 0 /\ once.os = "reconciling"
          /\ once.kind = r.kind /\ once.requested = r.requested
      BY <1>1, <3>1, OperationAdvances
    <3>4. once.settled = 0
      BY <1>1, <3>1, OperationAdvances
    <3> QED
      BY <2>1, <3>2, <3>3, <3>4
  <2>2. CASE r.os \notin {"prechecking", "submitting", "accepted"}
    <3>1. once = r
      BY <2>2 DEF NormalizedOnce
    <3> QED
      BY <3>1
  <2> QED
    BY <2>1, <2>2
<1>3. Normalized(r) = IF once.js = "reconciling" THEN once
                      ELSE JournalAdvanced(once, "reconciling", 0)
  BY DEF Normalized
<1> HIDE DEF once
<1>4. ASSUME NEW m, m = JournalAdvanced(once, "reconciling", 0)
      PROVE  /\ m \in Record /\ m.rev # 0 /\ m.kind = r.kind
             /\ m.requested = r.requested /\ m.settled = r.settled /\ m.os = once.os
  BY <1>1, <1>2, <1>4, JournalAdvances
<1>5. n = once \/ n = JournalAdvanced(once, "reconciling", 0)
  BY <1>3 DEF once
<1> QED
  BY <1>2, <1>4, <1>5

\* The operation that is being settled.
LEMMA SettlementIs ==
    ASSUME NEW j, NEW w, NEW f, History(j, w), NEW t, Stands(t, j, w, f),
           t.slice.kind # "none", NEW c, c = t.slice.id
    PROVE  /\ c \in Id /\ Present(j, c) /\ j[c] \in Record /\ j[c].rev # 0
           /\ w[c] \in Order /\ RecordFits(j[c]) /\ OrderFits(j[c], w[c])
           /\ j[c].kind \in {"open", "close", "cancel"} /\ j[c].kind = t.slice.kind
           /\ j[c].requested = t.slice.requested /\ j[c].requested # 0
           /\ t \in Trade /\ Recorded(t, j[c], w[c]) /\ Shaped(t)
           /\ j[c].os = "rejected" /\ j[c].kind \in Traded => Quiet(j[c], w[c])
           /\ t.slice.state = "submitting" =>
                 j[c].settled = 0 /\ j[c].os \notin FillState \cup {"cancelled"}
<1>1. Memory(t, j, w, f) /\ t \in Trade
  BY DEF Stands, Memory
<1>2. c # 0
  BY <1>1, NewTradeIs DEF Memory
<1>3. /\ c \in Id /\ Present(j, c) /\ Recorded(t, j[c], w[c]) /\ Shaped(t)
      /\ j[c].kind = t.slice.kind /\ t.slice.kind \in {"open", "close", "cancel"}
      /\ j[c].requested = t.slice.requested /\ t.slice.requested # 0
  BY <1>1, <1>2, CurrentIs
<1>4. /\ j[c] \in Record /\ w[c] \in Order /\ RecordFits(j[c]) /\ OrderFits(j[c], w[c])
      /\ j[c].kind \in Traded => (j[c].os = "rejected" => Quiet(j[c], w[c]))
  BY <1>3, OperationOf
<1>5. t.slice.state = "submitting" => j[c].os \notin FillState \cup {"cancelled"}
  BY <1>3 DEF Recorded
<1>6. t.slice.state = "submitting" => j[c].settled = 0
  BY <1>4, <1>5 DEF RecordFits
<1> QED
  BY <1>1, <1>3, <1>4, <1>5, <1>6 DEF Present

\* A normalized record does not change what the memory is.
LEMMA SettlementStays ==
    ASSUME NEW j, NEW w, NEW f \in BOOLEAN, History(j, w), Bounded(j, w, f),
           NEW c \in Id, Present(j, c), NEW r \in {NormalizedOnce(j[c]), Normalized(j[c])},
           NEW k, k = [j EXCEPT ![c] = r]
    PROVE  /\ SameBooks(j, k, w, f)
           /\ \A t : /\ Stands(t, j, w, f) /\ c = t.slice.id
                     /\ t.slice.kind # "none" /\ t.slice.state # "dispatching"
                     => Stands(t, k, w, f)
<1>1. /\ j[c] \in Record /\ w[c] \in Order /\ RecordFits(j[c]) /\ OrderFits(j[c], w[c])
      /\ j[c].kind \in Traded => (j[c].os = "rejected" => Quiet(j[c], w[c]))
      /\ j[c].rev # 0
  BY OperationOf DEF Present
<1>2. /\ r \in Record /\ r.rev # 0 /\ r.kind = j[c].kind
      /\ r.requested = j[c].requested /\ r.settled = j[c].settled
      /\ \/ r.os = j[c].os
         \/ r.os = "reconciling" /\ j[c].os \in {"prechecking", "submitting", "accepted"}
  BY <1>1, NormalizedIs
<1>3. /\ r.settled # 0 => r.os \in FillState
      /\ r.os \in FillState \cup {"cancelled"} => r.os = j[c].os
      /\ r.kind \in Traded /\ r.os = "rejected" => Quiet(j[c], w[c])
  BY <1>1, <1>2 DEF RecordFits, FillState
<1>4. SameBooks(j, k, w, f)
  BY <1>2, <1>3, RecordTouched
<1>5. ASSUME NEW t, Stands(t, j, w, f), c = t.slice.id,
             t.slice.kind # "none", t.slice.state # "dispatching"
      PROVE  Stands(t, k, w, f)
  <2>1. Recorded(t, j[c], w[c])
    BY <1>5, SettlementIs
  <2>2. Recorded(t, r, w[c])
    BY <1>2, <1>5, <2>1 DEF Recorded, Concluded, FillState
  <2> DEFINE x == w[c]
  <2>3. /\ k = [j EXCEPT ![t.slice.id] = r] /\ t.slice.id \in Id
        /\ BookedIn(k) = BookedIn(j) /\ Recorded(t, r, x) /\ w[t.slice.id] = x
        /\ r.kind = j[t.slice.id].kind /\ r.rev # 0
        /\ f \in BOOLEAN /\ History(j, w) /\ Stands(t, j, w, f)
    BY <1>2, <1>4, <1>5, <2>2 DEF SameBooks
  <2> HIDE DEF x
  <2> QED
    BY ONLY <2>3, StandsStays
<1> QED
  BY <1>4, <1>5

\* Contradictory evidence settles that nothing is known.
LEMMA AmbiguitySettles ==
    ASSUME NEW j, NEW w, NEW f \in BOOLEAN, History(j, w), Bounded(j, w, f),
           NEW t, Stands(t, j, w, f), t.slice.kind # "none",
           t.slice.state = "submitting", NEW c, c = t.slice.id,
           NEW r, r = OperationAdvanced(Normalized(j[c]), "ambiguous", 0),
           NEW k, k = [j EXCEPT ![c] = r]
    PROVE  /\ SameBooks(j, k, w, f) /\ Stands(t, k, w, f)
           /\ \A u \in Then(RecordUnknown(t), Reconcile) : Stands(u, k, w, f)
<1>1. /\ c \in Id /\ Present(j, c) /\ j[c] \in Record /\ j[c].rev # 0
      /\ RecordFits(j[c]) /\ j[c].settled = 0
      /\ j[c].kind \in {"open", "close", "cancel"} /\ j[c].kind = t.slice.kind
      /\ j[c].requested = t.slice.requested /\ j[c].requested # 0
      /\ t \in Trade /\ Recorded(t, j[c], w[c]) /\ Shaped(t)
  BY SettlementIs
<1>2. "ambiguous" \in OperationState /\ "ambiguous" \notin FillState /\ 0 \in Nat
  BY DEF OperationState, FillState
<1>3. /\ r \in Record /\ r.rev # 0 /\ r.kind = j[c].kind
      /\ r.requested = j[c].requested /\ r.settled = 0 /\ r.os = "ambiguous"
  <2> DEFINE n == Normalized(j[c])
  <2>1. /\ n \in Record /\ n.kind = j[c].kind /\ n.requested = j[c].requested
    BY <1>1, NormalizedIs
  <2>2. r = OperationAdvanced(n, "ambiguous", 0)
    OBVIOUS
  <2> HIDE DEF n
  <2>3. /\ r \in Record /\ r.rev # 0 /\ r.kind = n.kind
        /\ r.requested = n.requested /\ r.os = "ambiguous"
    BY <1>2, <2>1, <2>2, OperationAdvances
  <2>4. r.settled = 0
    BY <1>2, <2>1, <2>2, OperationAdvances
  <2> QED
    BY <2>1, <2>3, <2>4
<1>4. SameBooks(j, k, w, f)
  <2>1. /\ r.settled = j[c].settled /\ (r.settled # 0 => r.os \in FillState)
        /\ (r.os \in FillState \cup {"cancelled"} => r.os = j[c].os)
        /\ (r.kind \in Traded /\ r.os = "rejected" => Quiet(j[c], w[c]))
    BY <1>1, <1>2, <1>3
  <2> QED
    BY <1>1, <1>3, <2>1, RecordTouched
<1> DEFINE x == w[c]
<1>5. /\ BookedIn(k) = BookedIn(j) /\ BookedIn(j) \in Int /\ t.open \in Nat
      /\ k = [j EXCEPT ![t.slice.id] = r] /\ w[t.slice.id] = x /\ t.slice.id \in Id
      /\ f \in BOOLEAN /\ History(j, w) /\ Stands(t, j, w, f)
      /\ r.kind = j[t.slice.id].kind /\ r.rev # 0
  BY <1>1, <1>3, <1>4, SumsAreNumbers, FieldTypes DEF SameBooks
<1>6. Recorded(t, r, x)
  BY <1>1, <1>3 DEF Recorded, Concluded, FillState
<1>7. ASSUME NEW u \in Then(RecordUnknown(t), Reconcile)
      PROVE  u.open = t.open /\ MayBecome(u, t, j, r, x, f)
  <2>1. /\ u \in Trade /\ u.open = t.open /\ u.pending = t.pending
        /\ u.slice.id = t.slice.id /\ u.slice.kind = t.slice.kind
        /\ u.slice.requested = t.slice.requested
        /\ u.slice.state = "ambiguous"
    BY <1>1, AmbiguityIs
  <2>2. Recorded(u, r, x)
    BY <1>1, <1>3, <2>1 DEF Recorded, Concluded, FillState
  <2>3. Shaped(u)
    BY <1>1, <2>1 DEF Shaped, Traceable
  <2>4. u.slice.state \notin Traceable /\ t.slice.state \notin Replaceable
    BY <2>1 DEF Traceable, Replaceable
  <2> QED
    BY <1>1, <1>3, <2>1, <2>2, <2>3, <2>4 DEF MayBecome, SameOperation
<1> HIDE DEF x
<1>8. Stands(t, k, w, f)
  BY ONLY <1>5, <1>6, StandsStays
<1>9. ASSUME NEW u \in Then(RecordUnknown(t), Reconcile)
      PROVE  Stands(u, k, w, f)
  <2>1. MayBecome(u, t, j, r, x, f) /\ u.open = t.open
    BY <1>7
  <2>2. BookedIn(k) = BookedIn(j) + (u.open - t.open)
    BY <1>5, <2>1
  <2> QED
    BY ONLY <1>5, <2>1, <2>2, StandsChanges
<1> QED
  BY <1>4, <1>8, <1>9

\* The memory takes over a fill, and follows what it followed before.
TakesOver(u, t, volume, settled) ==
    /\ FilledUpTo(u, t, volume) /\ t.slice.result = settled
    /\ \A a \in Trade : Follows(t, a) => Follows(u, a)

\* A slice's fill, and the record that says so.
Fills(t, j, w, f, c, n, volume, r, k) ==
    /\ History(j, w) /\ Bounded(j, w, f) /\ Stands(t, j, w, f)
    /\ t.slice.kind \in Traded /\ t.slice.state \in {"submitting", "partially_filled"}
    /\ c = t.slice.id /\ n \in {j[c], NormalizedOnce(j[c]), Normalized(j[c])}
    /\ volume \in 1 .. w[c].filled /\ j[c].settled <= volume
    /\ r = OperationAdvanced(n, FillStateOf(volume, n.requested), volume)
    /\ k = [j EXCEPT ![c] = r]

\* A fill is committed, and the memory takes it over.
LEMMA FillKept ==
    ASSUME NEW j, NEW w, NEW f \in BOOLEAN, NEW t, NEW c, NEW n, NEW volume, NEW r, NEW k,
           Fills(t, j, w, f, c, n, volume, r, k)
    PROVE  /\ History(k, w) /\ Bounded(k, w, f)
           /\ \A u : TakesOver(u, t, volume, j[c].settled) => Stands(u, k, w, f)
<1> /\ History(j, w) /\ Bounded(j, w, f) /\ Stands(t, j, w, f)
    /\ t.slice.kind \in Traded /\ t.slice.state \in {"submitting", "partially_filled"}
    /\ c = t.slice.id /\ n \in {j[c], NormalizedOnce(j[c]), Normalized(j[c])}
    /\ volume \in 1 .. w[c].filled /\ j[c].settled <= volume
    /\ r = OperationAdvanced(n, FillStateOf(volume, n.requested), volume)
    /\ k = [j EXCEPT ![c] = r]
  BY DEF Fills
<1>1. /\ c \in Id /\ Present(j, c) /\ j[c] \in Record /\ j[c].rev # 0
      /\ w[c] \in Order /\ RecordFits(j[c]) /\ OrderFits(j[c], w[c])
      /\ j[c].kind \in Traded /\ j[c].kind = t.slice.kind
      /\ j[c].requested = t.slice.requested /\ j[c].requested # 0
      /\ t \in Trade /\ Recorded(t, j[c], w[c]) /\ Shaped(t)
  BY SettlementIs DEF Traded
<1>2. n \in Record /\ n.kind = j[c].kind /\ n.requested = j[c].requested
  BY <1>1, NormalizedIs
<1>3. /\ FillStateOf(volume, n.requested) \in OperationState
      /\ volume \in Nat /\ volume # 0
  BY <1>1 DEF FillStateOf, OperationState, Order
<1>4. /\ r \in Record /\ r.rev # 0 /\ r.kind = j[c].kind /\ r.settled = volume
      /\ r.requested = j[c].requested /\ r.os = FillStateOf(volume, r.requested)
  <2>1. /\ r \in Record /\ r.rev # 0 /\ r.kind = n.kind /\ r.requested = n.requested
        /\ r.os = FillStateOf(volume, n.requested)
    BY <1>2, <1>3, OperationAdvances
  <2>2. r.settled = volume
    BY <1>2, <1>3, OperationAdvances
  <2> QED
    BY <1>2, <2>1, <2>2
<1>5. /\ History(k, w) /\ Bounded(k, w, f)
      /\ BookedIn(k) = BookedIn(j) + Signed(j[c].kind, volume - j[c].settled)
  <2>1. r.settled # 0 /\ j[c].settled <= r.settled /\ r.settled <= w[c].filled
        /\ r.os = FillStateOf(r.settled, r.requested)
    BY <1>1, <1>3, <1>4 DEF Order
  <2>2. MoreBooked(j, k, w, f, Signed(j[c].kind, r.settled - j[c].settled))
    BY <1>1, <1>4, <2>1, FillSettled
  <2> QED
    BY <1>4, <2>2 DEF MoreBooked
<1>6. ASSUME NEW u, FilledUpTo(u, t, volume), t.slice.result = j[c].settled,
             \A a \in Trade : Follows(t, a) => Follows(u, a)
      PROVE  Stands(u, k, w, f)
  <2>1. /\ u \in Trade /\ SameOperation(u, t)
        /\ u.slice.state = FillStateOf(volume, t.slice.requested)
        /\ u.slice.result = volume
        /\ u.open = t.open + Signed(t.slice.kind, volume - t.slice.result)
        /\ t.slice.kind = "open" =>
              u.pending = IF u.slice.state = "partially_filled"
                            THEN u.slice.requested - volume ELSE 0
        /\ t.slice.kind = "close" => u.pending = t.pending
    BY <1>6 DEF FilledUpTo
  <2>2. u.slice.state \in FillState /\ t.slice.state \in Traceable
    BY <2>1 DEF FillStateOf, FillState, Traceable
  <2> DEFINE x == w[c]
  <2>3. Recorded(u, r, x)
    BY <1>1, <1>4, <2>1, <2>2 DEF Recorded, Concluded, FillState, SameOperation, Traded
  <2>4. PICK a \in Trade : Follows(t, a)
    BY <1>1, <2>2 DEF Shaped
  <2>5. Shaped(u)
    <3>1. Follows(u, a) /\ u.slice.kind = t.slice.kind /\ t.slice.kind \in Traded
      BY <1>1, <1>6, <2>1, <2>4 DEF SameOperation
    <3>2. t.slice.kind = "close" => u.pending = 0
      BY <1>1, <2>1 DEF Shaped
    <3> QED
      BY <2>1, <2>2, <3>1, <3>2 DEF Shaped, FillState, Traded
  <2>6. MayBecome(u, t, j, r, x, f)
    BY <1>1, <1>4, <1>6, <2>1, <2>2, <2>3, <2>5
       DEF MayBecome, Replaceable, FillState, SameOperation, Traded
  <2>7. /\ k = [j EXCEPT ![t.slice.id] = r] /\ w[t.slice.id] = x
        /\ f \in BOOLEAN /\ History(j, w) /\ Stands(t, j, w, f)
    OBVIOUS
  <2>8. BookedIn(k) = BookedIn(j) + (u.open - t.open)
    <3> DEFINE m == Signed(j[c].kind, volume - j[c].settled)
    <3>1. m \in Int /\ BookedIn(j) \in Int /\ t.open \in Nat
      BY <1>1, <1>3, FieldTypes, SumsAreNumbers, RecordIs DEF Signed
    <3>2. BookedIn(k) = BookedIn(j) + m /\ u.open = t.open + m
      BY <1>1, <1>5, <1>6, <2>1
    <3> HIDE DEF m
    <3> QED
      BY <3>1, <3>2
  <2> HIDE DEF x
  <2> QED
    BY ONLY <2>6, <2>7, <2>8, StandsChanges
<1> QED
  BY <1>5, <1>6 DEF TakesOver

----------------------------------------------------------------------------
(* The settlement of a CANCEL, together with the OPEN before it.           *)

\* The late fill of an OPEN, as the replay of its record sees it.
LEMMA LateOpenIs ==
    ASSUME NEW a \in Trade, NEW volume \in Nat, NEW old \in 1 .. volume,
           NEW late \in Nat, old + late <= volume
    PROVE  LateBase(OpenTrade(a, FillStateOf(old + late, volume), volume, old + late),
                    OpenTrade(a, FillStateOf(old, volume), volume, old), late)
<1> DEFINE new == old + late
           b == OpenTrade(a, FillStateOf(new, volume), volume, new)
           c == OpenTrade(a, FillStateOf(old, volume), volume, old)
<1>1. /\ new \in 0 .. volume /\ old \in 0 .. volume /\ new \in Nat /\ old \in Nat
      /\ a.open \in Nat
  BY FieldTypes
<1>2. /\ FillStateOf(new, volume) = "partially_filled" <=> new # volume
      /\ FillStateOf(old, volume) = "partially_filled" <=> old # volume
      /\ FillStateOf(new, volume) \in Traceable /\ FillStateOf(old, volume) \in Traceable
  BY DEF FillStateOf, Traceable
<1>3. /\ b \in Trade /\ b.plan = a.plan /\ b.slices = a.slices + 1
      /\ b.open = a.open + new
      /\ b.pending = IF new # volume THEN volume - new ELSE 0
      /\ b.requested = a.requested /\ b.satisfied = a.satisfied /\ b.epoch = a.epoch
      /\ b.slice = SliceAfter(a, "open", FillStateOf(new, volume), volume, new)
  <2> DEFINE s == FillStateOf(new, volume)
  <2>1. s \in Traceable /\ new \in 0 .. volume /\ (s = "partially_filled" <=> new # volume)
    BY <1>1, <1>2
  <2>2. b = OpenTrade(a, s, volume, new)
    OBVIOUS
  <2> HIDE DEF s, new, b, c
  <2> QED
    BY <2>1, <2>2, OpenTradeIs DEF s
<1>4. /\ c \in Trade /\ c.plan = a.plan /\ c.slices = a.slices + 1
      /\ c.open = a.open + old
      /\ c.pending = IF old # volume THEN volume - old ELSE 0
      /\ c.requested = a.requested /\ c.satisfied = a.satisfied /\ c.epoch = a.epoch
      /\ c.slice = SliceAfter(a, "open", FillStateOf(old, volume), volume, old)
  <2> DEFINE s == FillStateOf(old, volume)
  <2>1. s \in Traceable /\ old \in 0 .. volume /\ (s = "partially_filled" <=> old # volume)
    BY <1>1, <1>2
  <2>2. c = OpenTrade(a, s, volume, old)
    OBVIOUS
  <2> HIDE DEF s, new, b, c
  <2> QED
    BY <2>1, <2>2, OpenTradeIs DEF s
<1>5. b.slice.id = c.slice.id
  BY <1>3, <1>4 DEF SliceAfter, Sliced
<1> HIDE DEF b, c
<1>6. b.open = c.open + late /\ b.pending = c.pending - late
  BY <1>1, <1>3, <1>4
<1>7. LateBase(b, c, late)
  BY <1>3, <1>4, <1>5, <1>6 DEF LateBase
<1> QED
  BY <1>7 DEF b, c

\* The record of an OPEN, with the fills that came after it was last settled.
LateFill(j, w, b, late, q) ==
    /\ b \in Id /\ j[b].kind = "open" /\ j[b].os \in FillState /\ ~ w[b].live
    /\ late = w[b].filled - j[b].settled
    /\ q = IF late = 0 THEN j[b]
           ELSE OperationAdvanced(j[b], FillStateOf(w[b].filled, j[b].requested),
                                  w[b].filled)

LateBooked(j, m, w, f, b, late, q) ==
    /\ late \in Nat /\ MoreBooked(j, m, w, f, late)
    /\ m[b] = q /\ \A o \in Id \ {b} : m[o] = j[o]
    /\ Present(j, b) /\ Present(m, b) /\ Quiet(m[b], w[b])
    /\ q.kind = "open" /\ q.requested = j[b].requested /\ q.os \in FillState
    /\ q.settled = j[b].settled + late /\ q.settled <= q.requested
    /\ j[b].settled \in 1 .. j[b].requested
    /\ j[b].os = FillStateOf(j[b].settled, j[b].requested)
    /\ q.os = FillStateOf(q.settled, q.requested)

\* A late fill is committed to the OPEN first.
LEMMA LateFillIsBooked ==
    ASSUME NEW j, NEW w, NEW f \in BOOLEAN, History(j, w), Bounded(j, w, f),
           NEW b, NEW late, NEW r, LateFill(j, w, b, late, r),
           NEW m, m = [j EXCEPT ![b] = r]
    PROVE  LateBooked(j, m, w, f, b, late, r)
<1>0. /\ b \in Id /\ j[b].kind = "open" /\ j[b].os \in FillState /\ ~ w[b].live
      /\ late = w[b].filled - j[b].settled
      /\ r = IF late = 0 THEN j[b]
             ELSE OperationAdvanced(j[b], FillStateOf(w[b].filled, j[b].requested),
                                    w[b].filled)
  BY DEF LateFill
<1> USE <1>0
<1> DEFINE q == j[b]
           x == w[b]
<1>1. /\ q \in Record /\ x \in Order /\ RecordFits(q) /\ OrderFits(q, x)
      /\ q.settled \in Nat /\ x.filled \in Nat /\ q.requested \in Nat
      /\ j \in [Id -> Record]
  BY OperationOf DEF History
<1>2. /\ q.settled \in 1 .. q.requested /\ q.os = FillStateOf(q.settled, q.requested)
      /\ q.rev # 0 /\ Present(j, b)
  BY <1>1, AbsentIs DEF RecordFits, Present, Traded
<1>3. q.settled <= x.filled /\ x.filled <= q.requested
  BY <1>1 DEF OrderFits, Traded
<1>4. late \in Nat /\ x.filled = q.settled + late
  BY <1>1, <1>3
<1>5. /\ r \in Record /\ r.rev # 0 /\ r.kind = "open" /\ r.requested = q.requested
      /\ r.settled = x.filled /\ r.os = FillStateOf(x.filled, q.requested)
  <2>1. CASE late = 0
    BY <1>1, <1>2, <1>4, <2>1
  <2>2. CASE late # 0
    <3>1. /\ FillStateOf(x.filled, q.requested) \in OperationState
          /\ x.filled # 0
      BY <1>1, <1>4, <2>2 DEF FillStateOf, OperationState
    <3>2. r = OperationAdvanced(q, FillStateOf(x.filled, q.requested), x.filled)
      BY <2>2
    <3> HIDE DEF q, x
    <3>3. /\ r \in Record /\ r.rev # 0 /\ r.kind = q.kind /\ r.requested = q.requested
          /\ r.os = FillStateOf(x.filled, q.requested)
      BY <1>1, <3>1, <3>2, OperationAdvances
    <3>4. r.settled = x.filled
      BY <1>1, <3>1, <3>2, OperationAdvances
    <3> QED
      BY <3>3, <3>4 DEF q
  <2> QED
    BY <2>1, <2>2
<1>6. r.os \in FillState /\ r.os = FillStateOf(r.settled, r.requested)
  BY <1>5, FillStates
<1>7. m[b] = r /\ \A o \in Id \ {b} : m[o] = j[o]
  BY <1>1
<1>8. MoreBooked(j, m, w, f, late)
  <2>1. /\ r.kind = j[b].kind /\ j[b].kind \in Traded /\ r.settled # 0
        /\ r.requested = j[b].requested
        /\ j[b].settled <= r.settled /\ r.settled <= w[b].filled
        /\ r.os = FillStateOf(r.settled, r.requested)
    BY <1>1, <1>2, <1>3, <1>5, <1>6 DEF Traded
  <2>2. MoreBooked(j, m, w, f, Signed(j[b].kind, r.settled - j[b].settled))
    BY <1>2, <1>5, <2>1, FillSettled
  <2>3. Signed(j[b].kind, r.settled - j[b].settled) = late
    BY <1>1, <1>4, <1>5 DEF Signed
  <2> QED
    BY <2>2, <2>3
<1>9. Quiet(m[b], w[b]) /\ Present(m, b)
  BY <1>5, <1>7 DEF Quiet, Present
<1> QED
  BY <1>1, <1>2, <1>3, <1>4, <1>5, <1>6, <1>7, <1>8, <1>9 DEF LateBooked

\* A CANCEL is settled when the OPEN just before it is.
LEMMA CancelCommitted ==
    ASSUME NEW j, NEW w, NEW f \in BOOLEAN, History(j, w), Bounded(j, w, f),
           NEW c \in Id, Present(j, c), j[c].kind = "cancel",
           NEW b \in Id, b = c - 1, j[b].kind = "open", Quiet(j[b], w[b]),
           NEW r, r = OperationAdvanced(Normalized(j[c]), "cancelled", 0),
           NEW k, k = [j EXCEPT ![c] = r]
    PROVE  /\ SameBooks(j, k, w, f)
           /\ r.rev # 0 /\ r.kind = "cancel" /\ r.requested = j[c].requested
           /\ r.os = "cancelled" /\ r.settled = 0
<1> DEFINE x == w[c]
           y == [w EXCEPT ![c] = x]
<1>1. /\ j[c] \in Record /\ x \in Order /\ RecordFits(j[c]) /\ OrderFits(j[c], x)
      /\ j[c].settled \in Nat /\ j[c].rev # 0 /\ y = w /\ x.filled = 0
      /\ \A o \in Id : o < c => Present(j, o)
  BY OperationOf DEF Present, OrderFits, Traded
<1>2. "cancelled" \in OperationState /\ "cancelled" \notin FillState /\ 0 \in Nat
  BY DEF OperationState, FillState
<1>3. j[c].settled = 0
  BY <1>1 DEF RecordFits, Traded
<1>4. /\ r \in Record /\ r.rev # 0 /\ r.kind = "cancel"
      /\ r.requested = j[c].requested /\ r.settled = 0 /\ r.os = "cancelled"
  <2> DEFINE n == Normalized(j[c])
  <2>1. n \in Record /\ n.kind = j[c].kind /\ n.requested = j[c].requested
    BY <1>1, NormalizedIs
  <2>2. r = OperationAdvanced(n, "cancelled", 0)
    OBVIOUS
  <2> HIDE DEF n
  <2>3. /\ r \in Record /\ r.rev # 0 /\ r.kind = n.kind
        /\ r.requested = n.requested /\ r.os = "cancelled"
    BY <1>2, <2>1, <2>2, OperationAdvances
  <2>4. r.settled = 0
    BY <1>2, <2>1, <2>2, OperationAdvances
  <2> QED
    BY <2>1, <2>3, <2>4
<1>5. RecordFits(r) /\ OrderFits(r, x)
  BY <1>1, <1>2, <1>4 DEF RecordFits, OrderFits, Traded
<1>6. j \in [Id -> Record] /\ k[c] = r /\ \A o \in Id \ {c} : k[o] = j[o]
  BY DEF History
<1>7. ASSUME NEW o \in Id \ {c}, j[o].kind \in Traded, Ends(k, c, o)
      PROVE  Quiet(j[o], w[o])
  <2>1. o < c /\ o \in Nat /\ c \in Nat
    BY <1>7, IdsAreFinite DEF Ends
  <2>2. CASE o = b
    BY <2>2
  <2>3. CASE o < b
    <3>1. Ends(j, b, o)
      BY <1>1, <2>1, <2>3, IdsAreFinite DEF Ends
    <3> QED
      BY <1>7, <3>1 DEF History
  <2> QED
    BY <2>1, <2>2, <2>3
<1>8. History(k, y)
  <2>1. /\ r.kind \in Traded /\ r.os = "rejected" => Quiet(r, x)
        /\ \A p \in Id \ {c} : r.kind \in Traded /\ Ends(k, p, c) => Quiet(r, x)
        /\ \A o \in Id \ {c} : j[o].kind \in Traded /\ Ends(k, c, o) => Quiet(j[o], w[o])
    BY <1>4, <1>7 DEF Traded
  <2> HIDE DEF x
  <2> QED
    BY <1>1, <1>4, <1>5, <2>1, HistoryChanges
<1>9. Shifted(j, w, c, r, x, k, y)
  <2>1. Changes(j, w, c, r, x, k, y)
    BY <1>1, <1>4, <1>5 DEF Changes
  <2> HIDE DEF x, y
  <2> QED
    BY ONLY <2>1, SumsShift
<1>10. /\ PositionIn(j, w) \in Int /\ BookedIn(j) \in Int
       /\ BuyingIn(j, w) \in Nat /\ SellingIn(j, w) \in Nat
       /\ BuyingIn(k, y) \in Nat /\ SellingIn(k, y) \in Nat
  BY <1>8, SumsAreNumbers
<1>11. /\ Net(r, r.settled) = 0 /\ Net(r, x.filled) = 0 /\ Net(j[c], j[c].settled) = 0
       /\ Net(j[c], w[c].filled) = 0
       /\ Part("open", j[c], WorkingOf(j[c], w[c])) = 0
       /\ Part("close", j[c], WorkingOf(j[c], w[c])) = 0
       /\ Part("open", r, WorkingOf(r, x)) = 0 /\ Part("close", r, WorkingOf(r, x)) = 0
  BY <1>4 DEF Net, Part
<1>12. /\ BookedIn(k) = BookedIn(j) /\ PositionIn(k, y) = PositionIn(j, w)
       /\ BuyingIn(k, y) = BuyingIn(j, w) /\ SellingIn(k, y) = SellingIn(j, w)
  BY <1>9, <1>10, <1>11 DEF Shifted
<1>13. History(k, w) /\ Bounded(k, w, f)
  BY <1>1, <1>8, <1>12 DEF Bounded
<1>14. SameBooks(j, k, w, f)
  BY <1>12, <1>13 DEF SameBooks
<1> QED
  BY <1>4, <1>14

\* The memory of an owner that goes on without having taken over a late fill.
LEMMA LateMemory ==
    ASSUME NEW j, NEW w, NEW f \in BOOLEAN, History(j, w), NEW t, Stands(t, j, w, f), f,
           NEW b \in Id, b < t.slice.id,
           NEW r, r.rev # 0, NEW late \in Nat,
           NEW m, m = [j EXCEPT ![b] = r], MoreBooked(j, m, w, f, late)
    PROVE  Stands(t, m, w, f)
<1>1. Memory(t, j, w, f) /\ t \in Trade
  BY DEF Stands, Memory
<1>2. m[b] = r /\ \A o \in Id \ {b} : m[o] = j[o]
  BY DEF History
<1>3. t.open \in Nat /\ BookedIn(j) \in Int /\ t.open <= BookedIn(j)
  BY <1>1, FieldTypes, SumsAreNumbers DEF Memory
<1>4. t.open <= BookedIn(m)
  BY <1>3 DEF MoreBooked
<1>5. \A o \in Id : Present(j, o) /\ o # b => Present(m, o)
  BY <1>2 DEF Present
<1>6. Present(m, b)
  BY <1>2 DEF Present
<1>7. \A o \in Id : o > t.slice.id => m[o] = j[o]
  BY <1>1, <1>2, IdsAreFinite DEF Memory
<1>8. t.slice.id # 0 => t.slice.id \in Id /\ m[t.slice.id] = j[t.slice.id]
  <2>1. t.slice.id # 0 => t.slice.id \in Id
    BY <1>1, CurrentIs
  <2> QED
    BY <1>2, <2>1, IdsAreFinite
<1>9. \A o \in Id : o <= t.slice.id => Present(m, o)
  BY <1>1, <1>5, <1>6 DEF Memory
<1>10. \A o \in Id : o > t.slice.id /\ Present(m, o) => t.slice.state \in Replaceable
  BY <1>1, <1>7 DEF Memory, Present
<1>11. Memory(t, m, w, f)
  BY <1>1, <1>4, <1>8, <1>9, <1>10 DEF Memory
<1> QED
  BY <1>11 DEF Stands

\* What is committed to the OPEN, and to the CANCEL, when the CANCEL is settled.
CancelsOut(j, m, k, w, f, b, c, q, r, late) ==
    /\ b \in Id /\ c \in Id /\ b = c - 1 /\ late \in Nat
    /\ j[b].kind = "open" /\ j[b].os \in FillState
    /\ j[b].settled \in 1 .. j[b].requested
    /\ j[b].os = FillStateOf(j[b].settled, j[b].requested)
    /\ q.kind = "open" /\ q.requested = j[b].requested /\ q.rev # 0
    /\ q.settled = j[b].settled + late /\ q.settled <= q.requested
    /\ q.os = FillStateOf(q.settled, q.requested)
    /\ m = [j EXCEPT ![b] = q] /\ MoreBooked(j, m, w, f, late)
    /\ r.rev # 0 /\ r.kind = "cancel" /\ r.requested = j[c].requested
    /\ r.os = "cancelled" /\ r.settled = 0
    /\ k = [m EXCEPT ![c] = r] /\ SameBooks(m, k, w, f)

\* The memory takes over the late fill and the end of the order.
LEMMA CancelHeld ==
    ASSUME NEW j, NEW w, NEW f \in BOOLEAN, History(j, w), NEW t, Stands(t, j, w, f),
           t.slice.kind = "cancel", t.slice.state = "submitting",
           NEW m, NEW k, NEW b, NEW q, NEW r, NEW late,
           CancelsOut(j, m, k, w, f, b, t.slice.id, q, r, late),
           NEW o \in IF late = 0 THEN {t} ELSE ObserveCancelRemainder(t, late),
           NEW u \in Then(RecordCancelAccepted(o), Reconcile)
    PROVE  Stands(u, k, w, f)
<1> DEFINE c == t.slice.id
<1>1. /\ b \in Id /\ c \in Id /\ b = c - 1 /\ late \in Nat
      /\ j[b].kind = "open" /\ j[b].os \in FillState
      /\ j[b].settled \in 1 .. j[b].requested
      /\ j[b].os = FillStateOf(j[b].settled, j[b].requested)
      /\ q.kind = "open" /\ q.requested = j[b].requested /\ q.rev # 0
      /\ q.settled = j[b].settled + late /\ q.settled <= q.requested
      /\ q.os = FillStateOf(q.settled, q.requested)
      /\ m = [j EXCEPT ![b] = q] /\ MoreBooked(j, m, w, f, late)
      /\ r.rev # 0 /\ r.kind = "cancel" /\ r.requested = j[c].requested
      /\ r.os = "cancelled" /\ r.settled = 0
      /\ k = [m EXCEPT ![c] = r] /\ SameBooks(m, k, w, f)
  BY DEF CancelsOut
<1>2. /\ Memory(t, j, w, f) /\ (~ f => Retraced(t, j)) /\ t \in Trade
      /\ j \in [Id -> Record]
  BY DEF Stands, Memory, History
<1>3. /\ Present(j, c) /\ Recorded(t, j[c], w[c]) /\ Shaped(t)
      /\ j[c].kind = "cancel" /\ j[c].requested = t.slice.requested
      /\ t.slice.requested # 0 /\ t.slice.state \notin Replaceable
      /\ \A p \in Id : p > c => ~ Present(j, p)
  <2>1. t.slice.id # 0 /\ t.slice.state \notin Replaceable
    BY <1>1, IdsAreFinite DEF Replaceable
  <2>2. History(j, w) /\ Memory(t, j, w, f)
    BY <1>2
  <2> HIDE DEF c
  <2>3. /\ Present(j, t.slice.id) /\ Recorded(t, j[t.slice.id], w[t.slice.id])
        /\ Shaped(t) /\ j[t.slice.id].kind = t.slice.kind
        /\ j[t.slice.id].requested = t.slice.requested /\ t.slice.requested # 0
        /\ \A p \in Id : p > t.slice.id => ~ Present(j, p)
    BY ONLY <2>1, <2>2, CurrentIs
  <2> QED
    BY <2>1, <2>3 DEF c
<1>4. PICK a \in Trade : Follows(t, a)
  BY <1>3 DEF Shaped, Traceable
<1>5. /\ u \in Trade /\ SameOperation(u, t) /\ u.slice.state = "cancelled"
      /\ u.open = t.open + late /\ u.pending = 0
      /\ \E e \in Trade : Follows(u, e)
  BY <1>1, <1>2, <1>4, CancelSettles
<1>6. \A e \in Trade : Follows(t, e) => \A d : LateBase(d, e, late) => Follows(u, d)
  <2> SUFFICES ASSUME NEW e \in Trade, Follows(t, e)
               PROVE  \A d : LateBase(d, e, late) => Follows(u, d)
    OBVIOUS
  <2>1. /\ t \in Trade /\ late \in Nat /\ t.slice.kind = "cancel"
        /\ t.slice.state = "submitting" /\ e \in Trade /\ Follows(t, e)
        /\ o \in IF late = 0 THEN {t} ELSE ObserveCancelRemainder(t, late)
        /\ u \in Then(RecordCancelAccepted(o), Reconcile)
    BY <1>1, <1>2
  <2> QED
    BY ONLY <2>1, CancelSettles
<1>7. /\ k[c] = r /\ k[b] = q /\ b # c /\ b \in Nat /\ c \in Nat
      /\ \A p \in Id \ {b, c} : k[p] = j[p]
  <2>0. b \in Id /\ c \in Id /\ b = c - 1
    BY ONLY <1>1
  <2>1. b \in Nat /\ c \in Nat /\ b # c
    <3> HIDE DEF c
    <3> QED
      BY ONLY <2>0, IdsAreFinite
  <2>2. DOMAIN j = Id /\ m = [j EXCEPT ![b] = q] /\ k = [m EXCEPT ![c] = r]
        /\ b \in Id /\ c \in Id
    BY <1>1, <1>2
  <2> HIDE DEF c
  <2>3. m[b] = q /\ DOMAIN m = Id /\ \A p \in Id \ {b} : m[p] = j[p]
    BY ONLY <2>2
  <2>4. k[c] = r /\ \A p \in Id \ {c} : k[p] = m[p]
    BY ONLY <2>2, <2>3
  <2> QED
    BY ONLY <2>1, <2>2, <2>3, <2>4
<1>8. Recorded(u, k[c], w[c])
  BY <1>1, <1>3, <1>5, <1>7 DEF Recorded, Concluded, FillState, SameOperation
<1>9. Shaped(u)
  BY <1>5 DEF Shaped, SameOperation
<1>10. /\ \A p \in Id : p <= c => Present(k, p)
       /\ \A p \in Id : p > c => ~ Present(k, p)
  <2>1. \A p \in Id : p <= c => Present(j, p)
    BY <1>2 DEF Memory
  <2>2. Present(k, b) /\ Present(k, c)
    BY <1>1, <1>7 DEF Present
  <2>3. \A p \in Id \ {b, c} : Present(k, p) <=> Present(j, p)
    BY <1>7 DEF Present
  <2>4. ASSUME NEW p \in Id, p > c
        PROVE  ~ Present(k, p)
    <3>1. p \in Id \ {b, c}
      BY <1>1, <1>7, <2>4, IdsAreFinite
    <3> QED
      BY <1>3, <2>3, <2>4, <3>1
  <2>5. ASSUME NEW p \in Id, p <= c
        PROVE  Present(k, p)
    BY <2>1, <2>2, <2>3, <2>5
  <2> QED
    BY <2>4, <2>5
<1>11. u.open <= BookedIn(k) /\ (~ f => u.open = BookedIn(k))
  <2>1. /\ t.open <= BookedIn(j) /\ (~ f => t.open = BookedIn(j))
        /\ t.open \in Nat /\ BookedIn(j) \in Int
    BY <1>2, FieldTypes, SumsAreNumbers DEF Memory
  <2>2. BookedIn(k) = BookedIn(j) + late
    BY <1>1 DEF MoreBooked, SameBooks
  <2> QED
    BY <1>1, <1>5, <2>1, <2>2
<1>12. /\ u.slice.id = c /\ c \in 0 .. MaxOperations /\ c # 0
       /\ u.slice.kind = "cancel" /\ u.slice.state \in Traceable
  BY <1>2, <1>5, <1>7, <1>1, IdsAreFinite DEF SameOperation, Memory, Traceable
<1>13. Memory(u, k, w, f)
  BY <1>5, <1>8, <1>9, <1>10, <1>11, <1>12 DEF Memory
<1>14. ASSUME ~ f
       PROVE  Retraced(u, k)
  <2>1. SUFFICES ASSUME NEW e \in Replays(k)[c - 2]
                 PROVE  Follows(u, OpenTrade(e, k[b].os, k[b].requested, k[b].settled))
    BY <1>1, <1>12 DEF Retraced, Traded
  <2>2. /\ c > 1 /\ c - 2 \in 0 .. MaxOperations /\ c - 2 \in 0 .. (c - 2)
    BY <1>1, <1>7, PlanAssumption DEF Id
  <2>3. Replays(j)[c - 2] = Replays(k)[c - 2]
    <3> DEFINE n == c - 2
    <3>1. n \in 0 .. MaxOperations /\ n \in 0 .. n
      BY <2>2
    <3>2. ASSUME NEW p \in 1 .. n
          PROVE  j[p] = k[p]
      <4>1. c \in 1 .. MaxOperations
        BY <1>1 DEF Id
      <4>2. p \in 1 .. MaxOperations /\ p # b /\ p # c
        BY <1>1, <1>7, <2>2, <4>1, PlanAssumption
      <4> QED
        BY <1>7, <4>2 DEF Id
    <3> HIDE DEF n
    <3>3. \A p \in 0 .. n : Replays(j)[p] = Replays(k)[p]
      BY ONLY <3>1, <3>2, ReplaysSame
    <3>4. Replays(j)[n] = Replays(k)[n]
      BY <3>1, <3>3
    <3> QED
      BY <3>4 DEF n
  <2>4. e \in Trade
    <3> DEFINE n == c - 2
    <3>1. n \in 0 .. MaxOperations /\ e \in Replays(j)[n] /\ History(j, w)
      BY <2>2, <2>3
    <3> HIDE DEF n
    <3> QED
      BY ONLY <3>1, ReplaysAreTrades
  <2> DEFINE v == j[b].requested
             old == j[b].settled
             d == OpenTrade(e, FillStateOf(old, v), v, old)
             g == OpenTrade(e, FillStateOf(old + late, v), v, old + late)
  <2>5. /\ v \in Nat /\ old \in 1 .. v /\ late \in Nat /\ old + late <= v
    BY <1>1, <1>2, RecordIs
  <2>6. LateBase(g, d, late)
    <3> HIDE DEF v, old
    <3> QED
      BY <2>4, <2>5, LateOpenIs
  <2>7. Follows(t, d)
    <3>1. Retraced(t, j) /\ e \in Replays(j)[c - 2] /\ b = c - 1
      BY <1>1, <1>2, <1>14, <2>3
    <3>2. t.slice.state \in Traceable
      BY DEF Traceable
    <3>3. Follows(t, OpenTrade(e, j[b].os, j[b].requested, j[b].settled))
      BY <1>1, <2>2, <3>1, <3>2 DEF Retraced
    <3> QED
      BY <1>1, <3>3
  <2>8. d \in Trade
    <3>1. d = OpenTrade(e, j[b].os, j[b].requested, j[b].settled)
      BY <1>1
    <3> HIDE DEF d
    <3> QED
      BY <1>1, <2>4, <3>1, OpenIsTrade
  <2>9. Follows(u, g)
    <3> HIDE DEF d, g
    <3> QED
      BY <1>6, <2>6, <2>7, <2>8
  <2>10. g = OpenTrade(e, k[b].os, k[b].requested, k[b].settled)
    BY <1>1, <1>7
  <2> HIDE DEF g
  <2> QED
    BY <2>9, <2>10
<1> QED
  BY <1>13, <1>14 DEF Stands

\* Two records change.
LEMMA TwoChange ==
    ASSUME NEW j, DOMAIN j = Id, NEW b \in Id, NEW c \in Id, NEW q, NEW r,
           NEW m, m = [j EXCEPT ![b] = q]
    PROVE  [j EXCEPT ![b] = q, ![c] = r] = [m EXCEPT ![c] = r]
  OBVIOUS

\* Every memory that takes over the late fill and the end of the order is one.
TakesEnd(t, k, w, f, late) ==
    /\ History(k, w) /\ Bounded(k, w, f)
    /\ \A o \in IF late = 0 THEN {t} ELSE ObserveCancelRemainder(t, late) :
        \A u \in Then(RecordCancelAccepted(o), Reconcile) : Stands(u, k, w, f)

\* A CANCEL's own record after the late fill of the OPEN before it.
Cancels(t, j, w, f, c, b, late, q, r, k) ==
    /\ History(j, w) /\ Bounded(j, w, f) /\ Stands(t, j, w, f)
    /\ t.slice.kind = "cancel" /\ t.slice.state = "submitting"
    /\ c = t.slice.id /\ b = c - 1 /\ LateFill(j, w, b, late, q)
    /\ r = OperationAdvanced(Normalized(j[c]), "cancelled", 0)
    /\ k = [j EXCEPT ![b] = q, ![c] = r]

\* The end of the order is committed, after the late fill.
LEMMA CancelDone ==
    ASSUME NEW j, NEW w, NEW f \in BOOLEAN, NEW t, NEW c, NEW b, NEW late, NEW q,
           NEW r, NEW k, Cancels(t, j, w, f, c, b, late, q, r, k)
    PROVE  TakesEnd(t, k, w, f, late)
<1> /\ History(j, w) /\ Bounded(j, w, f) /\ Stands(t, j, w, f)
    /\ t.slice.kind = "cancel" /\ t.slice.state = "submitting"
    /\ c = t.slice.id /\ b = c - 1 /\ LateFill(j, w, b, late, q)
    /\ r = OperationAdvanced(Normalized(j[c]), "cancelled", 0)
    /\ k = [j EXCEPT ![b] = q, ![c] = r]
  BY DEF Cancels
<1> DEFINE m == [j EXCEPT ![b] = q]
<1>1. /\ late \in Nat /\ MoreBooked(j, m, w, f, late)
      /\ m[b] = q /\ \A o \in Id \ {b} : m[o] = j[o]
      /\ Present(j, b) /\ Present(m, b) /\ Quiet(m[b], w[b])
      /\ q.kind = "open" /\ q.requested = j[b].requested /\ q.os \in FillState
      /\ q.settled = j[b].settled + late /\ q.settled <= q.requested
      /\ j[b].settled \in 1 .. j[b].requested
      /\ j[b].os = FillStateOf(j[b].settled, j[b].requested)
      /\ q.os = FillStateOf(q.settled, q.requested)
  <2>1. m = [j EXCEPT ![b] = q]
    OBVIOUS
  <2> HIDE DEF m
  <2>2. LateBooked(j, m, w, f, b, late, q)
    BY <2>1, LateFillIsBooked
  <2> QED
    BY <2>2 DEF LateBooked
<1> b \in Id
  BY DEF LateFill
<1>2. /\ c \in Id /\ Present(j, c) /\ j[c].kind = "cancel"
  BY SettlementIs
<1>3. /\ b # c /\ m[c] = j[c] /\ Present(m, c)
  <2>1. b # c
    BY <1>2, IdsAreFinite
  <2>2. m[c] = j[c]
    BY <1>1, <1>2, <2>1
  <2> QED
    BY <1>2, <2>1, <2>2 DEF Present
<1>4. k = [m EXCEPT ![c] = r]
  <2>1. DOMAIN j = Id
    BY DEF History
  <2> QED
    BY <1>2, <2>1, TwoChange
<1>5. m = [j EXCEPT ![b] = q]
  OBVIOUS
<1> HIDE DEF m
<1>6. /\ SameBooks(m, k, w, f)
      /\ r.rev # 0 /\ r.kind = "cancel" /\ r.requested = m[c].requested
      /\ r.os = "cancelled" /\ r.settled = 0
  <2>1. History(m, w) /\ Bounded(m, w, f) /\ c \in Id /\ Present(m, c)
        /\ m[c].kind = "cancel" /\ b \in Id /\ b = c - 1 /\ m[b].kind = "open"
        /\ Quiet(m[b], w[b]) /\ r = OperationAdvanced(Normalized(m[c]), "cancelled", 0)
        /\ k = [m EXCEPT ![c] = r] /\ f \in BOOLEAN
    BY <1>1, <1>2, <1>3, <1>4 DEF MoreBooked
  <2>2. SameBooks(m, k, w, f)
    BY ONLY <2>1, CancelCommitted
  <2>3. r.rev # 0 /\ r.kind = "cancel" /\ r.requested = m[c].requested
    BY ONLY <2>1, CancelCommitted
  <2>4. r.os = "cancelled" /\ r.settled = 0
    BY ONLY <2>1, CancelCommitted
  <2> QED
    BY <2>2, <2>3, <2>4
<1>7. q.rev # 0
  BY <1>1 DEF Present
<1>8. CancelsOut(j, m, k, w, f, b, c, q, r, late)
  <2>1. b = c - 1 /\ j[b].kind = "open" /\ j[b].os \in FillState
    BY DEF LateFill
  <2>2. MoreBooked(j, m, w, f, late) /\ late \in Nat
    BY ONLY <1>1
  <2>3. /\ q.kind = "open" /\ q.requested = j[b].requested
        /\ q.settled = j[b].settled + late /\ q.settled <= q.requested
        /\ j[b].settled \in 1 .. j[b].requested
        /\ j[b].os = FillStateOf(j[b].settled, j[b].requested)
        /\ q.os = FillStateOf(q.settled, q.requested)
    BY ONLY <1>1
  <2>4. r.requested = j[c].requested
    BY <1>3, <1>6
  <2>5. b \in Id /\ c \in Id
    BY <1>2
  <2> QED
    BY ONLY <1>4, <1>5, <1>6, <1>7, <2>1, <2>2, <2>3, <2>4, <2>5 DEF CancelsOut
<1>9. ASSUME NEW o \in IF late = 0 THEN {t} ELSE ObserveCancelRemainder(t, late),
             NEW u \in Then(RecordCancelAccepted(o), Reconcile)
      PROVE  Stands(u, k, w, f)
  <2>1. /\ CancelsOut(j, m, k, w, f, b, t.slice.id, q, r, late) /\ f \in BOOLEAN
        /\ History(j, w) /\ Stands(t, j, w, f) /\ t.slice.kind = "cancel"
        /\ t.slice.state = "submitting"
        /\ o \in (IF late = 0 THEN {t} ELSE ObserveCancelRemainder(t, late))
        /\ u \in Then(RecordCancelAccepted(o), Reconcile)
    BY <1>8
  <2> QED
    BY ONLY <2>1, CancelHeld
<1> QED
  BY <1>6, <1>9 DEF SameBooks, TakesEnd

\* The settlement of a CANCEL stops between its commits.
LEMMA CancelStops ==
    ASSUME NEW j, NEW w, NEW f \in BOOLEAN, History(j, w), Bounded(j, w, f),
           NEW t, Stands(t, j, w, f), t.slice.kind = "cancel",
           t.slice.state = "submitting", NEW c, c = t.slice.id,
           NEW b, b = c - 1, NEW late, NEW q, LateFill(j, w, b, late, q),
           NEW k, k = [j EXCEPT ![b] = q, ![c] = Normalized(j[c])]
    PROVE  History(k, w) /\ Bounded(k, w, f) /\ (f => Stands(t, k, w, f))
<1> DEFINE m == [j EXCEPT ![b] = q]
           r == Normalized(j[c])
<1>1. /\ late \in Nat /\ MoreBooked(j, m, w, f, late)
      /\ m[b] = q /\ \A o \in Id \ {b} : m[o] = j[o] /\ Present(m, b)
  <2>1. m = [j EXCEPT ![b] = q]
    OBVIOUS
  <2> HIDE DEF m
  <2>2. LateBooked(j, m, w, f, b, late, q)
    BY <2>1, LateFillIsBooked
  <2> QED
    BY <2>2 DEF LateBooked
<1> b \in Id
  BY DEF LateFill
<1>2. /\ c \in Id /\ Present(j, c) /\ j[c].kind = "cancel"
  BY SettlementIs
<1>3. b < t.slice.id /\ m[c] = j[c] /\ Present(m, c) /\ q.rev # 0
  <2>1. b < t.slice.id /\ b # c
    BY <1>2, IdsAreFinite
  <2> QED
    BY <1>1, <1>2, <2>1 DEF Present
<1>4. k = [m EXCEPT ![c] = r]
  <2>1. DOMAIN j = Id
    BY DEF History
  <2> QED
    BY <1>2, <2>1, TwoChange
<1>5. f => Stands(t, m, w, f)
  <2>1. ASSUME f
        PROVE  Stands(t, m, w, f)
    <3>1. m = [j EXCEPT ![b] = q]
      OBVIOUS
    <3> HIDE DEF m
    <3>2. /\ f \in BOOLEAN /\ History(j, w) /\ Stands(t, j, w, f) /\ f /\ b \in Id
          /\ b < t.slice.id /\ q.rev # 0 /\ late \in Nat
          /\ m = [j EXCEPT ![b] = q] /\ MoreBooked(j, m, w, f, late)
      BY <1>1, <1>3, <2>1, <3>1
    <3> QED
      BY ONLY <3>2, LateMemory
  <2> QED
    BY <2>1
<1>6. History(m, w) /\ Bounded(m, w, f) /\ r \in {NormalizedOnce(m[c]), Normalized(m[c])}
      /\ f \in BOOLEAN /\ c \in Id /\ Present(m, c) /\ k = [m EXCEPT ![c] = r]
  BY <1>1, <1>2, <1>3, <1>4 DEF MoreBooked
<1> HIDE DEF m, r
<1>7. SameBooks(m, k, w, f)
  BY ONLY <1>6, SettlementStays
<1>8. \A v : /\ Stands(v, m, w, f) /\ c = v.slice.id
             /\ v.slice.kind # "none" /\ v.slice.state # "dispatching"
             => Stands(v, k, w, f)
  BY ONLY <1>6, SettlementStays
<1> QED
  BY <1>5, <1>7, <1>8 DEF SameBooks

\* Nothing but the CANCEL's record was committed.
LEMMA OpenLeft ==
    ASSUME NEW j, NEW w, History(j, w), NEW b \in Id, NEW c, NEW r
    PROVE  [j EXCEPT ![b] = j[b], ![c] = r] = [j EXCEPT ![c] = r]
<1>1. [j EXCEPT ![b] = j[b]] = j
  BY OperationOf
<1> QED
  BY <1>1 DEF History

----------------------------------------------------------------------------
(* The invariant of the owner, and one lemma for every action.             *)

Inductive ==
    /\ fallible \in CommitFails
    /\ Held(trade, up, journal, orders, fallible)

\* What the invariant says while there is an owner.
LEMMA OwnerIs ==
    ASSUME Inductive, up
    PROVE  /\ fallible \in BOOLEAN /\ fallible \in CommitFails /\ up = TRUE
           /\ History(journal, orders) /\ Bounded(journal, orders, fallible)
           /\ Stands(trade, journal, orders, fallible) /\ trade \in Trade
  BY OwnerAssumption DEF Inductive, Held, Stands, Memory

\* A step that ends with an owner whose memory is one, or without an owner.
LEMMA InductiveKept ==
    ASSUME fallible \in CommitFails, fallible' = fallible,
           History(journal', orders') /\ Bounded(journal', orders', fallible),
           \/ up' = TRUE /\ Stands(trade', journal', orders', fallible)
           \/ Dies
    PROVE  Inductive'
  BY DEF Inductive, Held, Dies

LEMMA Prepares ==
    ASSUME Inductive, up, fallible' = fallible, orders' = orders,
           NEW desc \in Descriptor, NEW u, Starts(u, trade),
           journal[u.slice.id].rev = 0,
           NEW kind, kind = u.slice.kind,
           \/ /\ WriteRecord(u.slice.id, Preparation(kind, desc, u.slice.requested)[5])
              /\ Completes({u})
           \/ \E m \in 1 .. 4 :
                 /\ WriteRecord(u.slice.id, Preparation(kind, desc, u.slice.requested)[m])
                 /\ Interrupted
    PROVE  Inductive'
<1> DEFINE n == u.slice.id
<1>1. /\ fallible \in BOOLEAN /\ fallible \in CommitFails /\ up = TRUE
      /\ History(journal, orders) /\ Bounded(journal, orders, fallible)
      /\ Stands(trade, journal, orders, fallible)
  BY OwnerIs
<1>2. ~ Present(journal, n)
  BY DEF Present
<1>3. CASE /\ WriteRecord(n, Preparation(kind, desc, u.slice.requested)[5])
           /\ Completes({u})
  <2> DEFINE r == Preparation(u.slice.kind, desc, u.slice.requested)[5]
  <2>1. journal' = [journal EXCEPT ![n] = r] /\ trade' = u /\ up' = TRUE
    BY <1>1, <1>3 DEF WriteRecord, Completes
  <2>2. /\ fallible \in BOOLEAN /\ History(journal, orders)
        /\ Bounded(journal, orders, fallible)
        /\ Stands(trade, journal, orders, fallible) /\ Starts(u, trade)
        /\ n = u.slice.id /\ ~ Present(journal, n) /\ desc \in Descriptor
        /\ r = Preparation(u.slice.kind, desc, u.slice.requested)[5]
        /\ journal' = [journal EXCEPT ![n] = r]
    BY <1>1, <1>2, <2>1
  <2> HIDE DEF n, r
  <2>3. /\ History(journal', orders) /\ Bounded(journal', orders, fallible)
        /\ Stands(u, journal', orders, fallible)
    BY ONLY <2>2, PreparationDone
  <2> QED
    BY <1>1, <2>1, <2>3, InductiveKept
<1>4. CASE \E m \in 1 .. 4 :
              /\ WriteRecord(n, Preparation(kind, desc, u.slice.requested)[m])
              /\ Interrupted
  <2>1. PICK m \in 1 .. 4 : /\ WriteRecord(n, Preparation(kind, desc, u.slice.requested)[m])
                            /\ Interrupted
    BY <1>4
  <2> DEFINE r == Preparation(u.slice.kind, desc, u.slice.requested)[m]
  <2>2. journal' = [journal EXCEPT ![n] = r]
    BY <2>1 DEF WriteRecord
  <2>3. /\ fallible \in BOOLEAN /\ History(journal, orders)
        /\ Bounded(journal, orders, fallible)
        /\ Stands(trade, journal, orders, fallible) /\ Starts(u, trade)
        /\ n = u.slice.id /\ ~ Present(journal, n) /\ desc \in Descriptor
        /\ m \in 1 .. 4
        /\ r = Preparation(u.slice.kind, desc, u.slice.requested)[m]
        /\ journal' = [journal EXCEPT ![n] = r]
    BY <1>1, <1>2, <2>1, <2>2
  <2> HIDE DEF n, r
  <2>4. /\ History(journal', orders) /\ Bounded(journal', orders, fallible)
        /\ fallible => Stands(trade, journal', orders, fallible)
    BY ONLY <2>3, PreparationStops
  <2>5. \/ up' = TRUE /\ Stands(trade', journal', orders', fallible)
        \/ Dies
    BY <1>1, <2>1, <2>4 DEF Interrupted
  <2> QED
    BY <1>1, <2>4, <2>5, InductiveKept
<1> QED
  BY <1>3, <1>4

LEMMA PrepareOpenKeeps ==
    ASSUME Inductive, PrepareOpen, fallible' = fallible
    PROVE  Inductive'
<1>1. PICK volume \in 1 .. MaxSliceVolume, desc \in Descriptors :
          Prepare("open", StartOpenSlice(trade, volume), desc)
  BY DEF PrepareOpen
<1>2. up /\ orders' = orders /\ desc \in Descriptor
  BY <1>1, OwnerAssumption DEF Prepare
<1>3. PICK u \in StartOpenSlice(trade, volume) :
          /\ journal[u.slice.id].rev = 0
          /\ \/ /\ WriteRecord(u.slice.id, Preparation("open", desc, u.slice.requested)[5])
                /\ Completes({u})
             \/ \E m \in 1 .. 4 :
                   /\ WriteRecord(u.slice.id, Preparation("open", desc, u.slice.requested)[m])
                   /\ Interrupted
  BY <1>1 DEF Prepare
<1>4. Starts(u, trade)
  BY <1>2, OwnerIs, OpenIsStarted DEF Stands
<1>5. u.slice.kind = "open"
  <2>1. trade \in Trade
    BY <1>2, OwnerIs
  <2>2. u = OpenTrade(trade, "dispatching", volume, 0)
    BY <2>1, OpenStarts
  <2> QED
    BY <2>2 DEF OpenTrade, Made, SliceAfter, Sliced
<1> QED
  BY <1>2, <1>3, <1>4, <1>5, Prepares

LEMMA PrepareCloseKeeps ==
    ASSUME Inductive, PrepareClose, fallible' = fallible
    PROVE  Inductive'
<1> DEFINE asked == IF trade.requested THEN {trade} ELSE RequestClose(trade)
<1>1. PICK volume \in 1 .. TargetVolume, desc \in Descriptors :
          Prepare("close", Then(asked, LAMBDA t : StartClose(t, volume)), desc)
  BY DEF PrepareClose
<1>2. up /\ orders' = orders /\ desc \in Descriptor
  BY <1>1, OwnerAssumption DEF Prepare
<1>3. PICK u \in Then(asked, LAMBDA t : StartClose(t, volume)) :
          /\ journal[u.slice.id].rev = 0
          /\ \/ /\ WriteRecord(u.slice.id, Preparation("close", desc, u.slice.requested)[5])
                /\ Completes({u})
             \/ \E m \in 1 .. 4 :
                   /\ WriteRecord(u.slice.id, Preparation("close", desc, u.slice.requested)[m])
                   /\ Interrupted
  BY <1>1 DEF Prepare
<1>4. PICK b \in asked : u \in StartClose(b, volume)
  BY <1>3 DEF Then
<1>5. Starts(u, trade)
  BY <1>2, <1>4, OwnerIs, CloseIsStarted
<1>6. u.slice.kind = "close"
  <2>1. trade \in Trade
    BY <1>2, OwnerIs
  <2>2. u = CloseTrade(trade, "dispatching", volume, 0)
    BY <1>4, <2>1, CloseStarts
  <2> QED
    BY <2>2 DEF CloseTrade, Made, SliceAfter, Sliced
<1> QED
  BY <1>2, <1>3, <1>5, <1>6, Prepares

LEMMA PrepareCancelKeeps ==
    ASSUME Inductive, PrepareCancel, fallible' = fallible
    PROVE  Inductive'
<1>1. Prepare("cancel", StartCancel(trade), "ticketed") /\ "ticketed" \in Descriptor
  BY DEF PrepareCancel, Descriptor
<1>2. up /\ orders' = orders
  BY <1>1 DEF Prepare
<1>3. PICK u \in StartCancel(trade) :
          /\ journal[u.slice.id].rev = 0
          /\ \/ /\ WriteRecord(u.slice.id,
                               Preparation("cancel", "ticketed", u.slice.requested)[5])
                /\ Completes({u})
             \/ \E m \in 1 .. 4 :
                   /\ WriteRecord(u.slice.id,
                                  Preparation("cancel", "ticketed", u.slice.requested)[m])
                   /\ Interrupted
  BY <1>1 DEF Prepare
<1>4. Starts(u, trade)
  BY <1>2, OwnerIs, CancelIsStarted
<1>5. u.slice.kind = "cancel"
  <2>1. trade \in Trade
    BY <1>2, OwnerIs
  <2>2. u = CancelTrade(trade, "dispatching", trade.pending)
    BY <2>1, CancelStarts
  <2> QED
    BY <2>2 DEF CancelTrade, Made, SliceAfter, Sliced
<1> QED
  BY <1>1, <1>2, <1>3, <1>4, <1>5, Prepares

\* The record and the order of the operation that is to be executed.
Awaiting(j, w, c) ==
    /\ c \in Id /\ j[c] \in Record /\ w[c] = NoOrder /\ j[c].settled = 0
    /\ j[c].os \in {"prechecking", "submitting"}

LEMMA DispatchAwaits ==
    ASSUME NEW j, NEW w, NEW f, History(j, w), NEW t, Stands(t, j, w, f),
           t.slice.state = "dispatching", NEW c, c = t.slice.id,
           j[c].js = "dispatch_intent_persisted"
    PROVE  Awaiting(j, w, c)
<1>1. Memory(t, j, w, f) /\ c # 0
  BY NewTradeIs DEF Stands, Memory
<1>2. c \in Id /\ Recorded(t, j[c], w[c])
  BY <1>1, CurrentIs
<1>3. j[c].os \in {"prechecking", "submitting"} /\ w[c] = NoOrder
  BY <1>2 DEF Recorded
<1>4. j[c] \in Record /\ RecordFits(j[c])
  BY <1>2, OperationOf
<1>5. j[c].settled = 0
  BY <1>3, <1>4 DEF RecordFits, FillState
<1> QED
  BY <1>2, <1>3, <1>4, <1>5 DEF Awaiting

\* What execute_pending starts from.
LEMMA ExecutionIs ==
    ASSUME Inductive, MayExecute
    PROVE  /\ fallible \in BOOLEAN /\ fallible \in CommitFails /\ up = TRUE
           /\ History(journal, orders) /\ Bounded(journal, orders, fallible)
           /\ Stands(trade, journal, orders, fallible) /\ trade \in Trade
           /\ trade.slice.state = "dispatching" /\ Current \in Id
           /\ journal[Current].js = "dispatch_intent_persisted"
           /\ CurrentRecord \in Record /\ CurrentRecord.settled = 0
           /\ orders[Current] = NoOrder /\ orders \in [Id -> Order]
           /\ CurrentRecord.os \in {"prechecking", "submitting"}
<1>1. /\ fallible \in BOOLEAN /\ fallible \in CommitFails /\ up = TRUE
      /\ History(journal, orders) /\ Bounded(journal, orders, fallible)
      /\ Stands(trade, journal, orders, fallible) /\ trade \in Trade
  BY OwnerIs DEF MayExecute
<1>2. trade.slice.state = "dispatching"
      /\ journal[Current].js = "dispatch_intent_persisted"
  BY DEF MayExecute, CurrentRecord
<1> DEFINE c == trade.slice.id
<1>3. c = Current
  BY DEF Current
<1>4. History(journal, orders) /\ Stands(trade, journal, orders, fallible)
      /\ trade.slice.state = "dispatching" /\ c = trade.slice.id
      /\ journal[c].js = "dispatch_intent_persisted"
  BY <1>1, <1>2, <1>3
<1> HIDE DEF c
<1>5. /\ c \in Id /\ journal[c] \in Record /\ orders[c] = NoOrder
      /\ journal[c].settled = 0 /\ journal[c].os \in {"prechecking", "submitting"}
  <2>1. Awaiting(journal, orders, c)
    BY ONLY <1>4, DispatchAwaits
  <2> QED
    BY <2>1 DEF Awaiting
<1>6. orders \in [Id -> Order]
  BY <1>1 DEF History
<1> QED
  BY <1>1, <1>2, <1>3, <1>5, <1>6 DEF CurrentRecord

\* The record of an order that may be at the broker, and is not known to be filled.
Unfilled(r) ==
    /\ r \in Record /\ r.rev # 0 /\ r.kind = CurrentRecord.kind
    /\ r.requested = CurrentRecord.requested /\ r.settled = 0

\* The order of the current operation, which may now be on the book.
LEMMA OrderPut ==
    ASSUME Inductive, MayExecute, NEW live \in BOOLEAN,
           orders' = orders \/ OrderIs(live)
    PROVE  \E x \in Order : x.filled = 0 /\ orders' = [orders EXCEPT ![Current] = x]
<1>1. /\ Current \in Id /\ orders[Current] = NoOrder /\ orders \in [Id -> Order]
  BY ExecutionIs
<1>2. CASE orders' = orders
  <2>1. NoOrder \in Order /\ NoOrder.filled = 0
    BY DEF NoOrder, Order
  <2> QED
    BY <1>1, <1>2, <2>1
<1>3. CASE OrderIs(live)
  <2> DEFINE x == [NoOrder EXCEPT !.live = live]
  <2>1. x \in Order /\ x.filled = 0
    BY DEF NoOrder, Order
  <2>2. orders' = [orders EXCEPT ![Current] = x]
    BY <1>1, <1>3 DEF OrderIs
  <2> QED
    BY <2>1, <2>2
<1> QED
  BY <1>2, <1>3

LEMMA StaysInExecution ==
    ASSUME Inductive, MayExecute, fallible' = fallible,
           NEW live \in BOOLEAN, orders' = orders \/ OrderIs(live),
           NEW r, Unfilled(r), r.os \in {CurrentRecord.os, "submitting"},
           r.js # "dispatch_intent_persisted", WriteRecord(Current, r),
           Dies \/ UNCHANGED <<trade, up>>
    PROVE  Inductive'
<1>1. PICK x \in Order : x.filled = 0 /\ orders' = [orders EXCEPT ![Current] = x]
  BY OrderPut
<1> DEFINE c == Current
<1>2. /\ fallible \in BOOLEAN /\ History(journal, orders)
      /\ Bounded(journal, orders, fallible)
      /\ Stands(trade, journal, orders, fallible)
      /\ trade.slice.state = "dispatching" /\ c = trade.slice.id
      /\ journal[c].js = "dispatch_intent_persisted"
      /\ fallible \in CommitFails /\ up = TRUE
  BY ExecutionIs DEF Current
<1>3. /\ r \in Record /\ r.rev # 0 /\ r.kind = journal[c].kind
      /\ r.requested = journal[c].requested /\ r.settled = 0
      /\ r.os \in {journal[c].os, "submitting"} /\ r.js # "dispatch_intent_persisted"
      /\ journal' = [journal EXCEPT ![c] = r]
  BY DEF Unfilled, CurrentRecord, WriteRecord
<1>4. x \in Order /\ x.filled = 0 /\ orders' = [orders EXCEPT ![c] = x]
  BY <1>1
<1> HIDE DEF c
<1>5. Kept(trade, journal', orders', fallible)
  <2>1. Executed(trade, journal, orders, fallible, c) /\ fallible \in BOOLEAN
    BY <1>2 DEF Executed
  <2>2. Yielded(journal, orders, c, r, x, journal', orders')
    BY <1>3, <1>4 DEF Yielded
  <2> QED
    BY ONLY <1>3, <2>1, <2>2, ExecutionStays
<1> QED
  BY <1>2, <1>5, InductiveKept DEF Kept

LEMMA GoesOnInExecution ==
    ASSUME Inductive, MayExecute, fallible' = fallible,
           NEW live \in BOOLEAN, orders' = orders \/ OrderIs(live),
           NEW r, Unfilled(r), r.os \in {"submitting", "accepted", "reconciling"},
           WriteRecord(Current, r), Completes(EnterSubmitting(trade))
    PROVE  Inductive'
<1>1. PICK x \in Order : x.filled = 0 /\ orders' = [orders EXCEPT ![Current] = x]
  BY OrderPut
<1> DEFINE c == Current
<1>2. /\ fallible \in BOOLEAN /\ History(journal, orders)
      /\ Bounded(journal, orders, fallible)
      /\ Stands(trade, journal, orders, fallible)
      /\ trade.slice.state = "dispatching" /\ c = trade.slice.id
      /\ journal[c].js = "dispatch_intent_persisted"
      /\ fallible \in CommitFails /\ up = TRUE
  BY ExecutionIs DEF Current
<1>3. /\ r \in Record /\ r.rev # 0 /\ r.kind = journal[c].kind
      /\ r.requested = journal[c].requested /\ r.settled = 0
      /\ r.os \in {"submitting", "accepted", "reconciling"}
      /\ journal' = [journal EXCEPT ![c] = r]
  BY DEF Unfilled, CurrentRecord, WriteRecord
<1>4. x \in Order /\ x.filled = 0 /\ orders' = [orders EXCEPT ![c] = x]
  BY <1>1
<1>5. trade' \in EnterSubmitting(trade) /\ up' = TRUE
  BY <1>2 DEF Completes
<1> HIDE DEF c
<1>6. Kept(trade', journal', orders', fallible)
  <2>1. Executed(trade, journal, orders, fallible, c) /\ fallible \in BOOLEAN
    BY <1>2 DEF Executed
  <2>2. Yielded(journal, orders, c, r, x, journal', orders')
    BY <1>3, <1>4 DEF Yielded
  <2> QED
    BY ONLY <1>3, <1>5, <2>1, <2>2, ExecutionGoesOn
<1> QED
  BY <1>2, <1>5, <1>6, InductiveKept DEF Kept

LEMMA ExecuteRefusedKeeps ==
    ASSUME Inductive, ExecuteRefused, fallible' = fallible
    PROVE  Inductive'
<1>1. MayExecute /\ WriteRecord(Current, Admitted) /\ (Dies \/ UNCHANGED <<trade, up>>)
      /\ orders' = orders
  BY DEF ExecuteRefused
<1>2. CurrentRecord \in Record /\ CurrentRecord.settled = 0
  BY <1>1, ExecutionIs
<1>3. Unfilled(Admitted) /\ Admitted.os = CurrentRecord.os /\ Admitted.js = "dispatching"
  BY <1>2, SubmittingIs DEF Unfilled
<1> HIDE DEF Unfilled, Admitted
<1> QED
  BY <1>1, <1>3, StaysInExecution

LEMMA ExecuteUncertainKeeps ==
    ASSUME Inductive, ExecuteUncertain, fallible' = fallible
    PROVE  Inductive'
<1> DEFINE marked == JournalAdvanced(Submitting, "reconciling", 0)
<1>1. PICK live \in BOOLEAN : OrderIs(live)
  BY DEF ExecuteUncertain
<1>2. MayExecute
  BY DEF ExecuteUncertain
<1>3. CurrentRecord \in Record /\ CurrentRecord.settled = 0
  BY <1>2, ExecutionIs
<1>4. Unfilled(Submitting) /\ Submitting.os = "submitting" /\ Submitting.js = "dispatching"
      /\ Submitting \in Record
  BY <1>3, SubmittingIs DEF Unfilled
<1>5. Unfilled(marked) /\ marked.os = "submitting"
  <2>1. "reconciling" \in JournalState /\ 0 \in Nat
    BY DEF JournalState
  <2>2. /\ marked \in Record /\ marked.rev # 0 /\ marked.os = Submitting.os
        /\ marked.kind = Submitting.kind
        /\ marked.requested = Submitting.requested /\ marked.settled = Submitting.settled
    BY <1>4, <2>1, JournalAdvances
  <2> QED
    BY <1>4, <2>2 DEF Unfilled
<1>6. \/ WriteRecord(Current, marked) /\ Completes(EnterSubmitting(trade))
      \/ WriteRecord(Current, Submitting) /\ (Dies \/ UNCHANGED <<trade, up>>)
  BY DEF ExecuteUncertain, Interrupted
<1> HIDE DEF marked
<1> QED
  BY <1>1, <1>2, <1>4, <1>5, <1>6, StaysInExecution, GoesOnInExecution

LEMMA ExecuteRejectedKeeps ==
    ASSUME Inductive, ExecuteRejected, fallible' = fallible
    PROVE  Inductive'
<1> DEFINE r == RejectionPersisted(Submitting, "rejected")
           c == Current
<1>1. /\ MayExecute /\ orders' = orders
      /\ journal' = [journal EXCEPT ![c] = r]
      /\ trade' \in Then(Then(EnterSubmitting(trade), RecordRejected), Reconcile)
      /\ up' = up
  BY DEF ExecuteRejected, WriteRecord, Completes
<1>2. /\ fallible \in BOOLEAN /\ History(journal, orders)
      /\ Bounded(journal, orders, fallible)
      /\ Stands(trade, journal, orders, fallible)
      /\ trade.slice.state = "dispatching" /\ c = trade.slice.id
      /\ journal[c].js = "dispatch_intent_persisted"
      /\ fallible \in CommitFails /\ up = TRUE
      /\ CurrentRecord \in Record /\ CurrentRecord.settled = 0
  BY <1>1, ExecutionIs DEF Current
<1>3. /\ r \in Record /\ r.rev # 0 /\ r.kind = journal[c].kind
      /\ r.requested = journal[c].requested /\ r.settled = 0 /\ r.os = "rejected"
  <2>1. /\ Submitting \in Record /\ Submitting.kind = CurrentRecord.kind
        /\ Submitting.requested = CurrentRecord.requested /\ Submitting.settled = 0
    BY <1>2, SubmittingIs
  <2>2. /\ r \in Record /\ r.rev # 0 /\ r.os = "rejected" /\ r.kind = Submitting.kind
        /\ r.requested = Submitting.requested /\ r.settled = Submitting.settled
    BY <2>1, RejectionPersists
  <2> QED
    BY <2>1, <2>2 DEF CurrentRecord
<1>4. PICK v \in EnterSubmitting(trade) : trade' \in Then(RecordRejected(v), Reconcile)
  BY <1>1 DEF Then
<1> HIDE DEF r, c
<1>5. /\ History(journal', orders) /\ Bounded(journal', orders, fallible)
      /\ Stands(trade', journal', orders, fallible)
  BY ONLY <1>1, <1>2, <1>3, <1>4, ExecutionRejects
<1> QED
  BY <1>1, <1>2, <1>5, InductiveKept

LEMMA ExecuteAcceptedKeeps ==
    ASSUME Inductive, ExecuteAccepted, fallible' = fallible
    PROVE  Inductive'
<1>1. PICK answer \in Reply \ {"rejected"} :
          /\ MayExecute
          /\ OrderIs(TRUE)
          /\ \/ \E final \in {"accepted", "reconciling"} :
                   /\ WriteRecord(Current, OperationAdvanced(Persisted(answer), final, 0))
                   /\ Completes(EnterSubmitting(trade))
             \/ WriteRecord(Current, Persisted(answer)) /\ Completes(EnterSubmitting(trade))
             \/ WriteRecord(Current, Persisted(answer)) /\ Dies
  BY DEF ExecuteAccepted
<1> DEFINE p == Persisted(answer)
<1>2. CurrentRecord \in Record /\ CurrentRecord.settled = 0
  BY <1>1, ExecutionIs
<1>3. Unfilled(Submitting) /\ Submitting.os = "submitting" /\ Submitting \in Record
  BY <1>2, SubmittingIs DEF Unfilled
<1>4. Unfilled(p) /\ p.os = "submitting" /\ p.js = "result_persisted" /\ p \in Record
  <2>1. answer \in Reply /\ p = ResultPersisted(Submitting, answer)
    BY DEF Persisted
  <2>2. /\ p \in Record /\ p.rev # 0 /\ p.js = "result_persisted" /\ p.os = Submitting.os
        /\ p.kind = Submitting.kind
        /\ p.requested = Submitting.requested /\ p.settled = Submitting.settled
    BY <1>3, <2>1, ResultPersists
  <2> QED
    BY <1>3, <2>2 DEF Unfilled
<1>5. ASSUME NEW final \in {"accepted", "reconciling"}
      PROVE  LET r == OperationAdvanced(p, final, 0) IN Unfilled(r) /\ r.os = final
  <2> DEFINE r == OperationAdvanced(p, final, 0)
  <2>1. final \in OperationState /\ final \notin FillState /\ 0 \in Nat
    BY DEF OperationState, FillState
  <2> HIDE DEF p
  <2>2. /\ r \in Record /\ r.rev # 0 /\ r.os = final /\ r.kind = p.kind
        /\ r.requested = p.requested
    BY <1>4, <2>1, OperationAdvances
  <2>3. r.settled = 0
    BY <1>4, <2>1, OperationAdvances
  <2> QED
    BY <1>4, <2>2, <2>3 DEF Unfilled
<1> HIDE DEF p
<1>6. CASE \E final \in {"accepted", "reconciling"} :
               /\ WriteRecord(Current, OperationAdvanced(p, final, 0))
               /\ Completes(EnterSubmitting(trade))
  <2>1. PICK final \in {"accepted", "reconciling"} :
               /\ WriteRecord(Current, OperationAdvanced(p, final, 0))
               /\ Completes(EnterSubmitting(trade))
    BY <1>6
  <2> DEFINE r == OperationAdvanced(p, final, 0)
  <2>2. Unfilled(r) /\ r.os = final /\ WriteRecord(Current, r)
    BY <1>5, <2>1
  <2> HIDE DEF r
  <2> QED
    BY <1>1, <2>1, <2>2, GoesOnInExecution
<1>7. CASE WriteRecord(Current, p) /\ Completes(EnterSubmitting(trade))
  BY <1>1, <1>4, <1>7, GoesOnInExecution
<1>8. CASE WriteRecord(Current, p) /\ Dies
  BY <1>1, <1>4, <1>8, StaysInExecution
<1> QED
  BY <1>1, <1>6, <1>7, <1>8 DEF p

\* What a settlement handler starts from.
LEMMA SettlementStarts ==
    ASSUME Inductive, up, trade.slice.kind \in {"open", "close", "cancel"}
    PROVE  /\ fallible \in BOOLEAN /\ fallible \in CommitFails /\ up = TRUE
           /\ History(journal, orders) /\ Bounded(journal, orders, fallible)
           /\ Stands(trade, journal, orders, fallible) /\ trade \in Trade
           /\ Current \in Id /\ Present(journal, Current)
           /\ Recorded(trade, CurrentRecord, orders[Current]) /\ Shaped(trade)
           /\ CurrentRecord \in Record /\ RecordFits(CurrentRecord)
<1>1. /\ fallible \in BOOLEAN /\ fallible \in CommitFails /\ up = TRUE
      /\ History(journal, orders) /\ Bounded(journal, orders, fallible)
      /\ Stands(trade, journal, orders, fallible) /\ trade \in Trade
  BY OwnerIs
<1>2. Memory(trade, journal, orders, fallible)
  BY <1>1 DEF Stands
<1>3. Current \in Id
  BY <1>2, NewTradeIs, PlanAssumption DEF Memory, Id, Current
<1>4. Present(journal, Current) /\ Recorded(trade, CurrentRecord, orders[Current])
      /\ Shaped(trade)
  BY <1>2, <1>3, IdsAreFinite DEF Memory, Current, CurrentRecord
<1>5. CurrentRecord \in Record /\ RecordFits(CurrentRecord)
  BY <1>1, <1>3 DEF History, CurrentRecord
<1> QED
  BY <1>1, <1>3, <1>4, <1>5

\* A normalized record is committed, and the memory stays.
LEMMA NormalizationKeeps ==
    ASSUME Inductive, up, fallible' = fallible, orders' = orders,
           trade.slice.kind \in {"open", "close", "cancel"},
           trade.slice.state # "dispatching",
           NEW r \in {CurrentRecord, NormalizedOnce(CurrentRecord),
                      Normalized(CurrentRecord)},
           WriteRecord(Current, r), Dies \/ UNCHANGED <<trade, up>>
    PROVE  Inductive'
<1> DEFINE c == Current
<1>1. /\ fallible \in BOOLEAN /\ fallible \in CommitFails /\ up = TRUE
      /\ History(journal, orders) /\ Bounded(journal, orders, fallible)
      /\ Stands(trade, journal, orders, fallible) /\ trade \in Trade
      /\ c \in Id /\ Present(journal, c) /\ c = trade.slice.id
  BY SettlementStarts DEF Current
<1>2. journal' = [journal EXCEPT ![c] = r]
  BY DEF WriteRecord
<1>3. CASE r = journal[c]
  <2> HIDE DEF c
  <2>1. journal' = journal
    BY <1>1, <1>2, <1>3, OperationOf
  <2> QED
    BY <1>1, <2>1, InductiveKept
<1>4. CASE r \in {NormalizedOnce(journal[c]), Normalized(journal[c])}
  <2> HIDE DEF c
  <2>1. SameBooks(journal, journal', orders, fallible)
    BY ONLY <1>1, <1>2, <1>4, SettlementStays
  <2>2. \A t : /\ Stands(t, journal, orders, fallible) /\ c = t.slice.id
               /\ t.slice.kind # "none" /\ t.slice.state # "dispatching"
               => Stands(t, journal', orders, fallible)
    BY ONLY <1>1, <1>2, <1>4, SettlementStays
  <2>3. Stands(trade, journal', orders, fallible)
    BY <1>1, <2>2
  <2> QED
    BY <1>1, <2>1, <2>3, InductiveKept DEF SameBooks
<1> QED
  BY <1>3, <1>4 DEF CurrentRecord

LEMMA SettleUnresolvedKeeps ==
    ASSUME Inductive, SettleUnresolved, fallible' = fallible
    PROVE  Inductive'
<1>1. /\ up /\ trade.slice.kind \in {"open", "close", "cancel"}
      /\ trade.slice.state # "dispatching"
  BY DEF SettleUnresolved, MaySettleSubmitted, MaySettle
<1>2. /\ orders' = orders /\ (Dies \/ UNCHANGED <<trade, up>>)
      /\ \/ WriteRecord(Current, Normalized(CurrentRecord))
         \/ WriteRecord(Current, NormalizedOnce(CurrentRecord))
  BY DEF SettleUnresolved, Interrupted
<1> DEFINE n == Normalized(CurrentRecord)
           o == NormalizedOnce(CurrentRecord)
<1>3. /\ n \in {CurrentRecord, NormalizedOnce(CurrentRecord), Normalized(CurrentRecord)}
      /\ o \in {CurrentRecord, NormalizedOnce(CurrentRecord), Normalized(CurrentRecord)}
      /\ WriteRecord(Current, n) \/ WriteRecord(Current, o)
  BY <1>2
<1> HIDE DEF n, o
<1> QED
  BY <1>1, <1>2, <1>3, NormalizationKeeps

LEMMA SettleAmbiguousKeeps ==
    ASSUME Inductive, SettleAmbiguous, fallible' = fallible
    PROVE  Inductive'
<1> DEFINE c == Current
           r == OperationAdvanced(Normalized(journal[c]), "ambiguous", 0)
<1>1. /\ up /\ trade.slice.kind \in {"open", "close", "cancel"}
      /\ trade.slice.state = "submitting"
  BY DEF SettleAmbiguous, MaySettleSubmitted, MaySettle
<1>2. /\ fallible \in BOOLEAN
      /\ History(journal, orders) /\ Bounded(journal, orders, fallible)
      /\ Stands(trade, journal, orders, fallible) /\ trade.slice.kind # "none"
      /\ trade.slice.state = "submitting" /\ c = trade.slice.id
      /\ r = OperationAdvanced(Normalized(journal[c]), "ambiguous", 0)
      /\ fallible \in CommitFails /\ up = TRUE
  BY <1>1, SettlementStarts DEF Current
<1>3. /\ orders' = orders /\ journal' = [journal EXCEPT ![c] = r]
      /\ \/ Completes(Then(RecordUnknown(trade), Reconcile))
         \/ Dies \/ UNCHANGED <<trade, up>>
  BY DEF SettleAmbiguous, WriteRecord, CurrentRecord
<1> HIDE DEF c, r
<1>4. SameBooks(journal, journal', orders, fallible)
  BY ONLY <1>2, <1>3, AmbiguitySettles
<1>5. Stands(trade, journal', orders, fallible)
  BY ONLY <1>2, <1>3, AmbiguitySettles
<1>6. \A u \in Then(RecordUnknown(trade), Reconcile) : Stands(u, journal', orders, fallible)
  BY ONLY <1>2, <1>3, AmbiguitySettles
<1>7. (up' = TRUE /\ Stands(trade', journal', orders', fallible)) \/ Dies
  BY <1>2, <1>3, <1>5, <1>6 DEF Completes
<1> QED
  BY <1>2, <1>3, <1>4, <1>7, InductiveKept DEF SameBooks

\* A fill is committed, or the settlement stops before that.
LEMMA FillCommits ==
    ASSUME Inductive, up, fallible' = fallible, orders' = orders,
           trade.slice.kind \in Traded,
           trade.slice.state \in {"submitting", "partially_filled"},
           NEW volume \in 1 .. orders[Current].filled, CurrentRecord.settled <= volume,
           NEW n \in {CurrentRecord, Normalized(CurrentRecord)},
           \/ /\ WriteRecord(Current,
                     OperationAdvanced(n, FillStateOf(volume, n.requested), volume))
              /\ \/ TakesOver(trade', trade, volume, CurrentRecord.settled) /\ up' = up
                 \/ Dies
           \/ WriteRecord(Current, n) /\ Interrupted
    PROVE  Inductive'
<1> DEFINE c == Current
           r == OperationAdvanced(n, FillStateOf(volume, n.requested), volume)
<1>1. trade.slice.kind \in {"open", "close", "cancel"}
      /\ trade.slice.state # "dispatching"
  BY DEF Traded
<1>2. CASE /\ WriteRecord(Current, r)
           /\ \/ TakesOver(trade', trade, volume, CurrentRecord.settled) /\ up' = up
              \/ Dies
  <2>1. /\ fallible \in BOOLEAN
        /\ History(journal, orders) /\ Bounded(journal, orders, fallible)
        /\ Stands(trade, journal, orders, fallible) /\ trade.slice.kind \in Traded
        /\ trade.slice.state \in {"submitting", "partially_filled"}
        /\ c = trade.slice.id
        /\ fallible \in CommitFails /\ up = TRUE
    BY <1>1, SettlementStarts DEF Current
  <2>2. /\ n \in {journal[c], NormalizedOnce(journal[c]), Normalized(journal[c])}
        /\ volume \in 1 .. orders[c].filled /\ journal[c].settled <= volume
        /\ r = OperationAdvanced(n, FillStateOf(volume, n.requested), volume)
        /\ journal' = [journal EXCEPT ![c] = r]
    BY <1>2 DEF WriteRecord, CurrentRecord
  <2>3. \/ TakesOver(trade', trade, volume, journal[c].settled) /\ up' = TRUE
        \/ Dies
    BY <1>2, <2>1 DEF CurrentRecord
  <2> HIDE DEF c, r
  <2>7. /\ Fills(trade, journal, orders, fallible, c, n, volume, r, journal')
        /\ fallible \in BOOLEAN
    BY <2>1, <2>2 DEF Fills
  <2>4. History(journal', orders) /\ Bounded(journal', orders, fallible)
    BY ONLY <2>7, FillKept
  <2>5. \A u : TakesOver(u, trade, volume, journal[c].settled)
                => Stands(u, journal', orders, fallible)
    BY ONLY <2>7, FillKept
  <2>6. (up' = TRUE /\ Stands(trade', journal', orders', fallible)) \/ Dies
    BY <2>3, <2>5
  <2> QED
    BY <2>1, <2>4, <2>6, InductiveKept
<1>3. CASE WriteRecord(Current, n) /\ Interrupted
  <2>1. Dies \/ UNCHANGED <<trade, up>>
    BY <1>3 DEF Interrupted
  <2> QED
    BY <1>1, <1>3, <2>1, NormalizationKeeps
<1> QED
  BY <1>2, <1>3

\* The record that a fill is about, and what the memory has of it.
LEMMA FillStarts ==
    ASSUME Inductive, up, trade.slice.kind \in Traded,
           trade.slice.state \in {"submitting", "partially_filled"}
    PROVE  /\ trade \in Trade
           /\ \E a \in Trade : Follows(trade, a)
           /\ trade.slice.result = CurrentRecord.settled
           /\ CurrentRecord.settled \in Nat
<1>1. /\ trade \in Trade /\ Recorded(trade, CurrentRecord, orders[Current])
      /\ Shaped(trade) /\ CurrentRecord \in Record /\ RecordFits(CurrentRecord)
  BY SettlementStarts DEF Traded
<1>2. PICK a \in Trade : Follows(trade, a)
  BY <1>1 DEF Shaped, Traceable
<1>3. CASE trade.slice.state = "submitting"
  <2>1. CurrentRecord.settled = 0
    BY <1>1, <1>3 DEF Recorded, RecordFits
  <2>2. trade.slice.result = 0
    BY <1>2, <1>3 DEF Follows, FillState
  <2> QED
    BY <1>1, <1>2, <2>1, <2>2
<1>4. CASE trade.slice.state = "partially_filled"
  <2>1. trade.slice.result = CurrentRecord.settled
    BY <1>1, <1>4 DEF Recorded, FillState
  <2> QED
    BY <1>1, <1>2, <2>1, RecordIs
<1> QED
  BY <1>3, <1>4

LEMMA SettleFillKeeps ==
    ASSUME Inductive, SettleFill, fallible' = fallible
    PROVE  Inductive'
<1>1. /\ up /\ trade.slice.kind \in Traded /\ trade.slice.state = "submitting"
  BY DEF SettleFill, MaySettle, Traded
<1>2. /\ trade \in Trade /\ trade.slice.result = CurrentRecord.settled
      /\ \E a \in Trade : Follows(trade, a)
  BY <1>1, FillStarts
<1>3. CurrentRecord.settled = 0
  <2>1. Recorded(trade, CurrentRecord, orders[Current]) /\ RecordFits(CurrentRecord)
    BY <1>1, SettlementStarts DEF Traded
  <2> QED
    BY <1>1, <2>1 DEF Recorded, RecordFits
<1> DEFINE n == Normalized(CurrentRecord)
<1>4. PICK volume \in 1 .. orders[Current].filled :
          CommitFill(n, volume, Then(RecordFill(trade, volume), Reconcile))
  BY DEF SettleFill
<1>5. ASSUME NEW u \in Then(RecordFill(trade, volume), Reconcile)
      PROVE  TakesOver(u, trade, volume, CurrentRecord.settled)
  <2>1. \A a \in Trade : Follows(trade, a) => Follows(u, a) /\ FilledUpTo(u, trade, volume)
    BY <1>1, <1>2, <1>5, FillFollows
  <2> QED
    BY <1>2, <2>1 DEF TakesOver
<1>6. /\ orders' = orders
      /\ \/ /\ WriteRecord(Current,
                   OperationAdvanced(n, FillStateOf(volume, n.requested), volume))
            /\ \/ TakesOver(trade', trade, volume, CurrentRecord.settled) /\ up' = up
               \/ Dies
         \/ WriteRecord(Current, n) /\ Interrupted
  BY <1>4, <1>5 DEF CommitFill, Completes
<1>7. n \in {CurrentRecord, Normalized(CurrentRecord)} /\ CurrentRecord.settled <= volume
  BY <1>3
<1> HIDE DEF n
<1> QED
  BY <1>1, <1>6, <1>7, FillCommits

LEMMA SettlePendingRemainderKeeps ==
    ASSUME Inductive, SettlePendingRemainder, fallible' = fallible
    PROVE  Inductive'
<1>1. /\ up /\ trade.slice.kind \in Traded /\ trade.slice.kind = "open"
      /\ trade.slice.state = "partially_filled"
  BY DEF SettlePendingRemainder, MaySettle, Traded
<1>2. /\ trade \in Trade /\ trade.slice.result = CurrentRecord.settled
      /\ \E a \in Trade : Follows(trade, a) /\ CurrentRecord.settled \in Nat
  BY <1>1, FillStarts
<1>3. PICK volume \in CurrentRecord.settled + 1 .. orders[Current].filled :
          CommitFill(CurrentRecord, volume,
                     ObservePendingRemainder(trade, volume - CurrentRecord.settled))
  BY DEF SettlePendingRemainder
<1> DEFINE n == CurrentRecord
           more == volume - CurrentRecord.settled
<1>4. /\ volume \in 1 .. orders[Current].filled /\ n.settled <= volume
      /\ trade.slice.result + more = volume
  <2>1. Current \in Id /\ orders \in [Id -> Order]
    BY <1>1, SettlementStarts DEF Traded, History
  <2>2. orders[Current].filled \in Nat
    BY <2>1 DEF Order
  <2> QED
    BY <1>2, <2>2
<1>5. ASSUME NEW u \in ObservePendingRemainder(trade, more)
      PROVE  TakesOver(u, trade, volume, n.settled)
  <2> HIDE DEF more, n
  <2>1. \A a \in Trade : Follows(trade, a)
            => Follows(u, a) /\ FilledUpTo(u, trade, trade.slice.result + more)
    BY <1>1, <1>2, <1>5, RemainderFollows
  <2> QED
    BY <1>2, <1>4, <2>1 DEF TakesOver, n
<1>6. /\ orders' = orders
      /\ \/ /\ WriteRecord(Current,
                   OperationAdvanced(n, FillStateOf(volume, n.requested), volume))
            /\ \/ TakesOver(trade', trade, volume, CurrentRecord.settled) /\ up' = up
               \/ Dies
         \/ WriteRecord(Current, n) /\ Interrupted
  BY <1>3, <1>5 DEF CommitFill, Completes
<1>7. n \in {CurrentRecord, Normalized(CurrentRecord)} /\ CurrentRecord.settled <= volume
  BY <1>4
<1> HIDE DEF n, more
<1> QED
  BY <1>1, <1>4, <1>6, <1>7, FillCommits

LEMMA SettleCloseRemainderKeeps ==
    ASSUME Inductive, SettleCloseRemainder, fallible' = fallible
    PROVE  Inductive'
<1>1. /\ up /\ trade.slice.kind \in Traded /\ trade.slice.kind = "close"
      /\ trade.slice.state = "partially_filled"
  BY DEF SettleCloseRemainder, MaySettle, Traded
<1>2. /\ trade \in Trade /\ trade.slice.result = CurrentRecord.settled
      /\ \E a \in Trade : Follows(trade, a) /\ CurrentRecord.settled \in Nat
  BY <1>1, FillStarts
<1>3. PICK volume \in CurrentRecord.settled + 1 .. orders[Current].filled :
          CommitFill(CurrentRecord, volume,
                     ObserveCloseRemainder(trade, volume - CurrentRecord.settled))
  BY DEF SettleCloseRemainder
<1> DEFINE n == CurrentRecord
           more == volume - CurrentRecord.settled
<1>4. /\ volume \in 1 .. orders[Current].filled /\ n.settled <= volume
      /\ trade.slice.result + more = volume
  <2>1. Current \in Id /\ orders \in [Id -> Order]
    BY <1>1, SettlementStarts DEF Traded, History
  <2>2. orders[Current].filled \in Nat
    BY <2>1 DEF Order
  <2> QED
    BY <1>2, <2>2
<1>5. ASSUME NEW u \in ObserveCloseRemainder(trade, more)
      PROVE  TakesOver(u, trade, volume, n.settled)
  <2> HIDE DEF more, n
  <2>1. \A a \in Trade : Follows(trade, a)
            => Follows(u, a) /\ FilledUpTo(u, trade, trade.slice.result + more)
    BY <1>1, <1>2, <1>5, CloseRemainderFollows
  <2> QED
    BY <1>2, <1>4, <2>1 DEF TakesOver, n
<1>6. /\ orders' = orders
      /\ \/ /\ WriteRecord(Current,
                   OperationAdvanced(n, FillStateOf(volume, n.requested), volume))
            /\ \/ TakesOver(trade', trade, volume, CurrentRecord.settled) /\ up' = up
               \/ Dies
         \/ WriteRecord(Current, n) /\ Interrupted
  BY <1>3, <1>5 DEF CommitFill, Completes
<1>7. n \in {CurrentRecord, Normalized(CurrentRecord)} /\ CurrentRecord.settled <= volume
  BY <1>4
<1> HIDE DEF n, more
<1> QED
  BY <1>1, <1>4, <1>6, <1>7, FillCommits

LEMMA SettleCancelKeeps ==
    ASSUME Inductive, SettleCancel, fallible' = fallible
    PROVE  Inductive'
<1>1. /\ up /\ trade.slice.kind = "cancel" /\ trade.slice.state = "submitting"
  BY DEF SettleCancel, MaySettle
<1>2. PICK open \in OpenForCancel :
          LET bought   == journal[open]
              late     == orders[open].filled - bought.settled
              cancel   == Normalized(CurrentRecord)
              filled   == IF late = 0 THEN bought
                          ELSE OperationAdvanced(bought,
                                   FillStateOf(orders[open].filled,
                                               bought.requested),
                                   orders[open].filled)
              observed == IF late = 0 THEN {trade}
                          ELSE ObserveCancelRemainder(trade, late)
              settled  == Then(Then(observed, RecordCancelAccepted), Reconcile)
              Write(o, c) ==
                  journal' = [journal EXCEPT ![open] = o, ![Current] = c]
          IN  /\ ~orders[open].live
              /\ \/ /\ Write(filled, OperationAdvanced(cancel, "cancelled", 0))
                    /\ Completes(settled) \/ Dies
                 \/ Write(filled, cancel) /\ Interrupted
                 \/ Write(bought, cancel) /\ Interrupted
  BY Zenon DEF SettleCancel
<1> DEFINE c        == Current
           bought   == journal[open]
           late     == orders[open].filled - bought.settled
           cancel   == Normalized(journal[c])
           filled   == IF late = 0 THEN bought
                       ELSE OperationAdvanced(bought,
                                FillStateOf(orders[open].filled, bought.requested),
                                orders[open].filled)
           observed == IF late = 0 THEN {trade} ELSE ObserveCancelRemainder(trade, late)
           settled  == Then(Then(observed, RecordCancelAccepted), Reconcile)
           r        == OperationAdvanced(cancel, "cancelled", 0)
<1>3. /\ ~ orders[open].live
      /\ \/ /\ journal' = [journal EXCEPT ![open] = filled, ![c] = r]
            /\ Completes(settled) \/ Dies
         \/ journal' = [journal EXCEPT ![open] = filled, ![c] = cancel] /\ Interrupted
         \/ journal' = [journal EXCEPT ![open] = bought, ![c] = cancel] /\ Interrupted
  BY <1>2, Zenon DEF CurrentRecord
<1>4. /\ fallible \in BOOLEAN
      /\ History(journal, orders) /\ Bounded(journal, orders, fallible)
      /\ Stands(trade, journal, orders, fallible) /\ trade.slice.kind = "cancel"
      /\ trade.slice.state = "submitting" /\ c = trade.slice.id /\ c \in Id
      /\ fallible \in CommitFails /\ up = TRUE
  BY <1>1, SettlementStarts DEF Current
<1>5. /\ open = c - 1 /\ open # 0 /\ journal[open].kind = "open"
      /\ journal[open].os \in FillState
  BY <1>1 DEF OpenForCancel
<1>6. open \in Id
  BY <1>4, <1>5, PlanAssumption DEF Id
<1>7. LateFill(journal, orders, open, late, filled)
  BY <1>3, <1>5, <1>6, Zenon DEF LateFill
<1>8. orders' = orders
  BY DEF SettleCancel
<1>9. CASE /\ journal' = [journal EXCEPT ![open] = filled, ![c] = r]
           /\ Completes(settled) \/ Dies
  <2>1. r = OperationAdvanced(Normalized(journal[c]), "cancelled", 0)
    OBVIOUS
  <2>2. /\ journal' = [journal EXCEPT ![open] = filled, ![c] = r]
    BY <1>9
  <2>3. Completes(settled) => \E o \in observed : trade' \in Then(RecordCancelAccepted(o),
                                                                  Reconcile)
    BY DEF Completes, Then
  <2> DEFINE k == journal'
  <2>4. k = [journal EXCEPT ![open] = filled, ![c] = r]
    BY <2>2
  <2>5. observed = IF late = 0 THEN {trade} ELSE ObserveCancelRemainder(trade, late)
    OBVIOUS
  <2> HIDE DEF c, bought, late, cancel, filled, observed, settled, r, k
  <2>6. TakesEnd(trade, k, orders, fallible, late)
    <3>1. /\ Cancels(trade, journal, orders, fallible, c, open, late, filled, r, k)
          /\ fallible \in BOOLEAN
      BY ONLY <1>4, <1>5, <1>7, <2>1, <2>4 DEF Cancels
    <3> QED
      BY ONLY <3>1, CancelDone
  <2>8. \A o \in observed :
           \A u \in Then(RecordCancelAccepted(o), Reconcile) : Stands(u, k, orders, fallible)
    BY <2>5, <2>6, Zenon DEF TakesEnd
  <2>9. (up' = TRUE /\ Stands(trade', k, orders, fallible)) \/ Dies
    BY <1>4, <1>9, <2>3, <2>8 DEF Completes
  <2> QED
    BY <1>4, <1>8, <2>6, <2>9, InductiveKept DEF k, TakesEnd
<1>10. CASE journal' = [journal EXCEPT ![open] = filled, ![c] = cancel] /\ Interrupted
  <2> DEFINE k == journal'
  <2>1. k = [journal EXCEPT ![open] = filled, ![c] = Normalized(journal[c])]
    BY <1>10
  <2> HIDE DEF c, bought, late, filled, observed, settled, r, k
  <2>2. History(k, orders) /\ Bounded(k, orders, fallible)
        /\ (fallible => Stands(trade, k, orders, fallible))
    BY ONLY <1>4, <1>5, <1>7, <2>1, CancelStops
  <2>3. (up' = TRUE /\ Stands(trade', k, orders, fallible)) \/ Dies
    BY <1>4, <1>10, <2>2 DEF Interrupted
  <2> QED
    BY <1>4, <1>8, <2>2, <2>3, InductiveKept DEF k
<1>11. CASE journal' = [journal EXCEPT ![open] = bought, ![c] = cancel] /\ Interrupted
  <2>1. journal' = [journal EXCEPT ![c] = cancel]
    <3>1. History(journal, orders) /\ open \in Id
      BY <1>4, <1>6
    <3> HIDE DEF c, cancel
    <3>2. [journal EXCEPT ![open] = journal[open], ![c] = cancel]
          = [journal EXCEPT ![c] = cancel]
      BY ONLY <3>1, OpenLeft
    <3> QED
      BY <1>11, <3>2
  <2>2. Dies \/ UNCHANGED <<trade, up>>
    BY <1>11 DEF Interrupted
  <2>3. cancel \in {CurrentRecord, NormalizedOnce(CurrentRecord), Normalized(CurrentRecord)}
        /\ WriteRecord(Current, cancel)
    BY <2>1 DEF CurrentRecord, WriteRecord
  <2> HIDE DEF cancel
  <2> QED
    BY <1>1, <1>8, <2>2, <2>3, NormalizationKeeps
<1> QED
  BY ONLY <1>3, <1>9, <1>10, <1>11

LEMMA CrashKeeps ==
    ASSUME Inductive, Crash, fallible' = fallible
    PROVE  Inductive'
  BY DEF Inductive, Crash, Dies, Held

LEMMA RestartKeeps ==
    ASSUME Inductive, Restart, fallible' = fallible
    PROVE  Inductive'
<1>1. /\ fallible \in CommitFails /\ fallible \in BOOLEAN
      /\ History(journal, orders) /\ Bounded(journal, orders, fallible)
  BY OwnerAssumption DEF Inductive, Held
<1>2. /\ trade' \in Replays(journal)[MaxOperations] /\ up' = TRUE
      /\ journal' = journal /\ orders' = orders
  BY DEF Restart, Recovered
<1>3. Memory(trade', journal, orders, fallible) /\ Retraced(trade', journal)
  BY <1>1, <1>2, RecoveredIsMemory
<1> QED
  BY <1>1, <1>2, <1>3, InductiveKept DEF Stands

----------------------------------------------------------------------------
(* The broker.                                                             *)

\* A memory says nothing of orders but that some were not placed yet.
LEMMA StandsWith ==
    ASSUME NEW j, NEW w, NEW f, NEW t, Stands(t, j, w, f),
           NEW y, \A o \in Id : w[o] = NoOrder => y[o] = NoOrder
    PROVE  Stands(t, j, y, f)
<1>1. t.slice.id # 0 => t.slice.id \in Id
  BY PlanAssumption DEF Stands, Memory, Id
<1>2. t.slice.id # 0 => Recorded(t, j[t.slice.id], y[t.slice.id])
  BY <1>1 DEF Stands, Memory, Recorded
<1> QED
  BY <1>2 DEF Stands, Memory

LEMMA BrokerKeeps ==
    ASSUME Inductive, fallible' = fallible, UNCHANGED <<trade, up, journal>>,
           History(journal, orders') /\ Bounded(journal, orders', fallible),
           \A p \in Id : orders[p] = NoOrder => orders'[p] = NoOrder
    PROVE  Inductive'
<1>1. /\ fallible \in CommitFails /\ Held(trade, up, journal, orders, fallible)
  BY DEF Inductive
<1>2. up => Stands(trade, journal, orders', fallible)
  BY <1>1, StandsWith DEF Held
<1>3. Held(trade, up, journal, orders', fallible)
  BY <1>1, <1>2 DEF Held
<1> QED
  BY <1>1, <1>3 DEF Inductive

LEMMA OrdersAre ==
    ASSUME Inductive
    PROVE  /\ fallible \in BOOLEAN /\ History(journal, orders)
           /\ Bounded(journal, orders, fallible) /\ orders \in [Id -> Order]
  BY OwnerAssumption DEF Inductive, Held, History

LEMMA OrderFields ==
    ASSUME NEW n \in Nat, NEW l \in BOOLEAN, NEW x, x = [filled |-> n, live |-> l]
    PROVE  x \in Order /\ x.filled = n /\ (x.live <=> l)
  BY Zenon DEF Order

LEMMA BrokerFillsKeeps ==
    ASSUME Inductive, NEW o \in Id, BrokerFills(o), fallible' = fallible
    PROVE  Inductive'
<1> DEFINE x == [filled |-> orders[o].filled + 1,
                 live   |-> orders[o].filled + 1 < journal[o].requested]
<1>1. /\ fallible \in BOOLEAN /\ History(journal, orders)
      /\ Bounded(journal, orders, fallible) /\ orders \in [Id -> Order]
  BY OrdersAre
<1>2. orders[o].live /\ journal[o].kind \in Traded /\ UNCHANGED <<trade, up, journal>>
      /\ orders' = [orders EXCEPT ![o] = x]
  BY DEF BrokerFills, Kind, Traded
<1>3. x \in Order /\ x.filled = orders[o].filled + 1 /\ (x.live <=> x.filled < journal[o].requested)
  <2>1. orders[o].filled \in Nat
    BY <1>1 DEF Order
  <2> DEFINE n == orders[o].filled + 1
             l == orders[o].filled + 1 < journal[o].requested
  <2>2. n \in Nat /\ l \in BOOLEAN
    BY <2>1
  <2>3. x = [filled |-> n, live |-> l] /\ n = orders[o].filled + 1
        /\ (l <=> n < journal[o].requested)
    OBVIOUS
  <2> HIDE DEF x, n, l
  <2>4. x \in Order /\ x.filled = n /\ (x.live <=> l)
    BY <2>2, <2>3, OrderFields
  <2> QED
    BY <2>3, <2>4
<1>4. \A p \in Id : orders[p] = NoOrder => orders'[p] = NoOrder
  <2> SUFFICES ASSUME NEW p \in Id, orders[p] = NoOrder
               PROVE  orders'[p] = NoOrder
    OBVIOUS
  <2>1. p # o
    <3>1. ~ NoOrder.live
      BY DEF NoOrder
    <3> QED
      BY <1>2, <3>1
  <2> HIDE DEF x
  <2> QED
    BY <1>1, <1>2, <2>1
<1> HIDE DEF x
<1>5. History(journal, orders') /\ Bounded(journal, orders', fallible)
  BY <1>1, <1>2, <1>3, OrderChanged
<1> QED
  BY <1>2, <1>4, <1>5, BrokerKeeps

\* An order that the broker takes off the book.
Ended(x) == [x EXCEPT !.live = FALSE]

LEMMA EndedIs ==
    ASSUME NEW x \in Order
    PROVE  /\ Ended(x) \in Order /\ Ended(x).filled = x.filled /\ ~ Ended(x).live
           /\ ~ x.live => Ended(x) = x
           /\ x = NoOrder => Ended(x) = NoOrder
<1>1. x.filled \in Nat /\ x.live \in BOOLEAN
  BY DEF Order
<1>2. x = [live |-> x.live, filled |-> x.filled]
  BY Zenon DEF Order
<1>3. x.live \in BOOLEAN /\ DOMAIN x = {"live", "filled"}
  BY DEF Order
<1>4. Ended(x).filled = x.filled /\ Ended(x).live = FALSE
      /\ DOMAIN Ended(x) = {"live", "filled"}
  BY <1>3 DEF Ended
<1>9. Ended(x) \in Order
  BY <1>1, <1>3, <1>4 DEF Order, Ended
<1>5. Ended(x).filled = x.filled /\ ~ Ended(x).live
  BY <1>4
<1>6. ~ x.live => Ended(x) = x
  <2>1. ASSUME ~ x.live
        PROVE  Ended(x) = x
    <3>1. x.live = FALSE
      BY <1>1, <2>1
    <3>2. \A i \in {"live", "filled"} : Ended(x)[i] = x[i]
      BY <1>4, <3>1
    <3> QED
      BY <1>3, <1>4, <1>9, <3>2 DEF Order, Ended
  <2> QED
    BY <2>1
<1>7. x = NoOrder => Ended(x) = NoOrder
  <2>1. ~ NoOrder.live
    BY DEF NoOrder
  <2> QED
    BY <1>6, <2>1
<1> QED
  BY <1>5, <1>6, <1>7, <1>9

\* What the broker did leaves a history, and no order that was not placed.
BrokerDid(j, w, y, f) ==
    /\ History(j, y) /\ Bounded(j, y, f)
    /\ \A p \in Id : w[p] = NoOrder => y[p] = NoOrder

LEMMA OrderEnded ==
    ASSUME NEW j, NEW w, NEW f \in BOOLEAN, History(j, w), Bounded(j, w, f),
           NEW c \in Id, NEW y, y = [w EXCEPT ![c] = Ended(w[c])]
    PROVE  BrokerDid(j, w, y, f)
<1>1. w \in [Id -> Order] /\ w[c] \in Order
  BY DEF History
<1>2. \A p \in Id : w[p] = NoOrder => y[p] = NoOrder
  BY <1>1, EndedIs
<1>3. CASE w[c].live
  <2> DEFINE x == Ended(w[c])
  <2>1. x \in Order /\ x.filled = w[c].filled /\ ~ x.live /\ y = [w EXCEPT ![c] = x]
    BY <1>1, EndedIs
  <2>2. f \in BOOLEAN /\ History(j, w) /\ Bounded(j, w, f) /\ c \in Id /\ w[c].live
    BY <1>3
  <2> HIDE DEF x
  <2>3. History(j, y) /\ Bounded(j, y, f)
    BY ONLY <2>1, <2>2, OrderChanged
  <2> QED
    BY <1>2, <2>3 DEF BrokerDid
<1>4. CASE ~ w[c].live
  <2>1. y = w
    BY <1>1, <1>4, EndedIs
  <2> QED
    BY <1>2, <2>1 DEF BrokerDid
<1> QED
  BY <1>3, <1>4

LEMMA BrokerEndsKeeps ==
    ASSUME Inductive, NEW o \in Id, BrokerEnds(o), fallible' = fallible
    PROVE  Inductive'
<1>1. /\ fallible \in BOOLEAN /\ History(journal, orders)
      /\ Bounded(journal, orders, fallible) /\ orders \in [Id -> Order]
  BY OrdersAre
<1>2. UNCHANGED <<trade, up, journal>> /\ orders' = [orders EXCEPT ![o] = Ended(orders[o])]
  BY DEF BrokerEnds, Ended
<1>3. BrokerDid(journal, orders, orders', fallible)
  BY <1>1, <1>2, OrderEnded
<1> QED
  BY <1>2, <1>3, BrokerKeeps DEF BrokerDid

LEMMA BrokerCancelsKeeps ==
    ASSUME Inductive, NEW o \in Id, BrokerCancels(o), fallible' = fallible
    PROVE  Inductive'
<1>1. /\ fallible \in BOOLEAN /\ History(journal, orders)
      /\ Bounded(journal, orders, fallible) /\ orders \in [Id -> Order]
  BY OrdersAre
<1>2. PICK open \in 1 .. o - 1 :
          /\ orders' = [orders EXCEPT ![o].live = FALSE, ![open].live = FALSE]
          /\ UNCHANGED <<trade, up, journal>>
  BY DEF BrokerCancels
<1>3. open \in Id /\ open # o
  BY PlanAssumption DEF Id
<1> DEFINE m == [orders EXCEPT ![o] = Ended(orders[o])]
<1>4. orders' = [m EXCEPT ![open] = Ended(m[open])]
  <2>1. m[open] = orders[open]
    BY <1>1, <1>3
  <2> QED
    BY <1>1, <1>2, <1>3, <2>1 DEF Ended
<1>5. m = [orders EXCEPT ![o] = Ended(orders[o])]
  OBVIOUS
<1> HIDE DEF m
<1>6. BrokerDid(journal, orders, m, fallible)
  BY <1>1, <1>5, OrderEnded
<1>7. History(journal, m) /\ Bounded(journal, m, fallible)
  BY <1>6 DEF BrokerDid
<1>8. BrokerDid(journal, m, orders', fallible)
  BY <1>1, <1>3, <1>4, <1>7, OrderEnded
<1> QED
  BY <1>2, <1>6, <1>8, BrokerKeeps DEF BrokerDid

----------------------------------------------------------------------------
(* The inductive invariant holds.                                          *)

\* Nothing is in the journal, and nothing was ever ordered.
LEMMA NothingYet ==
    ASSUME NEW f \in BOOLEAN, NEW j, j = [o \in Id |-> Absent],
           NEW w, w = [o \in Id |-> NoOrder]
    PROVE  Held(NewTrade, TRUE, j, w, f)
<1>1. Absent \in Record /\ Absent.rev = 0 /\ Absent.kind = "unspecified"
      /\ Absent.os = "queued" /\ Absent.settled = 0
  BY DEF Absent, Record, OperationState, JournalState, OperationKind, Descriptor
<1>2. NoOrder \in Order /\ NoOrder.filled = 0
  BY DEF NoOrder, Order
<1>3. /\ j \in [Id -> Record] /\ w \in [Id -> Order]
      /\ \A o \in Id : j[o] = Absent /\ w[o] = NoOrder
  BY <1>1, <1>2
<1>4. \A o \in Id : ~ Present(j, o) /\ j[o].kind \notin Traded
  BY <1>1, <1>3 DEF Present, Traded
<1>5. \A o \in Id : RecordFits(j[o]) /\ OrderFits(j[o], w[o])
  BY <1>1, <1>2, <1>3 DEF RecordFits, OrderFits, FillState, Traded
<1>6. History(j, w)
  BY <1>3, <1>4, <1>5 DEF History
<1>7. PositionIn(j, w) = BookedIn(j) /\ BuyingIn(j, w) = 0 /\ SellingIn(j, w) = 0
  BY <1>4, <1>6, QuietSums
<1>8. BookedIn(j) = 0
  <2>1. SettledIn(j) \in [Id -> Nat]
    BY <1>6, SummedTypes
  <2>2. \A o \in Id : SettledIn(j)[o] = 0
    BY <1>1, <1>3 DEF SettledIn
  <2>3. OfKind(j, SettledIn(j), "open") = 0 /\ OfKind(j, SettledIn(j), "close") = 0
    BY <2>1, <2>2, OfKindZero
  <2> QED
    BY <2>3 DEF BookedIn
<1>9. Bounded(j, w, f)
  BY <1>7, <1>8, PlanAssumption DEF Bounded
<1>10. Memory(NewTrade, j, w, f)
  BY <1>4, <1>8, NewTradeIs, PlanAssumption DEF Memory, Id
<1>11. Retraced(NewTrade, j)
  BY NewTradeIs DEF Retraced, Traceable
<1> QED
  BY <1>6, <1>9, <1>10, <1>11 DEF Held, Stands

LEMMA InductiveAtFirst == Init => Inductive
<1> SUFFICES ASSUME Init
             PROVE  Inductive
  OBVIOUS
<1>1. fallible \in BOOLEAN /\ fallible \in CommitFails /\ up = TRUE
  BY OwnerAssumption DEF Init
<1>2. trade = NewTrade /\ journal = [o \in Id |-> Absent] /\ orders = [o \in Id |-> NoOrder]
  BY DEF Init
<1>3. Held(NewTrade, TRUE, journal, orders, fallible)
  BY <1>1, <1>2, NothingYet
<1> QED
  BY <1>1, <1>2, <1>3 DEF Inductive

LEMMA InductiveStays == Inductive /\ [UNCHANGED fallible /\ Next]_vars => Inductive'
<1> SUFFICES ASSUME Inductive, [UNCHANGED fallible /\ Next]_vars
             PROVE  Inductive'
  OBVIOUS
<1>1. CASE UNCHANGED vars
  BY <1>1 DEF vars, Inductive
<1>2. CASE UNCHANGED fallible /\ Next
  <2>1. CASE PrepareOpen
    BY <1>2, <2>1, PrepareOpenKeeps
  <2>2. CASE PrepareClose
    BY <1>2, <2>2, PrepareCloseKeeps
  <2>3. CASE PrepareCancel
    BY <1>2, <2>3, PrepareCancelKeeps
  <2>4. CASE ExecuteRefused
    BY <1>2, <2>4, ExecuteRefusedKeeps
  <2>5. CASE ExecuteUncertain
    BY <1>2, <2>5, ExecuteUncertainKeeps
  <2>6. CASE ExecuteRejected
    BY <1>2, <2>6, ExecuteRejectedKeeps
  <2>7. CASE ExecuteAccepted
    BY <1>2, <2>7, ExecuteAcceptedKeeps
  <2>8. CASE SettleUnresolved
    BY <1>2, <2>8, SettleUnresolvedKeeps
  <2>9. CASE SettleAmbiguous
    BY <1>2, <2>9, SettleAmbiguousKeeps
  <2>10. CASE SettleFill
    BY <1>2, <2>10, SettleFillKeeps
  <2>11. CASE SettlePendingRemainder
    BY <1>2, <2>11, SettlePendingRemainderKeeps
  <2>12. CASE SettleCloseRemainder
    BY <1>2, <2>12, SettleCloseRemainderKeeps
  <2>13. CASE SettleCancel
    BY <1>2, <2>13, SettleCancelKeeps
  <2>14. CASE Crash
    BY <1>2, <2>14, CrashKeeps
  <2>15. CASE Restart
    BY <1>2, <2>15, RestartKeeps
  <2>16. ASSUME NEW o \in Id, BrokerFills(o)
         PROVE  Inductive'
    BY <1>2, <2>16, BrokerFillsKeeps
  <2>17. ASSUME NEW o \in Id, BrokerEnds(o)
         PROVE  Inductive'
    BY <1>2, <2>17, BrokerEndsKeeps
  <2>18. ASSUME NEW o \in Id, BrokerCancels(o)
         PROVE  Inductive'
    BY <1>2, <2>18, BrokerCancelsKeeps
  <2> QED
    BY <1>2, <2>1, <2>2, <2>3, <2>4, <2>5, <2>6, <2>7, <2>8, <2>9, <2>10, <2>11, <2>12,
       <2>13, <2>14, <2>15, <2>16, <2>17, <2>18 DEF Next
<1> QED
  BY <1>1, <1>2

\* In every state the journal fits the broker's orders, what is working at the
\* broker stays in bounds, and the owner's memory, if there is one, is what the
\* journal says of the operations, up to a commit that was refused.
THEOREM OwnerInvariant == Spec => []Inductive
<1> QED
  BY InductiveAtFirst, InductiveStays, PTL DEF Spec

\* The variables of ManagedTradeOwner.tla keep their types.
THEOREM OwnerTypes == Spec => []TypeOK
<1>1. Inductive => TypeOK
  <2> SUFFICES ASSUME Inductive
               PROVE  TypeOK
    OBVIOUS
  <2>1. fallible \in CommitFails /\ Held(trade, up, journal, orders, fallible)
    BY DEF Inductive
  <2>2. trade \in Trade
    BY <2>1, NewTradeIs DEF Held, Stands, Memory
  <2> QED
    BY <2>1, <2>2 DEF TypeOK, Held, History
<1> QED
  BY <1>1, OwnerInvariant, PTL

\* recover_settled_trade (managed_trade_owner.cpp:157) rebuilds exactly what the
\* owner had in memory, whenever it crashes.
THEOREM RecoveryIsExact == Spec => []RecoveryAgrees
<1>1. Inductive => RecoveryAgrees
  <2> SUFFICES ASSUME Inductive, up, ~ fallible, NEW u \in Recovered
               PROVE  u = trade
    BY DEF RecoveryAgrees
  <2>1. /\ fallible \in BOOLEAN /\ History(journal, orders)
        /\ Stands(trade, journal, orders, fallible)
    BY OwnerIs
  <2>2. fallible = FALSE
    BY <2>1
  <2>3. Memory(trade, journal, orders, FALSE) /\ Retraced(trade, journal)
    BY <2>1, <2>2 DEF Stands
  <2>4. u \in Replays(journal)[MaxOperations]
    BY DEF Recovered
  <2> QED
    BY <2>1, <2>3, <2>4, MemoryIsRecovered
<1> QED
  BY <1>1, OwnerInvariant, PTL

----------------------------------------------------------------------------
(* What the invariant says of the broker's exposure.                       *)

\* The value of one operation of a kind changes.
LEMMA OfKindMoves ==
    ASSUME NEW j, NEW v \in [Id -> Nat], NEW u \in [Id -> Nat], NEW kind,
           NEW c \in Id, j[c].kind = kind, \A o \in Id \ {c} : u[o] = v[o]
    PROVE  OfKind(j, u, kind) + v[c] = OfKind(j, v, kind) + u[c]
<1>1. \A o \in Id \ {c} : j[o].kind = j[o].kind /\ u[o] = v[o]
  OBVIOUS
<1>2. OfKind(j, u, kind) + (IF j[c].kind = kind THEN v[c] ELSE 0)
      = OfKind(j, v, kind) + (IF j[c].kind = kind THEN u[c] ELSE 0)
  BY <1>1, OfKindChanges
<1> QED
  BY <1>2

\* No CLOSE is booked for more than it sold, so that the exposure is at most
\* what is booked and what the journal does not know of one OPEN.
LEMMA ClosesBooked ==
    ASSUME NEW j, NEW w, History(j, w)
    PROVE  OfKind(j, SettledIn(j), "close") <= OfKind(j, FilledIn(w), "close")
<1>1. SettledIn(j) \in [Id -> Nat] /\ FilledIn(w) \in [Id -> Nat]
  BY SummedTypes
<1>2. ASSUME NEW o \in Id, j[o].kind = "close"
      PROVE  SettledIn(j)[o] <= FilledIn(w)[o]
  <2>1. OrderFits(j[o], w[o])
    BY DEF History
  <2>2. j[o].settled <= w[o].filled
    BY <1>2, <2>1 DEF OrderFits, Traded
  <2> QED
    BY <2>2 DEF SettledIn, FilledIn
<1> QED
  BY <1>1, <1>2, OfKindSmaller

\* The journal knows all of every OPEN.
LEMMA NothingUnknown ==
    ASSUME NEW j, NEW w, History(j, w),
           \A o \in Id : j[o].kind = "open" => Quiet(j[o], w[o])
    PROVE  PositionIn(j, w) + BuyingIn(j, w) <= BookedIn(j)
<1> DEFINE so == OfKind(j, SettledIn(j), "open")
           sc == OfKind(j, SettledIn(j), "close")
           fo == OfKind(j, FilledIn(w), "open")
           fc == OfKind(j, FilledIn(w), "close")
           buys == BuyingIn(j, w)
<1>1. SettledIn(j) \in [Id -> Nat] /\ FilledIn(w) \in [Id -> Nat]
  BY SummedTypes
<1>2. so \in Nat /\ sc \in Nat /\ fo \in Nat /\ fc \in Nat
  BY <1>1, OfKindType
<1>3. \A o \in Id : /\ j[o].kind = "open" <=> j[o].kind = "open"
                    /\ j[o].kind = "open" => FilledIn(w)[o] = SettledIn(j)[o]
  BY DEF Quiet, FilledIn, SettledIn
<1>4. fo = so
  BY <1>1, <1>3, OfKindEquals
<1>5. buys = 0
  BY NothingBuys DEF Quiet
<1>6. sc <= fc
  BY ClosesBooked
<1>7. PositionIn(j, w) = fo - fc /\ BookedIn(j) = so - sc
  BY DEF PositionIn, BookedIn
<1> HIDE DEF so, sc, fo, fc, buys
<1>8. (fo - fc) + buys <= so - sc
  BY <1>2, <1>4, <1>5, <1>6
<1> QED
  BY <1>7, <1>8 DEF buys

\* The journal knows all of every OPEN but b.
LEMMA OneUnknown ==
    ASSUME NEW j, NEW w, History(j, w), NEW b \in Id, j[b].kind = "open",
           \A o \in Id \ {b} : j[o].kind = "open" => Quiet(j[o], w[o])
    PROVE  PositionIn(j, w) + BuyingIn(j, w)
           <= BookedIn(j) + (j[b].requested - j[b].settled)
<1> DEFINE so == OfKind(j, SettledIn(j), "open")
           sc == OfKind(j, SettledIn(j), "close")
           fo == OfKind(j, FilledIn(w), "open")
           fc == OfKind(j, FilledIn(w), "close")
           buys == BuyingIn(j, w)
           filled == w[b].filled
           settled == j[b].settled
           requested == j[b].requested
           works == WorkingIn(j, w)[b]
           v == [SettledIn(j) EXCEPT ![b] = filled]
           none == [o \in Id |-> 0]
           z == [none EXCEPT ![b] = works]
<1>1. /\ SettledIn(j) \in [Id -> Nat] /\ FilledIn(w) \in [Id -> Nat]
      /\ WorkingIn(j, w) \in [Id -> Nat] /\ none \in [Id -> Nat]
  BY SummedTypes, WorkingType
<1>2. so \in Nat /\ sc \in Nat /\ fo \in Nat /\ fc \in Nat /\ buys \in Nat
  BY <1>1, OfKindType DEF BuyingIn
<1>3. filled \in Nat /\ settled \in Nat /\ requested \in Nat /\ works \in Nat
  BY <1>1, SummedTypes
<1>4. v \in [Id -> Nat] /\ z \in [Id -> Nat]
  BY <1>1, <1>3
<1>5. OfKind(j, v, "open") + settled = so + filled
  <2> DEFINE a == SettledIn(j)
  <2>1. /\ a \in [Id -> Nat] /\ v \in [Id -> Nat]
        /\ b \in Id /\ j[b].kind = "open" /\ \A o \in Id \ {b} : v[o] = a[o]
    BY <1>1, <1>4
  <2>2. a[b] = settled /\ v[b] = filled
    BY <1>1 DEF SettledIn
  <2> HIDE DEF v, a
  <2>3. OfKind(j, v, "open") + a[b] = OfKind(j, a, "open") + v[b]
    BY ONLY <2>1, OfKindMoves
  <2> QED
    BY <2>2, <2>3 DEF a
<1>6. OfKind(j, z, "open") = works
  <2>1. \A o \in Id \ {b} : z[o] = none[o]
    OBVIOUS
  <2>2. none[b] = 0 /\ z[b] = works
    OBVIOUS
  <2>3. OfKind(j, z, "open") + none[b] = OfKind(j, none, "open") + z[b]
    <3> HIDE DEF z, none
    <3> QED
      BY <1>1, <1>4, <2>1, OfKindMoves
  <2>4. OfKind(j, none, "open") = 0
    <3>1. \A o \in Id : j[o].kind = "open" => none[o] = 0
      OBVIOUS
    <3> HIDE DEF none
    <3> QED
      BY <1>1, <3>1, OfKindZero
  <2>5. OfKind(j, z, "open") \in Nat
    BY <1>4, OfKindType
  <2> QED
    BY <1>3, <2>2, <2>3, <2>4, <2>5
<1>7. fo = OfKind(j, v, "open")
  <2>1. \A o \in Id : /\ j[o].kind = "open" <=> j[o].kind = "open"
                      /\ j[o].kind = "open" => FilledIn(w)[o] = v[o]
    BY <1>1 DEF Quiet, FilledIn, SettledIn
  <2> HIDE DEF v
  <2> QED
    BY <1>1, <1>4, <2>1, OfKindEquals
<1>8. buys = OfKind(j, z, "open")
  <2>1. \A o \in Id : /\ j[o].kind = "open" <=> j[o].kind = "open"
                      /\ j[o].kind = "open" => WorkingIn(j, w)[o] = z[o]
    BY DEF Quiet, WorkingIn
  <2> HIDE DEF z
  <2>2. OfKind(j, WorkingIn(j, w), "open") = OfKind(j, z, "open")
    BY <1>1, <1>4, <2>1, OfKindEquals
  <2> QED
    BY <2>2 DEF BuyingIn
<1>9. filled + works <= requested
  <2>1. OrderFits(j[b], w[b])
    BY DEF History
  <2>2. filled <= requested
    BY <2>1 DEF OrderFits, Traded
  <2>3. works = IF w[b].live THEN requested - filled ELSE 0
    BY DEF WorkingIn
  <2> HIDE DEF works, filled, requested
  <2> QED
    BY <1>3, <2>2, <2>3
<1>10. sc <= fc
  BY ClosesBooked
<1>11. PositionIn(j, w) = fo - fc /\ BookedIn(j) = so - sc
  BY DEF PositionIn, BookedIn
<1>12. fo + settled = so + filled /\ buys = works
  BY <1>5, <1>6, <1>7, <1>8
<1> HIDE DEF so, sc, fo, fc, buys, filled, settled, requested, works, v, z, none
<1>13. (fo - fc) + buys <= (so - sc) + (requested - settled)
  BY <1>2, <1>3, <1>9, <1>10, <1>12
<1> QED
  BY <1>11, <1>13 DEF buys, requested, settled

\* Only the newest OPEN can be unknown, and only CANCELs that have not succeeded
\* can come after it.
LEMMA UnknownIsLast ==
    ASSUME NEW j, NEW w, History(j, w), NEW b \in Id, j[b].kind = "open",
           ~ Quiet(j[b], w[b])
    PROVE  /\ Present(j, b)
           /\ \A o \in Id \ {b} : j[o].kind = "open" => Quiet(j[o], w[o])
           /\ \A p \in Id : p > b /\ Present(j, p) =>
                 j[p].kind = "cancel" /\ j[p].os # "cancelled"
<1>1. Present(j, b)
  BY AbsentIs DEF Traded
<1>2. Id \subseteq Nat
  BY IdsAreFinite
<1>3. ASSUME NEW p \in Id, p > b, Present(j, p)
      PROVE  j[p].kind = "cancel" /\ j[p].os # "cancelled"
  <2>1. ~ Ends(j, p, b)
    BY DEF History, Traded
  <2> QED
    BY <1>3, <2>1 DEF Ends
<1>4. ASSUME NEW o \in Id \ {b}, j[o].kind = "open"
      PROVE  Quiet(j[o], w[o])
  <2>1. Present(j, o)
    BY <1>4, AbsentIs DEF Traded
  <2>2. ~ (o > b)
    BY <1>3, <1>4, <2>1
  <2>3. b > o
    BY <1>2, <2>2
  <2>4. Ends(j, b, o)
    BY <1>1, <2>3 DEF Ends
  <2> QED
    BY <1>4, <2>4 DEF History, Traded
<1> QED
  BY <1>1, <1>3, <1>4

\* What a slice says of its own OPEN.
LEMMA OpenAccounts ==
    ASSUME NEW j, NEW w, History(j, w), NEW t, Memory(t, j, w, FALSE),
           t.slice.id # 0, j[t.slice.id].kind = "open",
           ~ Quiet(j[t.slice.id], w[t.slice.id])
    PROVE  j[t.slice.id].requested - j[t.slice.id].settled
           <= t.pending + (IF OpenMayFill(t.slice) THEN t.slice.requested ELSE 0)
<1> DEFINE s == t.slice
           r == j[s.id]
           x == w[s.id]
<1>1. /\ s.id \in Id /\ Recorded(t, r, x) /\ Shaped(t) /\ r.kind = s.kind
      /\ r.requested = s.requested
  BY ONLY History(j, w), Memory(t, j, w, FALSE), t.slice.id # 0, CurrentIs
<1>2. /\ t \in Trade /\ s.requested \in Nat /\ s.result \in Nat /\ t.pending \in Nat
  BY FieldTypes DEF Memory
<1>3. /\ RecordFits(r) /\ r.settled \in Nat /\ r.requested \in Nat
      /\ r.os # "rejected"
  BY <1>1, OperationOf DEF Traded
<1>4. s.kind = "open"
  BY <1>1
<1>5. CASE s.state \in {"dispatching", "submitting", "ambiguous"}
  <2>1. OpenMayFill(s)
    BY <1>4, <1>5 DEF OpenMayFill, Active
  <2> QED
    BY <1>1, <1>2, <1>3, <2>1
<1>6. CASE s.state = "partially_filled"
  <2>1. s.result = r.settled
    BY <1>1, <1>6 DEF Recorded, FillState
  <2>2. t.pending = s.requested - s.result
    BY <1>1, <1>4, <1>6 DEF Shaped
  <2>3. (IF OpenMayFill(s) THEN s.requested ELSE 0) \in Nat
    BY <1>2
  <2> QED
    BY <1>1, <1>2, <1>3, <2>1, <2>2, <2>3
<1>7. CASE s.state = "filled"
  <2>1. r.os = "filled"
    BY <1>1, <1>7 DEF Recorded, Concluded
  <2>2. r.settled = r.requested
    BY <1>3, <2>1 DEF RecordFits, FillState, FillStateOf
  <2>3. (IF OpenMayFill(s) THEN s.requested ELSE 0) \in Nat
    BY <1>2
  <2> QED
    BY <1>2, <1>3, <2>2, <2>3
<1>8. CASE s.state = "rejected"
  BY <1>1, <1>3, <1>8 DEF Recorded, Concluded
<1>9. CASE s.state = "cancelled"
  BY <1>1, <1>3, <1>4, <1>9 DEF Recorded, Concluded, RecordFits
<1>10. s.state \in {"dispatching", "submitting"} \cup Concluded
  BY <1>1 DEF Recorded
<1> QED
  BY <1>5, <1>6, <1>7, <1>8, <1>9, <1>10 DEF Concluded

\* What the memory accounts for is at least what the broker holds and works.
LEMMA MemoryAccounts ==
    ASSUME NEW j, NEW w, History(j, w), NEW t, Memory(t, j, w, FALSE)
    PROVE  PositionIn(j, w) + BuyingIn(j, w)
           <= t.open + t.pending
                + (IF OpenMayFill(t.slice) THEN t.slice.requested ELSE 0)
<1> DEFINE c == t.slice.id
           may == IF OpenMayFill(t.slice) THEN t.slice.requested ELSE 0
<1>1. /\ t \in Trade /\ c \in 0 .. MaxOperations /\ t.open \in Nat /\ t.pending \in Nat
      /\ t.slice.requested \in Nat /\ t.open = BookedIn(j)
  BY FieldTypes DEF Memory
<1>2. may \in Nat /\ PositionIn(j, w) \in Int /\ BuyingIn(j, w) \in Nat
  BY <1>1, SumsAreNumbers
<1>3. CASE \A o \in Id : j[o].kind = "open" => Quiet(j[o], w[o])
  <2>1. PositionIn(j, w) + BuyingIn(j, w) <= BookedIn(j)
    BY <1>3, NothingUnknown
  <2> HIDE DEF may
  <2>2. PositionIn(j, w) + BuyingIn(j, w) <= t.open + t.pending + may
    BY <1>1, <1>2, <2>1
  <2> QED
    BY <2>2 DEF may
<1>4. ASSUME NEW b \in Id, j[b].kind = "open", ~ Quiet(j[b], w[b])
      PROVE  PositionIn(j, w) + BuyingIn(j, w) <= t.open + t.pending + may
  <2> DEFINE missing == j[b].requested - j[b].settled
  <2>1. /\ Present(j, b)
        /\ \A o \in Id \ {b} : j[o].kind = "open" => Quiet(j[o], w[o])
        /\ \A p \in Id : p > b /\ Present(j, p) =>
              j[p].kind = "cancel" /\ j[p].os # "cancelled"
    BY <1>4, UnknownIsLast
  <2>2. PositionIn(j, w) + BuyingIn(j, w) <= BookedIn(j) + missing
    BY <1>4, <2>1, OneUnknown
  <2>3. Id \subseteq Nat \ {0} /\ missing \in Int
    BY IdsAreFinite, SummedTypes
  <2>4. b <= c
    BY <1>1, <2>1, <2>3 DEF Memory
  <2>5. c # 0 /\ c \in Id
    BY <1>1, <2>3, <2>4, PlanAssumption DEF Id
  <2>6. missing <= t.pending + may
    <3>1. CASE b = c
      BY <1>4, <2>5, <3>1, OpenAccounts
    <3>2. CASE b < c
      <4>1. \A p \in b + 1 .. c : p \in Id /\ p > b /\ Present(j, p)
        BY <1>1, <2>3, <2>5, PlanAssumption DEF Memory, Id
      <4>2. CancelledBy(j, b, c)
        BY <1>4, <2>1, <3>2, <4>1 DEF CancelledBy
      <4>3. c \in b + 1 .. c
        BY <2>3, <2>5, <3>2
      <4>4. j[c].kind = "cancel" /\ j[c].os # "cancelled"
        BY <2>1, <4>1, <4>3
      <4>5. t.slice.kind = "cancel" /\ t.slice.state # "cancelled"
        BY <2>5, <4>4 DEF Memory, Recorded, Concluded
      <4>6. t.pending = missing
        BY <1>4, <4>2, <4>5 DEF Memory
      <4> HIDE DEF missing, may
      <4> QED
        BY <1>1, <1>2, <4>6
    <3> QED
      BY <2>3, <2>4, <2>5, <3>1, <3>2
  <2> HIDE DEF missing, may
  <2> QED
    BY <1>1, <1>2, <2>2, <2>3, <2>6
<1> QED
  BY <1>3, <1>4

\* The sums that the properties are about.
LEMMA SumsAre ==
    ASSUME History(journal, orders)
    PROVE  /\ Position = PositionIn(journal, orders)
           /\ Sum(Working, "open") = BuyingIn(journal, orders)
           /\ Sum(Working, "close") = SellingIn(journal, orders)
<1>1. FilledIn(orders) \in [Id -> Nat] /\ WorkingIn(journal, orders) \in [Id -> Nat]
  BY SummedTypes, WorkingType
<1>2. Filled = FilledIn(orders)
  BY DEF Filled, FilledIn
<1>3. Working = WorkingIn(journal, orders)
  BY DEF Working, WorkingIn
<1>4. ASSUME NEW v \in [Id -> Nat], NEW kind
      PROVE  Sum(v, kind) = OfKind(journal, v, kind)
  <2>1. SumOver(v, {o \in Id : journal[o].kind = kind}) = OfKind(journal, v, kind)
    BY SumIsOfKind
  <2>2. Sum(v, kind) = SumOver(v, {o \in Id : journal[o].kind = kind})
    BY Zenon DEF Sum, Kind, SumOver
  <2> QED
    BY <2>1, <2>2
<1> QED
  BY <1>1, <1>2, <1>3, <1>4 DEF Position, PositionIn, BuyingIn, SellingIn

\* However the process crashes and restarts, an owner accounts for at least what
\* the broker holds and works: no fill is ever forgotten.
THEOREM ExposureSurvives == Spec => []CrashesForgetNothing
<1>1. Inductive => CrashesForgetNothing
  <2> SUFFICES ASSUME Inductive, ~ fallible, up
               PROVE  Position + Sum(Working, "open") <= Accounted
    BY DEF CrashesForgetNothing, ExposureIsTracked
  <2>1. /\ fallible = FALSE /\ History(journal, orders)
        /\ Memory(trade, journal, orders, FALSE)
    BY OwnerIs DEF Stands
  <2>2. PositionIn(journal, orders) + BuyingIn(journal, orders) <= Accounted
    BY <2>1, MemoryAccounts DEF Accounted
  <2> QED
    BY <2>1, <2>2, SumsAre
<1> QED
  BY <1>1, OwnerInvariant, PTL

\* What the broker holds and works stays between nothing and the plan's target,
\* over any number of slices, cancellations, late fills and restarts.
THEOREM ExposureStaysBounded == Spec => []BrokerStaysInPlan
<1>1. Inductive => BrokerStaysInPlan
  <2> SUFFICES ASSUME Inductive
               PROVE  BrokerStaysInPlan
    OBVIOUS
  <2>1. History(journal, orders) /\ Bounded(journal, orders, fallible)
    BY DEF Inductive, Held
  <2> QED
    BY <2>1, SumsAre
       DEF Bounded, BrokerStaysInPlan, BrokerExposureIsBounded, CloseNeverReverses
<1> QED
  BY <1>1, OwnerInvariant, PTL

=============================================================================
