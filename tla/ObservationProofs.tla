-------------------------- MODULE ObservationProofs --------------------------
(***************************************************************************)
(* What the owner loop concludes from its reads is so, for any host        *)
(* program (scopes, windows, requests, samples of a cycle) and any number  *)
(* of revisions, whatever the broker does and shows between two reads.     *)
(*                                                                         *)
(* Views only go on: once a view has left what was read of it, it does not *)
(* come back as long as no order is sent (Beyond).  So a read is either    *)
(* what its view shows still, or over for good; two reads that are equal   *)
(* leave no room for the second case.  The invariant LoopInv says so of    *)
(* the collection in progress, the graph, the baseline and the samples.    *)
(***************************************************************************)
EXTENDS ObservationLoop, SetSums

-----------------------------------------------------------------------------
(* The sweep over coverage windows.                                        *)

WindowType == [from: Nat, to: Nat]

SweepState == [cursor: Nat, verdict: {"open", "gap", "covered"}]

\* The windows have one order.
LEMMA EarlierIsAnOrder ==
    ASSUME NEW a \in WindowType, NEW b \in WindowType, NEW c \in WindowType
    PROVE  /\ a # b => Earlier(a, b) \/ Earlier(b, a)
           /\ Earlier(a, b) /\ Earlier(b, c) => Earlier(a, c)
<1>1. /\ a.from \in Nat /\ a.to \in Nat /\ b.from \in Nat /\ b.to \in Nat
      /\ c.from \in Nat /\ c.to \in Nat
  BY DEF WindowType
<1>2. a # b => a.from # b.from \/ a.to # b.to
  BY DEF WindowType
<1> QED
  BY <1>1, <1>2 DEF Earlier

\* There is a last one among finitely many.
LEMMA LastIs ==
    ASSUME NEW S \in SUBSET WindowType, IsFiniteSet(S), S # {}
    PROVE  LastOf(S) \in S /\ \A b \in S \ {LastOf(S)} : Earlier(b, LastOf(S))
<1> DEFINE HasLast(A) == \E a \in A : \A b \in A \ {a} : Earlier(b, a)
           Bad == {A \in SUBSET S : A # {} /\ ~ HasLast(A)}
<1>1. Bad = {}
  <2> SUFFICES ASSUME Bad # {}
               PROVE  FALSE
    OBVIOUS
  <2>1. PICK A \in Bad : \A B \in Bad : ~ (B \subseteq A /\ B # A)
    <3>1. Bad \subseteq SUBSET S
      OBVIOUS
    <3> HIDE DEF Bad
    <3> QED
      BY <3>1, SmallestSet
  <2>2. A \in SUBSET S /\ A # {} /\ ~ HasLast(A)
    OBVIOUS
  <2>3. PICK x \in A : TRUE
    BY <2>2
  <2> DEFINE B == A \ {x}
  <2>4. B # {}
    <3> SUFFICES ASSUME B = {}
                 PROVE  FALSE
      OBVIOUS
    <3>1. HasLast(A)
      BY <2>3
    <3> QED
      BY <2>2, <3>1
  <2>5. HasLast(B)
    <3>1. B \in SUBSET S /\ B \subseteq A /\ B # A
      BY <2>2, <2>3
    <3>2. B \notin Bad
      <4> HIDE DEF Bad
      <4> QED
        BY <2>1, <3>1
    <3> HIDE DEF HasLast
    <3> QED
      BY <2>4, <3>1, <3>2
  <2>6. PICK a \in B : \A b \in B \ {a} : Earlier(b, a)
    BY <2>5
  <2>7. /\ a \in WindowType /\ x \in WindowType /\ a # x
        /\ \A b \in A : b \in WindowType
    BY <2>2, <2>3, <2>6
  <2>8. CASE Earlier(a, x)
    <3>1. ASSUME NEW b \in A \ {x}
          PROVE  Earlier(b, x)
      <4>1. b = a \/ Earlier(b, a)
        BY <2>6
      <4> QED
        BY <2>7, <2>8, <4>1, EarlierIsAnOrder
    <3> QED
      BY <2>2, <2>3, <3>1
  <2>9. CASE Earlier(x, a)
    <3>1. ASSUME NEW b \in A \ {a}
          PROVE  Earlier(b, a)
      BY <2>6, <2>9
    <3> QED
      BY <2>2, <2>6, <3>1
  <2> QED
    BY <2>7, <2>8, <2>9, EarlierIsAnOrder
<1>2. HasLast(S)
  BY <1>1
<1> QED
  BY <1>2 DEF LastOf

\* A step of the sweep.
LEMMA SweepStepType ==
    ASSUME NEW s \in SweepState, NEW a \in WindowType, NEW w \in WindowType
    PROVE  SweepStep(s, a, w) \in SweepState
<1>1. /\ s.cursor \in Nat /\ s.verdict \in {"open", "gap", "covered"}
      /\ s = [cursor |-> s.cursor, verdict |-> s.verdict] /\ a.to + 1 \in Nat
  BY DEF SweepState, WindowType
<1>2. \A x \in {"open", "gap", "covered"} : [s EXCEPT !.verdict = x] \in SweepState
  BY DEF SweepState
<1>3. [s EXCEPT !.cursor = a.to + 1] \in SweepState
  BY <1>1 DEF SweepState
<1> QED
  BY <1>2, <1>3 DEF SweepStep

Start(w) == [cursor |-> w.from, verdict |-> "open"]

\* c gives the state of the sweep after each part of the windows.
Sweeps(windows, w, c) ==
    c = [s \in SUBSET windows |->
           IF s = {} THEN Start(w) ELSE SweepStep(c[s \ {LastOf(s)}], LastOf(s), w)]

\* The sweep unfolds as its recursion says.
LEMMA SweepUnfolds ==
    ASSUME NEW windows \in SUBSET WindowType, IsFiniteSet(windows), NEW w \in WindowType
    PROVE  \E c : Sweeps(windows, w, c) /\ (Sweep(windows, w) <=> c[windows].verdict = "covered")
<1> DEFINE pick == [s \in SUBSET windows |-> LastOf(s)]
           F == [p \in windows \X SweepState |-> SweepStep(p[2], p[1], w)]
<1>1. ASSUME NEW s \in SUBSET windows, s # {}
      PROVE  LastOf(s) \in s /\ pick[s] \in s /\ pick[s] = LastOf(s)
  <2>1. IsFiniteSet(s)
    BY FS_Subset
  <2> QED
    BY <1>1, <2>1, LastIs
<1>2. F \in [windows \X SweepState -> SweepState]
  <2>1. \A p \in windows \X SweepState : SweepStep(p[2], p[1], w) \in SweepState
    BY SweepStepType
  <2> QED
    BY <2>1
<1>3. \A x \in windows, v \in SweepState : F[<<x, v>>] = SweepStep(v, x, w)
  OBVIOUS
<1>4. Start(w) \in SweepState
  BY DEF Start, SweepState, WindowType
<1> HIDE DEF pick, F
<1>5. PICK g \in [SUBSET windows -> SweepState] : Unfolds(windows, Start(w), pick, F, g, g)
  BY <1>1, <1>2, <1>4, FoldExists
<1>6. ASSUME NEW s \in SUBSET windows, s # {}
      PROVE  F[<<pick[s], g[s \ {pick[s]}]>>] = SweepStep(g[s \ {LastOf(s)}], LastOf(s), w)
  <2>1. LastOf(s) \in windows /\ g[s \ {LastOf(s)}] \in SweepState
    BY <1>1, <1>6
  <2> QED
    BY <1>1, <1>3, <1>6, <2>1
<1>7. Sweeps(windows, w, g)
  BY <1>5, <1>6 DEF Sweeps, Unfolds
<1> DEFINE c == CHOOSE f : Sweeps(windows, w, f)
<1>8. Sweeps(windows, w, c)
  BY <1>7
<1>9. Sweep(windows, w) <=> c[windows].verdict = "covered"
  BY DEF Sweep, MapThenFoldSet, Sweeps, Start
<1> QED
  BY <1>8, <1>9

\* What the state says after a part of the windows: how far they reach without
\* a gap, or that they cover all, or where the first gap is.
Tells(s, part, w) ==
    /\ s \in SweepState
    /\ s.verdict = "covered" =>
          \A t \in w.from .. w.to : \E a \in part : InWindow(t, a)
    /\ s.verdict = "open" =>
          /\ s.cursor \in w.from .. w.to
          /\ \A t \in w.from .. s.cursor - 1 : \E a \in part : InWindow(t, a)
          /\ \A a \in part : a.to < s.cursor
    /\ s.verdict = "gap" =>
          /\ s.cursor \in w.from .. w.to
          /\ \E a \in part : a.from > s.cursor
          /\ \A a \in part : ~ InWindow(s.cursor, a)

\* One window more, which begins after the others.
LEMMA SweepStepTells ==
    ASSUME NEW w \in WindowType, NEW part \in SUBSET WindowType, NEW s,
           Tells(s, part, w), NEW x \in WindowType, x.from <= w.to,
           \A b \in part : b.from <= x.from
    PROVE  Tells(SweepStep(s, x, w), part \cup {x}, w)
<1> DEFINE n == SweepStep(s, x, w)
           all == part \cup {x}
<1>1. /\ s \in SweepState /\ s.cursor \in Nat /\ s.verdict \in {"open", "gap", "covered"}
      /\ x.from \in Nat /\ x.to \in Nat /\ w.from \in Nat /\ w.to \in Nat
      /\ \A b \in part : b.from \in Nat /\ b.to \in Nat
  BY DEF Tells, SweepState, WindowType
<1>2. n \in SweepState
  BY <1>1, SweepStepType
<1>3. CASE s.verdict = "covered"
  <2>1. n = s
    BY <1>3 DEF SweepStep
  <2> QED
    BY <1>3, <2>1 DEF Tells
<1>4. CASE s.verdict = "gap"
  <2>1. n = s
    BY <1>4 DEF SweepStep
  <2>2. x.from > s.cursor
    BY <1>1, <1>4 DEF Tells
  <2>3. ~ InWindow(s.cursor, x)
    BY <1>1, <2>2 DEF InWindow
  <2> QED
    BY <1>4, <2>1, <2>3 DEF Tells
<1>5. CASE s.verdict = "open" /\ x.to < s.cursor
  <2>1. n = s
    BY <1>5 DEF SweepStep
  <2> QED
    BY <1>5, <2>1 DEF Tells
<1>6. CASE s.verdict = "open" /\ ~ (x.to < s.cursor) /\ x.from > s.cursor
  <2>1. n = [s EXCEPT !.verdict = "gap"]
    BY <1>6 DEF SweepStep
  <2>2. n.verdict = "gap" /\ n.cursor = s.cursor
    BY <1>1, <2>1 DEF SweepState
  <2>3. s.cursor \in w.from .. w.to
    BY <1>6 DEF Tells
  <2>4. \A a \in all : ~ InWindow(s.cursor, a)
    BY <1>1, <1>6 DEF Tells, InWindow
  <2>5. x \in all /\ x.from > s.cursor
    BY <1>6
  <2>6. n \in SweepState
    BY <1>2
  <2> HIDE DEF n, all
  <2>7. Tells(n, all, w)
    BY <2>2, <2>3, <2>4, <2>5, <2>6 DEF Tells
  <2> QED
    BY <2>7 DEF n, all
<1>7. CASE s.verdict = "open" /\ ~ (x.to < s.cursor) /\ ~ (x.from > s.cursor) /\ x.to >= w.to
  <2>1. n = [s EXCEPT !.verdict = "covered"]
    BY <1>7 DEF SweepStep
  <2>2. n.verdict = "covered"
    BY <1>1, <2>1 DEF SweepState
  <2>3. ASSUME NEW t \in w.from .. w.to
        PROVE  \E a \in all : InWindow(t, a)
    <3>1. CASE t < s.cursor
      BY <1>1, <1>7, <3>1 DEF Tells
    <3>2. CASE ~ (t < s.cursor)
      <4>1. InWindow(t, x)
        BY <1>1, <1>7, <3>2 DEF InWindow
      <4> QED
        BY <4>1
    <3> QED
      BY <3>1, <3>2
  <2>4. n \in SweepState
    BY <1>2
  <2> HIDE DEF n, all
  <2>5. Tells(n, all, w)
    BY <2>2, <2>3, <2>4 DEF Tells
  <2> QED
    BY <2>5 DEF n, all
<1>8. CASE s.verdict = "open" /\ ~ (x.to < s.cursor) /\ ~ (x.from > s.cursor) /\ ~ (x.to >= w.to)
  <2>1. n = [s EXCEPT !.cursor = x.to + 1]
    BY <1>8 DEF SweepStep
  <2>2. n.verdict = "open" /\ n.cursor = x.to + 1
    BY <1>1, <1>8, <2>1 DEF SweepState
  <2>3. n.cursor \in w.from .. w.to
    BY <1>1, <1>8, <2>2 DEF Tells
  <2>4. ASSUME NEW t \in w.from .. x.to
        PROVE  \E a \in all : InWindow(t, a)
    <3>1. CASE t < s.cursor
      BY <1>1, <1>8, <3>1 DEF Tells
    <3>2. CASE ~ (t < s.cursor)
      <4>1. InWindow(t, x)
        BY <1>1, <1>8, <3>2 DEF InWindow
      <4> QED
        BY <4>1
    <3> QED
      BY <3>1, <3>2
  <2>5. \A a \in all : a.to < x.to + 1
    BY <1>1, <1>8 DEF Tells
  <2>6. w.from .. n.cursor - 1 = w.from .. x.to
    BY <1>1, <2>2
  <2>7. n \in SweepState
    BY <1>2
  <2> HIDE DEF n, all
  <2>8. Tells(n, all, w)
    <3>1. \A t \in w.from .. n.cursor - 1 : \E a \in all : InWindow(t, a)
      BY <2>4, <2>6
    <3>2. \A a \in all : a.to < n.cursor
      BY <2>2, <2>5
    <3> QED
      BY <2>2, <2>3, <2>7, <3>1, <3>2 DEF Tells
  <2> QED
    BY <2>8 DEF n, all
<1> QED
  BY <1>1, <1>3, <1>4, <1>5, <1>6, <1>7, <1>8

\* The sweep says that windows cover one exactly when every moment of it is in
\* one of them.
LEMMA SweepIsExact ==
    ASSUME NEW windows \in SUBSET WindowType, IsFiniteSet(windows),
           NEW w \in WindowType, ValidWindow(w), \A a \in windows : Overlaps(a, w)
    PROVE  Sweep(windows, w) <=> \A t \in w.from .. w.to : \E a \in windows : InWindow(t, a)
<1>1. PICK c : Sweeps(windows, w, c) /\ (Sweep(windows, w) <=> c[windows].verdict = "covered")
  BY SweepUnfolds
<1> DEFINE Bad == {s \in SUBSET windows : ~ Tells(c[s], s, w)}
<1>2. Bad = {}
  <2> SUFFICES ASSUME Bad # {}
               PROVE  FALSE
    OBVIOUS
  <2>1. PICK A \in Bad : \A B \in Bad : ~ (B \subseteq A /\ B # A)
    <3>1. Bad \subseteq SUBSET windows
      OBVIOUS
    <3> HIDE DEF Bad
    <3> QED
      BY <3>1, SmallestSet
  <2>2. A \in SUBSET windows /\ ~ Tells(c[A], A, w)
    OBVIOUS
  <2>3. c[A] = IF A = {} THEN Start(w) ELSE SweepStep(c[A \ {LastOf(A)}], LastOf(A), w)
    BY <1>1, <2>2 DEF Sweeps
  <2>4. A # {}
    <3> SUFFICES ASSUME A = {}
                 PROVE  FALSE
      OBVIOUS
    <3>1. c[A] = Start(w)
      BY <2>3
    <3>2. w.from \in Nat /\ w.to \in Nat /\ w.from <= w.to
      BY DEF WindowType, ValidWindow
    <3>3. Tells(Start(w), {}, w)
      BY <3>2 DEF Tells, Start, SweepState
    <3> QED
      BY <2>2, <3>1, <3>3
  <2> DEFINE x == LastOf(A)
             B == A \ {x}
  <2>5. x \in A /\ \A b \in B : Earlier(b, x)
    <3>1. IsFiniteSet(A)
      BY <2>2, FS_Subset
    <3> QED
      BY <2>2, <2>4, <3>1, LastIs
  <2> HIDE DEF x
  <2>6. Tells(c[B], B, w)
    BY <2>1, <2>2, <2>5
  <2>7. c[A] = SweepStep(c[B], x, w)
    BY <2>3, <2>4 DEF x
  <2>8. x \in WindowType /\ x.from <= w.to /\ B \in SUBSET WindowType
    BY <2>2, <2>5 DEF Overlaps
  <2>9. \A b \in B : b.from <= x.from
    BY <2>5, <2>8 DEF Earlier, WindowType
  <2>10. Tells(c[A], B \cup {x}, w)
    BY <2>6, <2>7, <2>8, <2>9, SweepStepTells
  <2>11. B \cup {x} = A
    BY <2>5
  <2> QED
    BY <2>2, <2>10, <2>11
<1>3. Tells(c[windows], windows, w)
  BY <1>2
<1>4. c[windows].verdict \in {"open", "gap", "covered"} /\ c[windows].cursor \in Nat
  BY <1>3 DEF Tells, SweepState
<1>5. CASE c[windows].verdict = "covered"
  BY <1>1, <1>3, <1>5 DEF Tells
<1>6. CASE c[windows].verdict \in {"open", "gap"}
  <2> DEFINE t == c[windows].cursor
  <2>1. t \in w.from .. w.to /\ \A a \in windows : ~ InWindow(t, a)
    <3>1. CASE c[windows].verdict = "gap"
      BY <1>3, <3>1 DEF Tells
    <3>2. CASE c[windows].verdict = "open"
      <4>1. t \in w.from .. w.to /\ \A a \in windows : a.to < t
        BY <1>3, <3>2 DEF Tells
      <4> HIDE DEF t
      <4>2. \A a \in windows : a.to \in Nat /\ t \in Int
        BY <4>1 DEF WindowType
      <4> QED
        BY <4>1, <4>2 DEF InWindow
    <3> QED
      BY <1>6, <3>1, <3>2
  <2> QED
    BY <1>1, <1>6, <2>1
<1> QED
  BY <1>4, <1>5, <1>6

-----------------------------------------------------------------------------
(* What the views can hold.                                                *)

\* The records that the views of this owner's account, and of the other one,
\* can ever show; and what a reply without a ticket is read as.
OwnRecords(d) ==
    CASE d = "active_orders" -> {OrderRecord(o, p) : o \in Order, p \in {0, Opening}}
      [] d = "positions" -> {PositionRecord(Opening, Opening)}
      [] d = "history_orders" ->
            {HistoryOrderRecord(o, p, DoneTime(o)) : o \in Order, p \in {0, Opening}}
      [] OTHER -> {DealRecord(o, o, Opening, DoneTime(o)) : o \in Order}

Records(i, d) == IF i = 1 THEN OwnRecords(d) ELSE ForeignView(d)

\* What a reply without a ticket is read as.
Junk(d) == IF d = "positions" THEN {PositionRecord(0, 0)} ELSE {}

AnyRecord == UNION {Records(1, d) \cup Records(2, d) \cup Junk(d) : d \in Domains}

\* The broker's views as a function of what happened to its orders.
PositionIn(b, o) == IF o = Closing \/ b[o].stage = "filled" THEN Opening ELSE 0
ActiveIn(b, o) == b[o].stage # "unsent" /\ "left" \notin b[o].shown
OpenIn(b) == "position" \in b[Opening].shown /\ "position" \notin b[Closing].shown

OwnIn(b, d) ==
    CASE d = "active_orders" ->
            {OrderRecord(o, PositionIn(b, o)) : o \in {o \in Order : ActiveIn(b, o)}}
      [] d = "positions" ->
            IF OpenIn(b) THEN {PositionRecord(Opening, Opening)} ELSE {}
      [] d = "history_orders" ->
            {HistoryOrderRecord(o, PositionIn(b, o), DoneTime(o)) :
                o \in {o \in Order : "done" \in b[o].shown}}
      [] OTHER -> {DealRecord(o, o, Opening, DoneTime(o)) :
                      o \in {o \in Order : "deal" \in b[o].shown}}

AllIn(i, b, d) == IF i = 1 THEN OwnIn(b, d) ELSE ForeignView(d)

ViewIn(i, b, d, scope) ==
    IF d \notin scope.domains THEN {}
    ELSE IF d \in Snapshots THEN AllIn(i, b, d)
    ELSE {r \in AllIn(i, b, d) : InWindow(r.time, scope.window[d])}

\* A broker shows of an order what happened to it, and the position that order 2
\* closes is one that every view has shown.
BrokerSane(b) ==
    /\ b \in [Order -> [stage : {"unsent", "working", "filled", "cancelled"},
                        shown : SUBSET Facets]]
    /\ \A o \in Order :
        /\ b[o].stage \in {"unsent", "working"} => b[o].shown = {}
        /\ b[o].stage = "cancelled" => b[o].shown \subseteq {"left", "done"}
    /\ b[Closing].stage # "cancelled"
    /\ b[Closing].stage # "unsent" => b[Opening].shown = Facets

\* What a view was is over for good, unless an order is sent.
Beyond(b, d, R, scope) ==
    CASE d = "active_orders" ->
            \E r \in R : \/ "left" \in b[r.ticket].shown
                         \/ b[r.ticket].stage = "filled" /\ r.position # Opening
      [] d = "positions" ->
            IF b[Closing].stage = "unsent" THEN R = {} /\ OpenIn(b)
                                           ELSE R # {} /\ ~ OpenIn(b)
      [] OTHER -> \E r \in ViewIn(1, b, d, scope) : r \notin R

\* What was seen at the baseline happened.
SeenHappened(b, d, t) ==
    CASE d = "active_orders" -> t \in Order /\ b[t].stage # "unsent"
      [] d = "positions" -> t = Opening /\ "position" \in b[Opening].shown
      [] d = "history_orders" -> t \in Order /\ "done" \in b[t].shown
      [] OTHER -> t \in Order /\ "deal" \in b[t].shown


\* Later states of the broker: orders that were sent stay so, decisions and what
\* was shown last.  Onward, when no order is sent.
Later(b, c) ==
    \A o \in Order :
        /\ b[o].stage # "unsent" => c[o].stage # "unsent"
        /\ b[o].stage \in {"filled", "cancelled"} => c[o].stage = b[o].stage
        /\ b[o].shown \subseteq c[o].shown

\* Later, and no order was sent in between.
Onward(b, c) ==
    Later(b, c) /\ \A o \in Order : b[o].stage = "unsent" => c[o].stage = "unsent"

LEMMA TheDomains ==
    /\ Domains = {"active_orders", "positions", "history_orders", "history_deals"}
    /\ Snapshots = {"active_orders", "positions"}
    /\ Histories = {"history_orders", "history_deals"}
    /\ Order = {1, 2} /\ Opening = 1 /\ Closing = 2
    /\ DoneTime(1) = 1 /\ DoneTime(2) = 3
  BY DEF Domains, Snapshots, Histories, Order, Opening, Closing, DoneTime

\* The views one by one.
LEMMA OwnViews ==
    ASSUME NEW b
    PROVE  /\ OwnIn(b, "active_orders") =
                {OrderRecord(o, PositionIn(b, o)) : o \in {o \in Order : ActiveIn(b, o)}}
           /\ OwnIn(b, "positions") =
                IF OpenIn(b) THEN {PositionRecord(Opening, Opening)} ELSE {}
           /\ OwnIn(b, "history_orders") =
                {HistoryOrderRecord(o, PositionIn(b, o), DoneTime(o)) :
                    o \in {o \in Order : "done" \in b[o].shown}}
           /\ OwnIn(b, "history_deals") =
                {DealRecord(o, o, Opening, DoneTime(o)) :
                    o \in {o \in Order : "deal" \in b[o].shown}}
  BY DEF OwnIn

LEMMA RecordsOf ==
    /\ OwnRecords("active_orders") = {OrderRecord(o, p) : o \in Order, p \in {0, Opening}}
    /\ OwnRecords("positions") = {PositionRecord(Opening, Opening)}
    /\ OwnRecords("history_orders") =
          {HistoryOrderRecord(o, p, DoneTime(o)) : o \in Order, p \in {0, Opening}}
    /\ OwnRecords("history_deals") = {DealRecord(o, o, Opening, DoneTime(o)) : o \in Order}
    /\ ForeignView("active_orders") = {OrderRecord(Foreign, 0)}
    /\ ForeignView("positions") = {PositionRecord(Foreign, Foreign)}
    /\ ForeignView("history_orders") = {HistoryOrderRecord(Foreign, Foreign, 1)}
    /\ ForeignView("history_deals") = {DealRecord(Foreign, Foreign, Foreign, 1)}
  BY DEF OwnRecords, ForeignView

LEMMA PositionInType ==
    ASSUME NEW b, NEW o
    PROVE  PositionIn(b, o) \in {0, Opening}
  BY DEF PositionIn

LEMMA OwnInType ==
    ASSUME NEW b, NEW d \in Domains
    PROVE  OwnIn(b, d) \subseteq OwnRecords(d)
<1>1. CASE d = "active_orders"
  BY <1>1, OwnViews, RecordsOf, PositionInType
<1>2. CASE d = "positions"
  BY <1>2, OwnViews, RecordsOf
<1>3. CASE d = "history_orders"
  BY <1>3, OwnViews, RecordsOf, PositionInType
<1>4. CASE d = "history_deals"
  BY <1>4, OwnViews, RecordsOf
<1> QED
  BY <1>1, <1>2, <1>3, <1>4, TheDomains

LEMMA ViewInType ==
    ASSUME NEW i, NEW b, NEW d \in Domains, NEW scope
    PROVE  /\ ViewIn(i, b, d, scope) \subseteq AllIn(i, b, d)
           /\ AllIn(i, b, d) \subseteq Records(i, d)
  BY OwnInType DEF ViewIn, AllIn, Records

\* Fields of the records of a view.
LEMMA RecordFields ==
    ASSUME NEW i \in 1 .. 2, NEW d \in Domains, NEW r \in Records(i, d)
    PROVE  /\ "ticket" \in DOMAIN r
           /\ r.ticket \in IF i = 1 THEN Order ELSE {Foreign}
           /\ d \in Histories => "time" \in DOMAIN r /\ r.time \in Nat
           /\ d \in Histories /\ i = 1 => r.time = DoneTime(r.ticket)
           /\ r.ticket # 0
<1> USE DEF OrderRecord, PositionRecord, HistoryOrderRecord, DealRecord, Records, Foreign
<1>1. CASE d = "active_orders"
  BY <1>1, RecordsOf, TheDomains
<1>2. CASE d = "positions"
  BY <1>2, RecordsOf, TheDomains
<1>3. CASE d = "history_orders"
  BY <1>3, RecordsOf, TheDomains
<1>4. CASE d = "history_deals"
  BY <1>4, RecordsOf, TheDomains
<1> QED
  BY <1>1, <1>2, <1>3, <1>4, TheDomains

LEMMA ConfirmedFields ==
    ASSUME NEW q, NEW v, "ticket" \in DOMAIN q
    PROVE  /\ Confirmed(q, v).ticket = q.ticket
           /\ Confirmed(q, v).rev = v
           /\ "time" \in DOMAIN q => Confirmed(q, v).time = q.time
  BY DEF Confirmed

\* What is in a history stays there.
LEMMA HistoriesGrow ==
    ASSUME NEW b, NEW c, BrokerSane(b), Later(b, c), NEW d \in Histories
    PROVE  OwnIn(b, d) \subseteq OwnIn(c, d)
<1>1. ASSUME NEW o \in Order, b[o].shown # {}
      PROVE  PositionIn(b, o) = PositionIn(c, o)
  <2>1. b[o].stage \in {"filled", "cancelled"}
    BY <1>1 DEF BrokerSane
  <2> QED
    BY <2>1 DEF Later, PositionIn
<1>2. \A o \in Order : b[o].shown \subseteq c[o].shown
  BY DEF Later
<1>3. CASE d = "history_orders"
  <2>1. ASSUME NEW r \in OwnIn(b, d)
        PROVE  r \in OwnIn(c, d)
    <3>1. PICK o \in Order : "done" \in b[o].shown
                             /\ r = HistoryOrderRecord(o, PositionIn(b, o), DoneTime(o))
      BY <1>3, OwnViews
    <3>2. "done" \in c[o].shown /\ r = HistoryOrderRecord(o, PositionIn(c, o), DoneTime(o))
      BY <1>1, <1>2, <3>1
    <3> QED
      BY <1>3, <3>2, OwnViews
  <2> QED
    BY <2>1
<1>4. CASE d = "history_deals"
  BY <1>2, <1>4, OwnViews
<1> QED
  BY <1>3, <1>4, TheDomains

LEMMA SeenStays ==
    ASSUME NEW b, NEW c, Later(b, c), NEW d \in Domains, NEW t, SeenHappened(b, d, t)
    PROVE  SeenHappened(c, d, t)
  BY TheDomains DEF Later, SeenHappened

\* The tickets that a view of this account shows.
LEMMA OwnTickets ==
    ASSUME NEW b, NEW t
    PROVE  /\ t \in Tickets(OwnIn(b, "active_orders")) <=> t \in Order /\ ActiveIn(b, t)
           /\ t \in Tickets(OwnIn(b, "positions")) <=> t = Opening /\ OpenIn(b)
           /\ t \in Tickets(OwnIn(b, "history_orders")) <=> t \in Order /\ "done" \in b[t].shown
           /\ t \in Tickets(OwnIn(b, "history_deals")) <=> t \in Order /\ "deal" \in b[t].shown
<1>0. /\ \A o, p : OrderRecord(o, p).ticket = o /\ PositionRecord(o, p).ticket = o
      /\ \A o, p, u : HistoryOrderRecord(o, p, u).ticket = o
      /\ \A o, q, p, u : DealRecord(o, q, p, u).ticket = o
  BY DEF OrderRecord, PositionRecord, HistoryOrderRecord, DealRecord
<1>1. t \in Tickets(OwnIn(b, "active_orders")) <=> t \in Order /\ ActiveIn(b, t)
  <2>1. \A r : r \in OwnIn(b, "active_orders") <=>
           \E o \in Order : ActiveIn(b, o) /\ r = OrderRecord(o, PositionIn(b, o))
    BY OwnViews
  <2> QED
    BY <1>0, <2>1 DEF Tickets
<1>2. t \in Tickets(OwnIn(b, "positions")) <=> t = Opening /\ OpenIn(b)
  <2>1. \A r : r \in OwnIn(b, "positions") <=>
           OpenIn(b) /\ r = PositionRecord(Opening, Opening)
    BY OwnViews
  <2> QED
    BY <1>0, <2>1 DEF Tickets
<1>3. t \in Tickets(OwnIn(b, "history_orders")) <=> t \in Order /\ "done" \in b[t].shown
  <2>1. \A r : r \in OwnIn(b, "history_orders") <=>
           \E o \in Order : /\ "done" \in b[o].shown
                            /\ r = HistoryOrderRecord(o, PositionIn(b, o), DoneTime(o))
    BY OwnViews
  <2> QED
    BY <1>0, <2>1 DEF Tickets
<1>4. t \in Tickets(OwnIn(b, "history_deals")) <=> t \in Order /\ "deal" \in b[t].shown
  <2>1. \A r : r \in OwnIn(b, "history_deals") <=>
           \E o \in Order : "deal" \in b[o].shown /\ r = DealRecord(o, o, Opening, DoneTime(o))
    BY OwnViews
  <2> QED
    BY <1>0, <2>1 DEF Tickets
<1> QED
  BY <1>1, <1>2, <1>3, <1>4

\* What was seen in a snapshot and has left it does not return.
LEMMA GoneStaysGone ==
    ASSUME NEW b, NEW c, BrokerSane(b), Later(b, c), NEW d \in Snapshots, NEW t,
           SeenHappened(b, d, t), t \notin Tickets(OwnIn(b, d))
    PROVE  t \notin Tickets(OwnIn(c, d))
<1>1. CASE d = "active_orders"
  <2>1. t \in Order /\ b[t].stage # "unsent" /\ "left" \in b[t].shown
    BY <1>1, OwnTickets DEF SeenHappened, ActiveIn
  <2> QED
    BY <1>1, <2>1, OwnTickets DEF Later, ActiveIn
<1>2. CASE d = "positions"
  <2>1. t = Opening /\ "position" \in b[Closing].shown
    BY <1>2, OwnTickets DEF SeenHappened, OpenIn
  <2> QED
    BY <1>2, <2>1, OwnTickets, TheDomains DEF Later, OpenIn
<1> QED
  BY <1>1, <1>2, TheDomains

\* What was seen in a history is read with its time.
LEMMA HistoryIsRead ==
    ASSUME NEW b, NEW d \in Histories, NEW t, SeenHappened(b, d, t), NEW scope,
           d \in scope.domains, InWindow(DoneTime(t), scope.window[d])
    PROVE  t \in Tickets(ViewIn(1, b, d, scope))
<1>1. t \in Tickets(OwnIn(b, d))
  BY OwnTickets, TheDomains DEF SeenHappened
<1>2. PICK r \in OwnIn(b, d) : r.ticket = t
  BY <1>1 DEF Tickets
<1>3. r.time = DoneTime(t)
  <2>1. r \in Records(1, d) /\ d \in Domains
    BY OwnInType, TheDomains DEF Records
  <2> QED
    BY <1>2, <2>1, RecordFields
<1>4. r \in ViewIn(1, b, d, scope)
  BY <1>3, TheDomains DEF ViewIn, AllIn
<1> QED
  BY <1>2, <1>4 DEF Tickets

\* A view that is over is over.
LEMMA BeyondStays ==
    ASSUME NEW b, NEW c, BrokerSane(b), BrokerSane(c), Onward(b, c), NEW d \in Domains,
           NEW R \in SUBSET OwnRecords(d), NEW scope, Beyond(b, d, R, scope)
    PROVE  Beyond(c, d, R, scope)
<1>1. CASE d = "active_orders"
  <2>1. PICK r \in R : \/ "left" \in b[r.ticket].shown
                       \/ b[r.ticket].stage = "filled" /\ r.position # Opening
    BY <1>1 DEF Beyond
  <2>2. r.ticket \in Order
    BY <1>1, RecordsOf DEF OrderRecord
  <2>3. \/ "left" \in c[r.ticket].shown
        \/ c[r.ticket].stage = "filled" /\ r.position # Opening
    BY <2>1, <2>2 DEF Onward, Later
  <2> QED
    BY <1>1, <2>3 DEF Beyond
<1>2. CASE d = "positions"
  <2>1. b[Closing].stage = "unsent" <=> c[Closing].stage = "unsent"
    BY TheDomains DEF Onward, Later
  <2>2. CASE b[Closing].stage = "unsent"
    <3>1. R = {} /\ OpenIn(b)
      BY <1>2, <2>2 DEF Beyond
    <3>2. c[Closing].shown = {}
      BY <2>1, <2>2, TheDomains DEF BrokerSane
    <3>3. OpenIn(c)
      BY <3>1, <3>2, TheDomains DEF OpenIn, Onward, Later
    <3> QED
      BY <1>2, <2>1, <2>2, <3>1, <3>3 DEF Beyond
  <2>3. CASE b[Closing].stage # "unsent"
    <3>1. R # {} /\ ~ OpenIn(b)
      BY <1>2, <2>3 DEF Beyond
    <3>2. "position" \in b[Opening].shown
      BY <2>3 DEF BrokerSane, Facets
    <3>3. ~ OpenIn(c)
      BY <3>1, <3>2, TheDomains DEF OpenIn, Onward, Later
    <3> QED
      BY <1>2, <2>1, <2>3, <3>1, <3>3 DEF Beyond
  <2> QED
    BY <2>2, <2>3
<1>3. CASE d \in Histories
  <2>1. PICK r \in ViewIn(1, b, d, scope) : r \notin R
    BY <1>3, TheDomains DEF Beyond
  <2>2. OwnIn(b, d) \subseteq OwnIn(c, d)
    BY <1>3, HistoriesGrow DEF Onward
  <2>3. r \in ViewIn(1, c, d, scope)
    BY <2>1, <2>2 DEF ViewIn, AllIn
  <2> QED
    BY <1>3, <2>1, <2>3, TheDomains DEF Beyond
<1> QED
  BY <1>1, <1>2, <1>3, TheDomains

\* A view stands, or is over.
LEMMA ViewGoesOn ==
    ASSUME NEW b, NEW c, BrokerSane(b), BrokerSane(c), Onward(b, c), NEW d \in Domains,
           NEW scope, ViewIn(1, b, d, scope) # ViewIn(1, c, d, scope)
    PROVE  Beyond(c, d, ViewIn(1, b, d, scope), scope)
<1> DEFINE R == ViewIn(1, b, d, scope)
<1>0. d \in scope.domains
  BY DEF ViewIn
<1>1. CASE d = "active_orders"
  <2>1. R = OwnIn(b, d) /\ ViewIn(1, c, d, scope) = OwnIn(c, d)
    BY <1>0, <1>1, TheDomains DEF ViewIn, AllIn
  <2>2. SUFFICES ASSUME \A r \in R : /\ "left" \notin c[r.ticket].shown
                                     /\ c[r.ticket].stage = "filled" => r.position = Opening
                 PROVE  FALSE
    BY <1>1 DEF Beyond
  <2>3. ASSUME NEW o \in Order
        PROVE  /\ ActiveIn(b, o) <=> ActiveIn(c, o)
               /\ ActiveIn(b, o) => PositionIn(b, o) = PositionIn(c, o)
    <3>1. CASE ActiveIn(b, o)
      <4>1. OrderRecord(o, PositionIn(b, o)) \in R
        BY <1>1, <2>1, <3>1, OwnViews
      <4>2. "left" \notin c[o].shown
            /\ (c[o].stage = "filled" => PositionIn(b, o) = Opening)
        BY <2>2, <4>1 DEF OrderRecord
      <4>3. c[o].stage # "unsent"
        BY <3>1 DEF ActiveIn, Onward, Later
      <4>4. b[o].stage = "filled" => c[o].stage = "filled"
        BY DEF Onward, Later
      <4> QED
        BY <3>1, <4>2, <4>3, <4>4 DEF ActiveIn, PositionIn
    <3>2. CASE ~ ActiveIn(b, o)
      BY <3>2 DEF ActiveIn, Onward, Later
    <3> QED
      BY <3>1, <3>2
  <2>4. OwnIn(b, d) \subseteq OwnIn(c, d)
    <3>1. ASSUME NEW r \in OwnIn(b, d)
          PROVE  r \in OwnIn(c, d)
      <4>1. PICK o \in Order : ActiveIn(b, o) /\ r = OrderRecord(o, PositionIn(b, o))
        BY <1>1, <3>1, OwnViews
      <4>2. ActiveIn(c, o) /\ r = OrderRecord(o, PositionIn(c, o))
        BY <2>3, <4>1
      <4> QED
        BY <1>1, <4>2, OwnViews
    <3> QED
      BY <3>1
  <2>5. OwnIn(c, d) \subseteq OwnIn(b, d)
    <3>1. ASSUME NEW r \in OwnIn(c, d)
          PROVE  r \in OwnIn(b, d)
      <4>1. PICK o \in Order : ActiveIn(c, o) /\ r = OrderRecord(o, PositionIn(c, o))
        BY <1>1, <3>1, OwnViews
      <4>2. ActiveIn(b, o) /\ r = OrderRecord(o, PositionIn(b, o))
        BY <2>3, <4>1
      <4> QED
        BY <1>1, <4>2, OwnViews
    <3> QED
      BY <3>1
  <2>6. OwnIn(b, d) = OwnIn(c, d)
    BY <2>4, <2>5
  <2> QED
    BY <2>1, <2>6
<1>2. CASE d = "positions"
  <2>1. R = OwnIn(b, d) /\ ViewIn(1, c, d, scope) = OwnIn(c, d)
    BY <1>0, <1>2, TheDomains DEF ViewIn, AllIn
  <2>2. OpenIn(b) # OpenIn(c)
    BY <1>2, <2>1, OwnViews
  <2>3. b[Closing].stage = "unsent" <=> c[Closing].stage = "unsent"
    BY TheDomains DEF Onward, Later
  <2>4. R # {} <=> OpenIn(b)
    BY <1>2, <2>1, OwnViews
  <2> HIDE DEF R
  <2>5. CASE b[Closing].stage = "unsent"
    <3>1. c[Closing].shown = {}
      BY <2>3, <2>5, TheDomains DEF BrokerSane
    <3>2. OpenIn(c)
      BY <2>2, <3>1, TheDomains DEF OpenIn, Onward, Later
    <3>3. R = {}
      BY <2>2, <2>4, <3>2 DEF OpenIn
    <3> QED
      BY <1>2, <2>3, <2>5, <3>2, <3>3 DEF Beyond, R
  <2>6. CASE b[Closing].stage # "unsent"
    <3>1. "position" \in b[Opening].shown
      BY <2>6 DEF BrokerSane, Facets
    <3>2. ~ OpenIn(c) /\ OpenIn(b)
      BY <2>2, <3>1, TheDomains DEF OpenIn, Onward, Later
    <3> QED
      BY <1>2, <2>3, <2>4, <2>6, <3>2 DEF Beyond, R
  <2> QED
    BY <2>5, <2>6
<1>3. CASE d \in Histories
  <2>1. OwnIn(b, d) \subseteq OwnIn(c, d)
    BY <1>3, HistoriesGrow DEF Onward
  <2>2. R \subseteq ViewIn(1, c, d, scope)
    BY <2>1 DEF ViewIn, AllIn
  <2>3. PICK r \in ViewIn(1, c, d, scope) : r \notin R
    BY <2>2
  <2> QED
    BY <1>3, <2>3, TheDomains DEF Beyond
<1> QED
  BY <1>1, <1>2, <1>3, TheDomains

\* What a view shows after it went on is not what it showed before.
LEMMA BeyondDiffers ==
    ASSUME NEW b, NEW d \in Domains, NEW R \in SUBSET OwnRecords(d), NEW scope,
           d \in scope.domains, Beyond(b, d, R, scope)
    PROVE  R # ViewIn(1, b, d, scope)
<1>1. CASE d = "active_orders"
  <2>1. ViewIn(1, b, d, scope) = OwnIn(b, d)
    BY <1>1, TheDomains DEF ViewIn, AllIn
  <2>2. PICK r \in R : \/ "left" \in b[r.ticket].shown
                       \/ b[r.ticket].stage = "filled" /\ r.position # Opening
    BY <1>1 DEF Beyond
  <2>3. SUFFICES ASSUME r \in OwnIn(b, d)
                 PROVE  FALSE
    BY <2>1, <2>2
  <2>4. PICK o \in Order : ActiveIn(b, o) /\ r = OrderRecord(o, PositionIn(b, o))
    BY <1>1, <2>3, OwnViews
  <2> QED
    BY <2>2, <2>4 DEF OrderRecord, ActiveIn, PositionIn
<1>2. CASE d = "positions"
  <2>1. ViewIn(1, b, d, scope) = OwnIn(b, d)
    BY <1>2, TheDomains DEF ViewIn, AllIn
  <2>2. OwnIn(b, d) = {} <=> ~ OpenIn(b)
    BY <1>2, OwnViews
  <2>3. IF b[Closing].stage = "unsent" THEN R = {} /\ OpenIn(b) ELSE R # {} /\ ~ OpenIn(b)
    BY <1>2 DEF Beyond
  <2> QED
    BY <2>1, <2>2, <2>3
<1>3. CASE d \in Histories
  BY <1>3, TheDomains DEF Beyond
<1> QED
  BY <1>1, <1>2, <1>3, TheDomains

\* Reads of an account that have one signature are the same.
LEMMA SignatureTells ==
    ASSUME NEW i \in 1 .. 2, NEW d \in Domains, NEW b, NEW c,
           b.records[d] \subseteq Records(i, d), c.records[d] \subseteq Records(i, d),
           Signature(b) = Signature(c)
    PROVE  b.records[d] = c.records[d]
<1> DEFINE R == b.records[d]
           Q == c.records[d]
<1>0. Signature(b)[d] = Signature(c)[d]
  OBVIOUS
<1> USE DEF OrderRecord, PositionRecord, HistoryOrderRecord, DealRecord, Records, Foreign
<1>1. CASE d = "active_orders"
  BY <1>0, <1>1, TheDomains DEF Signature
<1>2. CASE d = "positions"
  <2>1. {r \in R : r.position # 0} = {r \in Q : r.position # 0}
    BY <1>0, <1>2, TheDomains DEF Signature
  <2>2. \A r \in R \cup Q : r.position # 0
    BY <1>2, RecordsOf, TheDomains
  <2> QED
    BY <2>1, <2>2
<1>3. CASE d = "history_orders"
  <2> DEFINE Key(r) == OrderRecord(r.ticket, r.position)
  <2>1. {Key(r) : r \in R} = {Key(r) : r \in Q}
    BY <1>0, <1>3, TheDomains DEF Signature
  <2>2. \A r \in Records(i, d), q \in Records(i, d) : Key(r) = Key(q) => r = q
    BY <1>3, RecordsOf, TheDomains
  <2>3. R \subseteq Records(i, d) /\ Q \subseteq Records(i, d)
    OBVIOUS
  <2> HIDE DEF Key, R, Q
  <2>4. \A r \in R : \E q \in Q : Key(r) = Key(q)
    BY ONLY <2>1
  <2>5. \A q \in Q : \E r \in R : Key(r) = Key(q)
    BY ONLY <2>1
  <2>6. R = Q
    BY ONLY <2>2, <2>3, <2>4, <2>5
  <2> QED
    BY <2>6 DEF R, Q
<1>4. CASE d = "history_deals"
  <2> DEFINE Key(r) == DealRecord(r.ticket, r.order, r.position, UnknownTime)
  <2>1. {Key(r) : r \in R} = {Key(r) : r \in Q}
    BY <1>0, <1>4, TheDomains DEF Signature
  <2>2. \A r \in Records(i, d), q \in Records(i, d) : Key(r) = Key(q) => r = q
    BY <1>4, RecordsOf, TheDomains
  <2>3. R \subseteq Records(i, d) /\ Q \subseteq Records(i, d)
    OBVIOUS
  <2> HIDE DEF Key, R, Q
  <2>4. \A r \in R : \E q \in Q : Key(r) = Key(q)
    BY ONLY <2>1
  <2>5. \A q \in Q : \E r \in R : Key(r) = Key(q)
    BY ONLY <2>1
  <2>6. R = Q
    BY ONLY <2>2, <2>3, <2>4, <2>5
  <2> QED
    BY <2>6 DEF R, Q
<1> QED
  BY <1>1, <1>2, <1>3, <1>4, TheDomains

-----------------------------------------------------------------------------
(* The invariant.                                                          *)

\* Records that all have a ticket.
Usable(R) == 0 \notin Tickets(R)

\* The accounts of the program.
Names == {program.accounts[i] : i \in 1 .. Len(program.accounts)}

BatchType == [account: Names, scope: ScopeType, records: [Domains -> SUBSET AnyRecord]]

CallType ==
    [todo: Seq(Domains), purpose: {"poll", "cycle", "sample", "worker"}, batch: BatchType]

\* The domains that are still to be read.
Unread(todo) == {todo[k] : k \in 1 .. Len(todo)}

\* What the collection has read of a domain.
ReadOf(d) == call.batch.records[d]
\* A domain that was read, into evidence that the graph admits.
WasRead(d) == d \in call.batch.scope.domains \ Unread(call.todo) /\ Usable(ReadOf(d))

\* The program and its present account.
ProgramInv == program \in Programs /\ account \in 1 .. Len(program.accounts)

\* A collection is of one of the accounts so far; if it is of the present one,
\* it holds what the views of this account showed, and where they have gone on
\* from that, they have gone on for good.
CallInv ==
    Busy =>
      /\ call \in CallType
      /\ graph.rev < MaxRevision
      /\ \E i \in 1 .. account : call.batch.account = program.accounts[i]
      /\ call.batch.account = program.accounts[account] =>
            \A d \in Domains :
              /\ ReadOf(d) \subseteq Records(account, d) \cup Junk(d)
              /\ account = 1 /\ d \in Histories => ReadOf(d) \subseteq OwnIn(broker, d)
              /\ WasRead(d) =>
                    \/ ReadOf(d) = ViewIn(account, broker, d, call.batch.scope)
                    \/ account = 1 /\ Beyond(broker, d, ReadOf(d), call.batch.scope)

\* The graph's records are of its account, those of a history confirmed.
GraphInv ==
    /\ graph.rev \in 0 .. MaxRevision
    /\ graph.domainRev \in [Domains -> 0 .. graph.rev]
    /\ graph.coverage \in [Histories -> SUBSET [window: WindowType, rev: Nat]]
    /\ \A d \in Histories :
        /\ IsFiniteSet(graph.coverage[d])
        /\ \A c \in graph.coverage[d] :
              c.rev \in 1 .. graph.domainRev[d] /\ ValidWindow(c.window)
    /\ graph.account = NoAccount => \A d \in Domains : graph.records[d] = {}
    /\ graph.account # NoAccount =>
        \E i \in 1 .. account :
            /\ graph.account = program.accounts[i]
            /\ \A d \in Snapshots : graph.records[d] \subseteq Records(i, d)
            /\ \A d \in Histories : \A r \in graph.records[d] :
                  \E q \in AllIn(i, broker, d), v \in 1 .. graph.rev : r = Confirmed(q, v)

\* The baseline is of this graph, and what was seen then happened.
BaselineInv ==
    /\ request = NoRequest =>
         outcome = "none" /\ baseline = NoBaseline /\ seen = [d \in Domains |-> {}]
    /\ request # NoRequest => request \in program.requests
    /\ baseline.rev \in 0 .. graph.rev
    /\ baseline.domainRev \in [Domains -> Nat]
    /\ baseline.account \in {NoAccount, graph.account}
    /\ \A d \in Domains : \A t \in seen[d] :
          /\ graph.account = program.accounts[1] /\ graph.account # NoAccount
          /\ SeenHappened(broker, d, t)

\* What was seen at the baseline and is not in a later read of a snapshot is no
\* more.
Missed(b, views, d, R) == \A t \in views[d] \ Tickets(R) : t \notin Tickets(OwnIn(b, d))

\* So of the graph; and what was seen in a history is in every later read of its
\* time.
GraphSeen ==
    /\ \A d \in Snapshots :
          graph.domainRev[d] > baseline.domainRev[d] =>
              Missed(broker, seen, d, graph.records[d])
    /\ \A d \in Histories : \A c \in graph.coverage[d] : \A t \in seen[d] :
          c.rev > baseline.domainRev[d] /\ InWindow(DoneTime(t), c.window) =>
              \E r \in graph.records[d] :
                  r.ticket = t /\ r.time = DoneTime(t) /\ r.rev >= c.rev

\* The same of what the collection in progress has read.
CallSeen ==
    Busy /\ account = 1 =>
      /\ \A d \in Snapshots : WasRead(d) => Missed(broker, seen, d, ReadOf(d))
      /\ \A d \in Histories : WasRead(d) => \A t \in seen[d] :
            InWindow(DoneTime(t), call.batch.scope.window[d]) => t \in Tickets(ReadOf(d))

\* A sample of a cycle.
SampleType == [batch: BatchType, rev: Nat, stood: BOOLEAN]

\* Samples are of one account, and one that agrees with the one before it has seen
\* that one stand.
SamplesInv ==
    /\ samples \in Seq(SampleType)
    /\ stood \in BOOLEAN
    /\ Len(samples) <= program.samples
    /\ samples # <<>> => graph.account # NoAccount
    /\ \A k \in 1 .. Len(samples) :
        /\ samples[k].batch.account = graph.account
        /\ \E i \in 1 .. account :
              /\ graph.account = program.accounts[i]
              /\ \A d \in Domains : samples[k].batch.records[d] \subseteq Records(i, d)
    /\ \A k \in 2 .. Len(samples) :
        samples[k].stood \/ Signature(samples[k - 1].batch) # Signature(samples[k].batch)

\* What the collection is for.
CallIsFor ==
    Busy =>
      /\ call.purpose = "sample" =>
           /\ samples # <<>> /\ Len(samples) < program.samples
           /\ call.batch.scope = Last.batch.scope
      /\ call.purpose = "worker" => request # NoRequest

\* The view has left what the last sample read of it, for good.
IsOver(d) ==
    /\ Beyond(broker, d, Last.batch.records[d], Last.batch.scope)
    /\ Busy /\ call.purpose = "sample" /\ WasRead(d) => ReadOf(d) # Last.batch.records[d]

\* As long as the last sample has not stood, one of the views it read is over, and
\* the next sample has not read of it what the last one did.
StandingInv ==
    /\ samples # <<>> /\ graph.account # program.accounts[1] => stood
    /\ samples # <<>> /\ ~ stood /\ account = 1 /\ Len(samples) < program.samples =>
         \E d \in Last.batch.scope.domains : IsOver(d)

\* What the worker has concluded.  (That the gate's verdict is sound follows from
\* the rest.)
OutcomeInv == ConfirmedIsLasting /\ NotObservedMeansUnseen

\* The inductive invariant.
LoopInv ==
    /\ ProgramInv /\ BrokerSane(broker) /\ CallInv /\ GraphInv
    /\ BaselineInv /\ GraphSeen /\ CallSeen /\ SamplesInv /\ CallIsFor
    /\ StandingInv /\ OutcomeInv

-----------------------------------------------------------------------------
(* Facts about states.                                                     *)

LEMMA ProgramFacts ==
    ASSUME ProgramInv
    PROVE  /\ Len(program.accounts) \in 1 .. 2 /\ account \in 1 .. 2
           /\ account = 2 => Len(program.accounts) = 2
           /\ Len(program.accounts) = 2 => program.accounts[1] # program.accounts[2]
           /\ program.polls \subseteq ScopeType /\ program.cycles \subseteq ScopeType
           /\ \A r \in program.requests : r \in [scope: ScopeType, predicates: SUBSET PredicateType]
           /\ program.samples \in Nat /\ program.samples >= 2
<1>1. ProgramType(program)
  BY LoopAssumption DEF ProgramInv
<1>2. Len(program.accounts) \in 1 .. 2 /\ program.samples \in 2 .. 8
      /\ (Len(program.accounts) = 2 => program.accounts[1] # program.accounts[2])
  BY <1>1 DEF ProgramType
<1>3. account \in 1 .. 2 /\ (account = 2 => Len(program.accounts) = 2)
  <2> DEFINE n == Len(program.accounts)
  <2>1. n \in 1 .. 2 /\ account \in 1 .. n
    BY <1>2 DEF ProgramInv
  <2> HIDE DEF n
  <2>2. account \in 1 .. 2 /\ (account = 2 => n = 2)
    BY ONLY <2>1
  <2> QED
    BY <2>2 DEF n
<1> QED
  BY <1>1, <1>2, <1>3 DEF ProgramType

\* The model's views are those of the broker as it is.
LEMMA OwnViewIs ==
    ASSUME NEW d
    PROVE  OwnView(d) = OwnIn(broker, d) /\ OwnView(d)' = OwnIn(broker', d)
<1>1. /\ \A o : PositionOf(o) = PositionIn(broker, o) /\ (Active(o) <=> ActiveIn(broker, o))
      /\ Open <=> OpenIn(broker)
  BY DEF PositionOf, PositionIn, Active, ActiveIn, Open, OpenIn, Shows
<1>2. /\ \A o : PositionOf(o)' = PositionIn(broker', o) /\ (Active(o)' <=> ActiveIn(broker', o))
      /\ Open' <=> OpenIn(broker')
  BY DEF PositionOf, PositionIn, Active, ActiveIn, Open, OpenIn, Shows
<1>3. OwnView(d) = OwnIn(broker, d)
  BY <1>1 DEF OwnView, OwnIn, Shows
<1>4. OwnView(d)' = OwnIn(broker', d)
  BY <1>2 DEF OwnView, OwnIn, Shows
<1> QED
  BY <1>3, <1>4

LEMMA ViewIs ==
    ASSUME NEW d, NEW scope
    PROVE  /\ View(d, scope) = ViewIn(account, broker, d, scope)
           /\ View(d, scope)' = ViewIn(account', broker', d, scope)
  BY OwnViewIs DEF View, ViewIn, AllIn

\* A read without records that lack their ticket is what the view can hold.
LEMMA UsableIsOwn ==
    ASSUME NEW i, NEW d, NEW R, R \subseteq Records(i, d) \cup Junk(d), Usable(R)
    PROVE  R \subseteq Records(i, d)
<1>1. PositionRecord(0, 0).ticket = 0
  BY DEF PositionRecord
<1>2. PositionRecord(0, 0) \notin R
  BY <1>1 DEF Usable, Tickets
<1> QED
  BY <1>2 DEF Junk

LEMMA UnreadTail ==
    ASSUME NEW todo \in Seq(Domains), todo # <<>>
    PROVE  /\ Head(todo) \in Domains /\ Tail(todo) \in Seq(Domains)
           /\ Unread(todo) \subseteq Unread(Tail(todo)) \cup {Head(todo)}
<1>1. /\ Head(todo) = todo[1] /\ Len(todo) \in Nat /\ Len(todo) >= 1
      /\ Len(Tail(todo)) = Len(todo) - 1
      /\ \A k \in 1 .. Len(Tail(todo)) : Tail(todo)[k] = todo[k + 1]
  OBVIOUS
<1>2. ASSUME NEW k \in 1 .. Len(todo), k # 1
      PROVE  todo[k] \in Unread(Tail(todo))
  <2>1. k - 1 \in 1 .. Len(Tail(todo)) /\ todo[k] = Tail(todo)[k - 1]
    BY <1>1, <1>2
  <2> QED
    BY <2>1 DEF Unread
<1> QED
  BY <1>1, <1>2 DEF Unread

LEMMA UnreadOfBoth ==
    ASSUME NEW s \in Seq(Domains), NEW t \in Seq(Domains)
    PROVE  s \o t \in Seq(Domains) /\ Unread(s) \cup Unread(t) \subseteq Unread(s \o t)
<1>1. /\ Len(s) \in Nat /\ Len(t) \in Nat /\ Len(s \o t) = Len(s) + Len(t)
      /\ \A k \in 1 .. Len(s) : (s \o t)[k] = s[k]
      /\ \A k \in 1 .. Len(t) : (s \o t)[k + Len(s)] = t[k]
  OBVIOUS
<1>2. \A k \in 1 .. Len(s) : k \in 1 .. Len(s \o t)
  BY <1>1
<1>3. \A k \in 1 .. Len(t) : k + Len(s) \in 1 .. Len(s \o t)
  BY <1>1
<1>4. Unread(s) \subseteq Unread(s \o t)
  BY <1>1, <1>2 DEF Unread
<1>5. Unread(t) \subseteq Unread(s \o t)
  BY <1>1, <1>3 DEF Unread
<1> QED
  BY <1>4, <1>5

\* A collection has all its domains to read.
LEMMA AllIsToRead ==
    ASSUME NEW scope \in ScopeType
    PROVE  ReadOrder(scope) \in Seq(Domains) /\ scope.domains \subseteq Unread(ReadOrder(scope))
<1> DEFINE Asked(d) == IF d \in scope.domains THEN <<d>> ELSE <<>>
           last == IF scope.dealsFirst THEN Asked("history_deals") \o Asked("positions")
                                       ELSE Asked("positions") \o Asked("history_deals")
<1>1. ASSUME NEW d \in Domains
      PROVE  Asked(d) \in Seq(Domains) /\ (d \in scope.domains => d \in Unread(Asked(d)))
  <2>1. CASE d \in scope.domains
    <3>1. Len(<<d>>) = 1 /\ <<d>>[1] = d /\ <<d>> \in Seq(Domains)
      OBVIOUS
    <3> QED
      BY <2>1, <3>1 DEF Unread
  <2>2. CASE d \notin scope.domains
    BY <2>2
  <2> QED
    BY <2>1, <2>2
<1>2. /\ "active_orders" \in Domains /\ "history_orders" \in Domains
      /\ "history_deals" \in Domains /\ "positions" \in Domains
      /\ scope.domains \subseteq Domains
  BY TheDomains DEF ScopeType
<1>3. ReadOrder(scope) = (Asked("active_orders") \o Asked("history_orders")) \o last
  BY DEF ReadOrder
<1> HIDE DEF Asked
<1>4. /\ last \in Seq(Domains)
      /\ Unread(Asked("positions")) \cup Unread(Asked("history_deals")) \subseteq Unread(last)
  <2>1. CASE scope.dealsFirst
    BY <1>1, <1>2, <2>1, UnreadOfBoth
  <2>2. CASE ~ scope.dealsFirst
    BY <1>1, <1>2, <2>2, UnreadOfBoth
  <2> QED
    BY <2>1, <2>2
<1> HIDE DEF last
<1> DEFINE first == Asked("active_orders") \o Asked("history_orders")
<1>5. /\ first \in Seq(Domains)
      /\ Unread(Asked("active_orders")) \cup Unread(Asked("history_orders")) \subseteq Unread(first)
  BY <1>1, <1>2, UnreadOfBoth
<1> HIDE DEF first
<1>6. ReadOrder(scope) = first \o last
  BY <1>3 DEF first
<1>7. ReadOrder(scope) \in Seq(Domains) /\ Unread(first) \cup Unread(last) \subseteq Unread(ReadOrder(scope))
  BY <1>4, <1>5, <1>6, UnreadOfBoth
<1>8. ASSUME NEW d \in scope.domains
      PROVE  d \in Unread(ReadOrder(scope))
  <2>1. d \in Unread(Asked(d)) /\ d \in Domains
    BY <1>1, <1>2
  <2> QED
    BY <1>4, <1>5, <1>7, <2>1, TheDomains
<1> QED
  BY <1>7, <1>8

\* A collection in progress is a collection.
LEMMA BusyCall ==
    ASSUME NEW c \in CallType
    PROVE  /\ c # Idle
           /\ c.todo \in Seq(Domains) /\ c.purpose # "none"
           /\ c.batch \in BatchType /\ c.batch.scope \in ScopeType
           /\ c.batch.records \in [Domains -> SUBSET AnyRecord]
  BY DEF CallType, BatchType, Idle

\* A batch that read what the views hold and does not say what they hold read of
\* one that is over.
LEMMA NotStanding ==
    ASSUME NEW b, NEW batch, NEW scope,
           batch.records \in [Domains -> SUBSET AnyRecord],
           \A d \in Domains \ scope.domains : batch.records[d] = {},
           \A d \in scope.domains \cap Domains :
               \/ batch.records[d] = ViewIn(1, b, d, scope)
               \/ Beyond(b, d, batch.records[d], scope),
           NEW now, now.records = [d \in Domains |-> ViewIn(1, b, d, scope)],
           Signature(now) # Signature(batch)
    PROVE  \E d \in scope.domains \cap Domains : Beyond(b, d, batch.records[d], scope)
<1> SUFFICES ASSUME \A d \in scope.domains \cap Domains : ~ Beyond(b, d, batch.records[d], scope)
             PROVE  FALSE
  OBVIOUS
<1>1. \A d \in Domains : batch.records[d] = ViewIn(1, b, d, scope)
  BY DEF ViewIn
<1>2. batch.records = now.records
  BY <1>1
<1> QED
  BY <1>2 DEF Signature


-----------------------------------------------------------------------------
(* Steps of the broker.                                                    *)

\* A confirmed outcome and a negative one stay true.
LEMMA OutcomeStays ==
    ASSUME LoopInv, Later(broker, broker'), UNCHANGED <<request, outcome, seen>>
    PROVE  OutcomeInv'
<1> USE DEF LoopInv
<1>1. NotObservedMeansUnseen'
  BY DEF OutcomeInv, NotObservedMeansUnseen
<1>2. ASSUME outcome' = "confirmed", NEW p \in request.predicates
      PROVE  StillTrue(p)'
  <2>1. StillTrue(p)
    BY <1>2 DEF OutcomeInv, ConfirmedIsLasting
  <2>2. p.domain \in Domains
    <3>1. request \in program.requests
      BY <1>2 DEF BaselineInv
    <3>2. request \in [scope: ScopeType, predicates: SUBSET PredicateType]
      BY <3>1, ProgramFacts
    <3>3. p \in PredicateType
      BY <3>2
    <3> QED
      BY <3>3 DEF PredicateType
  <2>3. CASE p.present /\ p.domain \in Histories
    <3>1. PICK r \in OwnIn(broker, p.domain) :
             r.ticket = p.ticket /\ (p.window = NoWindow \/ InWindow(r.time, p.window))
      BY <2>1, <2>3, OwnViewIs DEF StillTrue
    <3>2. r \in OwnIn(broker', p.domain)
      BY <2>3, <3>1, HistoriesGrow
    <3> QED
      BY <2>3, <3>1, <3>2, OwnViewIs DEF StillTrue
  <2>4. CASE ~ p.present /\ p.domain \in Snapshots
    <3>1. ASSUME p.ticket \in seen[p.domain]
          PROVE  p.ticket \notin Tickets(OwnIn(broker', p.domain))
      <4>1. p.ticket \notin Tickets(OwnIn(broker, p.domain))
        BY <2>1, <2>4, <3>1, OwnViewIs DEF StillTrue
      <4>2. SeenHappened(broker, p.domain, p.ticket)
        BY <2>2, <3>1 DEF BaselineInv
      <4> QED
        BY <2>4, <4>1, <4>2, GoneStaysGone
    <3> QED
      BY <2>4, <3>1, OwnViewIs DEF StillTrue
  <2> QED
    BY <2>3, <2>4 DEF StillTrue
<1>3. ConfirmedIsLasting'
  BY <1>2 DEF ConfirmedIsLasting
<1> QED
  BY <1>1, <1>3 DEF OutcomeInv

\* What the broker does leaves the invariant, orders being sent between the
\* collections and the cycles only.
LEMMA BrokerSteps ==
    ASSUME LoopInv, account = 1, BrokerSane(broker'), Later(broker, broker'),
           UNCHANGED <<program, account, call, graph, baseline, request, outcome,
                       samples, seen>>,
           stood' = (stood \/ Stands'),
           \/ Onward(broker, broker')
           \/ ~ Busy /\ Len(samples) \in {0, program.samples}
    PROVE  LoopInv'
<1> USE DEF LoopInv
<1>0. ProgramInv'
  BY DEF ProgramInv
<1>1. CallInv'
  <2>0. CallType' = CallType
    BY DEF CallType, BatchType, Names
  <2> SUFFICES ASSUME Busy, call.batch.account = program.accounts[account], NEW d \in Domains
               PROVE  /\ account = 1 /\ d \in Histories => ReadOf(d) \subseteq OwnIn(broker', d)
                      /\ WasRead(d) =>
                            \/ ReadOf(d) = ViewIn(account, broker', d, call.batch.scope)
                            \/ account = 1 /\ Beyond(broker', d, ReadOf(d), call.batch.scope)
    BY <2>0 DEF CallInv, ReadOf, WasRead, Busy
  <2>1. ReadOf(d) \subseteq Records(account, d) \cup Junk(d)
        /\ (d \in Histories => ReadOf(d) \subseteq OwnIn(broker, d))
        /\ (WasRead(d) => \/ ReadOf(d) = ViewIn(1, broker, d, call.batch.scope)
                          \/ Beyond(broker, d, ReadOf(d), call.batch.scope))
    BY DEF CallInv
  <2>2. d \in Histories => ReadOf(d) \subseteq OwnIn(broker', d)
    BY <2>1, HistoriesGrow
  <2>3. ASSUME WasRead(d)
        PROVE  \/ ReadOf(d) = ViewIn(1, broker', d, call.batch.scope)
               \/ Beyond(broker', d, ReadOf(d), call.batch.scope)
    <3>1. ReadOf(d) \in SUBSET OwnRecords(d)
      BY <2>1, <2>3, UsableIsOwn DEF WasRead, Records
    <3> QED
      BY <2>1, <2>3, <3>1, BeyondStays, ViewGoesOn
  <2> QED
    BY <2>2, <2>3
<1>2. GraphInv'
  <2>1. ASSUME NEW i, NEW d \in Histories, NEW q \in AllIn(i, broker, d)
        PROVE  q \in AllIn(i, broker', d)
    BY <2>1, HistoriesGrow DEF AllIn
  <2> QED
    BY <2>1 DEF GraphInv, Names
<1>3. BaselineInv'
  BY SeenStays DEF BaselineInv
<1>4. \A d \in Snapshots : \A R : Missed(broker, seen, d, R) => Missed(broker', seen, d, R)
  <2> SUFFICES ASSUME NEW d \in Snapshots, NEW R, Missed(broker, seen, d, R),
                      NEW t \in seen[d] \ Tickets(R)
               PROVE  t \notin Tickets(OwnIn(broker', d))
    BY DEF Missed
  <2>1. t \notin Tickets(OwnIn(broker, d))
    BY DEF Missed
  <2>2. SeenHappened(broker, d, t)
    BY DEF BaselineInv, Domains
  <2> QED
    BY <2>1, <2>2, GoneStaysGone
<1>5. GraphSeen'
  <2>1. \A d \in Snapshots :
           graph.domainRev[d] > baseline.domainRev[d] =>
               Missed(broker', seen, d, graph.records[d])
    BY <1>4 DEF GraphSeen
  <2> QED
    BY <2>1 DEF GraphSeen
<1>9. CallSeen'
  <2>1. \A d \in Domains : ReadOf(d)' = ReadOf(d) /\ (WasRead(d)' <=> WasRead(d))
    BY DEF WasRead, ReadOf
  <2>2. Busy' <=> Busy
    BY DEF Busy
  <2>3. Snapshots \subseteq Domains /\ Histories \subseteq Domains
    BY DEF Domains
  <2>4. Busy => \A d \in Snapshots : WasRead(d) => Missed(broker', seen, d, ReadOf(d))
    BY <1>4 DEF CallSeen
  <2> QED
    BY <2>1, <2>2, <2>3, <2>4 DEF CallSeen
<1>6. SamplesInv'
  BY DEF SamplesInv, SampleType, BatchType, Names
<1>10. CallIsFor'
  BY DEF CallIsFor, Busy, Last
<1>7. StandingInv'
  <2> SUFFICES ASSUME samples # <<>>, ~ stood, Len(samples) < program.samples
               PROVE  \E d \in Last.batch.scope.domains : IsOver(d)'
    BY DEF StandingInv, Last
  <2>1. Onward(broker, broker')
    BY DEF SamplesInv
  <2>2. PICK d \in Last.batch.scope.domains : IsOver(d)
    BY DEF StandingInv
  <2>3. Len(samples) \in 1 .. Len(samples) /\ Last \in SampleType
    BY DEF SamplesInv, Last
  <2>4. d \in Domains
    BY <2>2, <2>3 DEF SampleType, BatchType, ScopeType
  <2>5. Last.batch.records[d] \in SUBSET OwnRecords(d)
    BY <2>3, <2>4 DEF SamplesInv, Last, Records
  <2>6. Beyond(broker', d, Last.batch.records[d], Last.batch.scope)
    BY <2>1, <2>2, <2>4, <2>5, BeyondStays DEF IsOver
  <2>7. IsOver(d)'
    BY <2>2, <2>6 DEF IsOver, Last, Busy, WasRead, ReadOf
  <2> QED
    BY <2>2, <2>7
<1>8. OutcomeInv'
  BY OutcomeStays
<1> QED
  BY <1>0, <1>1, <1>2, <1>3, <1>5, <1>6, <1>7, <1>8, <1>9, <1>10


LEMMA BrokerActions ==
    ASSUME LoopInv, program' = program, NEW o \in Order,
           \/ Place(o)
           \/ \E how \in {"filled", "cancelled"} : Conclude(o, how)
           \/ \E facet \in Facets : Publish(o, facet)
    PROVE  LoopInv'
<1>0. BrokerSane(broker) /\ account \in 1 .. 2
  BY ProgramFacts DEF LoopInv
<1>1. CASE Place(o)
  <2>1. /\ account = 1 /\ ~ Busy /\ Len(samples) \in {0, program.samples}
        /\ broker[o].stage = "unsent" /\ (o = Closing => broker[Opening].shown = Facets)
        /\ broker' = [broker EXCEPT ![o].stage = "working"]
    BY <1>1 DEF Place
  <2>2. /\ broker'[o].stage = "working" /\ broker'[o].shown = broker[o].shown
        /\ \A q \in Order \ {o} : broker'[q] = broker[q]
        /\ broker' \in [Order -> [stage : {"unsent", "working", "filled", "cancelled"},
                                  shown : SUBSET Facets]]
    BY <1>0, <2>1 DEF BrokerSane
  <2>3. Later(broker, broker')
    BY <2>1, <2>2 DEF Later
  <2>4. BrokerSane(broker')
    BY <1>0, <2>1, <2>2, TheDomains DEF BrokerSane
  <2> QED
    BY <1>1, <2>1, <2>3, <2>4, BrokerSteps DEF Place, BrokerMoves
<1>2. ASSUME NEW how \in {"filled", "cancelled"}, Conclude(o, how)
      PROVE  LoopInv'
  <2>1. /\ account = 1 /\ broker[o].stage = "working" /\ (o = Closing => how = "filled")
        /\ broker' = [broker EXCEPT ![o].stage = how]
    BY <1>2 DEF Conclude
  <2>2. /\ broker'[o].stage = how /\ broker'[o].shown = broker[o].shown
        /\ \A q \in Order \ {o} : broker'[q] = broker[q]
        /\ broker' \in [Order -> [stage : {"unsent", "working", "filled", "cancelled"},
                                  shown : SUBSET Facets]]
    BY <1>0, <2>1 DEF BrokerSane
  <2>3. Onward(broker, broker')
    BY <2>1, <2>2 DEF Onward, Later
  <2>4. BrokerSane(broker')
    BY <1>0, <2>1, <2>2, TheDomains DEF BrokerSane
  <2> QED
    BY <1>2, <2>1, <2>3, <2>4, BrokerSteps DEF Conclude, BrokerMoves, Onward
<1>3. ASSUME NEW facet \in Facets, Publish(o, facet)
      PROVE  LoopInv'
  <2>1. /\ account = 1
        /\ \/ broker[o].stage = "filled"
           \/ broker[o].stage = "cancelled" /\ facet \in {"left", "done"}
        /\ broker' = [broker EXCEPT ![o].shown = @ \cup {facet}]
    BY <1>3 DEF Publish
  <2>2. /\ broker'[o].stage = broker[o].stage /\ broker'[o].shown = broker[o].shown \cup {facet}
        /\ \A q \in Order \ {o} : broker'[q] = broker[q]
        /\ broker' \in [Order -> [stage : {"unsent", "working", "filled", "cancelled"},
                                  shown : SUBSET Facets]]
    BY <1>0, <2>1 DEF BrokerSane
  <2>3. Onward(broker, broker')
    BY <2>1, <2>2 DEF Onward, Later
  <2>4. BrokerSane(broker')
    BY <1>0, <2>1, <2>2, TheDomains DEF BrokerSane
  <2> QED
    BY <1>3, <2>1, <2>3, <2>4, BrokerSteps DEF Publish, BrokerMoves, Onward
<1> QED
  BY <1>1, <1>2, <1>3

\* A collection of the account before is not of the present one.
LEMMA SwitchAccountKeeps ==
    ASSUME LoopInv, program' = program, SwitchAccount
    PROVE  LoopInv'
<1> USE DEF LoopInv
<1>0. /\ account = 1 /\ account' = 2 /\ Len(program.accounts) = 2
      /\ program.accounts[1] # program.accounts[2]
      /\ UNCHANGED <<broker, call, graph, baseline, request, outcome, samples, seen>>
      /\ stood' = (stood \/ Stands')
  <2>1. account < Len(program.accounts) /\ account' = account + 1
    BY DEF SwitchAccount
  <2> DEFINE n == Len(program.accounts)
  <2>2. n \in 1 .. 2 /\ account \in 1 .. 2 /\ account < n
    BY <2>1, ProgramFacts
  <2> HIDE DEF n
  <2>3. account = 1 /\ n = 2
    BY ONLY <2>2
  <2>4. Len(program.accounts) = 2
    BY <2>3 DEF n
  <2> QED
    BY <2>1, <2>3, <2>4, ProgramFacts DEF SwitchAccount, BrokerMoves
<1>1. ProgramInv'
  BY <1>0 DEF ProgramInv
<1>2. CallInv'
  <2>1. CallType' = CallType /\ (Busy' <=> Busy)
    BY <1>0 DEF CallType, BatchType, Names, Busy
  <2>2. ASSUME Busy
        PROVE  call.batch.account = program.accounts[1]
    BY <1>0, <2>2 DEF CallInv
  <2>3. \A i \in 1 .. account : i \in 1 .. account'
    BY <1>0
  <2> QED
    BY <1>0, <2>1, <2>2, <2>3 DEF CallInv
<1>3. GraphInv'
  <2>1. \A i \in 1 .. account : i \in 1 .. account'
    BY <1>0
  <2> QED
    BY <1>0, <2>1 DEF GraphInv
<1>4. BaselineInv'
  BY <1>0 DEF BaselineInv
<1>5. GraphSeen' /\ CallSeen'
  BY <1>0 DEF GraphSeen, CallSeen
<1>6. SamplesInv'
  <2>1. \A i \in 1 .. account : i \in 1 .. account'
    BY <1>0
  <2>2. SampleType' = SampleType
    BY <1>0 DEF SampleType, BatchType, Names
  <2> QED
    BY <1>0, <2>1, <2>2 DEF SamplesInv
<1>7. CallIsFor'
  BY <1>0 DEF CallIsFor, Busy, Last
<1>8. StandingInv'
  <2>1. samples # <<>> => graph.account = program.accounts[1]
    <3>1. samples # <<>> => 1 \in 1 .. Len(samples)
      BY DEF SamplesInv
    <3> QED
      BY <1>0, <3>1 DEF SamplesInv
  <2> QED
    BY <1>0, <2>1 DEF StandingInv
<1>9. OutcomeInv'
  BY <1>0, OutcomeStays DEF Later
<1> QED
  BY <1>0, <1>1, <1>2, <1>3, <1>4, <1>5, <1>6, <1>7, <1>8, <1>9


-----------------------------------------------------------------------------
(* Steps of a collection.                                                  *)

\* All but three parts of the invariant are about other variables than the collection.
LEMMA OnlyTheCall ==
    ASSUME LoopInv,
           UNCHANGED <<program, broker, account, graph, baseline, request, outcome,
                       samples, seen, stood>>,
           CallInv', CallSeen', CallIsFor', StandingInv'
    PROVE  LoopInv'
<1> USE DEF LoopInv
<1>1. ProgramInv' /\ BrokerSane(broker)' /\ BaselineInv' /\ GraphSeen'
  BY DEF ProgramInv, BaselineInv, GraphSeen
<1>2. GraphInv'
  BY DEF GraphInv
<1>3. SamplesInv'
  <2>1. SampleType' = SampleType
    BY DEF SampleType, BatchType, Names
  <2> QED
    BY <2>1 DEF SamplesInv
<1>4. OutcomeInv'
  BY OutcomeStays DEF Later
<1> QED
  BY <1>1, <1>2, <1>3, <1>4

\* A collection begins: nothing is read yet.
LEMMA BeginKeeps ==
    ASSUME LoopInv, program' = program, NEW scope \in ScopeType,
           NEW purpose \in {"poll", "cycle", "sample", "worker"}, Begin(scope, purpose),
           purpose = "sample" =>
              samples # <<>> /\ Len(samples) < program.samples /\ scope = Last.batch.scope,
           purpose = "worker" => request # NoRequest
    PROVE  LoopInv'
<1> USE DEF LoopInv
<1> DEFINE new == [todo |-> ReadOrder(scope), purpose |-> purpose,
                   batch |-> [account |-> program.accounts[account], scope |-> scope,
                              records |-> [d \in Domains |-> {}]]]
<1>0. /\ UNCHANGED <<program, broker, account, graph, baseline, request, outcome,
                     samples, seen, stood>>
      /\ call' = new /\ graph.rev < MaxRevision
  BY DEF Begin
<1>1. /\ new.todo = ReadOrder(scope) /\ new.purpose = purpose
      /\ new.batch.account = program.accounts[account]
      /\ new.batch.scope = scope /\ new.batch.records = [d \in Domains |-> {}]
  OBVIOUS
<1>2. new \in CallType
  BY AllIsToRead DEF CallType, BatchType, ProgramInv, Names
<1> HIDE DEF new
<1>3. call' \in CallType'
  BY <1>0, <1>2 DEF CallType, BatchType, Names
<1>4. \A d \in Domains : ReadOf(d)' = {} /\ ~ WasRead(d)'
  BY <1>0, <1>1, AllIsToRead DEF ReadOf, WasRead
<1>5. Snapshots \subseteq Domains /\ Histories \subseteq Domains
  BY DEF Domains
<1>6. CallInv'
  <2>1. call'.batch.account = program'.accounts[account'] /\ account' \in 1 .. account'
    BY <1>0, <1>1, ProgramFacts
  <2> QED
    BY <1>0, <1>3, <1>4, <2>1 DEF CallInv
<1>7. CallSeen'
  BY <1>4, <1>5 DEF CallSeen
<1>8. CallIsFor'
  BY <1>0, <1>1 DEF CallIsFor, Last
<1>9. StandingInv'
  <2>1. ASSUME NEW d \in Domains, IsOver(d)
        PROVE  IsOver(d)'
    BY <1>0, <1>4, <2>1 DEF IsOver, Last
  <2>2. samples # <<>> => Last.batch.scope.domains \subseteq Domains
    <3>1. samples # <<>> => Last \in SampleType
      BY DEF SamplesInv, Last
    <3> QED
      BY <3>1 DEF SampleType, BatchType, ScopeType
  <2> QED
    BY <1>0, <2>1, <2>2 DEF StandingInv, Last
<1> QED
  BY <1>0, <1>6, <1>7, <1>8, <1>9, OnlyTheCall

\* A reply takes a domain from what is to be read.
LEMMA GotEffects ==
    ASSUME CallInv, Busy, call.todo # <<>>, NEW R \in SUBSET AnyRecord, Got(R)
    PROVE  /\ call' \in CallType
           /\ call'.purpose = call.purpose /\ call'.batch.scope = call.batch.scope
           /\ call'.batch.account = call.batch.account
           /\ Head(call.todo) \in Domains
           /\ \A d \in Domains :
                /\ ReadOf(d)' = IF d = Head(call.todo) THEN R ELSE ReadOf(d)
                /\ WasRead(d)' => d \in call.batch.scope.domains
                                  /\ (IF d = Head(call.todo) THEN Usable(R) ELSE WasRead(d))
<1> DEFINE h == Head(call.todo)
           new == [call EXCEPT !.todo = Tail(@), !.batch.records[h] = R]
<1>0. call' = new
  BY DEF Got
<1>1. /\ call \in CallType /\ call.todo \in Seq(Domains) /\ call.batch \in BatchType
      /\ call.batch.records \in [Domains -> SUBSET AnyRecord]
  BY BusyCall DEF CallInv
<1>2. h \in Domains /\ Tail(call.todo) \in Seq(Domains)
      /\ Unread(call.todo) \subseteq Unread(Tail(call.todo)) \cup {h}
  BY <1>1, UnreadTail
<1> HIDE DEF h
<1>3. /\ new.todo = Tail(call.todo) /\ new.purpose = call.purpose
      /\ new.batch.scope = call.batch.scope /\ new.batch.account = call.batch.account
      /\ new.batch.records = [call.batch.records EXCEPT ![h] = R]
  BY <1>1 DEF CallType, BatchType
<1>4. new \in CallType
  <2>1. [call.batch.records EXCEPT ![h] = R] \in [Domains -> SUBSET AnyRecord]
    BY <1>1
  <2> QED
    BY <1>1, <1>2, <2>1 DEF CallType, BatchType
<1> HIDE DEF new
<1>5. ASSUME NEW d \in Domains
      PROVE  /\ ReadOf(d)' = IF d = h THEN R ELSE ReadOf(d)
             /\ WasRead(d)' => d \in call.batch.scope.domains
                               /\ (IF d = h THEN Usable(R) ELSE WasRead(d))
  <2>1. ReadOf(d)' = IF d = h THEN R ELSE ReadOf(d)
    BY <1>0, <1>1, <1>3 DEF ReadOf
  <2> QED
    BY <1>0, <1>2, <1>3, <2>1 DEF WasRead
<1> QED
  BY <1>0, <1>2, <1>3, <1>4, <1>5 DEF h

\* What is read is what the view shows, or unusable.
LEMMA ReadKeeps ==
    ASSUME LoopInv, program' = program, Read \/ ReadUnusable
    PROVE  LoopInv'
<1> USE DEF LoopInv
<1> DEFINE h == Head(call.todo)
           scope == call.batch.scope
<1>0. /\ UNCHANGED <<program, broker, account, graph, baseline, request, outcome,
                     samples, seen, stood>>
      /\ Busy /\ call.todo # <<>> /\ call \in CallType
  <2>1. Busy /\ call.todo # <<>>
    <3>1. <<"positions">> # <<>>
      OBVIOUS
    <3> QED
      BY <3>1 DEF Read, ReadUnusable
  <2>2. call \in CallType
    BY <2>1 DEF CallInv
  <2>3. UNCHANGED <<broker, account, graph, baseline, request, outcome, samples, seen,
                    stood>>
    BY DEF Read, ReadUnusable
  <2> QED
    BY <2>1, <2>2, <2>3
<1>1. account \in 1 .. 2
  BY ProgramFacts
<1>2. h \in Domains
  BY <1>0, BusyCall, UnreadTail
<1>3. PICK R \in SUBSET AnyRecord :
         /\ Got(R)
         /\ \/ R = ViewIn(account, broker, h, scope)
            \/ h = "positions" /\ R = Junk(h) /\ ~ Usable(R)
  <2>1. CASE Read
    <3>1. ViewIn(account, broker, h, scope) \subseteq Records(account, h)
      BY <1>2, ViewInType
    <3>2. Records(account, h) \subseteq AnyRecord
      BY <1>1, <1>2 DEF AnyRecord, Records
    <3>3. Got(ViewIn(account, broker, h, scope))
      BY <2>1, ViewIs DEF Read
    <3> QED
      BY <3>1, <3>2, <3>3
  <2>2. CASE ReadUnusable
    <3>1. call.todo = <<"positions">> /\ Got({PositionRecord(0, 0)})
      BY <2>2 DEF ReadUnusable
    <3>2. h = "positions" /\ Junk(h) = {PositionRecord(0, 0)}
      BY <3>1 DEF Junk
    <3>3. ~ Usable(Junk(h))
      BY <3>2 DEF Usable, Tickets, PositionRecord
    <3>4. Junk(h) \subseteq AnyRecord
      BY <1>2 DEF AnyRecord
    <3> QED
      BY <3>1, <3>2, <3>3, <3>4
  <2> QED
    BY <2>1, <2>2
<1>4. /\ call' \in CallType
      /\ call'.purpose = call.purpose /\ call'.batch.scope = scope
      /\ call'.batch.account = call.batch.account
      /\ \A d \in Domains :
           /\ ReadOf(d)' = IF d = h THEN R ELSE ReadOf(d)
           /\ WasRead(d)' => d \in scope.domains /\ (IF d = h THEN Usable(R) ELSE WasRead(d))
  BY <1>0, <1>3, GotEffects
<1> HIDE DEF h, scope
<1>5. call' \in CallType' /\ call' # Idle
  BY <1>0, <1>4, BusyCall DEF CallType, BatchType, Names
<1>6. R \subseteq Records(account, h) \cup Junk(h)
  BY <1>2, <1>3, ViewInType
<1>7. Usable(R) => R = ViewIn(account, broker, h, scope)
  BY <1>3
<1>8. CallInv'
  <2> SUFFICES ASSUME call.batch.account = program.accounts[account], NEW d \in Domains
               PROVE  /\ ReadOf(d)' \subseteq Records(account, d) \cup Junk(d)
                      /\ account = 1 /\ d \in Histories => ReadOf(d)' \subseteq OwnIn(broker, d)
                      /\ WasRead(d)' =>
                            \/ ReadOf(d)' = ViewIn(account, broker, d, scope)
                            \/ account = 1 /\ Beyond(broker, d, ReadOf(d)', scope)
    BY <1>0, <1>4, <1>5 DEF CallInv
  <2>1. CASE d = h
    <3>1. account = 1 /\ h \in Histories => R \subseteq OwnIn(broker, h)
      BY <1>3, TheDomains DEF ViewIn, AllIn
    <3> QED
      BY <1>4, <1>6, <1>7, <2>1, <3>1
  <2>2. CASE d # h
    BY <1>0, <1>4, <2>2 DEF CallInv, scope
  <2> QED
    BY <2>1, <2>2
<1>9. CallSeen'
  <2> SUFFICES ASSUME account = 1
               PROVE  /\ \A d \in Snapshots : WasRead(d)' => Missed(broker, seen, d, ReadOf(d)')
                      /\ \A d \in Histories : WasRead(d)' => \A t \in seen[d] :
                            InWindow(DoneTime(t), scope.window[d]) => t \in Tickets(ReadOf(d)')
    BY <1>0, <1>4 DEF CallSeen
  <2>1. ASSUME NEW d \in Snapshots, WasRead(d)'
        PROVE  Missed(broker, seen, d, ReadOf(d)')
    <3>0. d \in Domains
      BY DEF Domains
    <3>1. CASE d = h
      <4>1. ReadOf(d)' = OwnIn(broker, d)
        BY <1>4, <1>7, <2>1, <3>0, <3>1 DEF ViewIn, AllIn
      <4> QED
        BY <4>1 DEF Missed
    <3>2. CASE d # h
      BY <1>0, <1>4, <2>1, <3>0, <3>2 DEF CallSeen
    <3> QED
      BY <3>1, <3>2
  <2>2. ASSUME NEW d \in Histories, WasRead(d)', NEW t \in seen[d],
               InWindow(DoneTime(t), scope.window[d])
        PROVE  t \in Tickets(ReadOf(d)')
    <3>0. d \in Domains
      BY DEF Domains
    <3>1. CASE d = h
      <4>1. ReadOf(d)' = ViewIn(1, broker, d, scope) /\ d \in scope.domains
        BY <1>4, <1>7, <2>2, <3>0, <3>1
      <4>2. SeenHappened(broker, d, t)
        BY <3>0 DEF BaselineInv
      <4> QED
        BY <2>2, <4>1, <4>2, HistoryIsRead
    <3>2. CASE d # h
      BY <1>0, <1>4, <2>2, <3>0, <3>2 DEF CallSeen, scope
    <3> QED
      BY <3>1, <3>2
  <2> QED
    BY <2>1, <2>2
<1>10. CallIsFor'
  BY <1>0, <1>4 DEF CallIsFor, Last, scope
<1>11. StandingInv'
  <2> SUFFICES ASSUME samples # <<>>, ~ stood, account = 1, Len(samples) < program.samples
               PROVE  \E d \in Last.batch.scope.domains : IsOver(d)'
    BY <1>0 DEF StandingInv, Last
  <2>1. PICK d \in Last.batch.scope.domains : IsOver(d)
    BY DEF StandingInv
  <2>2. Len(samples) \in 1 .. Len(samples) /\ Last \in SampleType
    BY DEF SamplesInv, Last
  <2>3. d \in Domains
    BY <2>1, <2>2 DEF SampleType, BatchType, ScopeType
  <2>4. Last.batch.records[d] \in SUBSET OwnRecords(d)
    BY <2>2, <2>3 DEF SamplesInv, Last, Records
  <2>5. Beyond(broker, d, Last.batch.records[d], Last.batch.scope)
    BY <2>1 DEF IsOver
  <2>6. ASSUME call.purpose = "sample", WasRead(d)'
        PROVE  ReadOf(d)' # Last.batch.records[d]
    <3>1. CASE d = h
      <4>1. ReadOf(d)' = ViewIn(1, broker, d, scope)
        BY <1>4, <1>7, <2>3, <2>6, <3>1
      <4>2. scope = Last.batch.scope
        BY <1>0, <2>6 DEF CallIsFor, scope
      <4> QED
        BY <2>1, <2>3, <2>4, <2>5, <4>1, <4>2, BeyondDiffers
    <3>2. CASE d # h
      BY <1>0, <1>4, <2>1, <2>3, <2>6, <3>2 DEF IsOver
    <3> QED
      BY <3>1, <3>2
  <2>7. IsOver(d)'
    BY <1>0, <1>4, <2>5, <2>6 DEF IsOver, Last
  <2> QED
    BY <2>1, <2>7
<1> QED
  BY <1>0, <1>8, <1>9, <1>10, <1>11, OnlyTheCall

\* A collection across two accounts leaves no trace.
LEMMA AbandonKeeps ==
    ASSUME LoopInv, program' = program, Abandon
    PROVE  LoopInv'
<1>0. /\ UNCHANGED <<program, broker, account, graph, baseline, request, outcome,
                     samples, seen, stood>>
      /\ call' = Idle /\ ~ Busy'
  BY DEF Abandon, Busy
<1>1. CallInv' /\ CallSeen' /\ CallIsFor'
  BY <1>0 DEF CallInv, CallSeen, CallIsFor
<1>2. StandingInv'
  <2>1. \A d : IsOver(d) => IsOver(d)'
    BY <1>0 DEF IsOver, Last
  <2> QED
    BY <1>0, <2>1 DEF StandingInv, Last, LoopInv
<1> QED
  BY <1>0, <1>1, <1>2, OnlyTheCall


-----------------------------------------------------------------------------
(* The graph admits a batch.                                               *)

\* A batch that the graph accepts holds, domain by domain, what the views of its
\* account showed.
LEMMA AcceptedBatch ==
    ASSUME LoopInv, Complete, SameAccount, Accepted
    PROVE  /\ call.batch \in BatchType /\ ValidBatch(call.batch)
           /\ call.batch.account # NoAccount
           /\ call.batch.account = program.accounts[account]
           /\ graph.account \in {NoAccount, call.batch.account}
           /\ \A d \in Domains \ call.batch.scope.domains : ReadOf(d) = {}
           /\ \A d \in call.batch.scope.domains \cap Domains : WasRead(d)
           /\ \A d \in Domains :
                /\ ReadOf(d) \subseteq Records(account, d)
                /\ d \in Histories => ReadOf(d) \subseteq AllIn(account, broker, d)
           /\ graph.rev < MaxRevision
<1> USE DEF LoopInv
<1>1. /\ Busy /\ call.todo = <<>> /\ call \in CallType
      /\ call.batch \in BatchType
      /\ call.batch.account = program.accounts[account]
      /\ graph.rev < MaxRevision
  BY BusyCall DEF Complete, SameAccount, CallInv
<1>2. /\ call.batch.account # NoAccount /\ graph.account \in {NoAccount, call.batch.account}
      /\ ValidBatch(call.batch)
  BY DEF Accepted, ApplyStatus
<1>3. \A d \in Domains \ call.batch.scope.domains : ReadOf(d) = {}
  BY <1>2 DEF ValidBatch, ReadOf
<1>4. ASSUME NEW d \in call.batch.scope.domains
      PROVE  WasRead(d)
  <2>1. Unread(call.todo) = {}
    BY <1>1 DEF Unread
  <2>2. Usable(ReadOf(d))
    BY <1>2 DEF ValidBatch, ReadOf, Usable
  <2> QED
    BY <2>1, <2>2 DEF WasRead
<1>5. ASSUME NEW d \in Domains
      PROVE  ReadOf(d) \subseteq Records(account, d)
  <2>1. CASE d \in call.batch.scope.domains
    <3>1. Usable(ReadOf(d))
      BY <1>4, <2>1 DEF WasRead
    <3> QED
      BY <1>1, <3>1, UsableIsOwn DEF CallInv
  <2>2. CASE d \notin call.batch.scope.domains
    BY <1>3, <2>2
  <2> QED
    BY <2>1, <2>2
<1>6. ASSUME NEW d \in Histories
      PROVE  ReadOf(d) \subseteq AllIn(account, broker, d)
  <2>1. d \in Domains
    BY DEF Domains
  <2> QED
    BY <1>1, <1>5, <2>1 DEF CallInv, AllIn, Records
<1> QED
  BY <1>1, <1>2, <1>3, <1>4, <1>5, <1>6

\* What a batch that is accepted leaves in the graph.
LEMMA Applied ==
    ASSUME NEW g, NEW b, ApplyStatus(g, b) = "accepted",
           NEW h, h = Apply(g, b)
    PROVE  /\ h.account = b.account /\ h.rev = g.rev + 1
           /\ \A d \in Snapshots : h.records[d] =
                IF d \in b.scope.domains THEN b.records[d] ELSE g.records[d]
           /\ \A d \in Histories : h.records[d] =
                IF d \in b.scope.domains THEN Evidence(g.records[d], b.records[d], g.rev + 1)
                                         ELSE g.records[d]
           /\ h.domainRev = [d \in Domains |->
                IF d \in b.scope.domains THEN g.rev + 1 ELSE g.domainRev[d]]
           /\ h.coverage = [d \in Histories |->
                IF d \in b.scope.domains
                THEN g.coverage[d] \cup {[window |-> b.scope.window[d], rev |-> g.rev + 1]}
                ELSE g.coverage[d]]
  BY TheDomains DEF Apply

\* The evidence of a history after a read: what was read, and the rest as it was.
LEMMA EvidenceIs ==
    ASSUME NEW old, NEW read, NEW rev
    PROVE  /\ \A r \in Evidence(old, read, rev) :
                r \in old \/ \E q \in read : r = Confirmed(q, rev)
           /\ \A r \in old : r.ticket \in Tickets(read) \/ r \in Evidence(old, read, rev)
           /\ \A q \in read : Confirmed(q, rev) \in Evidence(old, read, rev)
  BY DEF Evidence

\* The graph remains one of its account.
LEMMA GraphAdmits ==
    ASSUME LoopInv, Complete, SameAccount, graph' = Apply(graph, call.batch),
           UNCHANGED <<program, broker, account>>
    PROVE  GraphInv'
<1> USE DEF LoopInv
<1>1. CASE ~ Accepted
  <2>1. graph' = graph
    BY <1>1 DEF Apply, Accepted
  <2> QED
    BY <2>1 DEF GraphInv
<1>2. CASE Accepted
  <2> DEFINE b == call.batch
             rev == graph.rev + 1
  <2>1. /\ b \in BatchType /\ b.account # NoAccount /\ b.account = program.accounts[account]
        /\ graph.account \in {NoAccount, b.account} /\ graph.rev < MaxRevision
        /\ ValidBatch(b)
        /\ \A d \in Domains :
             /\ b.records[d] \subseteq Records(account, d)
             /\ d \in Histories => b.records[d] \subseteq AllIn(account, broker, d)
    BY <1>2, AcceptedBatch DEF ReadOf
  <2>2. /\ graph'.account = b.account /\ graph'.rev = rev
        /\ \A d \in Snapshots : graph'.records[d] =
             IF d \in b.scope.domains THEN b.records[d] ELSE graph.records[d]
        /\ \A d \in Histories : graph'.records[d] =
             IF d \in b.scope.domains THEN Evidence(graph.records[d], b.records[d], rev)
                                      ELSE graph.records[d]
        /\ graph'.domainRev = [d \in Domains |->
             IF d \in b.scope.domains THEN rev ELSE graph.domainRev[d]]
        /\ graph'.coverage = [d \in Histories |->
             IF d \in b.scope.domains
             THEN graph.coverage[d] \cup {[window |-> b.scope.window[d], rev |-> rev]}
             ELSE graph.coverage[d]]
    BY <1>2, Applied DEF Accepted
  <2>3. /\ graph.rev \in Nat /\ MaxRevision \in Nat /\ graph.rev \in 0 .. MaxRevision
        /\ rev \in 1 .. MaxRevision /\ rev \in Nat
        /\ graph.domainRev \in [Domains -> 0 .. graph.rev]
        /\ graph.coverage \in [Histories -> SUBSET [window: WindowType, rev: Nat]]
        /\ Snapshots \subseteq Domains /\ Histories \subseteq Domains
    BY <2>1, LoopAssumption DEF GraphInv, Domains
  <2>4. /\ account \in 1 .. account /\ b.scope.window \in [Histories -> WindowType]
    BY <2>1, ProgramFacts DEF BatchType, ScopeType, WindowType
  <2> HIDE DEF b, rev
  <2>5. graph'.domainRev \in [Domains -> 0 .. graph'.rev]
    <3>1. rev = graph.rev + 1
      BY DEF rev
    <3>2. \A n \in 0 .. graph.rev : n \in 0 .. rev
      BY <2>3, <3>1
    <3>3. rev \in 0 .. rev
      BY <2>3
    <3> QED
      BY <2>2, <2>3, <3>2, <3>3
  <2>6. graph'.coverage \in [Histories -> SUBSET [window: WindowType, rev: Nat]]
    BY <2>2, <2>3, <2>4
  <2>7. ASSUME NEW d \in Histories
        PROVE  /\ IsFiniteSet(graph'.coverage[d])
               /\ \A c \in graph'.coverage[d] :
                     c.rev \in 1 .. graph'.domainRev[d] /\ ValidWindow(c.window)
    <3>1. IsFiniteSet(graph.coverage[d])
          /\ \A c \in graph.coverage[d] :
                c.rev \in 1 .. graph.domainRev[d] /\ ValidWindow(c.window)
      BY DEF GraphInv
    <3>2. CASE d \in b.scope.domains
      <4> DEFINE new == [window |-> b.scope.window[d], rev |-> rev]
      <4>1. graph'.coverage[d] = graph.coverage[d] \cup {new} /\ graph'.domainRev[d] = rev
        BY <2>2, <2>3, <3>2
      <4>2. new.rev = rev /\ ValidWindow(new.window)
        BY <2>1, <3>2 DEF ValidBatch
      <4> HIDE DEF new
      <4>3. IsFiniteSet(graph'.coverage[d])
        BY <3>1, <4>1, FS_AddElement
      <4>4. graph.domainRev[d] \in 0 .. graph.rev /\ rev = graph.rev + 1
        BY <2>3 DEF rev
      <4>5. \A n \in 1 .. graph.domainRev[d] : n \in 1 .. rev
        BY <2>3, <4>4
      <4> QED
        BY <2>3, <3>1, <4>1, <4>2, <4>3, <4>5
    <3>3. CASE d \notin b.scope.domains
      BY <2>2, <2>3, <3>1, <3>3
    <3> QED
      BY <3>2, <3>3
  <2>8. \A d \in Domains : graph.account = NoAccount => graph.records[d] = {}
    BY DEF GraphInv
  <2>9. ASSUME graph.account # NoAccount
        PROVE  /\ \A d \in Snapshots : graph.records[d] \subseteq Records(account, d)
               /\ \A d \in Histories : \A r \in graph.records[d] :
                     \E q \in AllIn(account, broker, d), v \in 1 .. graph.rev : r = Confirmed(q, v)
    <3>1. PICK i \in 1 .. account :
            /\ graph.account = program.accounts[i]
            /\ \A d \in Snapshots : graph.records[d] \subseteq Records(i, d)
            /\ \A d \in Histories : \A r \in graph.records[d] :
                  \E q \in AllIn(i, broker, d), v \in 1 .. graph.rev : r = Confirmed(q, v)
      BY <2>9 DEF GraphInv
    <3>2. program.accounts[i] = program.accounts[account]
      BY <2>1, <2>9, <3>1
    <3>3. i = account
      BY <3>1, <3>2, ProgramFacts
    <3> QED
      BY <3>1, <3>3
  <2>10. \A d \in Snapshots : graph'.records[d] \subseteq Records(account, d)
    BY <2>1, <2>2, <2>3, <2>8, <2>9
  <2>11. ASSUME NEW d \in Histories, NEW r \in graph'.records[d]
         PROVE  \E q \in AllIn(account, broker, d), v \in 1 .. rev : r = Confirmed(q, v)
    <3>1. CASE r \in graph.records[d]
      <4>1. PICK q \in AllIn(account, broker, d), v \in 1 .. graph.rev : r = Confirmed(q, v)
        BY <2>3, <2>8, <2>9, <3>1
      <4>2. v \in 1 .. rev
        BY <2>3 DEF rev
      <4> QED
        BY <4>1, <4>2
    <3>2. CASE \E q \in b.records[d] : r = Confirmed(q, rev)
      <4>1. rev \in 1 .. rev
        BY <2>3
      <4> QED
        BY <2>1, <2>3, <3>2, <4>1
    <3> QED
      BY <2>2, <3>1, <3>2, EvidenceIs
  <2>12. \E i \in 1 .. account' :
            /\ graph'.account = program'.accounts[i]
            /\ \A d \in Snapshots : graph'.records[d] \subseteq Records(i, d)
            /\ \A d \in Histories : \A r \in graph'.records[d] :
                  \E q \in AllIn(i, broker', d), v \in 1 .. graph'.rev : r = Confirmed(q, v)
    <3>1. \A d \in Histories : \A r \in graph'.records[d] :
             \E q \in AllIn(account, broker', d), v \in 1 .. graph'.rev : r = Confirmed(q, v)
      BY <2>2, <2>11
    <3>2. account \in 1 .. account' /\ graph'.account = program'.accounts[account]
      BY <2>1, <2>2, <2>4
    <3> QED
      BY <2>10, <3>1, <3>2
  <2>13. graph'.rev \in 0 .. MaxRevision /\ graph'.account # NoAccount
    BY <2>1, <2>2, <2>3
  <2> QED
    BY <2>5, <2>6, <2>7, <2>12, <2>13 DEF GraphInv
<1> QED
  BY <1>1, <1>2

\* What was seen at the baseline is still told by the graph.
LEMMA GraphStillTells ==
    ASSUME LoopInv, Complete, SameAccount, graph' = Apply(graph, call.batch),
           UNCHANGED <<program, broker, account, baseline, seen>>
    PROVE  GraphSeen'
<1> USE DEF LoopInv
<1>1. CASE ~ Accepted
  <2>1. graph' = graph
    BY <1>1 DEF Apply, Accepted
  <2> QED
    BY <2>1 DEF GraphSeen
<1>2. CASE Accepted
  <2> DEFINE b == call.batch
             rev == graph.rev + 1
  <2>1. /\ b \in BatchType /\ b.account # NoAccount /\ b.account = program.accounts[account]
        /\ graph.account \in {NoAccount, b.account} /\ graph.rev < MaxRevision
        /\ \A d \in b.scope.domains \cap Domains : WasRead(d)
        /\ \A d \in Domains : b.records[d] = ReadOf(d) /\ b.records[d] \subseteq Records(account, d)
    BY <1>2, AcceptedBatch DEF ReadOf
  <2>2. /\ graph'.account = b.account /\ graph'.rev = rev
        /\ \A d \in Snapshots : graph'.records[d] =
             IF d \in b.scope.domains THEN b.records[d] ELSE graph.records[d]
        /\ \A d \in Histories : graph'.records[d] =
             IF d \in b.scope.domains THEN Evidence(graph.records[d], b.records[d], rev)
                                      ELSE graph.records[d]
        /\ graph'.domainRev = [d \in Domains |->
             IF d \in b.scope.domains THEN rev ELSE graph.domainRev[d]]
        /\ graph'.coverage = [d \in Histories |->
             IF d \in b.scope.domains
             THEN graph.coverage[d] \cup {[window |-> b.scope.window[d], rev |-> rev]}
             ELSE graph.coverage[d]]
    BY <1>2, Applied DEF Accepted
  <2>3. /\ graph.rev \in Nat /\ rev \in Nat
        /\ graph.domainRev \in [Domains -> 0 .. graph.rev]
        /\ Snapshots \subseteq Domains /\ Histories \subseteq Domains
        /\ Busy
    BY DEF GraphInv, Domains, Complete
  <2>4. ASSUME NEW d \in Domains, seen[d] # {}
        PROVE  account = 1
    <3>1. graph.account = program.accounts[1] /\ graph.account # NoAccount
      BY <2>4 DEF BaselineInv
    <3>2. program.accounts[account] = program.accounts[1]
      BY <2>1, <3>1
    <3> QED
      BY <3>2, ProgramFacts
  <2> HIDE DEF b, rev
  <2>5. ASSUME NEW d \in Snapshots, graph'.domainRev[d] > baseline.domainRev[d]
        PROVE  Missed(broker, seen, d, graph'.records[d])
    <3>1. CASE seen[d] = {}
      BY <3>1 DEF Missed
    <3>2. CASE seen[d] # {} /\ d \in b.scope.domains
      <4>1. account = 1 /\ WasRead(d)
        BY <2>1, <2>3, <2>4, <3>2
      <4>2. Missed(broker, seen, d, ReadOf(d))
        BY <2>3, <4>1 DEF CallSeen
      <4> QED
        BY <2>1, <2>2, <2>3, <3>2, <4>2
    <3>3. CASE d \notin b.scope.domains
      BY <2>2, <2>3, <2>5, <3>3 DEF GraphSeen
    <3> QED
      BY <3>1, <3>2, <3>3
  <2>6. ASSUME NEW d \in Histories, NEW c \in graph'.coverage[d], NEW t \in seen[d],
               c.rev > baseline.domainRev[d], InWindow(DoneTime(t), c.window)
        PROVE  \E r \in graph'.records[d] :
                  r.ticket = t /\ r.time = DoneTime(t) /\ r.rev >= c.rev
    <3>0. account = 1 /\ d \in Domains
      BY <2>3, <2>4, <2>6
    <3>1. CASE d \notin b.scope.domains
      BY <2>2, <2>6, <3>1 DEF GraphSeen
    <3>2. CASE d \in b.scope.domains
      <4>1. \/ c \in graph.coverage[d]
            \/ c.window = b.scope.window[d] /\ c.rev = rev
        BY <2>2, <2>6, <3>2
      <4>2. graph'.records[d] = Evidence(graph.records[d], b.records[d], rev)
        BY <2>2, <3>2
      <4>3. c.rev \in Nat /\ c.rev <= rev
        <5>1. CASE c \in graph.coverage[d]
          <6>1. c.rev \in 1 .. graph.domainRev[d] /\ graph.domainRev[d] \in 0 .. graph.rev
            BY <2>3, <3>0, <5>1 DEF GraphInv
          <6> QED
            BY <2>3, <6>1 DEF rev
        <5>2. CASE c.rev = rev
          BY <2>3, <5>2
        <5> QED
          BY <4>1, <5>1, <5>2
      <4>4. ASSUME t \in Tickets(b.records[d])
            PROVE  \E r \in graph'.records[d] :
                      r.ticket = t /\ r.time = DoneTime(t) /\ r.rev >= c.rev
        <5>1. PICK q \in b.records[d] : q.ticket = t
          BY <4>4 DEF Tickets
        <5>2. q \in Records(1, d)
          BY <2>1, <3>0, <5>1
        <5>3. "ticket" \in DOMAIN q /\ "time" \in DOMAIN q /\ q.time = DoneTime(t)
          BY <3>0, <5>1, <5>2, RecordFields
        <5>4. Confirmed(q, rev) \in graph'.records[d]
          BY <4>2, <5>1, EvidenceIs
        <5>5. /\ Confirmed(q, rev).ticket = t /\ Confirmed(q, rev).time = DoneTime(t)
              /\ Confirmed(q, rev).rev = rev
          BY <5>1, <5>3, ConfirmedFields
        <5>6. rev >= c.rev
          BY <2>3, <4>3
        <5> QED
          BY <5>4, <5>5, <5>6
      <4>5. CASE c.window = b.scope.window[d] /\ c.rev = rev
        <5>1. InWindow(DoneTime(t), call.batch.scope.window[d])
          BY <2>6, <4>5 DEF b
        <5>2. WasRead(d)
          BY <2>1, <3>0, <3>2
        <5>3. t \in Tickets(ReadOf(d))
          BY <2>3, <2>6, <3>0, <5>1, <5>2 DEF CallSeen
        <5> QED
          BY <2>1, <3>0, <4>4, <5>3
      <4>6. CASE c \in graph.coverage[d]
        <5>1. PICK r \in graph.records[d] :
                 r.ticket = t /\ r.time = DoneTime(t) /\ r.rev >= c.rev
          BY <2>6, <4>6 DEF GraphSeen
        <5>2. CASE r \in graph'.records[d]
          BY <5>1, <5>2
        <5>3. CASE r.ticket \in Tickets(b.records[d])
          BY <4>4, <5>1, <5>3
        <5> QED
          BY <4>2, <5>1, <5>2, <5>3, EvidenceIs
      <4> QED
        BY <4>1, <4>5, <4>6
    <3> QED
      BY <3>1, <3>2
  <2> QED
    BY <2>5, <2>6 DEF GraphSeen
<1> QED
  BY <1>1, <1>2


\* The parts of the invariant that an admission does not depend on what for.
LEMMA AdmitKeeps ==
    ASSUME LoopInv, program' = program, NEW purpose, Admit(purpose)
    PROVE  /\ ProgramInv' /\ BrokerSane(broker)' /\ CallInv' /\ GraphInv'
           /\ GraphSeen' /\ CallSeen' /\ CallIsFor'
           /\ (outcome' = outcome \/ request # NoRequest => BaselineInv')
           /\ ~ Busy'
           /\ graph.account # NoAccount => graph'.account = graph.account
<1> USE DEF LoopInv
<1>0. /\ Complete /\ SameAccount /\ call' = Idle /\ graph' = Apply(graph, call.batch)
      /\ UNCHANGED <<program, broker, account, baseline, request, seen>>
      /\ ~ Busy'
  BY DEF Admit, Busy
<1>1. ProgramInv' /\ BrokerSane(broker)' /\ CallInv' /\ CallSeen' /\ CallIsFor'
  BY <1>0 DEF ProgramInv, CallInv, CallSeen, CallIsFor
<1>2. GraphInv' /\ GraphSeen'
  BY <1>0, GraphAdmits, GraphStillTells
<1>3. /\ graph.account # NoAccount => graph'.account = graph.account
      /\ graph'.rev = graph.rev \/ graph'.rev = graph.rev + 1
  <2>1. CASE Accepted
    <3>0. ApplyStatus(graph, call.batch) = "accepted" /\ graph' = Apply(graph, call.batch)
      BY <1>0, <2>1 DEF Accepted
    <3>1. graph'.account = call.batch.account /\ graph'.rev = graph.rev + 1
      BY <3>0 DEF Apply
    <3>2. graph.account \in {NoAccount, call.batch.account}
      BY <2>1 DEF Accepted, ApplyStatus
    <3> QED
      BY <3>1, <3>2
  <2>2. CASE ~ Accepted
    BY <1>0, <2>2 DEF Accepted, Apply
  <2> QED
    BY <2>1, <2>2
<1>4. ASSUME outcome' = outcome \/ request # NoRequest
      PROVE  BaselineInv'
  <2>1. baseline.rev \in 0 .. graph'.rev
    <3>1. baseline.rev \in 0 .. graph.rev /\ graph.rev \in Nat
      BY DEF BaselineInv, GraphInv
    <3> QED
      BY <1>3, <3>1
  <2> QED
    BY <1>0, <1>3, <1>4, <2>1 DEF BaselineInv
<1> QED
  BY <1>0, <1>1, <1>2, <1>3, <1>4

\* An admission that leaves the samples alone.
LEMMA SamplesStay ==
    ASSUME LoopInv, program' = program, NEW purpose, Admit(purpose),
           UNCHANGED <<samples, stood>>
    PROVE  SamplesInv' /\ StandingInv'
<1> USE DEF LoopInv
<1>0. /\ UNCHANGED <<program, broker, account>> /\ ~ Busy'
      /\ samples # <<>> => graph.account # NoAccount /\ graph'.account = graph.account
  BY AdmitKeeps DEF Admit, SamplesInv
<1>1. SamplesInv'
  <2>1. SampleType' = SampleType
    BY <1>0 DEF SampleType, BatchType, Names
  <2>2. CASE samples = <<>>
    BY <1>0, <2>1, <2>2 DEF SamplesInv
  <2>3. CASE samples # <<>>
    BY <1>0, <2>1, <2>3 DEF SamplesInv
  <2> QED
    BY <2>2, <2>3
<1>2. StandingInv'
  <2>1. \A d : IsOver(d) => IsOver(d)'
    BY <1>0 DEF IsOver, Last
  <2> QED
    BY <1>0, <2>1 DEF StandingInv, Last
<1> QED
  BY <1>1, <1>2

\* A refresh for its own sake: the samples stay what they are.
LEMMA PolledKeeps ==
    ASSUME LoopInv, program' = program, Polled
    PROVE  LoopInv'
<1>1. Admit("poll") /\ UNCHANGED <<samples, outcome, stood>>
  BY DEF Polled
<1>2. OutcomeInv'
  BY <1>1, OutcomeStays DEF Admit, Later
<1> QED
  BY <1>1, <1>2, AdmitKeeps, SamplesStay DEF LoopInv

\* A sample that the views do not show any more when it is complete has read one
\* that is over.
LEMMA NewSample ==
    ASSUME LoopInv, program' = program, Complete, SameAccount, Accepted,
           UNCHANGED <<broker, account>>,
           samples' # <<>>, samples'[Len(samples')].batch = call.batch, ~ Stands'
    PROVE  account = 1 /\ \E d \in call.batch.scope.domains \cap Domains :
                            Beyond(broker, d, call.batch.records[d], call.batch.scope)
<1> USE DEF LoopInv
<1> DEFINE b == call.batch
           now == [account |-> program.accounts[account], scope |-> b.scope,
                   records |-> [d \in Domains |-> ViewIn(account, broker, d, b.scope)]]
<1>1. Signature(now) # Signature(b)
  <2> DEFINE last == samples'[Len(samples')]
  <2>1. last.batch = b
    OBVIOUS
  <2>2. \A d \in Domains : OwnView(d)' = OwnIn(broker, d)
    BY OwnViewIs
  <2> DEFINE AllOf(d) == IF account' = 1 THEN OwnView(d)' ELSE ForeignView(d)
             ViewOf(d) == IF d \notin last.batch.scope.domains THEN {}
                          ELSE IF d \in Snapshots THEN AllOf(d)
                          ELSE {r \in AllOf(d) : InWindow(r.time, last.batch.scope.window[d])}
  <2>3. Stands' <=>
          Signature([account |-> program'.accounts[account'], scope |-> last.batch.scope,
                     records |-> [d \in Domains |-> ViewOf(d)]])
          = Signature(last.batch)
    BY DEF Stands, Last, Instant, View
  <2>4. \A d \in Domains : ViewOf(d) = ViewIn(account, broker, d, last.batch.scope)
    BY <2>2 DEF ViewIn, AllIn
  <2> HIDE DEF b, last, ViewOf
  <2>5. [d \in Domains |-> ViewOf(d)] =
           [d \in Domains |-> ViewIn(account, broker, d, last.batch.scope)]
    BY <2>4
  <2> QED
    BY <2>1, <2>3, <2>5
<1>2. /\ b.records \in [Domains -> SUBSET AnyRecord]
      /\ \A d \in Domains \ b.scope.domains : b.records[d] = {}
      /\ \A d \in b.scope.domains \cap Domains :
            \/ b.records[d] = ViewIn(account, broker, d, b.scope)
            \/ account = 1 /\ Beyond(broker, d, b.records[d], b.scope)
  <2>1. /\ b \in BatchType
        /\ \A d \in Domains \ b.scope.domains : b.records[d] = {}
        /\ \A d \in b.scope.domains \cap Domains : WasRead(d)
    BY AcceptedBatch DEF ReadOf
  <2> QED
    BY <2>1 DEF BatchType, CallInv, Complete, SameAccount, ReadOf
<1>3. now.records = [d \in Domains |-> ViewIn(account, broker, d, b.scope)]
  OBVIOUS
<1> HIDE DEF b, now
<1>4. account = 1
  <2> SUFFICES ASSUME account # 1
               PROVE  FALSE
    OBVIOUS
  <2>1. b.records = now.records
    BY <1>2, <1>3 DEF ViewIn
  <2> QED
    BY <1>1, <2>1 DEF Signature
<1>5. \E d \in b.scope.domains \cap Domains : Beyond(broker, d, b.records[d], b.scope)
  <2>1. /\ now.records = [d \in Domains |-> ViewIn(1, broker, d, b.scope)]
        /\ \A d \in b.scope.domains \cap Domains :
              \/ b.records[d] = ViewIn(1, broker, d, b.scope)
              \/ Beyond(broker, d, b.records[d], b.scope)
    BY <1>2, <1>3, <1>4
  <2> QED
    BY ONLY <1>1, <1>2, <2>1, NotStanding
<1> QED
  BY <1>4, <1>5 DEF b

\* The next sample differs from the last one, unless that one has stood.
LEMMA NextSampleDiffers ==
    ASSUME LoopInv, Complete, SameAccount, Accepted, call.purpose = "sample", ~ stood
    PROVE  Signature(Last.batch) # Signature(call.batch)
<1> USE DEF LoopInv
<1>1. /\ samples # <<>> /\ Len(samples) < program.samples /\ Busy
      /\ call.batch.scope = Last.batch.scope
  BY DEF CallIsFor, Complete
<1>2. Len(samples) \in 1 .. Len(samples) /\ Last \in SampleType
  BY <1>1 DEF SamplesInv, Last
<1>3. /\ graph.account = program.accounts[1]
      /\ graph.account \in {NoAccount, program.accounts[account]}
      /\ graph.account # NoAccount
  BY <1>1, AcceptedBatch DEF StandingInv, SamplesInv
<1>4. account = 1
  BY <1>3, ProgramFacts
<1>5. PICK d \in Last.batch.scope.domains : IsOver(d)
  BY <1>1, <1>4 DEF StandingInv
<1>6. d \in Domains
  BY <1>2, <1>5 DEF SampleType, BatchType, ScopeType
<1>7. WasRead(d) /\ ReadOf(d) \subseteq Records(1, d)
  BY <1>1, <1>4, <1>5, <1>6, AcceptedBatch
<1>8. ReadOf(d) # Last.batch.records[d]
  BY <1>1, <1>5, <1>7 DEF IsOver
<1>9. Last.batch.records[d] \subseteq Records(1, d)
  BY <1>2, <1>4, <1>6 DEF SamplesInv, Last
<1> QED
  BY <1>6, <1>7, <1>8, <1>9, SignatureTells DEF ReadOf


\* The next sample of a cycle.
LEMMA SampledKeeps ==
    ASSUME LoopInv, program' = program, Sampled
    PROVE  LoopInv'
<1> USE DEF LoopInv
<1> DEFINE new == [batch |-> call.batch, rev |-> graph'.rev, stood |-> stood]
           n == Len(samples)
<1>0. /\ Admit("sample") /\ outcome' = outcome
      /\ UNCHANGED <<program, broker, account, request, seen>>
      /\ Complete /\ SameAccount /\ call.purpose = "sample"
      /\ graph' = Apply(graph, call.batch)
  BY DEF Sampled, Admit
<1>1. OutcomeInv'
  BY <1>0, OutcomeStays DEF Later
<1>2. CASE ~ Accepted
  <2>1. UNCHANGED <<samples, stood>>
    BY <1>2 DEF Sampled
  <2> QED
    BY <1>0, <1>1, <2>1, AdmitKeeps, SamplesStay
<1>3. CASE Accepted
  <2>0. samples' = Append(samples, new) /\ stood' = Stands'
    BY <1>3 DEF Sampled
  <2>1. /\ call.batch \in BatchType /\ call.batch.account = graph'.account
        /\ graph'.account # NoAccount
        /\ call.batch.account = program.accounts[account]
        /\ \A d \in Domains : call.batch.records[d] \subseteq Records(account, d)
        /\ graph'.rev \in Nat
    <3>1. graph'.account = call.batch.account
      BY <1>0, <1>3 DEF Accepted, Apply
    <3>2. graph'.rev \in Nat
      BY <1>0, AdmitKeeps DEF GraphInv
    <3> QED
      BY <1>0, <1>3, <3>1, <3>2, AcceptedBatch DEF ReadOf
  <2>2. /\ samples # <<>> /\ n < program.samples /\ n \in Nat /\ n >= 1
        /\ graph'.account = graph.account
    BY <1>0, AdmitKeeps DEF CallIsFor, Complete, SamplesInv
  <2>3. new \in SampleType /\ new.batch = call.batch /\ new.stood = stood
    BY <2>1 DEF SamplesInv, SampleType
  <2> HIDE DEF new, n
  <2>4. /\ samples' \in Seq(SampleType) /\ Len(samples') = n + 1
        /\ \A k \in 1 .. n : samples'[k] = samples[k]
        /\ samples'[n + 1] = new /\ samples' # <<>>
    BY <2>0, <2>2, <2>3 DEF SamplesInv, n
  <2>5. ~ stood => Signature(samples[n].batch) # Signature(call.batch)
    BY <1>0, <1>3, NextSampleDiffers DEF Last, n
  <2>6. SamplesInv'
    <3>1. SampleType' = SampleType
      BY <1>0 DEF SampleType, BatchType, Names
    <3>2. ASSUME NEW k \in 1 .. Len(samples')
          PROVE  /\ samples'[k].batch.account = graph'.account
                 /\ \E i \in 1 .. account' :
                       /\ graph'.account = program'.accounts[i]
                       /\ \A d \in Domains : samples'[k].batch.records[d] \subseteq Records(i, d)
      <4>1. CASE k = n + 1
        <5>1. account \in 1 .. account'
          BY <1>0, ProgramFacts
        <5> QED
          BY <1>0, <2>1, <2>3, <2>4, <4>1, <5>1
      <4>2. CASE k # n + 1
        <5>1. k \in 1 .. Len(samples)
          BY <2>2, <2>4, <4>2 DEF n
        <5> QED
          BY <1>0, <2>2, <2>4, <5>1 DEF SamplesInv, n
      <4> QED
        BY <4>1, <4>2
    <3>3. ASSUME NEW k \in 2 .. Len(samples')
          PROVE  \/ samples'[k].stood
                 \/ Signature(samples'[k - 1].batch) # Signature(samples'[k].batch)
      <4>1. CASE k = n + 1
        <5>1. k - 1 = n /\ n \in 1 .. n
          BY <2>2, <4>1
        <5> QED
          BY <2>3, <2>4, <2>5, <4>1, <5>1
      <4>2. CASE k # n + 1
        <5>1. k \in 2 .. Len(samples) /\ k \in 1 .. n /\ k - 1 \in 1 .. n
          BY <2>2, <2>4, <4>2 DEF n
        <5> QED
          BY <2>4, <5>1 DEF SamplesInv
      <4> QED
        BY <4>1, <4>2
    <3>4. Len(samples') <= program'.samples
      BY <1>0, <2>2, <2>4, ProgramFacts
    <3>5. stood' \in BOOLEAN
      BY <2>0 DEF Stands
    <3> QED
      BY <2>1, <2>4, <3>1, <3>2, <3>3, <3>4, <3>5 DEF SamplesInv
  <2>7. StandingInv'
    <3>1. ASSUME ~ stood'
          PROVE  account = 1 /\ \E d \in call.batch.scope.domains \cap Domains :
                                   Beyond(broker, d, call.batch.records[d], call.batch.scope)
      BY <1>0, <1>3, <2>0, <2>3, <2>4, <3>1, NewSample
    <3>2. Last' = new
      BY <2>4 DEF Last
    <3>3. ~ Busy'
      BY <1>0, AdmitKeeps
    <3>4. graph'.account # program'.accounts[1] => stood'
      BY <1>0, <2>1, <3>1
    <3>5. ASSUME ~ stood'
          PROVE  \E d \in Last'.batch.scope.domains : IsOver(d)'
      BY <1>0, <2>3, <3>1, <3>2, <3>3, <3>5 DEF IsOver
    <3> QED
      BY <3>4, <3>5 DEF StandingInv
  <2> QED
    BY <1>0, <1>1, <2>6, <2>7, AdmitKeeps
<1> QED
  BY <1>2, <1>3

\* The first sample of a cycle.
LEMMA RestartedKeeps ==
    ASSUME LoopInv, program' = program, Restarted
    PROVE  LoopInv'
<1> USE DEF LoopInv
<1> DEFINE new == [batch |-> call.batch, rev |-> graph'.rev, stood |-> FALSE]
<1>0. /\ Admit("cycle") /\ outcome' = outcome
      /\ UNCHANGED <<program, broker, account, request, seen>>
      /\ Complete /\ SameAccount
      /\ graph' = Apply(graph, call.batch)
  BY DEF Restarted, Admit
<1>1. OutcomeInv'
  BY <1>0, OutcomeStays DEF Later
<1>2. SampleType' = SampleType /\ program.samples \in Nat /\ program.samples >= 2
  BY <1>0, ProgramFacts DEF SampleType, BatchType, Names
<1>3. CASE ~ Accepted
  <2>1. samples' = <<>> /\ stood' = FALSE /\ Len(samples') = 0
    BY <1>3 DEF Restarted
  <2>2. SamplesInv' /\ StandingInv'
    <3>1. /\ samples' \in Seq(SampleType') /\ Len(samples') <= program'.samples
          /\ ~ (\E k \in 1 .. Len(samples') : TRUE) /\ ~ (\E k \in 2 .. Len(samples') : TRUE)
          /\ stood' \in BOOLEAN
      <4>1. \A S : <<>> \in Seq(S)
        OBVIOUS
      <4>2. ~ (\E k \in 1 .. 0 : TRUE) /\ ~ (\E k \in 2 .. 0 : TRUE)
        OBVIOUS
      <4>3. samples' \in Seq(SampleType')
        BY ONLY <2>1, <4>1
      <4>4. Len(samples') <= program'.samples
        BY ONLY <1>0, <1>2, <2>1
      <4> QED
        BY ONLY <2>1, <4>2, <4>3, <4>4
    <3> QED
      BY <2>1, <3>1 DEF SamplesInv, StandingInv
  <2> QED
    BY <1>0, <1>1, <2>2, AdmitKeeps
<1>4. CASE Accepted
  <2>0. samples' = <<new>> /\ stood' = Stands'
    BY <1>4 DEF Restarted, Stands
  <2>1. /\ call.batch \in BatchType /\ call.batch.account = graph'.account
        /\ graph'.account # NoAccount
        /\ call.batch.account = program.accounts[account]
        /\ \A d \in Domains : call.batch.records[d] \subseteq Records(account, d)
        /\ graph'.rev \in Nat
    <3>1. graph'.account = call.batch.account
      BY <1>0, <1>4 DEF Accepted, Apply
    <3>2. graph'.rev \in Nat
      BY <1>0, AdmitKeeps DEF GraphInv
    <3> QED
      BY <1>0, <1>4, <3>1, <3>2, AcceptedBatch DEF ReadOf
  <2>2. new \in SampleType /\ new.batch = call.batch
    BY <2>1 DEF SampleType
  <2> HIDE DEF new
  <2>3. /\ samples' \in Seq(SampleType) /\ Len(samples') = 1
        /\ samples'[1] = new /\ samples' # <<>>
    BY <2>0, <2>2
  <2>4. SamplesInv'
    <3>1. ASSUME NEW k \in 1 .. Len(samples')
          PROVE  /\ samples'[k].batch.account = graph'.account
                 /\ \E i \in 1 .. account' :
                       /\ graph'.account = program'.accounts[i]
                       /\ \A d \in Domains : samples'[k].batch.records[d] \subseteq Records(i, d)
      <4>1. k = 1 /\ account \in 1 .. account'
        BY <1>0, <2>3, ProgramFacts
      <4> QED
        BY <1>0, <2>1, <2>2, <2>3, <4>1
    <3>2. ~ \E k \in 2 .. Len(samples') : TRUE
      BY <2>3
    <3>3. stood' \in BOOLEAN /\ Len(samples') <= program'.samples
      BY <1>0, <1>2, <2>0, <2>3 DEF Stands
    <3> QED
      BY <1>2, <2>1, <2>3, <3>1, <3>2, <3>3 DEF SamplesInv
  <2>5. StandingInv'
    <3>1. ASSUME ~ stood'
          PROVE  account = 1 /\ \E d \in call.batch.scope.domains \cap Domains :
                                   Beyond(broker, d, call.batch.records[d], call.batch.scope)
      BY <1>0, <1>4, <2>0, <2>2, <2>3, <3>1, NewSample
    <3>2. Last' = new
      BY <2>3 DEF Last
    <3>3. ~ Busy'
      BY <1>0, AdmitKeeps
    <3>4. graph'.account # program'.accounts[1] => stood'
      BY <1>0, <2>1, <3>1
    <3>5. ASSUME ~ stood'
          PROVE  \E d \in Last'.batch.scope.domains : IsOver(d)'
      BY <1>0, <2>2, <3>1, <3>2, <3>3, <3>5 DEF IsOver
    <3> QED
      BY <3>4, <3>5 DEF StandingInv
  <2> QED
    BY <1>0, <1>1, <2>4, <2>5, AdmitKeeps
<1> QED
  BY <1>3, <1>4


-----------------------------------------------------------------------------
(* Conclusions from the graph.                                             *)

\* Whether a window is covered is exactly whether each moment of it was read
\* after the revision.
LEMMA CoveredIsExact ==
    ASSUME NEW g, NEW d, NEW w \in WindowType, NEW since,
           g.coverage[d] \in SUBSET [window: WindowType, rev: Nat],
           IsFiniteSet(g.coverage[d])
    PROVE  Covered(g, d, w, since) <=>
              /\ ValidWindow(w)
              /\ \A t \in w.from .. w.to : \E c \in g.coverage[d] :
                    c.rev > since /\ InWindow(t, c.window)
<1> DEFINE counted == {c \in g.coverage[d] : c.rev > since /\ Overlaps(c.window, w)}
           windows == {c.window : c \in counted}
<1>1. IsFiniteSet(windows)
  <2>1. IsFiniteSet(counted)
    BY FS_Subset
  <2> DEFINE f == [c \in counted |-> c.window]
  <2>2. f \in Surjection(counted, windows)
    BY DEF Surjection
  <2> HIDE DEF counted, f
  <2> QED
    BY <2>1, <2>2, FS_Surjection
<1>2. windows \in SUBSET WindowType /\ \A a \in windows : Overlaps(a, w)
  OBVIOUS
<1>3. Covered(g, d, w, since) <=> ValidWindow(w) /\ Sweep(windows, w)
  BY DEF Covered
<1>4. ASSUME NEW t \in w.from .. w.to
      PROVE  (\E a \in windows : InWindow(t, a)) <=>
                \E c \in g.coverage[d] : c.rev > since /\ InWindow(t, c.window)
  <2>1. ASSUME NEW c \in g.coverage[d], InWindow(t, c.window)
        PROVE  Overlaps(c.window, w)
    <3>1. /\ c.window.from \in Nat /\ c.window.to \in Nat /\ w.from \in Nat /\ w.to \in Nat
          /\ t \in Int /\ w.from <= t /\ t <= w.to
      BY DEF WindowType
    <3> QED
      BY <2>1, <3>1 DEF InWindow, Overlaps
  <2> QED
    BY <2>1
<1> HIDE DEF windows
<1>5. CASE ValidWindow(w)
  BY <1>1, <1>2, <1>3, <1>4, <1>5, SweepIsExact
<1>6. CASE ~ ValidWindow(w)
  BY <1>3, <1>6
<1> QED
  BY <1>5, <1>6

LEMMA JudgeType ==
    ASSUME NEW g, NEW b, NEW p
    PROVE  Judge(g, b, p) \in {"unbound", "pending", "satisfied", "missing", "contradictory"}
  BY DEF Judge, JudgeSnapshot, JudgeHistory

LEMMA EvaluateConfirms ==
    ASSUME NEW g, NEW b, NEW asked, NEW gap, NEW deadline,
           Evaluate(g, b, asked, gap, deadline) = "confirmed"
    PROVE  /\ g.account = b.account /\ g.account # NoAccount
           /\ \A p \in asked : Judge(g, b, p) = "satisfied"
<1> DEFINE judged == {Judge(g, b, p) : p \in asked}
<1>1. /\ g.account = b.account /\ g.account # NoAccount
      /\ "contradictory" \notin judged /\ "unbound" \notin judged
      /\ "pending" \notin judged /\ "missing" \notin judged
  BY DEF Evaluate
<1> QED
  BY <1>1, JudgeType

LEMMA EvaluateMisses ==
    ASSUME NEW g, NEW b, NEW asked, NEW gap, NEW deadline,
           Evaluate(g, b, asked, gap, deadline) = "not_observed"
    PROVE  /\ g.account = b.account /\ g.account # NoAccount
           /\ \E p \in asked : Judge(g, b, p) = "missing"
  BY DEF Evaluate

\* What the judges of a graph rest on: its invariant, as a property of the state
\* of graph, broker and baseline.
GraphFacts(g, acc, b, since, views) ==
    /\ g.rev \in Nat
    /\ g.coverage \in [Histories -> SUBSET [window: WindowType, rev: Nat]]
    /\ \A d \in Histories : IsFiniteSet(g.coverage[d])
    /\ g.account # NoAccount =>
        \E i \in 1 .. acc :
            \A d \in Histories : \A r \in g.records[d] :
                \E q \in AllIn(i, b, d), v \in 1 .. g.rev : r = Confirmed(q, v)
    /\ since \in [Domains -> Nat]
    /\ g.domainRev \in [Domains -> 0 .. g.rev]
    /\ \A d \in Domains : \A t \in views[d] : SeenHappened(b, d, t)
    /\ \A d \in Snapshots :
          g.domainRev[d] > since[d] => Missed(b, views, d, g.records[d])
    /\ \A d \in Histories : \A c \in g.coverage[d] : \A t \in views[d] :
          c.rev > since[d] /\ InWindow(DoneTime(t), c.window) =>
              \E r \in g.records[d] :
                  r.ticket = t /\ r.time = DoneTime(t) /\ r.rev >= c.rev

LEMMA FactsNow ==
    GraphInv /\ GraphSeen /\ BaselineInv =>
        GraphFacts(graph, account, broker, baseline.domainRev, seen)
<1> SUFFICES ASSUME GraphInv, GraphSeen, BaselineInv
             PROVE  GraphFacts(graph, account, broker, baseline.domainRev, seen)
  OBVIOUS
<1>1. graph.account # NoAccount =>
        \E i \in 1 .. account :
            \A d \in Histories : \A r \in graph.records[d] :
                \E q \in AllIn(i, broker, d), v \in 1 .. graph.rev : r = Confirmed(q, v)
  BY DEF GraphInv
<1>2. graph.rev \in Nat
  BY DEF GraphInv
<1> QED
  BY <1>1, <1>2 DEF GraphFacts, GraphInv, GraphSeen, BaselineInv

LEMMA FactsThen ==
    ASSUME GraphInv', GraphSeen', BaselineInv'
    PROVE  GraphFacts(graph', account', broker', baseline'.domainRev, seen')
<1>1. graph'.account # NoAccount =>
        \E i \in 1 .. account' :
            \A d \in Histories : \A r \in graph'.records[d] :
                \E q \in AllIn(i, broker', d), v \in 1 .. graph'.rev : r = Confirmed(q, v)
  BY DEF GraphInv
<1>2. graph'.rev \in Nat
  BY DEF GraphInv
<1> QED
  BY <1>1, <1>2 DEF GraphFacts, GraphInv, GraphSeen, BaselineInv

\* A predicate is true of a broker.
TrueOf(b, views, p) ==
    /\ p.present /\ p.domain \in Histories =>
         \E r \in OwnIn(b, p.domain) :
            r.ticket = p.ticket /\ (p.window = NoWindow \/ InWindow(r.time, p.window))
    /\ ~ p.present /\ p.domain \in Snapshots =>
         (p.ticket \in views[p.domain] => p.ticket \notin Tickets(OwnIn(b, p.domain)))

\* A predicate that is satisfied on a graph remains so.
LEMMA SatisfiedIsTrue ==
    ASSUME NEW g, NEW acc \in 1 .. 2, NEW b, NEW base, NEW views,
           GraphFacts(g, acc, b, base.domainRev, views), g.account # NoAccount,
           NEW p \in PredicateType, Judge(g, base, p) = "satisfied"
    PROVE  TrueOf(b, views, p)
<1> DEFINE d == p.domain
<1>0. /\ p.ticket # 0 /\ p.ticket \in Order /\ p.present \in BOOLEAN /\ d \in Domains
      /\ Snapshots \cap Histories = {}
  BY TheDomains DEF PredicateType, Judge
<1>1. ASSUME p.present, d \in Histories
      PROVE  \E r \in OwnIn(b, d) :
                r.ticket = p.ticket /\ (p.window = NoWindow \/ InWindow(r.time, p.window))
  <2>1. PICK r \in g.records[d] :
           r.ticket = p.ticket /\ (p.window = NoWindow \/ InWindow(r.time, p.window))
    BY <1>0, <1>1 DEF Judge, JudgeHistory
  <2>2. PICK i \in 1 .. acc : \A e \in Histories : \A s \in g.records[e] :
           \E q \in AllIn(i, b, e), v \in 1 .. g.rev : s = Confirmed(q, v)
    BY DEF GraphFacts
  <2>3. PICK q \in AllIn(i, b, d), v \in 1 .. g.rev : r = Confirmed(q, v)
    BY <1>1, <2>1, <2>2
  <2>4. i \in 1 .. 2
    BY <2>2
  <2>5. q \in Records(i, d)
    BY <1>0, <2>3, ViewInType
  <2>6. /\ "ticket" \in DOMAIN q /\ "time" \in DOMAIN q
        /\ q.ticket \in IF i = 1 THEN Order ELSE {Foreign}
    BY <1>0, <1>1, <2>4, <2>5, RecordFields
  <2>7. q.ticket = r.ticket /\ q.time = r.time
    BY <2>3, <2>6, ConfirmedFields
  <2>8. i = 1
    BY <1>0, <2>1, <2>4, <2>6, <2>7, TheDomains DEF Foreign
  <2>9. q \in OwnIn(b, d)
    BY <2>3, <2>8 DEF AllIn
  <2> QED
    BY <2>1, <2>7, <2>9
<1>2. ASSUME ~ p.present, d \in Snapshots, p.ticket \in views[d]
      PROVE  p.ticket \notin Tickets(OwnIn(b, d))
  <2>1. ~ Stale(g, base, d) /\ p.ticket \notin Tickets(g.records[d])
    BY <1>0, <1>2 DEF Judge, JudgeSnapshot
  <2>2. g.domainRev[d] > base.domainRev[d]
    BY <1>0, <2>1 DEF Stale, GraphFacts
  <2> QED
    BY <1>2, <2>1, <2>2 DEF GraphFacts, Missed
<1> QED
  BY <1>1, <1>2 DEF TrueOf

\* Evidence that was seen at the baseline is not missed.
LEMMA SeenIsNotMissing ==
    ASSUME NEW g, NEW acc \in 1 .. 2, NEW b, NEW base, NEW views,
           GraphFacts(g, acc, b, base.domainRev, views), g.account # NoAccount,
           NEW p \in PredicateType, p.present, p.domain \in Histories,
           p.ticket \in views[p.domain], InWindow(DoneTime(p.ticket), p.window)
    PROVE  Judge(g, base, p) # "missing"
<1> SUFFICES ASSUME Judge(g, base, p) = "missing"
             PROVE  FALSE
  OBVIOUS
<1> DEFINE d == p.domain
           t == p.ticket
           since == base.domainRev[d]
<1>0. /\ d \in Domains /\ d \in Histories /\ d \notin Snapshots /\ t \in Order
      /\ p.window \in WindowType /\ since \in Nat
      /\ DoneTime(t) \in Nat /\ DoneTime(t) # UnknownTime
  <2>1. d \in Domains /\ d \in Histories /\ d \notin Snapshots
    BY TheDomains
  <2>2. t \in Order
    BY <2>1, TheDomains DEF GraphFacts, SeenHappened
  <2> QED
    BY <2>1, <2>2, TheDomains DEF PredicateType, WindowType, GraphFacts, UnknownTime
<1>1. /\ Covered(g, d, p.window, since)
      /\ ~ \E r \in g.records[d] :
             /\ r.ticket = t /\ r.rev > since
             /\ IF p.window = NoWindow THEN TRUE
                ELSE r.time # UnknownTime /\ InWindow(r.time, p.window)
  BY <1>0 DEF Judge, JudgeHistory
<1>2. DoneTime(t) \in p.window.from .. p.window.to
  BY <1>0 DEF InWindow, WindowType
<1>3. PICK c \in g.coverage[d] : c.rev > since /\ InWindow(DoneTime(t), c.window)
  <2>1. /\ g.coverage[d] \in SUBSET [window: WindowType, rev: Nat]
        /\ IsFiniteSet(g.coverage[d])
    BY <1>0 DEF GraphFacts
  <2> QED
    BY <1>0, <1>1, <1>2, <2>1, CoveredIsExact
<1>4. PICK r \in g.records[d] : r.ticket = t /\ r.time = DoneTime(t) /\ r.rev >= c.rev
  BY <1>0, <1>3 DEF GraphFacts
<1>5. r.rev > since
  <2>1. PICK i \in 1 .. acc : \A e \in Histories : \A s \in g.records[e] :
           \E q \in AllIn(i, b, e), v \in 1 .. g.rev : s = Confirmed(q, v)
    BY DEF GraphFacts
  <2>2. PICK q \in AllIn(i, b, d), v \in 1 .. g.rev : r = Confirmed(q, v)
    BY <1>0, <1>4, <2>1
  <2>3. r.rev \in Nat
    BY <2>2 DEF Confirmed, GraphFacts
  <2>4. c.rev \in Nat
    BY <1>0 DEF GraphFacts
  <2> QED
    BY <1>0, <1>3, <1>4, <2>3, <2>4
<1>6. r.time # UnknownTime /\ InWindow(r.time, p.window)
  BY <1>0, <1>4
<1> QED
  BY <1>1, <1>4, <1>5, <1>6

\* The worker's evaluation is of a graph that tells, so that what it concludes is so.
LEMMA SteppedKeeps ==
    ASSUME LoopInv, program' = program, NEW gap \in BOOLEAN, NEW deadline \in BOOLEAN,
           Stepped(gap, deadline)
    PROVE  LoopInv'
<1> USE DEF LoopInv
<1>0. /\ Admit("worker") /\ UNCHANGED <<samples, stood>>
      /\ UNCHANGED <<program, broker, account, request, seen, baseline>>
      /\ Complete /\ call.purpose = "worker"
  BY DEF Stepped, Admit
<1>1. request # NoRequest /\ request \in program.requests
  BY <1>0 DEF CallIsFor, Complete, BaselineInv
<1>2. GraphInv' /\ GraphSeen' /\ BaselineInv'
  BY <1>0, <1>1, AdmitKeeps
<1>3. GraphFacts(graph', account', broker', baseline.domainRev, seen)
  <2>1. GraphFacts(graph', account', broker', baseline'.domainRev, seen')
    BY <1>2, FactsThen
  <2> QED
    BY <1>0, <2>1
<1>4. account' \in 1 .. 2 /\ request.predicates \subseteq PredicateType
  BY <1>0, <1>1, ProgramFacts
<1>5. ConfirmedIsLasting'
  <2> SUFFICES ASSUME outcome' = "confirmed", NEW p \in request.predicates
               PROVE  StillTrue(p)'
    BY <1>0 DEF ConfirmedIsLasting
  <2>1. Evaluate(graph', baseline, request.predicates, gap, deadline) = "confirmed"
    BY <1>0 DEF Stepped
  <2>2. graph'.account # NoAccount /\ Judge(graph', baseline, p) = "satisfied"
    BY <2>1, EvaluateConfirms
  <2>3. TrueOf(broker', seen, p)
    <3>1. p \in PredicateType
      BY <1>4
    <3> QED
      BY ONLY <1>3, <1>4, <2>2, <3>1, SatisfiedIsTrue
  <2>4. OwnView(p.domain)' = OwnIn(broker', p.domain)
    BY OwnViewIs
  <2> QED
    BY <1>0, <2>3, <2>4 DEF StillTrue, TrueOf
<1>6. NotObservedMeansUnseen'
  <2> SUFFICES ASSUME outcome' = "not_observed"
               PROVE  \E p \in request.predicates :
                         ~ /\ p.present /\ p.domain \in Histories
                           /\ p.ticket \in seen[p.domain]
                           /\ InWindow(DoneTime(p.ticket), p.window)
    BY <1>0 DEF NotObservedMeansUnseen
  <2>1. Evaluate(graph', baseline, request.predicates, gap, deadline) = "not_observed"
    BY <1>0 DEF Stepped
  <2>2. graph'.account # NoAccount
        /\ \E p \in request.predicates : Judge(graph', baseline, p) = "missing"
    BY <2>1, EvaluateMisses
  <2>3. PICK p \in request.predicates : Judge(graph', baseline, p) = "missing"
    BY <2>2
  <2> QED
    BY <1>3, <1>4, <2>2, <2>3, SeenIsNotMissing
<1>7. SamplesInv' /\ StandingInv'
  BY <1>0, SamplesStay
<1> QED
  BY <1>0, <1>1, <1>2, <1>5, <1>6, <1>7, AdmitKeeps DEF OutcomeInv


-----------------------------------------------------------------------------
(* The baseline, and the whole.                                            *)

\* At the baseline nothing has been read since, and what is seen happens.
LEMMA CaptureKeeps ==
    ASSUME LoopInv, program' = program, NEW wanted \in program.requests, Capture(wanted)
    PROVE  LoopInv'
<1> USE DEF LoopInv
<1>0. /\ UNCHANGED <<program, broker, account, call, graph, outcome, samples, stood>>
      /\ ~ Busy /\ request = NoRequest /\ graph.account # NoAccount
      /\ baseline' = BaselineOf(graph) /\ request' = wanted
      /\ seen' = [d \in Domains |-> Tickets(IF account = 1 THEN OwnView(d) ELSE {})]
  BY DEF Capture
<1>1. ~ Busy'
  BY <1>0 DEF Busy
<1>2. /\ baseline'.account = graph.account /\ baseline'.rev = graph.rev
      /\ baseline'.domainRev = graph.domainRev
  BY <1>0 DEF BaselineOf
<1>3. ProgramInv' /\ BrokerSane(broker)' /\ CallInv' /\ CallSeen' /\ CallIsFor'
  BY <1>0, <1>1 DEF ProgramInv, CallInv, CallSeen, CallIsFor
<1>4. GraphInv'
  BY <1>0 DEF GraphInv
<1>5. SamplesInv' /\ StandingInv'
  <2>1. SampleType' = SampleType
    BY <1>0 DEF SampleType, BatchType, Names
  <2>2. SamplesInv'
    BY <1>0, <2>1 DEF SamplesInv
  <2>3. \A d : IsOver(d) => IsOver(d)'
    BY <1>0, <1>1 DEF IsOver, Last
  <2> QED
    BY <1>0, <2>2, <2>3 DEF StandingInv, Last
<1>6. GraphSeen'
  <2>1. graph.domainRev \in [Domains -> 0 .. graph.rev] /\ graph.rev \in Nat
    BY DEF GraphInv
  <2>2. \A d \in Snapshots : ~ (graph.domainRev[d] > graph.domainRev[d])
    BY <2>1 DEF Domains
  <2>3. ASSUME NEW d \in Histories, NEW c \in graph.coverage[d]
        PROVE  ~ (c.rev > graph.domainRev[d])
    <3>1. c.rev \in 1 .. graph.domainRev[d] /\ graph.domainRev[d] \in 0 .. graph.rev
      BY <2>1 DEF GraphInv, Domains
    <3> QED
      BY <3>1
  <2> QED
    BY <1>0, <1>2, <2>2, <2>3 DEF GraphSeen
<1>7. BaselineInv'
  <2>1. wanted # NoRequest
    <3>1. wanted \in [scope: ScopeType, predicates: SUBSET PredicateType]
      BY ProgramFacts
    <3>2. "scope" \in DOMAIN wanted /\ "scope" \notin DOMAIN NoRequest
      BY <3>1 DEF NoRequest
    <3> QED
      BY <3>2
  <2>2. ASSUME NEW d \in Domains, NEW t \in seen'[d]
        PROVE  /\ graph.account = program.accounts[1] /\ graph.account # NoAccount
               /\ SeenHappened(broker, d, t)
    <3>1. t \in Tickets(IF account = 1 THEN OwnView(d) ELSE {})
      BY <1>0, <2>2
    <3>2. account = 1 /\ t \in Tickets(OwnIn(broker, d))
      BY <3>1, OwnViewIs DEF Tickets
    <3>3. SeenHappened(broker, d, t)
      BY <3>2, OwnTickets, TheDomains DEF SeenHappened, ActiveIn, OpenIn
    <3>4. graph.account = program.accounts[1]
      BY <1>0, <3>2 DEF GraphInv
    <3> QED
      BY <1>0, <3>3, <3>4
  <2>3. graph.rev \in 0 .. graph.rev /\ graph.domainRev \in [Domains -> Nat]
    <3>1. graph.domainRev \in [Domains -> 0 .. graph.rev] /\ graph.rev \in Nat
      BY DEF GraphInv
    <3> QED
      BY <3>1
  <2> QED
    BY <1>0, <1>2, <2>1, <2>2, <2>3 DEF BaselineInv
<1>8. OutcomeInv'
  BY <1>0 DEF BaselineInv, OutcomeInv, ConfirmedIsLasting, NotObservedMeansUnseen
<1> QED
  BY <1>3, <1>4, <1>5, <1>6, <1>7, <1>8

\* Without evidence nothing is claimed.
LEMMA ClearKeeps ==
    ASSUME LoopInv, program' = program, Clear
    PROVE  LoopInv'
<1> USE DEF LoopInv
<1>0. /\ UNCHANGED <<program, broker, account, call, baseline, request, outcome, samples,
                     seen, stood>>
      /\ ~ Busy /\ ~ Busy' /\ graph.rev < MaxRevision
      /\ graph' = ClearEvidence(graph)
  BY DEF Clear, Busy
<1>1. /\ graph'.account = graph.account /\ graph'.rev = graph.rev + 1
      /\ graph'.records = [d \in Domains |-> {}]
      /\ graph'.domainRev = [d \in Domains |-> 0]
      /\ graph'.coverage = [d \in Histories |-> {}]
  BY <1>0 DEF ClearEvidence, EmptyGraph
<1>2. graph.rev \in Nat /\ MaxRevision \in Nat /\ graph'.rev \in 0 .. MaxRevision
  BY <1>0, <1>1, LoopAssumption DEF GraphInv
<1>3. ProgramInv' /\ BrokerSane(broker)' /\ CallInv' /\ CallSeen' /\ CallIsFor'
  BY <1>0 DEF ProgramInv, CallInv, CallSeen, CallIsFor
<1>4. GraphInv'
  <2>1. 0 \in 0 .. graph'.rev
    BY <1>1, <1>2
  <2>2. /\ graph'.domainRev \in [Domains -> 0 .. graph'.rev]
        /\ graph'.coverage \in [Histories -> SUBSET [window: WindowType, rev: Nat]]
    BY <1>1, <2>1
  <2>3. \A d \in Histories : IsFiniteSet(graph'.coverage[d]) /\ graph'.coverage[d] = {}
    BY <1>1, FS_EmptySet
  <2>4. \A d \in Domains : graph'.records[d] = {}
    BY <1>1
  <2>5. graph'.account # NoAccount => \E i \in 1 .. account : graph'.account = program.accounts[i]
    BY <1>1 DEF GraphInv
  <2> QED
    BY <1>0, <1>2, <2>2, <2>3, <2>4, <2>5 DEF GraphInv, Domains
<1>5. BaselineInv'
  <2>1. baseline.rev \in 0 .. graph'.rev
    BY <1>1, <1>2 DEF BaselineInv
  <2> QED
    BY <1>0, <1>1, <2>1 DEF BaselineInv
<1>6. GraphSeen'
  <2>1. \A d \in Domains : baseline.domainRev[d] \in Nat /\ graph'.domainRev[d] = 0
    BY <1>1 DEF BaselineInv
  <2> QED
    BY <1>0, <1>1, <2>1 DEF GraphSeen, Domains
<1>7. SamplesInv' /\ StandingInv'
  <2>1. SampleType' = SampleType
    BY <1>0 DEF SampleType, BatchType, Names
  <2>2. SamplesInv'
    BY <1>0, <1>1, <2>1 DEF SamplesInv
  <2>3. \A d : IsOver(d) => IsOver(d)'
    BY <1>0 DEF IsOver, Last
  <2> QED
    BY <1>0, <1>1, <2>2, <2>3 DEF StandingInv, Last
<1>8. OutcomeInv'
  BY <1>0, OutcomeStays DEF Later
<1> QED
  BY <1>3, <1>4, <1>5, <1>6, <1>7, <1>8

LEMMA LoopInvInit ==
    Init => LoopInv
<1> SUFFICES ASSUME Init
             PROVE  LoopInv
  OBVIOUS
<1> USE DEF Init
<1>1. ProgramInv
  <2>1. program \in Programs /\ ProgramType(program) /\ account = 1
    BY LoopAssumption
  <2>2. Len(program.accounts) \in 1 .. 2
    BY <2>1 DEF ProgramType
  <2> QED
    BY <2>1, <2>2 DEF ProgramInv
<1>2. ~ Busy
  BY DEF Busy
<1>3. BrokerSane(broker)
  BY TheDomains DEF BrokerSane
<1>4. GraphInv
  <2>1. /\ graph.account = NoAccount /\ graph.rev = 0
        /\ graph.records = [d \in Domains |-> {}]
        /\ graph.domainRev = [d \in Domains |-> 0]
        /\ graph.coverage = [d \in Histories |-> {}]
    BY DEF EmptyGraph
  <2>2. graph.domainRev \in [Domains -> 0 .. 0] /\ 0 \in 0 .. MaxRevision
    BY <2>1, LoopAssumption
  <2>3. graph.coverage \in [Histories -> SUBSET [window: WindowType, rev: Nat]]
    BY <2>1
  <2> QED
    BY <2>1, <2>2, <2>3, FS_EmptySet DEF GraphInv
<1>5. BaselineInv
  BY DEF BaselineInv, NoBaseline, EmptyGraph
<1>6. GraphSeen
  <2>1. \A d \in Domains : seen[d] = {}
    OBVIOUS
  <2> QED
    BY <2>1 DEF GraphSeen, Missed, Domains
<1>7. CallInv /\ CallSeen /\ CallIsFor
  BY <1>2 DEF CallInv, CallSeen, CallIsFor
<1>8. SamplesInv /\ StandingInv
  <2>0. samples = <<>> /\ stood \in BOOLEAN
    OBVIOUS
  <2>1. samples = <<>> /\ Len(samples) = 0 /\ samples \in Seq(SampleType) /\ stood \in BOOLEAN
    BY ONLY <2>0
  <2>2. program.samples \in Nat
    BY <1>1, ProgramFacts
  <2>3. Len(samples) <= program.samples
    BY ONLY <2>1, <2>2
  <2>4. ~ (samples # <<>>)
    BY ONLY <2>1
  <2>5. \A k \in 1 .. Len(samples) : FALSE
    BY ONLY <2>1
  <2>6. \A k \in 2 .. Len(samples) : FALSE
    BY ONLY <2>1
  <2>7. SamplesInv
    BY ONLY <2>1, <2>3, <2>4, <2>5, <2>6 DEF SamplesInv
  <2>8. StandingInv
    BY ONLY <2>4 DEF StandingInv
  <2> QED
    BY <2>7, <2>8
<1>9. OutcomeInv
  BY DEF OutcomeInv, ConfirmedIsLasting, NotObservedMeansUnseen
<1> QED
  BY <1>1, <1>3, <1>4, <1>5, <1>6, <1>7, <1>8, <1>9 DEF LoopInv

LEMMA StutterKeeps ==
    ASSUME LoopInv, UNCHANGED vars
    PROVE  LoopInv'
<1> USE DEF LoopInv
<1>0. UNCHANGED <<program, broker, account, graph, baseline, request, outcome, samples,
                  seen, stood, call>>
  BY DEF vars
<1>1. \A d : WasRead(d)' <=> WasRead(d)
  BY <1>0 DEF WasRead, ReadOf
<1>2. Busy' <=> Busy
  BY <1>0 DEF Busy
<1>3. CallInv'
  <2>1. CallType' = CallType
    BY <1>0 DEF CallType, BatchType, Names
  <2> QED
    BY <1>0, <1>1, <1>2, <2>1 DEF CallInv, ReadOf
<1>4. CallSeen' /\ CallIsFor'
  BY <1>0, <1>1, <1>2 DEF CallSeen, CallIsFor, ReadOf, Last
<1>5. StandingInv'
  <2>1. \A d : IsOver(d) => IsOver(d)'
    BY <1>0, <1>1, <1>2 DEF IsOver, Last, ReadOf
  <2> QED
    BY <1>0, <2>1 DEF StandingInv, Last
<1> QED
  BY <1>0, <1>3, <1>4, <1>5, OnlyTheCall

\* Each action keeps the invariant.
LEMMA LoopInvNext ==
    LoopInv /\ [UNCHANGED program /\ Next]_vars => LoopInv'
<1> SUFFICES ASSUME LoopInv, [UNCHANGED program /\ Next]_vars
             PROVE  LoopInv'
  OBVIOUS
<1>1. CASE UNCHANGED vars
  BY <1>1, StutterKeeps
<1>2. CASE UNCHANGED program /\ Next
  <2>0. program' = program
    BY <1>2
  <2>1. ASSUME NEW o \in Order,
               \/ Place(o)
               \/ \E how \in {"filled", "cancelled"} : Conclude(o, how)
               \/ \E facet \in Facets : Publish(o, facet)
        PROVE  LoopInv'
    BY <2>0, <2>1, BrokerActions
  <2>2. CASE SwitchAccount
    BY <2>0, <2>2, SwitchAccountKeeps
  <2>3. CASE Read \/ ReadUnusable
    BY <2>0, <2>3, ReadKeeps
  <2>4. CASE Abandon
    BY <2>0, <2>4, AbandonKeeps
  <2>5. ASSUME NEW scope \in program.polls, Begin(scope, "poll")
        PROVE  LoopInv'
    <3>1. scope \in ScopeType
      BY ProgramFacts DEF LoopInv
    <3> QED
      BY <2>0, <2>5, <3>1, BeginKeeps
  <2>6. ASSUME NEW scope \in program.cycles, StartCycle(scope)
        PROVE  LoopInv'
    <3>1. scope \in ScopeType
      BY ProgramFacts DEF LoopInv
    <3> QED
      BY <2>0, <2>6, <3>1, BeginKeeps DEF StartCycle
  <2>7. CASE ContinueCycle
    <3>1. samples # <<>> /\ Len(samples) < program.samples /\ Begin(Last.batch.scope, "sample")
      BY <2>7 DEF ContinueCycle
    <3>2. Last \in SampleType
      BY <3>1 DEF LoopInv, SamplesInv, Last
    <3>3. Last.batch.scope \in ScopeType
      BY <3>2 DEF SampleType, BatchType
    <3> QED
      BY <2>0, <3>1, <3>3, BeginKeeps
  <2>8. CASE WorkerStep
    <3>1. request # NoRequest /\ Begin(request.scope, "worker")
      BY <2>8 DEF WorkerStep
    <3>2. request \in program.requests
      BY <3>1 DEF LoopInv, BaselineInv
    <3>3. request \in [scope: ScopeType, predicates: SUBSET PredicateType]
      BY <3>2, ProgramFacts DEF LoopInv
    <3>4. request.scope \in ScopeType
      BY <3>3
    <3> QED
      BY <2>0, <3>1, <3>4, BeginKeeps
  <2>9. CASE Polled
    BY <2>0, <2>9, PolledKeeps
  <2>10. CASE Sampled
    BY <2>0, <2>10, SampledKeeps
  <2>11. CASE Restarted
    BY <2>0, <2>11, RestartedKeeps
  <2>12. ASSUME NEW gap \in BOOLEAN, NEW deadline \in BOOLEAN, Stepped(gap, deadline)
         PROVE  LoopInv'
    BY <2>0, <2>12, SteppedKeeps
  <2>13. ASSUME NEW wanted \in program.requests, Capture(wanted)
         PROVE  LoopInv'
    BY <2>0, <2>13, CaptureKeeps
  <2>14. CASE Clear
    BY <2>0, <2>14, ClearKeeps
  <2> QED
    BY <1>2, <2>1, <2>2, <2>3, <2>4, <2>5, <2>6, <2>7, <2>8, <2>9, <2>10, <2>11,
       <2>12, <2>13, <2>14 DEF Next
<1> QED
  BY <1>1, <1>2

LEMMA LoopInvAlways ==
    Spec => []LoopInv
  BY LoopInvInit, LoopInvNext, PTL DEF Spec

-----------------------------------------------------------------------------
(* The properties.                                                         *)

\* Records of one account never name different positions for one thing.
LEMMA NotContradictory ==
    ASSUME NEW i \in 1 .. 2, NEW b, \A d \in Domains : b.records[d] \subseteq Records(i, d)
    PROVE  ~ Contradictory(b)
<1>1. \A r \in b.records["positions"] : r \in Records(i, "positions")
  BY TheDomains
<1>2. \A r \in b.records["history_deals"] : r \in Records(i, "history_deals")
  BY TheDomains
<1>3. \A r \in b.records["active_orders"] : r \in Records(i, "active_orders")
  BY TheDomains
<1>4. \A r \in b.records["history_orders"] : r \in Records(i, "history_orders")
  BY TheDomains
<1>5. ASSUME NEW r \in b.records["positions"], NEW q \in b.records["positions"]
      PROVE  r.ticket = q.ticket
  BY <1>1, RecordsOf DEF Records, PositionRecord
<1>6. ASSUME NEW r \in b.records["history_deals"], NEW q \in b.records["active_orders"],
             q.ticket = r.order
      PROVE  ~ Conflicts(q.position, r.position)
  <2>1. CASE i = 1
    <3>1. PICK o \in Order : r = DealRecord(o, o, Opening, DoneTime(o))
      BY <1>2, <2>1, RecordsOf DEF Records
    <3>2. PICK m \in Order, p \in {0, Opening} : q = OrderRecord(m, p)
      BY <1>3, <2>1, RecordsOf DEF Records
    <3> QED
      BY <3>1, <3>2 DEF DealRecord, OrderRecord, Conflicts, Opening
  <2>2. CASE i = 2
    <3>1. q = OrderRecord(Foreign, 0)
      BY <1>3, <2>2, RecordsOf DEF Records
    <3> QED
      BY <3>1 DEF OrderRecord, Conflicts
  <2> QED
    BY <2>1, <2>2
<1>7. ASSUME NEW r \in b.records["history_deals"], NEW q \in b.records["history_orders"],
             q.ticket = r.order
      PROVE  ~ Conflicts(q.position, r.position)
  <2>1. CASE i = 1
    <3>1. PICK o \in Order : r = DealRecord(o, o, Opening, DoneTime(o))
      BY <1>2, <2>1, RecordsOf DEF Records
    <3>2. PICK m \in Order, p \in {0, Opening} : q = HistoryOrderRecord(m, p, DoneTime(m))
      BY <1>4, <2>1, RecordsOf DEF Records
    <3> QED
      BY <3>1, <3>2 DEF DealRecord, HistoryOrderRecord, Conflicts, Opening
  <2>2. CASE i = 2
    <3>1. q = HistoryOrderRecord(Foreign, Foreign, 1)
      BY <1>4, <2>2, RecordsOf DEF Records
    <3>2. r = DealRecord(Foreign, Foreign, Foreign, 1)
      BY <1>2, <2>2, RecordsOf DEF Records
    <3> QED
      BY <3>1, <3>2 DEF HistoryOrderRecord, DealRecord, Conflicts
  <2> QED
    BY <2>1, <2>2
<1>8. ASSUME NEW r \in b.records["active_orders"], NEW q \in b.records["history_orders"]
      PROVE  ~ Conflicts(r.position, q.position)
  <2>1. CASE i = 1
    <3>1. PICK o \in Order, p \in {0, Opening} : r = OrderRecord(o, p)
      BY <1>3, <2>1, RecordsOf DEF Records
    <3>2. PICK m \in Order, s \in {0, Opening} : q = HistoryOrderRecord(m, s, DoneTime(m))
      BY <1>4, <2>1, RecordsOf DEF Records
    <3> QED
      BY <3>1, <3>2 DEF OrderRecord, HistoryOrderRecord, Conflicts, Opening
  <2>2. CASE i = 2
    <3>1. r = OrderRecord(Foreign, 0)
      BY <1>3, <2>2, RecordsOf DEF Records
    <3> QED
      BY <3>1 DEF OrderRecord, Conflicts
  <2> QED
    BY <2>1, <2>2
<1> QED
  BY <1>5, <1>6, <1>7, <1>8 DEF Contradictory, OrdersNamed

\* No sample contradicts itself.
LEMMA SamplesHold ==
    ASSUME LoopInv, NEW k \in 1 .. Len(samples)
    PROVE  ~ Contradictory(samples[k].batch)
<1>1. PICK i \in 1 .. account : \A d \in Domains : samples[k].batch.records[d] \subseteq Records(i, d)
  BY DEF LoopInv, SamplesInv
<1>2. i \in 1 .. 2
  BY ProgramFacts DEF LoopInv
<1> QED
  BY <1>1, <1>2, NotContradictory

\* What the policy says follows from the samples.
LEMMA PolicyIsTruthful ==
    LoopInv => PolicyTellsTheTruth
<1> SUFFICES ASSUME LoopInv, samples # <<>>
             PROVE  /\ PolicyNow = "consistent" => Last.stood
                    /\ PolicyNow # "cross_view_mismatch"
  BY DEF PolicyTellsTheTruth, ConsistentViewExisted, NoFalseMismatch
<1> DEFINE n == Len(samples)
           scope == Last.batch.scope
           Fault(i) ==
            LET b == samples[i].batch
            IN  IF b.account # samples[1].batch.account THEN "account_changed"
                ELSE IF \/ i > 1 /\ samples[i].rev # samples[i - 1].rev + 1
                        \/ b.scope.domains # scope.domains
                        \/ b.scope.window # scope.window
                     THEN "insufficient_evidence"
                ELSE IF Contradictory(b) THEN "cross_view_mismatch"
                ELSE "none"
           faulty == {i \in 1 .. n : Fault(i) # "none"}
<1>1. samples \in Seq(SampleType) /\ n \in Nat
  BY DEF LoopInv, SamplesInv
<1>2. \A i \in 1 .. n : Fault(i) \in {"none", "account_changed", "insufficient_evidence"}
  BY SamplesHold
<1>3. ASSUME faulty # {}
      PROVE  Fault(Min(faulty)) \in {"account_changed", "insufficient_evidence"}
  <2>1. faulty \in SUBSET Nat
    BY <1>1
  <2>2. Min(faulty) \in faulty
    BY <1>3, <2>1, LeastOf
  <2> QED
    BY <1>2, <2>2
<1>4. ASSUME PolicyNow = "consistent"
      PROVE  n > 1 /\ Agree(samples[n - 1].batch, samples[n].batch)
  BY <1>3, <1>4 DEF PolicyNow, PolicyState
<1>5. PolicyNow # "cross_view_mismatch"
  BY <1>3 DEF PolicyNow, PolicyState
<1>6. ASSUME PolicyNow = "consistent"
      PROVE  Last.stood
  <2>1. n \in 2 .. Len(samples) /\ Signature(samples[n - 1].batch) = Signature(samples[n].batch)
    BY <1>1, <1>4, <1>6 DEF Agree
  <2> QED
    BY <2>1 DEF LoopInv, SamplesInv, Last
<1> QED
  BY <1>5, <1>6

\* Whatever the broker does between the reads of two collections, and however
\* far its views lag: when the policy calls the samples of a cycle consistent
\* (environment_consistency.hpp), all views together showed what the last one
\* holds at some moment since the one before it was complete; and records that
\* race each other are never taken for a contradiction.
THEOREM PolicyTellsTheTruthAlways == Spec => []PolicyTellsTheTruth
  BY LoopInvAlways, PolicyIsTruthful, PTL

\* Every record of the graph is one of its account.
LEMMA AccountsAreKept ==
    LoopInv => AccountsNeverMix
<1> SUFFICES ASSUME LoopInv, NEW d \in Domains, NEW r \in graph.records[d]
             PROVE  r.ticket \in IF graph.account = program.accounts[1] THEN Order
                                 ELSE {Foreign}
  BY DEF AccountsNeverMix, Tickets
<1>1. graph.account # NoAccount
  BY DEF LoopInv, GraphInv
<1>2. PICK i \in 1 .. account :
        /\ graph.account = program.accounts[i]
        /\ \A e \in Snapshots : graph.records[e] \subseteq Records(i, e)
        /\ \A e \in Histories : \A s \in graph.records[e] :
              \E q \in AllIn(i, broker, e), v \in 1 .. graph.rev : s = Confirmed(q, v)
  BY <1>1 DEF LoopInv, GraphInv
<1>3. i \in 1 .. 2 /\ (i = 2 => program.accounts[2] # program.accounts[1])
  BY ProgramFacts DEF LoopInv
<1>4. r.ticket \in IF i = 1 THEN Order ELSE {Foreign}
  <2>1. CASE d \in Snapshots
    <3>1. r \in Records(i, d)
      BY <1>2, <2>1
    <3> QED
      BY <1>3, <3>1, RecordFields
  <2>2. CASE d \in Histories
    <3>1. PICK q \in AllIn(i, broker, d), v \in 1 .. graph.rev : r = Confirmed(q, v)
      BY <1>2, <2>2
    <3>2. q \in Records(i, d)
      BY <1>3, <3>1, OwnInType DEF AllIn, Records, LoopInv
    <3>3. "ticket" \in DOMAIN q /\ q.ticket \in IF i = 1 THEN Order ELSE {Foreign}
      BY <1>3, <3>2, RecordFields
    <3> QED
      BY <3>1, <3>3, ConfirmedFields
  <2> QED
    BY <2>1, <2>2 DEF Domains
<1> QED
  BY <1>2, <1>3, <1>4

\* Every piece of evidence in the graph is of the one account that the graph is
\* bound to (graph.hpp, apply), also when the terminal changes its account in
\* the middle of a collection (coordinator.hpp, refresh).
THEOREM AccountsNeverMixAlways == Spec => []AccountsNeverMix
  BY LoopInvAlways, AccountsAreKept, PTL

\* The graph's windows are all valid, and finitely many.
LEMMA CoverageIsTold ==
    LoopInv => CoverageIsExact
<1> SUFFICES ASSUME LoopInv, NEW d \in Histories, NEW since \in 0 .. graph.rev,
                    NEW a \in 1 .. 3, NEW b \in 1 .. 3
             PROVE  Covered(graph, d, Window(a, b), since) <=>
                      a <= b /\ \A t \in a .. b : \E c \in graph.coverage[d] :
                                    c.rev > since /\ InWindow(t, c.window)
  BY DEF CoverageIsExact
<1>1. /\ Window(a, b) \in WindowType
      /\ Window(a, b).from = a /\ Window(a, b).to = b
      /\ ValidWindow(Window(a, b)) <=> a <= b
  BY DEF Window, WindowType, ValidWindow
<1>2. /\ graph.coverage[d] \in SUBSET [window: WindowType, rev: Nat]
      /\ IsFiniteSet(graph.coverage[d])
  BY DEF LoopInv, GraphInv
<1> QED
  BY <1>1, <1>2, CoveredIsExact

\* The sweep over the windows that were read (graph.hpp, coverage_covers) says
\* covered exactly when every moment of the window was read since the revision,
\* for all graphs that any sequence of collections builds.
THEOREM CoverageIsExactAlways == Spec => []CoverageIsExact
  BY LoopInvAlways, CoverageIsTold, PTL

\* What the gate is asked for is a scope.
LEMMA DemandsType ==
    ASSUME LoopInv, NEW scope \in Demands
    PROVE  /\ scope.domains \subseteq Domains
           /\ \A d \in Histories : scope.window[d] \in WindowType
<1>1. program.polls \subseteq ScopeType
  BY ProgramFacts DEF LoopInv
<1>2. \A r \in {request} \ {NoRequest} : r.scope \in ScopeType
  <2>1. SUFFICES ASSUME request # NoRequest
                 PROVE  request.scope \in ScopeType
    OBVIOUS
  <2>2. request \in program.requests
    BY <2>1 DEF LoopInv, BaselineInv
  <2> QED
    BY <2>2, ProgramFacts DEF LoopInv
<1>3. \A s \in ScopeType : /\ s.domains \subseteq Domains
                           /\ \A d \in Histories : s.window[d] \in WindowType
                           /\ [s EXCEPT !.domains = @ \cap Snapshots].domains \subseteq Domains
                           /\ [s EXCEPT !.domains = @ \cap Snapshots].window = s.window
  BY DEF ScopeType, WindowType
<1> DEFINE asked == program.polls \cup {r.scope : r \in {request} \ {NoRequest}}
<1>4. asked \subseteq ScopeType
  BY <1>1, <1>2
<1>5. scope \in asked \cup {[s EXCEPT !.domains = @ \cap Snapshots] : s \in asked}
  BY DEF Demands
<1> HIDE DEF asked
<1>6. \/ scope \in ScopeType
      \/ \E s \in ScopeType : scope = [s EXCEPT !.domains = @ \cap Snapshots]
  BY <1>4, <1>5
<1> QED
  BY <1>3, <1>6

\* A gate that opens had newer reads of all that it was asked for.
LEMMA ReadyIsSound ==
    LoopInv => ReadyShowsWhatStands
<1> SUFFICES ASSUME LoopInv, NEW scope \in Demands, NEW d \in scope.domains,
                    GateState(graph, baseline, scope, FALSE, FALSE) = "ready",
                    NEW r \in OwnView(d), r.ticket \in seen[d],
                    d \in Histories => InWindow(r.time, scope.window[d])
             PROVE  r.ticket \in Tickets(graph.records[d])
  BY DEF ReadyShowsWhatStands
<1>1. d \in Domains /\ (d \in Histories => scope.window[d] \in WindowType)
  BY DemandsType
<1>2. r \in OwnIn(broker, d)
  BY OwnViewIs
<1>3. GraphFacts(graph, account, broker, baseline.domainRev, seen)
  BY FactsNow DEF LoopInv
<1>4. CASE d \in Snapshots
  <2>1. ~ Stale(graph, baseline, d)
    BY <1>4 DEF GateState, Snapshots
  <2>2. graph.domainRev[d] > baseline.domainRev[d]
    BY <1>1, <1>3, <2>1 DEF GraphFacts, Stale
  <2>3. Missed(broker, seen, d, graph.records[d])
    BY <1>3, <1>4, <2>2 DEF GraphFacts
  <2>4. r.ticket \in Tickets(OwnIn(broker, d))
    BY <1>2 DEF Tickets
  <2> QED
    BY <2>3, <2>4 DEF Missed
<1>5. CASE d \in Histories
  <2>1. Covered(graph, d, scope.window[d], baseline.domainRev[d])
    BY <1>5 DEF GateState
  <2>2. r \in Records(1, d)
    BY <1>1, <1>2, OwnInType DEF Records, LoopInv
  <2>3. r.time \in Nat /\ r.time = DoneTime(r.ticket)
    BY <1>1, <1>5, <2>2, RecordFields
  <2>4. r.time \in scope.window[d].from .. scope.window[d].to
    BY <1>1, <1>5, <2>3 DEF InWindow, WindowType
  <2>5. /\ graph.coverage[d] \in SUBSET [window: WindowType, rev: Nat]
        /\ IsFiniteSet(graph.coverage[d])
    BY <1>3, <1>5 DEF GraphFacts
  <2>6. PICK c \in graph.coverage[d] :
          c.rev > baseline.domainRev[d] /\ InWindow(r.time, c.window)
    BY <1>1, <1>5, <2>1, <2>4, <2>5, CoveredIsExact
  <2>7. \E s \in graph.records[d] : s.ticket = r.ticket
    BY <1>3, <1>5, <2>3, <2>6 DEF GraphFacts
  <2> QED
    BY <2>7 DEF Tickets
<1> QED
  BY <1>1, <1>4, <1>5 DEF Domains

\* What the worker and the gate conclude from the reads since a baseline is so,
\* whatever happens between the reads: a confirmation is never taken back, what
\* stood in a history that was asked for is never reported as not observed
\* (engine.hpp, evaluate), and a gate that opens has seen what stood at the
\* baseline and stands now (coordinator.hpp, DispatchConsistencyGate).
THEOREM ConclusionsAreSoundAlways == Spec => []ConclusionsAreSound
<1>1. LoopInv => ConclusionsAreSound
  BY ReadyIsSound DEF ConclusionsAreSound, LoopInv, OutcomeInv
<1> QED
  BY LoopInvAlways, <1>1, PTL

\* The types are part of the invariant.
LEMMA LoopIsTyped ==
    LoopInv => TypeOK
<1> SUFFICES ASSUME LoopInv
             PROVE  TypeOK
  OBVIOUS
<1>1. ProgramInv /\ BrokerSane(broker) /\ GraphInv /\ SamplesInv
  BY DEF LoopInv
<1>2. \A d \in Domains : graph.domainRev[d] \in 0 .. graph.rev
  BY <1>1 DEF GraphInv
<1>3. \A d \in Histories : \A c \in graph.coverage[d] :
          ValidWindow(c.window) /\ c.rev \in 1 .. graph.rev
  BY <1>1, <1>2 DEF GraphInv, Domains
<1> QED
  BY <1>1, <1>2, <1>3 DEF TypeOK, ProgramInv, BrokerSane, GraphInv, SamplesInv

\* The state keeps its shape: no domain is observed by, and no window covered
\* since, a revision that the graph has not reached (graph.hpp, apply), and a
\* cycle of the policy keeps to max_observations.
THEOREM LoopTypeAlways == Spec => []TypeOK
  BY LoopInvAlways, LoopIsTyped, PTL
=============================================================================
