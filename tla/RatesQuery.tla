------------------------------ MODULE RatesQuery ------------------------------
(***************************************************************************)
(* mt5bridge_query_rates: bars are read until two clean answers agree, and *)
(* the range is proven covered only by its two aligned boundary bars.      *)
(***************************************************************************)
EXTENDS Integers, FiniteSetsExt

CONSTANTS
    BarTime,            \* open times of bars
    Value,              \* what two bars of one time differ in
    Period,             \* of the timeframe; 0 if it has no fixed one
    RecoveryFailures,   \* answers that failed or were transient
    ConfirmationProbes, \* clean answers that contradicted the one before
    MaxBarChanges       \* bound on what the terminal does meanwhile

ASSUME RatesAssumption ==
    /\ BarTime \subseteq Nat /\ BarTime # {}
    /\ Period \in Nat
    /\ RecoveryFailures \in Nat \ {0} /\ ConfirmationProbes \in Nat \ {0}
    /\ MaxBarChanges \in Nat

VARIABLES
    bars,    \* the terminal's bars: time -> value, for the times that it has
    changes, \* how often they changed
    asked,   \* the request: [from, to]
    query    \* see NewQuery
ratesVars == <<bars, changes, asked, query>>

NoAnswer == [rows |-> {}, from |-> -1, to |-> -1]

\* previous and last are history: the two latest clean answers.
NewQuery == [pc |-> "read", candidate |-> NoAnswer, have |-> FALSE,
             saw |-> FALSE, failures |-> 0, probes |-> 0, status |-> "none",
             result |-> {}, previous |-> NoAnswer, last |-> NoAnswer]

BarTimes(bs) == {b.time : b \in bs}

InitRates ==
    /\ bars \in SUBSET [time: BarTime, value: {CHOOSE v \in Value : TRUE}]
    /\ changes = 0
    /\ asked \in {r \in [from: BarTime, to: BarTime] : r.from <= r.to}
    /\ query = NewQuery

\* A bar is synchronized, or the one that is forming changes.
BarChanges(b) ==
    /\ changes < MaxBarChanges
    /\ bars' = {x \in bars : x.time # b.time} \cup {b}
    /\ changes' = changes + 1
    /\ UNCHANGED <<asked, query>>

-----------------------------------------------------------------------------
\* The terminal may answer with rows around the range as well; the envelope is
\* that of all rows, the rows are those of the range.
AnswerOf(raw) ==
    [rows |-> {b \in raw : b.time \in asked.from .. asked.to},
     from |-> IF raw = {} THEN -1 ELSE Min(BarTimes(raw)),
     to |-> IF raw = {} THEN -1 ELSE Max(BarTimes(raw))]

Raws == {bars, {b \in bars : b.time \in asked.from .. asked.to}}

FirstBar == ((asked.from + Period - 1) \div Period) * Period
LastBar == (asked.to \div Period) * Period

\* Both aligned boundaries are among the rows.
Covered(a) ==
    /\ a.rows # {} /\ Period > 0 /\ FirstBar <= LastBar
    /\ {FirstBar, LastBar} \subseteq BarTimes(a.rows)
    /\ a.from <= FirstBar /\ a.to >= LastBar

\* The envelopes and the number of the rows agree.
Stable(a, b) == a = b

\* The loop ends when either budget is spent.
Spent(q) ==
    IF q.failures >= RecoveryFailures \/ q.probes >= ConfirmationProbes
    THEN [q EXCEPT !.pc = "failed",
                   !.status = IF q.saw THEN "partial" ELSE "retry_exhausted"]
    ELSE q

\* None, or rows with a transient status.
RatesTransient(raw) ==
    /\ query.pc = "read"
    /\ query' = Spent([query EXCEPT !.failures = @ + 1, !.saw = @ \/ raw # {}])
    /\ UNCHANGED <<bars, changes, asked>>

RatesFail ==
    /\ query.pc = "read"
    /\ query' = [query EXCEPT !.pc = "failed", !.status = "fatal"]
    /\ UNCHANGED <<bars, changes, asked>>

RatesAnswer(raw) ==
    LET a == AnswerOf(raw)
        read == [query EXCEPT !.saw = @ \/ raw # {}, !.candidate = a,
                              !.have = TRUE, !.result = a.rows,
                              !.previous = query.last, !.last = a]
    IN  /\ query.pc = "read"
        /\ query' =
             IF ~ query.have THEN read
             ELSE IF Stable(query.candidate, a)
             THEN [read EXCEPT !.pc = "done",
                               !.status = IF Covered(a) THEN "complete"
                                                        ELSE "partial"]
             ELSE Spent([read EXCEPT !.probes = @ + 1])
        /\ UNCHANGED <<bars, changes, asked>>

RatesStep ==
    \/ \E raw \in Raws : RatesTransient(raw) \/ RatesAnswer(raw)
    \/ RatesFail

RatesNext ==
    \/ RatesStep
    \/ \E b \in [time: BarTime, value: Value] : BarChanges(b)

-----------------------------------------------------------------------------
\* Bars that are called complete were shown twice, by two clean answers with no
\* other clean answer in between, and reach from one end of the range to the other.
RatesAreConfirmed ==
    query.status = "complete" =>
        /\ query.last = query.previous
        /\ query.result = query.last.rows
        /\ \A t \in asked.from .. asked.to :
             t % Period = 0 =>
                /\ t >= Min(BarTimes(query.result))
                /\ t <= Max(BarTimes(query.result))

\* Whatever the terminal answers, the query returns.
RatesEnd == <>(query.pc # "read")

=============================================================================
