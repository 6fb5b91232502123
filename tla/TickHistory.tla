----------------------------- MODULE TickHistory -----------------------------
(***************************************************************************)
(* mt5bridge_query_ticks and mt5bridge_copy_ticks_range: the probes that   *)
(* make the terminal synchronize a deep range, and the paging that         *)
(* delivers each tick of the range once, whatever arrives between pages.   *)
(***************************************************************************)
EXTENDS TickPages

CONSTANTS
    Trigger,          \* ranges of this length and more are bootstrapped
    InitialStep,      \* first backward step of the probes
    MinimumStep,      \* the smallest one
    ProbeLimit,       \* probes of one query
    NoProgressLimit,  \* probes in a row that move nothing at the smallest step
    ShortPageProbes,  \* confirmations of the end
    PartialPageLimit, \* partial pages between two that make progress
    HistoryEnd        \* bound on the times of requests and of the history

ASSUME HistoryAssumption ==
    /\ {Trigger, InitialStep, MinimumStep} \subseteq Nat \ {0}
    /\ {ProbeLimit, NoProgressLimit} \subseteq Nat
    /\ {ShortPageProbes, PartialPageLimit} \subseteq Nat
    /\ HistoryEnd \in 0 .. MaxTime

VARIABLES
    range,     \* the request: [from, to]
    pc,        \* "bootstrap", "page", "done" or "failed"
    probe,     \* the bootstrap: see NewProbe
    cursor,    \* [at, seen]: timestamp, and the ticks consumed at it
    probes,    \* short_page_confirmations
    partials,  \* partial_page_count
    delivered, \* the ticks that the consumer got
    begun,     \* history: the archive when the paging began
    sightings  \* history: what the last two probes saw at the requested start
historyVars == <<range, pc, probe, cursor, probes, partials, delivered, begun,
                 sightings>>

MaxAnchorGap == MinimumStep

NewProbe(search) == [search |-> search, step |-> InitialStep, stalled |-> 0,
                     confirmed |-> None, target |-> None, count |-> 0]

Deep(r) == r.to - r.from >= Trigger

\* A range with its start behind the clock needs no bootstrap either.
Starts(r, now) ==
    IF Deep(r) /\ Min({r.to, now}) > r.from THEN "bootstrap" ELSE "page"

InitHistory ==
    \E r \in {x \in [from: 0 .. HistoryEnd, to: 0 .. HistoryEnd] : x.from <= x.to},
       now \in 0 .. HistoryEnd :
        /\ range = r
        /\ pc = Starts(r, now)
        /\ probe = NewProbe(Min({r.to, now}))
        /\ cursor = [at |-> r.from, seen |-> NoTicks]
        /\ probes = 0 /\ partials = 0
        /\ delivered = NoTicks
        /\ begun = archive
        /\ sightings = <<None, None>>

Fails == pc' = "failed"

-----------------------------------------------------------------------------
(* Bootstrap. *)

Candidate == probe.search - Min({probe.step, Max({0, probe.search - range.from})})

Doubled(step) == IF step < InitialStep THEN Min({InitialStep, step * 2}) ELSE step

\* The confirmation is kept over a probe that failed.
StalledKeepingTarget(b) == [b EXCEPT !.stalled = @ + 1]

\* A probe that failed, or that came with a transient status: the confirmation
\* at the requested start begins anew.
Stalled(b) == [b EXCEPT !.target = None, !.stalled = @ + 1]

\* Nothing there: the search goes on, and nothing is confirmed.
Emptied(b, c) ==
    IF c < b.search
    THEN [b EXCEPT !.target = None, !.search = c, !.stalled = 0,
                   !.step = Doubled(@)]
    ELSE Stalled(b)

\* The oldest tick is older than the search has come.
Moved(b, c, oldest) ==
    [b EXCEPT !.confirmed = IF @ = None THEN oldest ELSE Min({@, oldest}),
              !.search = IF oldest <= range.from THEN range.from ELSE oldest,
              !.stalled = 0,
              !.target = IF oldest <= range.from \/ c = range.from
                         THEN oldest ELSE None,
              !.step = Doubled(@)]

AnchorGapIsBounded(oldest) ==
    oldest >= range.from /\ oldest - range.from <= MaxAnchorGap

\* The oldest tick is where the search is: at the requested start it becomes
\* the one to confirm.
Stood(b, c, oldest) ==
    [b EXCEPT !.confirmed = IF @ = None THEN oldest ELSE Min({@, oldest}),
              !.target = IF c = range.from /\ AnchorGapIsBounded(oldest)
                         THEN oldest ELSE None,
              !.stalled = @ + 1]

Confirms(b, c, oldest) ==
    /\ c = range.from /\ oldest >= b.search
    /\ AnchorGapIsBounded(oldest)
    /\ b.target = oldest

\* The smaller step, and with it another chance.
Halved(b) ==
    IF b.step > MinimumStep
    THEN [b EXCEPT !.step = Max({MinimumStep, @ \div 2}), !.stalled = 0]
    ELSE b

GivesUp(b) == b.step = MinimumStep /\ b.stalled >= NoProgressLimit

\* The next probe, if any is left.
Goes(b) ==
    /\ probe' = [b EXCEPT !.count = @ + 1]
    /\ pc' = IF probe.count + 1 >= ProbeLimit THEN "failed" ELSE "bootstrap"

GoesOn(b) ==
    IF GivesUp(Halved(b)) THEN Fails /\ UNCHANGED probe ELSE Goes(Halved(b))

Sights(t) == sightings' = <<sightings[2], t>>

\* The budget of time is spent, or the answer is not a transient one.
ProbeFails ==
    /\ pc = "bootstrap" /\ Fails
    /\ UNCHANGED <<range, probe, cursor, probes, partials, delivered, begun,
                   sightings>>

ProbeIsTransient ==
    /\ pc = "bootstrap"
    /\ GoesOn(Stalled(probe))
    /\ Sights(None)
    /\ UNCHANGED <<range, cursor, probes, partials, delivered, begun>>

\* One row, of which only one that is not older than the candidate counts.
Probe(page) ==
    LET valid == Between(page, Candidate, MaxTime)
        oldest == Min(Times(valid))
        c == Candidate
    IN  /\ IF Times(valid) = {}
           THEN GoesOn(Emptied(probe, c)) /\ Sights(None)
           ELSE /\ Sights(IF c = range.from THEN oldest ELSE None)
                /\ IF oldest < probe.search THEN Goes(Moved(probe, c, oldest))
                   ELSE IF Confirms(probe, c, oldest)
                   THEN pc' = "page" /\ UNCHANGED probe
                   ELSE GoesOn(Stood(probe, c, oldest))
        /\ begun' = archive
        /\ UNCHANGED <<range, cursor, probes, partials, delivered>>

-----------------------------------------------------------------------------
(* Paging. *)

Count == PageSize + Size(cursor.seen)

\* A read that failed, a consumer that cancelled, the runtime that went down.
ReadFails ==
    /\ pc = "page" /\ Fails
    /\ UNCHANGED <<range, probe, cursor, probes, partials, delivered, begun,
                   sightings>>

\* Not counted: the confirmation of the end begins anew instead.
ReadIsPartialRestarting ==
    /\ pc = "page"
    /\ probes' = 0
    /\ UNCHANGED <<range, pc, probe, cursor, partials, delivered, begun, sightings>>

\* Rows with a transient status after all attempts: read again from the cursor.
ReadIsPartial ==
    /\ pc = "page"
    /\ partials' = partials + 1
    /\ pc' = IF partials + 1 > PartialPageLimit THEN "failed" ELSE "page"
    /\ UNCHANGED <<range, probe, cursor, probes, delivered, begun, sightings>>

\* Nothing new: the end, once it was confirmed.
Confirming ==
    IF probes >= ShortPageProbes THEN pc' = "done" /\ UNCHANGED probes
                                 ELSE probes' = probes + 1 /\ UNCHANGED pc

ReadIsEmpty ==
    /\ pc = "page"
    /\ NoTicks \in Pages(cursor.at, Count)
    /\ Confirming
    /\ UNCHANGED <<range, probe, cursor, partials, delivered, begun, sightings>>

\* The rows of a page that the consumer gets.
New(page) == Unseen(page, cursor.at, cursor.seen, range.to)

\* The page ends before the cursor, or is full and has nothing new.
ReadIsRefused(page) ==
    /\ pc = "page" /\ page # NoTicks
    /\ LET last == LastTime(page) IN
       \/ last < cursor.at
       \/ /\ last = cursor.at /\ At(New(page), last) = NoTicks
          /\ Size(page) >= Count
    /\ Fails
    /\ UNCHANGED <<range, probe, cursor, probes, partials, delivered, begun,
                   sightings>>

\* A short page of known rows at the cursor.
ReadIsStale(page) ==
    /\ pc = "page" /\ page # NoTicks
    /\ LastTime(page) = cursor.at /\ At(New(page), cursor.at) = NoTicks
    /\ Size(page) < Count
    /\ Confirming
    /\ UNCHANGED <<range, probe, cursor, partials, delivered, begun, sightings>>

EndsShort(last, confirmed) ==
    last > range.to \/ confirmed >= ShortPageProbes

\* The rows are delivered and the cursor moves to the last timestamp; a short
\* page is the end if it reaches beyond the range, else it is to be confirmed.
ReadAdvances(page) ==
    LET last == LastTime(page)
        new == New(page)
        confirmed == IF new # NoTicks THEN 0 ELSE probes
        short == Size(page) < Count
    IN  /\ pc = "page" /\ page # NoTicks
        /\ last >= cursor.at
        /\ last = cursor.at => At(new, last) # NoTicks
        /\ delivered' = delivered (+) new
        /\ cursor' = [at |-> last,
                      seen |-> BoundaryAfter(cursor.seen, cursor.at, last, new)]
        /\ partials' = 0
        /\ IF short /\ EndsShort(last, confirmed)
           THEN pc' = "done" /\ probes' = confirmed
           ELSE /\ probes' = IF short THEN confirmed + 1 ELSE 0
                /\ UNCHANGED pc
        /\ UNCHANGED <<range, probe, begun, sightings>>

-----------------------------------------------------------------------------
ReadStep ==
    \/ ProbeFails \/ ProbeIsTransient
    \/ pc = "bootstrap" /\ \E p \in Pages(Candidate, 1) : Probe(p)
    \/ ReadFails \/ ReadIsPartial \/ ReadIsEmpty
    \/ /\ pc = "page"
       /\ \E p \in Pages(cursor.at, Count) :
            ReadIsRefused(p) \/ ReadIsStale(p) \/ ReadAdvances(p)

-----------------------------------------------------------------------------
\* A query that says it is complete delivered each tick of the range that was
\* there when the paging began, however the rest of the history arrived.
HistoryIsWhole ==
    pc = "done" => Between(begun, range.from, range.to) \sqsubseteq delivered

\* No tick is delivered more often than the terminal has it.
NoTickTwice == delivered \sqsubseteq archive

\* visit_ticks_range skips nothing and repeats nothing: neither the ticks that
\* share the timestamp at which two pages meet, whose order differs from one
\* read to the next, nor those that a partial page made it read again.
HistoryIsExact == HistoryIsWhole /\ NoTickTwice

\* Paging after a bootstrap begins only when the last two probes saw the same
\* oldest tick at the requested start, near to it, with no failure in between.
BootstrapIsConfirmed ==
    pc \in {"page", "done"} /\ probe.count > 0 =>
        /\ sightings[1] # None
        /\ sightings[1] = sightings[2]
        /\ AnchorGapIsBounded(sightings[2])

\* No answer of the terminal keeps a query reading for ever.
QueryEnds == <>(pc \in {"done", "failed"})

=============================================================================
