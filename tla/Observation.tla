---------------------------- MODULE Observation ----------------------------
(***************************************************************************)
(* The observation graph and the three judges that read it, as operators:  *)
(* ObservationGraph (reconciliation/graph.hpp), ReconciliationEngine       *)
(* (engine.hpp), DispatchConsistencyGate (coordinator.hpp) and             *)
(* EnvironmentConsistencyPolicy (environment_consistency.hpp).             *)
(*                                                                         *)
(* A batch is what one collection read; the graph keeps what the accepted  *)
(* batches said, each piece with the graph revision that said it.  Tickets *)
(* and position ids are naturals with 0 for "none"; times are naturals,    *)
(* with UnknownTime for a record whose time field is not known.  Fields    *)
(* that identify nothing (symbols, volumes, prices) are left out, and so   *)
(* is close-by (a second position id of an order).                         *)
(***************************************************************************)
EXTENDS Integers, Sequences, FiniteSets, FiniteSetsExt

Snapshots == {"active_orders", "positions"}
Histories == {"history_orders", "history_deals"}
Domains == Snapshots \cup Histories

UnknownTime == 0

\* Records by domain; all carry a ticket.
OrderRecord(t, p) == [ticket |-> t, position |-> p]
PositionRecord(t, p) == [ticket |-> t, position |-> p]
HistoryOrderRecord(t, p, time) == [ticket |-> t, position |-> p, time |-> time]
DealRecord(t, o, p, time) ==
    [ticket |-> t, order |-> o, position |-> p, time |-> time]

Tickets(records) == {r.ticket : r \in records}

\* An inclusive range of times; NoWindow, which is not valid, for an absent one.
Window(a, b) == [from |-> a, to |-> b]
NoWindow == Window(1, 0)
ValidWindow(w) == w.from <= w.to
InWindow(time, w) == w.from <= time /\ time <= w.to
Overlaps(v, w) == v.from <= w.to /\ w.from <= v.to

\* What to collect: the domains, the windows of the two histories, and which
\* of positions and deals is read first.
Windowed(scope) ==
    /\ scope.domains # {}
    /\ \A d \in scope.domains \cap Histories : ValidWindow(scope.window[d])

-----------------------------------------------------------------------------
(***************************************************************************)
(* The graph.                                                              *)
(***************************************************************************)
NoAccount == "no account"

\* domainRev is the last revision that observed a domain; coverage holds the
\* windows that were read completely, with the revision of each.  History
\* records carry the revision that last confirmed them.
EmptyGraph ==
    [account |-> NoAccount, rev |-> 0,
     records |-> [d \in Domains |-> {}],
     domainRev |-> [d \in Domains |-> 0],
     coverage |-> [d \in Histories |-> {}]]

\* A batch says which domains it observed, and with which windows: a batch
\* with other records, or records outside its windows, is not evidence.  A
\* complete read of a history carries its window and the times of its records.
ValidBatch(b) ==
    /\ b.scope.domains # {}
    /\ \A d \in Domains \ b.scope.domains : b.records[d] = {}
    /\ \A d \in b.scope.domains \cap Histories :
        /\ ValidWindow(b.scope.window[d])
        /\ \A r \in b.records[d] : InWindow(r.time, b.scope.window[d])
    /\ \A d \in b.scope.domains :
        /\ 0 \notin Tickets(b.records[d])
        /\ Cardinality(Tickets(b.records[d])) = Cardinality(b.records[d])

ApplyStatus(g, b) ==
    IF b.account = NoAccount THEN "invalid_account"
    ELSE IF g.account \notin {NoAccount, b.account} THEN "account_mismatch"
    ELSE IF ~ValidBatch(b) THEN "invalid_evidence"
    ELSE "accepted"

\* A record of a history with the revision that confirmed it.
Confirmed(r, rev) ==
    [field \in DOMAIN r \cup {"rev"} |-> IF field = "rev" THEN rev ELSE r[field]]

\* History evidence accumulates by ticket, a snapshot replaces the last one.
Evidence(old, read, rev) ==
    {r \in old : r.ticket \notin Tickets(read)} \cup {Confirmed(r, rev) : r \in read}

Apply(g, b) ==
    LET rev == g.rev + 1
        Seen(d) == d \in b.scope.domains
    IN  IF ApplyStatus(g, b) # "accepted"
        THEN g
        ELSE [account |-> b.account,
              rev |-> rev,
              records |-> [d \in Domains |->
                  IF ~Seen(d) THEN g.records[d]
                  ELSE IF d \in Snapshots THEN b.records[d]
                  ELSE Evidence(g.records[d], b.records[d], rev)],
              domainRev |-> [d \in Domains |->
                  IF Seen(d) THEN rev ELSE g.domainRev[d]],
              coverage |-> [d \in Histories |->
                  IF Seen(d)
                  THEN g.coverage[d] \cup {[window |-> b.scope.window[d],
                                            rev |-> rev]}
                  ELSE g.coverage[d]]]

ClearEvidence(g) == [EmptyGraph EXCEPT !.account = g.account, !.rev = g.rev + 1]

\* The code's sweep: the windows that count, by their start, each of which
\* must begin where the ones before it have left off.
SweepStepUnadjoined(s, a, w) ==
    IF s.verdict # "open" \/ a.to < s.cursor THEN s
    ELSE IF a.from > s.cursor THEN [s EXCEPT !.verdict = "gap"]
    ELSE IF a.to >= w.to THEN [s EXCEPT !.verdict = "covered"]
    ELSE [s EXCEPT !.cursor = a.to]

SweepStep(s, a, w) ==
    IF s.verdict # "open" \/ a.to < s.cursor THEN s
    ELSE IF a.from > s.cursor THEN [s EXCEPT !.verdict = "gap"]
    ELSE IF a.to >= w.to THEN [s EXCEPT !.verdict = "covered"]
    ELSE [s EXCEPT !.cursor = a.to + 1]

\* By their start, and then by their end.
Earlier(a, b) == a.from < b.from \/ (a.from = b.from /\ a.to < b.to)

LastOf(windows) == CHOOSE a \in windows : \A b \in windows \ {a} : Earlier(b, a)

\* From the earliest window to the last one.
Sweep(windows, w) ==
    MapThenFoldSet(LAMBDA a, s : SweepStep(s, a, w),
                   [cursor |-> w.from, verdict |-> "open"],
                   LAMBDA a : a, LastOf, windows).verdict = "covered"

\* Whether reads that are newer than a revision cover the window.
Covered(g, d, w, since) ==
    /\ ValidWindow(w)
    /\ Sweep({c.window : c \in {c \in g.coverage[d] :
                 c.rev > since /\ Overlaps(c.window, w)}}, w)

-----------------------------------------------------------------------------
(***************************************************************************)
(* The reconciliation engine: predicates against a baseline.               *)
(***************************************************************************)
\* A baseline is the revisions of the graph at one moment.
BaselineOf(g) == [account |-> g.account, rev |-> g.rev, domainRev |-> g.domainRev]

\* A predicate asserts that a ticket of a domain is present or absent; for a
\* history, within a window.  Ticket 0 is an identity not known yet.
Predicate(d, t, here, w) ==
    [domain |-> d, ticket |-> t, present |-> here, window |-> w]

ValidPredicate(p) ==
    /\ p.domain \in Snapshots => p.window = NoWindow
    /\ ~p.present => p.ticket # 0
    /\ ~p.present /\ p.domain \in Histories => ValidWindow(p.window)

\* Whether the last read of a domain is no newer than the baseline.
StaleIfUnread(g, b, d) == g.domainRev[d] = 0

Stale(g, b, d) == g.domainRev[d] <= b.domainRev[d]

JudgeSnapshot(g, b, p) ==
    IF Stale(g, b, p.domain) THEN "pending"
    ELSE IF (p.ticket \in Tickets(g.records[p.domain])) = p.present
         THEN "satisfied"
    ELSE "missing"

JudgeHistory(g, b, p) ==
    LET fresh == {r \in g.records[p.domain] :
                     r.ticket = p.ticket /\ r.rev > b.domainRev[p.domain]}
        hit == \E r \in fresh :
                  IF p.window = NoWindow THEN TRUE
                  ELSE r.time # UnknownTime /\ InWindow(r.time, p.window)
        undated == p.window # NoWindow /\ \E r \in fresh : r.time = UnknownTime
        covered == Covered(g, p.domain, p.window, b.domainRev[p.domain])
    IN  IF p.present
        THEN IF hit THEN "satisfied"
             ELSE IF undated THEN "contradictory"
             ELSE IF covered THEN "missing" ELSE "pending"
        ELSE IF ~covered THEN "pending"
             ELSE IF undated THEN "contradictory"
             ELSE IF hit THEN "missing" ELSE "satisfied"

Judge(g, b, p) ==
    IF p.ticket = 0 THEN "unbound"
    ELSE IF p.domain \in Snapshots THEN JudgeSnapshot(g, b, p)
    ELSE JudgeHistory(g, b, p)

\* ReconciliationEngine::evaluate of a request with a baseline of this graph.
Evaluate(g, b, predicates, gap, deadline) ==
    LET judged == {Judge(g, b, p) : p \in predicates}
    IN  IF \/ b.account = NoAccount \/ b.rev > g.rev \/ predicates = {}
           \/ \E p \in predicates : ~ValidPredicate(p)
        THEN "ambiguous"
        ELSE IF g.account = NoAccount THEN "pending"
        ELSE IF g.account # b.account THEN "account_mismatch"
        ELSE IF "contradictory" \in judged THEN "ambiguous"
        ELSE IF "unbound" \in judged THEN "pending"
        ELSE IF gap /\ judged # {"satisfied"} THEN "trade_event_gap"
        ELSE IF "pending" \in judged THEN "pending"
        ELSE IF "missing" \in judged
             THEN IF deadline THEN "not_observed" ELSE "pending"
        ELSE "confirmed"

Resolved(outcome) == outcome \in {"confirmed", "account_mismatch", "ambiguous"}

-----------------------------------------------------------------------------
(***************************************************************************)
(* The gate in front of a dispatch.                                        *)
(***************************************************************************)
GateState(g, b, scope, gap, unresolved) ==
    LET Needs(d) == d \in scope.domains /\ Stale(g, b, d)
    IN  IF ~Windowed(scope) \/ b.account = NoAccount \/ b.rev > g.rev
        THEN "invalid_request"
        ELSE IF g.account # b.account THEN "account_mismatch"
        ELSE IF gap THEN "event_gap"
        ELSE IF unresolved THEN "unresolved_operation"
        ELSE IF Needs("active_orders") THEN "waiting_for_active_orders"
        ELSE IF Needs("positions") THEN "waiting_for_positions"
        ELSE IF \E d \in scope.domains \cap Histories :
                    ~Covered(g, d, scope.window[d], b.domainRev[d])
             THEN "waiting_for_history"
        ELSE "ready"

-----------------------------------------------------------------------------
(***************************************************************************)
(* The environment policy: consecutive observations that agree.            *)
(***************************************************************************)
\* The identity links of a batch: what of it two observations must agree on.
Signature(b) ==
    [d \in Domains |->
        CASE d = "positions" -> {r \in b.records[d] : r.position # 0}
          [] d = "active_orders" -> b.records[d]
          [] d = "history_orders" ->
                {OrderRecord(r.ticket, r.position) : r \in b.records[d]}
          [] OTHER -> {DealRecord(r.ticket, r.order, r.position, UnknownTime) :
                          r \in b.records[d]}]

OrdersNamed(b, d, t) == {r \in b.records[d] : r.ticket = t}

\* Two links that name different positions; one that names none agrees with all.
Conflicts(p, q) == p # 0 /\ q # 0 /\ p # q

\* The deals with an order that none of the two order views shows.
Orphans(b) ==
    {r \in b.records["history_deals"] :
        r.order # 0 /\ OrdersNamed(b, "active_orders", r.order) = {}
                    /\ OrdersNamed(b, "history_orders", r.order) = {}}

\* An orphan whose order should have been in the views is still to be resolved;
\* one whose order was not asked for says too little.
SeesOrderOf(b, r) ==
    /\ {"active_orders", "history_orders"} \subseteq b.scope.domains
    /\ InWindow(r.time, b.scope.window["history_orders"])

Unresolved(b) ==
    \/ /\ "positions" \in b.scope.domains
       /\ \E r \in b.records["active_orders"] :
              r.position \notin {0} \cup {q.position : q \in b.records["positions"]}
    \/ \E r \in Orphans(b) : SeesOrderOf(b, r)

Insufficient(b) == \E r \in Orphans(b) : ~SeesOrderOf(b, r)

Contradictory(b) ==
    \/ \E r, q \in b.records["positions"] :
          r.position # 0 /\ r.position = q.position /\ r.ticket # q.ticket
    \/ \E r \in b.records["history_deals"], d \in {"active_orders", "history_orders"} :
          \E q \in OrdersNamed(b, d, r.order) : Conflicts(q.position, r.position)
    \/ \E r \in b.records["active_orders"] :
          \E q \in OrdersNamed(b, "history_orders", r.ticket) :
              Conflicts(r.position, q.position)

\* Two batches that resolve all their links, to the same links.
AgreeIfCoherent(b, c) == ~Unresolved(b) /\ ~Unresolved(c)

Agree(b, c) == ~Unresolved(b) /\ ~Unresolved(c) /\ Signature(b) = Signature(c)

\* EnvironmentConsistencyPolicy::evaluate of the samples [batch, rev] of one
\* graph.  The first sample that cannot be used decides.
PolicyState(samples, scope, max) ==
    LET n == Len(samples)
        Fault(i) ==
            LET b == samples[i].batch
            IN  IF b.account # samples[1].batch.account THEN "account_changed"
                ELSE IF \/ i > 1 /\ samples[i].rev # samples[i - 1].rev + 1
                        \/ b.scope.domains # scope.domains
                        \/ b.scope.window # scope.window
                     THEN "insufficient_evidence"
                ELSE IF Contradictory(b) THEN "cross_view_mismatch"
                ELSE "none"
        faulty == {i \in 1 .. n : Fault(i) # "none"}
        Coherent(i) == ~Unresolved(samples[i].batch)
    IN  IF n = 0 \/ n > max THEN "insufficient_evidence"
        ELSE IF faulty # {} THEN Fault(Min(faulty))
        ELSE IF \E i \in 1 .. n : Insufficient(samples[i].batch)
             THEN "insufficient_evidence"
        ELSE IF ~Coherent(n)
             THEN IF n = max THEN "unstable_environment"
                             ELSE "awaiting_confirmation"
        ELSE IF n > 1 /\ Agree(samples[n - 1].batch, samples[n].batch)
             THEN "consistent"
        ELSE IF n = max /\ Cardinality({i \in 1 .. n : Coherent(i)}) > 1
             THEN "unstable_environment"
        ELSE "awaiting_confirmation"
=============================================================================
