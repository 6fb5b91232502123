-------------------------- MODULE ObservationLoop --------------------------
(***************************************************************************)
(* ObservationCoordinator, ReconciliationWorker, the dispatch gate and the *)
(* environment policy around a broker that does not stand still: one owner *)
(* loop refreshes the graph, captures a baseline, asks the worker about it *)
(* and collects samples for the policy, while orders are filled, cancelled *)
(* and published view by view between any two reads of a collection.       *)
(*                                                                         *)
(* The broker is external.  What happened to an order is decided at once,  *)
(* but each view (active orders, history, deals, positions) shows it in    *)
(* its own time.  Order 1 opens the position that order 2 closes; the      *)
(* position has the ticket of the order that opened it.  Only this owner   *)
(* trades the account (the lease), it does so between its refreshes and    *)
(* cycles, and it closes what every view shows as opened.                  *)
(* Orders that have left a view do not return, and the terminal changes    *)
(* its account at most once (ADR-0010 leaves a switch there and back out). *)
(***************************************************************************)
EXTENDS Observation

CONSTANTS
    Programs,     \* the host programs: see ProgramType
    MaxRevision   \* bound on graph revisions

\* Order 1 opens the position that order 2 closes.
Order == 1 .. 2

ScopeType ==
    [domains: SUBSET Domains, window: [Histories -> [from: Nat, to: Nat]],
     dealsFirst: BOOLEAN]

\* A host asks its worker about the orders that it sends.
PredicateType ==
    [domain: Domains, ticket: Order \cup {0}, present: BOOLEAN,
     window: [from: Nat, to: Nat]]

\* What a host program does with the bridge: the collections that its owner loop
\* asks for on its own account and in cycles of the policy, what it may give to
\* a worker, max_observations of a cycle, and the accounts that the terminal is
\* logged in to one after the other.
ProgramType(p) ==
    /\ DOMAIN p = {"polls", "cycles", "requests", "samples", "accounts"}
    /\ p.polls \subseteq ScopeType /\ p.cycles \subseteq ScopeType
    /\ \A r \in p.requests : r \in [scope: ScopeType, predicates: SUBSET PredicateType]
    /\ p.samples \in 2 .. 8
    /\ Len(p.accounts) \in 1 .. 2
    /\ Len(p.accounts) = 2 => p.accounts[1] # p.accounts[2]

ASSUME LoopAssumption ==
    /\ MaxRevision \in Nat
    /\ \A p \in Programs : ProgramType(p)

VARIABLES
    program,   \* the host program of this behaviour
    broker,    \* [Order -> [stage, shown]], what happened and what shows it
    account,   \* index of the terminal's present account
    call,      \* the collection in progress, or Idle
    graph,     \* the coordinator's graph
    baseline,  \* the captured baseline, or NoBaseline
    request,   \* what the worker was given, or NoRequest
    outcome,   \* the worker's last outcome, "none" before the first
    samples,   \* the samples of the policy cycle
    seen,      \* history: the broker's views when the baseline was captured
    stood      \* history: the last sample was the broker's view at a moment
               \* since that sample was complete

vars == <<program, broker, account, call, graph, baseline, request, outcome,
          samples, seen, stood>>

Opening == 1
Closing == 2
DoneTime(o) == 2 * o - 1

\* What other accounts show in every view.
Foreign == 9

Idle == [todo |-> <<>>, purpose |-> "none"]
Busy == call # Idle

NoRequest == [predicates |-> {}]
NoBaseline == [account |-> NoAccount, rev |-> 0, domainRev |-> [d \in Domains |-> 0]]

-----------------------------------------------------------------------------
(***************************************************************************)
(* The broker's views.                                                     *)
(***************************************************************************)
\* Gone from the active orders, in the order history, its deal in the deal
\* history, its effect on the position.
Facets == {"left", "done", "deal", "position"}

Shows(o, facet) == facet \in broker[o].shown

\* An order that opens a position carries no position id until it is filled.
PositionOf(o) ==
    IF o = Closing \/ broker[o].stage = "filled" THEN Opening ELSE 0

Active(o) == broker[o].stage # "unsent" /\ ~Shows(o, "left")
Open == Shows(Opening, "position") /\ ~Shows(Closing, "position")

ForeignView(d) ==
    CASE d = "active_orders" -> {OrderRecord(Foreign, 0)}
      [] d = "positions" -> {PositionRecord(Foreign, Foreign)}
      [] d = "history_orders" -> {HistoryOrderRecord(Foreign, Foreign, 1)}
      [] OTHER -> {DealRecord(Foreign, Foreign, Foreign, 1)}

OwnView(d) ==
    CASE d = "active_orders" ->
            {OrderRecord(o, PositionOf(o)) : o \in {o \in Order : Active(o)}}
      [] d = "positions" -> IF Open THEN {PositionRecord(Opening, Opening)} ELSE {}
      [] d = "history_orders" ->
            {HistoryOrderRecord(o, PositionOf(o), DoneTime(o)) :
                o \in {o \in Order : Shows(o, "done")}}
      [] OTHER -> {DealRecord(o, o, Opening, DoneTime(o)) :
                      o \in {o \in Order : Shows(o, "deal")}}

View(d, scope) ==
    LET all == IF account = 1 THEN OwnView(d) ELSE ForeignView(d)
    IN  IF d \notin scope.domains THEN {}
        ELSE IF d \in Snapshots THEN all
        ELSE {r \in all : InWindow(r.time, scope.window[d])}

\* What a collection would read if the broker stood still.
Instant(scope) ==
    [account |-> program.accounts[account], scope |-> scope,
     records |-> [d \in Domains |-> View(d, scope)]]

\* The last sample, and whether the views say the same now.
Last == samples[Len(samples)]
Stands == samples # <<>> /\
          Signature(Instant(Last.batch.scope)) = Signature(Last.batch)

TypeOK ==
    /\ broker \in [Order -> [stage : {"unsent", "working", "filled", "cancelled"},
                             shown : SUBSET Facets]]
    /\ account \in 1 .. Len(program.accounts)
    /\ graph.rev \in 0 .. MaxRevision
    /\ \A d \in Domains : graph.domainRev[d] \in 0 .. graph.rev
    /\ \A d \in Histories : \A c \in graph.coverage[d] :
          ValidWindow(c.window) /\ c.rev \in 1 .. graph.rev
    /\ Len(samples) <= program.samples

Init ==
    /\ program \in Programs
    /\ broker = [o \in Order |-> [stage |-> "unsent", shown |-> {}]]
    /\ account = 1
    /\ call = Idle
    /\ graph = EmptyGraph
    /\ baseline = NoBaseline
    /\ request = NoRequest
    /\ outcome = "none"
    /\ samples = <<>>
    /\ seen = [d \in Domains |-> {}]
    /\ stood = FALSE

-----------------------------------------------------------------------------
(***************************************************************************)
(* Broker steps.                                                           *)
(***************************************************************************)
BrokerMoves ==
    /\ UNCHANGED <<call, graph, baseline, request, outcome, samples, seen>>
    /\ stood' = (stood \/ Stands')

\* The owner's own dispatches, between its refreshes and its cycles.
Place(o) ==
    /\ account = 1
    /\ ~Busy
    /\ Len(samples) \in {0, program.samples}
    /\ broker[o].stage = "unsent"
    /\ o = Closing => broker[Opening].shown = Facets
    /\ broker' = [broker EXCEPT ![o].stage = "working"]
    /\ UNCHANGED account
    /\ BrokerMoves

\* The broker's decision on a working order; the close is at market.
Conclude(o, how) ==
    /\ account = 1
    /\ broker[o].stage = "working"
    /\ o = Closing => how = "filled"
    /\ broker' = [broker EXCEPT ![o].stage = how]
    /\ UNCHANGED account
    /\ BrokerMoves

\* One view catches up with what happened to an order.
Publish(o, facet) ==
    /\ account = 1
    /\ \/ broker[o].stage = "filled"
       \/ broker[o].stage = "cancelled" /\ facet \in {"left", "done"}
    /\ ~Shows(o, facet)
    /\ broker' = [broker EXCEPT ![o].shown = @ \cup {facet}]
    /\ UNCHANGED account
    /\ BrokerMoves

SwitchAccount ==
    /\ account < Len(program.accounts)
    /\ account' = account + 1
    /\ UNCHANGED broker
    /\ BrokerMoves

-----------------------------------------------------------------------------
(***************************************************************************)
(* ObservationCoordinator::refresh: reads one after the other, then the    *)
(* graph admits the batch or does not.                                     *)
(***************************************************************************)
ReadOrder(scope) ==
    LET Asked(d) == IF d \in scope.domains THEN <<d>> ELSE <<>>
    IN  Asked("active_orders") \o Asked("history_orders") \o
        (IF scope.dealsFirst THEN Asked("history_deals") \o Asked("positions")
                             ELSE Asked("positions") \o Asked("history_deals"))

Begin(scope, purpose) ==
    /\ ~Busy
    /\ graph.rev < MaxRevision
    /\ call' = [todo |-> ReadOrder(scope), purpose |-> purpose,
                batch |-> [account |-> program.accounts[account], scope |-> scope,
                           records |-> [d \in Domains |-> {}]]]
    /\ UNCHANGED <<broker, account, graph, baseline, request, outcome, samples,
                   seen, stood>>

Got(records) ==
    call' = [call EXCEPT !.todo = Tail(@),
                         !.batch.records[Head(call.todo)] = records]

Read ==
    /\ Busy
    /\ call.todo # <<>>
    /\ Got(View(Head(call.todo), call.batch.scope))
    /\ UNCHANGED <<broker, account, graph, baseline, request, outcome, samples,
                   seen, stood>>

\* A reply with a record that lacks its ticket.
ReadUnusable ==
    /\ Busy
    /\ call.todo = <<"positions">>
    /\ Got({PositionRecord(0, 0)})
    /\ UNCHANGED <<broker, account, graph, baseline, request, outcome, samples,
                   seen, stood>>

\* Finished reading with the account it began with; with another one the
\* collection throws and nothing has changed.
Complete == Busy /\ call.todo = <<>>
SameAccountUnchecked == TRUE
SameAccount == call.batch.account = program.accounts[account]

Abandon ==
    /\ Complete
    /\ ~SameAccount
    /\ call' = Idle
    /\ UNCHANGED <<broker, account, graph, baseline, request, outcome, samples,
                   seen, stood>>

Admit(purpose) ==
    /\ Complete
    /\ SameAccount
    /\ call.purpose = purpose
    /\ call' = Idle
    /\ graph' = Apply(graph, call.batch)
    /\ UNCHANGED <<broker, account, baseline, request, seen>>

Accepted == ApplyStatus(graph, call.batch) = "accepted"

\* A refresh that only brings the graph up to date.
Polled == Admit("poll") /\ UNCHANGED <<samples, outcome, stood>>

\* The refresh of a policy cycle: its sample joins the others.
Sampled ==
    /\ Admit("sample")
    /\ samples' = IF Accepted
                  THEN Append(samples, [batch |-> call.batch, rev |-> graph'.rev,
                                        stood |-> stood])
                  ELSE samples
    /\ stood' = IF Accepted THEN Stands' ELSE stood
    /\ UNCHANGED outcome

\* The refresh of ReconciliationWorker::step, and its evaluation.  A batch that
\* the graph rejects is evidence against the operation.
Stepped(gap, deadline) ==
    /\ Admit("worker")
    /\ outcome' =
         IF Accepted THEN Evaluate(graph', baseline, request.predicates, gap, deadline)
         ELSE IF ApplyStatus(graph, call.batch) = "account_mismatch"
              THEN "account_mismatch"
         ELSE "ambiguous"
    /\ UNCHANGED <<samples, stood>>

-----------------------------------------------------------------------------
(***************************************************************************)
(* The owner loop.                                                         *)
(***************************************************************************)
\* A new policy cycle, over the samples that follow.
StartCycle(scope) ==
    /\ samples = <<>> \/ Len(samples) = program.samples
    /\ Begin(scope, "cycle")

\* The cycle goes on with the scope it began with.
ContinueCycle ==
    /\ samples # <<>>
    /\ Len(samples) < program.samples
    /\ Begin(Last.batch.scope, "sample")

\* The first sample of a cycle drops those of the last one.
Restarted ==
    /\ Admit("cycle")
    /\ samples' = IF Accepted
                  THEN <<[batch |-> call.batch, rev |-> graph'.rev, stood |-> FALSE]>>
                  ELSE <<>>
    /\ stood' = (Accepted /\ Stands')
    /\ UNCHANGED outcome

\* capture_baseline before a dispatch, and a worker for what it should show.
Capture(wanted) ==
    /\ ~Busy
    /\ request = NoRequest
    /\ graph.account # NoAccount
    /\ baseline' = BaselineOf(graph)
    /\ request' = wanted
    /\ seen' = [d \in Domains |-> Tickets(IF account = 1 THEN OwnView(d) ELSE {})]
    /\ UNCHANGED <<broker, account, call, graph, outcome, samples, stood>>

\* ReconciliationWorker::step; a settled worker does not read again.
WorkerStep ==
    /\ request # NoRequest
    /\ ~Resolved(outcome)
    /\ Begin(request.scope, "worker")

\* ObservationGraph::clear_evidence.
Clear ==
    /\ ~Busy
    /\ 0 < graph.rev /\ graph.rev < MaxRevision
    /\ graph' = ClearEvidence(graph)
    /\ UNCHANGED <<broker, account, call, baseline, request, outcome, samples,
                   seen, stood>>

Next ==
    \/ \E o \in Order :
        \/ Place(o)
        \/ \E how \in {"filled", "cancelled"} : Conclude(o, how)
        \/ \E facet \in Facets : Publish(o, facet)
    \/ SwitchAccount
    \/ Read \/ ReadUnusable \/ Abandon
    \/ \E scope \in program.polls : Begin(scope, "poll")
    \/ \E scope \in program.cycles : StartCycle(scope)
    \/ ContinueCycle \/ WorkerStep
    \/ Polled \/ Sampled \/ Restarted
    \/ \E gap, deadline \in BOOLEAN : Stepped(gap, deadline)
    \/ \E wanted \in program.requests : Capture(wanted)
    \/ Clear

\* The program is what it is from the start.
Spec == Init /\ [][UNCHANGED program /\ Next]_vars

-----------------------------------------------------------------------------
(***************************************************************************)
(* Properties.                                                             *)
(***************************************************************************)
PolicyNow == PolicyState(samples, Last.batch.scope, program.samples)

\* Two collections that agree are evidence of one state of the broker: when the
\* policy says consistent, all views together showed what the samples hold at
\* some moment between the two, although no read was atomic and orders came,
\* went and were published meanwhile.
ConsistentViewExisted ==
    samples # <<>> /\ PolicyNow = "consistent" => Last.stood

\* Reads that race a broker whose links agree are never taken for a
\* contradiction: a link that a view does not show yet conflicts with nothing.
NoFalseMismatch == samples # <<>> => PolicyNow # "cross_view_mismatch"

\* What the policy says of its samples is so.
PolicyTellsTheTruth == ConsistentViewExisted /\ NoFalseMismatch

\* The sweep over coverage windows decides what it is for: a window counts as
\* covered exactly when every moment of it was read since the revision.  (It is
\* asked between collections: a collection changes the graph at its end.)
CoverageIsExact ==
    ~Busy => \A d \in Histories, since \in 0 .. graph.rev, a, b \in 1 .. 3 :
        Covered(graph, d, Window(a, b), since) <=>
            a <= b /\ \A t \in a .. b : \E c \in graph.coverage[d] :
                          c.rev > since /\ InWindow(t, c.window)

\* Whether a predicate that was true when it was confirmed stays so: what is in
\* a history remains there, what was seen and has left a snapshot is gone.
StillTrue(p) ==
    CASE p.present /\ p.domain \in Histories ->
            \E r \in OwnView(p.domain) :
                r.ticket = p.ticket /\ (p.window = NoWindow \/ InWindow(r.time, p.window))
      [] ~p.present /\ p.domain \in Snapshots ->
            p.ticket \in seen[p.domain] => p.ticket \notin Tickets(OwnView(p.domain))
      [] OTHER -> TRUE

\* A confirmation is never taken back: it rests on reads made after the
\* baseline, whatever the graph still holds from before.
ConfirmedIsLasting ==
    outcome = "confirmed" => \A p \in request.predicates : StillTrue(p)

\* Evidence that stood in a history when the baseline was captured, in the window
\* that was asked for, cannot be reported as not observed: the reads that say so
\* cover its time, and are new.
NotObservedMeansUnseen ==
    outcome = "not_observed" =>
        \E p \in request.predicates :
            ~ /\ p.present /\ p.domain \in Histories
              /\ p.ticket \in seen[p.domain]
              /\ InWindow(DoneTime(p.ticket), p.window)

\* What the gate may be asked for.
Demands ==
    LET asked == program.polls \cup {r.scope : r \in {request} \ {NoRequest}}
    IN  asked \cup {[s EXCEPT !.domains = @ \cap Snapshots] : s \in asked}

\* A gate that opens has seen, since the baseline, every order and position that
\* stood at the baseline and stands now, and all the history of that time.
ReadyShowsWhatStands ==
    \A scope \in Demands : \A d \in scope.domains :
        GateState(graph, baseline, scope, FALSE, FALSE) = "ready" =>
            {r.ticket : r \in {r \in OwnView(d) :
                /\ r.ticket \in seen[d]
                /\ d \in Histories => InWindow(r.time, scope.window[d])}}
            \subseteq Tickets(graph.records[d])

\* What is concluded from the reads since a baseline, by the worker and by the
\* gate, is so.
ConclusionsAreSound ==
    ConfirmedIsLasting /\ NotObservedMeansUnseen /\ ReadyShowsWhatStands

\* All evidence in the graph is of the graph's account, although the terminal
\* may change its account in the middle of a collection.
AccountsNeverMix ==
    \A d \in Domains : Tickets(graph.records[d]) \subseteq
        IF graph.account = program.accounts[1] THEN Order ELSE {Foreign}
=============================================================================
