------------------------ MODULE MCObservationLoop ------------------------
(***************************************************************************)
(* ObservationLoop with two host programs: one collects all views, in both *)
(* reading orders, the other polls a short window that meets what its      *)
(* worker reads, or leaves a gap.                                          *)
(***************************************************************************)
EXTENDS ObservationLoop

Scope(domains, window, dealsFirst) ==
    [domains |-> domains, window |-> [d \in Histories |-> window],
     dealsFirst |-> dealsFirst]

Full(dealsFirst) == Scope(Domains, Window(1, 3), dealsFirst)

BothOrders == {Full(TRUE), Full(FALSE)}

ShortWindow == Scope({"active_orders", "history_deals"}, Window(1, 1), FALSE)

\* A worker whose own reads leave the active orders, and a part of the window,
\* to polls; one that reads all it needs.
MCRequests ==
    {[scope |-> Scope({"history_deals"}, Window(2, 3), FALSE),
      predicates |-> {Predicate("active_orders", Opening, FALSE, NoWindow),
                      Predicate("history_deals", Opening, TRUE, Window(1, 2))}],
     [scope |-> Scope({"positions", "history_deals"}, Window(3, 3), FALSE),
      predicates |-> {Predicate("positions", Opening, FALSE, NoWindow),
                      Predicate("history_deals", Closing, TRUE, Window(3, 3))}]}

\* Three samples of all views, while the account may change; and a worker that
\* depends on its own reads and on polls.
MCPrograms ==
    {[polls |-> {}, cycles |-> BothOrders, requests |-> {}, samples |-> 3,
      accounts |-> <<"A", "B">>],
     [polls |-> {ShortWindow}, cycles |-> {}, requests |-> MCRequests, samples |-> 2,
      accounts |-> <<"A">>]}
=============================================================================
