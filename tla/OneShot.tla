------------------------------ MODULE OneShot ------------------------------
(***************************************************************************)
(* What the dispatch core promises about one side effect, with no journal, *)
(* process or lease in sight.  An operation is open until somebody either  *)
(* closes it for good before the barrier, or bars it: from then on it may  *)
(* have been sent.  Exactly one step may then spend it, a spent operation  *)
(* can be called once, and nothing ever reopens an operation.              *)
(***************************************************************************)
EXTENDS Naturals

CONSTANT Op

VARIABLES
    fate,   \* [Op -> Fate]
    calls   \* [Op -> 0 .. 1]

vars == <<fate, calls>>

Fate == {"open", "closed", "barred", "spent"}

TypeOK ==
    /\ fate \in [Op -> Fate]
    /\ calls \in [Op -> 0 .. 1]

Init ==
    /\ fate = [o \in Op |-> "open"]
    /\ calls = [o \in Op |-> 0]

\* Validation rejects or fails the operation before the barrier.
Close(o) ==
    /\ fate[o] = "open"
    /\ fate' = [fate EXCEPT ![o] = "closed"]
    /\ UNCHANGED calls

\* The durable may-have-been-sent barrier.
Bar(o) ==
    /\ fate[o] = "open"
    /\ fate' = [fate EXCEPT ![o] = "barred"]
    /\ UNCHANGED calls

\* The only chance to call is taken, by a caller or by recovery giving it up.
Spend(o) ==
    /\ fate[o] = "barred"
    /\ fate' = [fate EXCEPT ![o] = "spent"]
    /\ UNCHANGED calls

Call(o) ==
    /\ fate[o] = "spent"
    /\ calls[o] = 0
    /\ calls' = [calls EXCEPT ![o] = 1]
    /\ UNCHANGED fate

Next == \E o \in Op : Close(o) \/ Bar(o) \/ Spend(o) \/ Call(o)

Spec == Init /\ [][Next]_vars
============================================================================
