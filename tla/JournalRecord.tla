--------------------------- MODULE JournalRecord ---------------------------
(***************************************************************************)
(* The durable operation record of include/mt5bridge/dispatch: its two     *)
(* state machines (write-ahead and lifecycle), the record validity rule    *)
(* and the candidate record that each mutator of OperationJournal builds.  *)
(*                                                                         *)
(* Opaque bytes are abstracted to what the code tells apart: a result      *)
(* payload is empty ("none") or is the broker's reply; a reconciliation    *)
(* descriptor is absent, carries a ticket for every predicate              *)
(* ("ticketed"), or has a predicate whose ticket must come from the broker *)
(* reply ("unbound").  A record with revision 0 is no record at all, which *)
(* is how OperationRecord::valid() treats it.                              *)
(***************************************************************************)
EXTENDS Naturals

OperationState ==
    {"queued", "prechecking", "submitting", "accepted", "reconciling",
     "partially_filled", "filled", "cancelled", "expired", "rejected",
     "failed", "ambiguous"}

JournalState ==
    {"created", "prechecked", "dispatch_intent_persisted", "dispatching",
     "result_persisted", "reconciling"}

OperationKind == {"unspecified", "open", "close", "cancel"}

Descriptor == {"none", "ticketed", "unbound"}

\* What a completed transport call hands back: a deterministic rejection, or
\* a result with or without a broker ticket for the unbound predicates.
Reply == {"rejected", "ticketed", "ticketless"}

Record ==
    [os: OperationState, js: JournalState, rev: Nat, src: Nat, tok: Nat,
     kind: OperationKind, desc: Descriptor, requested: Nat, settled: Nat,
     result: Reply \cup {"none"}]

Absent ==
    [os |-> "queued", js |-> "created", rev |-> 0, src |-> 0, tok |-> 0,
     kind |-> "unspecified", desc |-> "none", requested |-> 0, settled |-> 0,
     result |-> "none"]

FillState == {"partially_filled", "filled"}

Terminal ==
    {"filled", "cancelled", "expired", "rejected", "failed", "ambiguous"}

AtLeastDispatching == {"dispatching", "result_persisted", "reconciling"}

AtLeastResultPersisted == {"result_persisted", "reconciling"}

RequiresPrechecking ==
    {"prechecked", "dispatch_intent_persisted", "dispatching"}

----------------------------------------------------------------------------
(* The two transition tables.                                              *)

NextJournalStates(js) ==
    CASE js = "created"                   -> {"prechecked"}
      [] js = "prechecked"                -> {"dispatch_intent_persisted"}
      [] js = "dispatch_intent_persisted" -> {"dispatching"}
      [] js = "dispatching"               -> AtLeastResultPersisted
      [] js = "result_persisted"          -> {"reconciling"}
      [] OTHER                            -> {}

\* Faulty: an execution that returned without calling is rolled back.
RollbackOperationStates(os) ==
    CASE os = "queued"      -> {"prechecking", "failed"}
      [] os = "prechecking" -> {"submitting", "rejected", "failed"}
      [] os = "submitting"  -> {"prechecking", "accepted", "rejected"}
      [] OTHER              -> {}

\* Faulty: a late deal reopens an operation that was cancelled.
ReopenedOperationStates(os) ==
    CASE os = "queued"      -> {"prechecking", "failed"}
      [] os = "prechecking" -> {"submitting", "rejected", "failed"}
      [] os = "submitting"  -> {"accepted", "rejected", "reconciling"}
      [] os = "accepted"    -> {"reconciling"}
      [] os \in {"reconciling", "cancelled"} -> {"partially_filled", "filled", "cancelled"}
      [] OTHER              -> {}

NextOperationStates(os) ==
    CASE os = "queued"      -> {"prechecking", "failed"}
      [] os = "prechecking" -> {"submitting", "reconciling", "ambiguous",
                                "rejected", "failed"}
      [] os = "submitting"  -> {"accepted", "rejected", "reconciling",
                                "ambiguous"}
      [] os = "accepted"    -> {"reconciling"}
      [] os = "reconciling" -> {"partially_filled", "filled", "cancelled",
                                "expired", "rejected", "ambiguous"}
      [] os = "partially_filled" -> {"reconciling", "filled", "cancelled",
                                     "expired", "ambiguous"}
      [] OTHER              -> {}

----------------------------------------------------------------------------
(* OperationRecord::valid()                                                *)

StatesPairedWith(js) ==
    CASE js = "created"     -> {"queued", "prechecking", "rejected", "failed"}
      [] js = "prechecked"  -> {"prechecking", "rejected", "failed"}
      [] js = "dispatch_intent_persisted" -> {"prechecking"}
      [] js = "dispatching" -> {"prechecking", "submitting", "reconciling",
                                "ambiguous"}
      [] js = "result_persisted" -> {"submitting", "accepted", "rejected",
                                     "reconciling", "ambiguous"}
      [] OTHER -> OperationState \ {"queued", "failed"}

\* The bindings are extracted from the reply, one per predicate without a
\* ticket; they are complete unless such a predicate found no broker ticket.
BindingsComplete(desc, result) == desc = "unbound" => result = "ticketed"

ValidSettlement(r) ==
    /\ r.settled # 0 => /\ r.kind \in {"open", "close"}
                        /\ r.os \in FillState
    /\ r.kind = "cancel" => r.os \notin FillState
    /\ r.desc # "none" /\ r.requested # 0 =>
          /\ r.settled <= r.requested
          /\ r.os \in FillState => r.settled # 0
          /\ r.os = "partially_filled" => r.settled < r.requested
          /\ r.os = "filled" => r.settled = r.requested

ValidResult(r) ==
    /\ r.js \notin AtLeastResultPersisted => r.result = "none"
    /\ r.js = "result_persisted" => r.result # "none"
    /\ r.src # 0 => r.js \in AtLeastResultPersisted /\ r.src <= r.rev
    /\ r.os = "accepted" => r.result # "none"
    /\ /\ r.desc # "none"
       /\ r.js \in AtLeastResultPersisted
       /\ ~(r.js = "result_persisted" /\ r.os = "rejected")
       => BindingsComplete(r.desc, r.result)

ValidRecord(r) ==
    /\ r.rev # 0
    /\ r.os \in StatesPairedWith(r.js)
    /\ ValidSettlement(r)
    /\ ValidResult(r)
    /\ r.js \in AtLeastDispatching => r.desc # "none"
    /\ (r.tok # 0) = (r.js \in AtLeastDispatching)

----------------------------------------------------------------------------
(* The candidate records the mutators build, and the conditions under      *)
(* which each mutator builds one.                                          *)

Created(kind) == [Absent EXCEPT !.rev = 1, !.kind = kind]

\* Every candidate is one revision ahead of the record it was built from.
Revised(r) == [r EXCEPT !.rev = @ + 1]

JournalAdvanced(r, next, token) ==
    Revised([r EXCEPT !.js = next,
                      !.tok = IF next = "dispatching" THEN token ELSE r.tok])

MayAdvanceJournal(r, next, token) ==
    /\ next \in NextJournalStates(r.js)
    /\ next # "result_persisted"
    /\ next \in RequiresPrechecking => r.os = "prechecking"
    /\ next = "dispatching" => token # 0

Described(r, desc, requested) ==
    Revised([r EXCEPT !.desc = desc, !.requested = requested])

MayDescribe(r, desc) ==
    /\ r.js = "dispatch_intent_persisted"
    /\ r.os = "prechecking"
    /\ r.desc = "none"
    /\ desc # "none"

\* volume = 0 stands for "no settled_volume argument".
OperationAdvanced(r, next, volume) ==
    Revised([r EXCEPT !.os = next,
                      !.settled = IF volume # 0 THEN volume
                                  ELSE IF next \in FillState THEN r.settled
                                  ELSE 0])

MayAdvanceOperation(r, next, volume) ==
    /\ \/ next \in NextOperationStates(r.os)
       \/ /\ r.os = "partially_filled"
          /\ next = "partially_filled"
          /\ volume > r.settled
    /\ next = "submitting" => r.js = "dispatching"
    /\ next \in {"reconciling", "ambiguous"} /\ r.os = "prechecking"
          => r.js \in AtLeastDispatching
    /\ next = "accepted" \/ (next = "rejected" /\ r.os = "submitting")
          => r.js \in AtLeastResultPersisted /\ r.result # "none"
    /\ volume # 0 => next \in FillState
    /\ next \in FillState /\ r.desc # "none" /\ r.requested # 0
          => volume # 0

AwaitsResult(r) == r.js = "dispatching" /\ r.os = "submitting"

ResultPersisted(r, reply) ==
    Revised([r EXCEPT !.js = "result_persisted", !.result = reply,
                      !.src = r.rev + 1])

\* A deterministic rejection needs no bindings and is terminal at once.
RejectionPersisted(r, reply) ==
    [ResultPersisted(r, reply) EXCEPT !.os = "rejected"]

\* persist_result_with_bindings refuses a reply whose bindings do not match
\* the descriptor before it builds a candidate.
MayPersistResult(r, reply) ==
    /\ AwaitsResult(r)
    /\ r.desc # "none" => BindingsComplete(r.desc, reply)

----------------------------------------------------------------------------
(* The compare-and-commit rule of the durable store.                       *)

SameResultSource(r, s) ==
    /\ r.kind = s.kind /\ r.result = s.result /\ r.desc = s.desc
    /\ r.requested = s.requested /\ r.src = s.src /\ r.tok = s.tok

\* Faulty: the store compares revisions and does not validate the record.
CommitUnvalidated(existing, r) ==
    /\ r.rev = existing.rev + 1
    /\ existing.rev # 0 => existing.kind = r.kind

CommitAccepted(existing, r) ==
    /\ ValidRecord(r)
    /\ r.rev = existing.rev + 1
    /\ existing.rev # 0 =>
          /\ existing.kind = r.kind
          /\ IF existing.js \in AtLeastResultPersisted
               THEN SameResultSource(existing, r)
               ELSE \/ existing.src = r.src
                    \/ /\ existing.src = 0 /\ r.src = r.rev
                       /\ existing.js = "dispatching"
                       /\ r.js = "result_persisted"
                       /\ existing.result = "none" /\ r.result # "none"

----------------------------------------------------------------------------
(* OperationRecoveryCoordinator::classify                                  *)

\* Faulty: only a persisted result bars an operation from being resumed.
ClassifyByResult(r) ==
    IF r.os \in Terminal THEN "terminal"
    ELSE IF r.js \in AtLeastResultPersisted THEN "reconcile_only"
    ELSE "resume_pre_dispatch"

Classify(r) ==
    IF r.os \in Terminal THEN "terminal"
    ELSE IF r.js \in AtLeastDispatching THEN "reconcile_only"
    ELSE IF r.os \in {"queued", "prechecking"} THEN "resume_pre_dispatch"
    ELSE "terminal"

============================================================================
