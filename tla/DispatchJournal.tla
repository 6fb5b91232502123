-------------------------- MODULE DispatchJournal --------------------------
(***************************************************************************)
(* The one-shot dispatch core: owner loops that share one durable journal, *)
(* the single-writer lease with its persisted epoch, the admission barrier *)
(* and the guarded one-shot backend, with crashes between any two durable  *)
(* commits.                                                                *)
(*                                                                         *)
(* A writer is one owner loop: a process with its OperationJournal cache.  *)
(* The loop is sequential, so while execute() runs the writer does nothing *)
(* else; different writers interleave at every commit.  A mutator whose    *)
(* commit is refused or fails changes nothing and is a stuttering step,    *)
(* except inside execute(), where a failed commit ends the execution.      *)
(***************************************************************************)
EXTENDS JournalRecord

CONSTANTS
    Op,          \* the operation keys
    Writer,      \* the owner loops
    Kinds,       \* operation kinds that create() is called with
    Descriptors, \* descriptors that are persisted
    Volume,      \* requested and settled volumes; 0 for none
    MaxEpoch,    \* the largest epoch; the code's is 2^64 - 1
    MaxRevision  \* the largest record revision; the code's is 2^64 - 1

ASSUME DispatchAssumption ==
    /\ Kinds \subseteq OperationKind
    /\ Descriptors \subseteq Descriptor \ {"none"}
    /\ Volume \subseteq Nat
    /\ MaxEpoch \in Nat
    /\ MaxRevision \in Nat

VARIABLES
    store,   \* [Op -> Record], the journal directory
    cache,   \* [Writer -> [Op -> Record]], OperationJournal::records_
    epoch,   \* the persisted fencing epoch of the account
    lease,   \* [Writer -> Nat], the token a writer holds, 0 for no lease
    permit,  \* [Writer -> [Op -> Permit]], unused dispatch permits
    stage,   \* [Writer -> [Op -> Stage]], where execute() stands
    calls,   \* [Op -> Nat], side-effect calls that reached the broker
    reply    \* [Op -> ...], what the transport returned for the call

vars == <<store, cache, epoch, lease, permit, stage, calls, reply>>

Permit == [tok: Nat, rev: Nat]

\* A moved-from permit keeps its key; its token and revision become 0.
Spent == [tok |-> 0, rev |-> 0]

Stage == {"idle", "submitting", "called", "persisted"}

TypeOK ==
    /\ store \in [Op -> Record]
    /\ cache \in [Writer -> [Op -> Record]]
    /\ epoch \in Nat
    /\ lease \in [Writer -> Nat]
    /\ permit \in [Writer -> [Op -> Permit]]
    /\ stage \in [Writer -> [Op -> Stage]]
    /\ calls \in [Op -> Nat]
    /\ reply \in [Op -> Reply \cup {"none", "lost"}]

Init ==
    /\ store = [o \in Op |-> Absent]
    /\ cache = [w \in Writer |-> [o \in Op |-> Absent]]
    /\ epoch = 0
    /\ lease = [w \in Writer |-> 0]
    /\ permit = [w \in Writer |-> [o \in Op |-> Spent]]
    /\ stage = [w \in Writer |-> [o \in Op |-> "idle"]]
    /\ calls = [o \in Op |-> 0]
    /\ reply = [o \in Op |-> "none"]

Idle(w) == \A o \in Op : stage[w][o] = "idle"

\* Every mutator refuses a record at the largest revision; an accepted
\* mutation commits the candidate durably and only then replaces the record in
\* the writer's own cache.
Commit(w, o, r) ==
    /\ r.rev <= MaxRevision
    /\ CommitAccepted(store[o], r)
    /\ store' = [store EXCEPT ![o] = r]
    /\ cache' = [cache EXCEPT ![w][o] = r]

----------------------------------------------------------------------------
(* OperationJournal, called from an owner loop.                            *)

Create(w, o, kind) ==
    /\ Idle(w)
    /\ cache[w][o].rev = 0
    /\ Commit(w, o, Created(kind))
    /\ UNCHANGED <<epoch, lease, permit, stage, calls, reply>>

TransitionJournal(w, o, next) ==
    /\ Idle(w)
    /\ cache[w][o].rev # 0
    /\ MayAdvanceJournal(cache[w][o], next, 0)
    /\ Commit(w, o, JournalAdvanced(cache[w][o], next, 0))
    /\ UNCHANGED <<epoch, lease, permit, stage, calls, reply>>

PersistDescriptor(w, o, desc, requested) ==
    /\ Idle(w)
    /\ cache[w][o].rev # 0
    /\ MayDescribe(cache[w][o], desc)
    /\ Commit(w, o, Described(cache[w][o], desc, requested))
    /\ UNCHANGED <<epoch, lease, permit, stage, calls, reply>>

\* With volume 0 this is the public overload; the one with a settled volume
\* is reserved to ManagedTradeOwner.
TransitionOperation(w, o, next, volume) ==
    /\ Idle(w)
    /\ cache[w][o].rev # 0
    /\ MayAdvanceOperation(cache[w][o], next, volume)
    /\ Commit(w, o, OperationAdvanced(cache[w][o], next, volume))
    /\ UNCHANGED <<epoch, lease, permit, stage, calls, reply>>

Recover(w, o) ==
    /\ Idle(w)
    /\ store[o].rev # 0
    /\ cache' = [cache EXCEPT ![w][o] = store[o]]
    /\ UNCHANGED <<store, epoch, lease, permit, stage, calls, reply>>

RecoverAll(w) ==
    /\ Idle(w)
    /\ cache' = [cache EXCEPT ![w] = store]
    /\ UNCHANGED <<store, epoch, lease, permit, stage, calls, reply>>

----------------------------------------------------------------------------
(* WindowsSingleWriterLease: an exclusively opened lock file, and an epoch *)
(* that is persisted before the lease is usable.                           *)

\* Faulty: the lock file is not opened exclusively.
AcquireSharedLease(w) ==
    /\ Idle(w)
    /\ epoch < MaxEpoch
    /\ epoch' = epoch + 1
    /\ lease' = [lease EXCEPT ![w] = epoch + 1]
    /\ UNCHANGED <<store, cache, permit, stage, calls, reply>>

AcquireLease(w) ==
    /\ Idle(w)
    /\ \A v \in Writer : lease[v] = 0
    /\ epoch < MaxEpoch
    /\ epoch' = epoch + 1
    /\ lease' = [lease EXCEPT ![w] = epoch + 1]
    /\ UNCHANGED <<store, cache, permit, stage, calls, reply>>

ReleaseLease(w) ==
    /\ Idle(w)
    /\ lease[w] # 0
    /\ lease' = [lease EXCEPT ![w] = 0]
    /\ UNCHANGED <<store, cache, epoch, permit, stage, calls, reply>>

----------------------------------------------------------------------------
(* DispatchAdmissionBarrier::admit.  The caller-supplied evidence (account,*)
(* environment proof, blockers) can refuse admission at any time, which    *)
(* changes nothing.                                                        *)

Admit(w, o) ==
    LET r    == cache[w][o]
        next == JournalAdvanced(r, "dispatching", lease[w])
    IN  /\ Idle(w)
        /\ r.js = "dispatch_intent_persisted"
        /\ r.os = "prechecking"
        /\ r.desc # "none"
        /\ lease[w] # 0
        /\ MayAdvanceJournal(r, "dispatching", lease[w])
        /\ Commit(w, o, next)
        /\ permit' = [permit EXCEPT ![w][o] = [tok |-> next.tok,
                                               rev |-> next.rev]]
        /\ UNCHANGED <<epoch, lease, stage, calls, reply>>

----------------------------------------------------------------------------
(* OneShotDispatchBackend::execute, one action per durable or external     *)
(* step.                                                                   *)

ValidPermit(p) == p.tok # 0 /\ p.rev # 0

\* execute() takes the permit by value: every path consumes it.  An account
\* probe, a stale record or a failed commit ends the execution here.
RefuseExecution(w, o) ==
    /\ Idle(w)
    /\ ValidPermit(permit[w][o])
    /\ permit' = [permit EXCEPT ![w][o] = Spent]
    /\ UNCHANGED <<store, cache, epoch, lease, stage, calls, reply>>

BeginSubmitting(w, o) ==
    LET r == cache[w][o]
        p == permit[w][o]
    IN  /\ Idle(w)
        /\ ValidPermit(p)
        /\ r.js = "dispatching"
        /\ r.os = "prechecking"
        /\ r.rev = p.rev
        /\ r.tok = p.tok
        /\ lease[w] = p.tok
        /\ MayAdvanceOperation(r, "submitting", 0)
        /\ Commit(w, o, OperationAdvanced(r, "submitting", 0))
        /\ stage' = [stage EXCEPT ![w][o] = "submitting"]
        /\ UNCHANGED <<epoch, lease, permit, calls, reply>>

\* Faulty: an execution that never called goes on with a reply of its own.
ReturnInventedReply(w, o) ==
    /\ stage[w][o] = "submitting"
    /\ reply' = [reply EXCEPT ![o] = "ticketless"]
    /\ permit' = [permit EXCEPT ![w][o] = Spent]
    /\ stage' = [stage EXCEPT ![w][o] = "called"]
    /\ UNCHANGED <<store, cache, epoch, lease, calls>>

\* The second probe and lease check fail, or submit_once returns or throws
\* before it reaches order_send.
ReturnWithoutCall(w, o) ==
    /\ stage[w][o] = "submitting"
    /\ permit' = [permit EXCEPT ![w][o] = Spent]
    /\ stage' = [stage EXCEPT ![w][o] = "idle"]
    /\ UNCHANGED <<store, cache, epoch, lease, calls, reply>>

MayCall(w, o) ==
    LET r == cache[w][o]
        p == permit[w][o]
    IN  /\ r.js = "dispatching"
        /\ r.os = "submitting"
        /\ r.tok = p.tok
        /\ r.rev = p.rev + 1
        /\ lease[w] = p.tok

\* submit_once reaches order_send and the reply comes back readable.
SubmitOnce(w, o, answer) ==
    /\ stage[w][o] = "submitting"
    /\ MayCall(w, o)
    /\ calls' = [calls EXCEPT ![o] = @ + 1]
    /\ reply' = [reply EXCEPT ![o] = answer]
    /\ permit' = [permit EXCEPT ![w][o] = Spent]
    /\ stage' = [stage EXCEPT ![w][o] = "called"]
    /\ UNCHANGED <<store, cache, epoch, lease>>

\* Faulty: a lost reply makes the backend send once more.
SubmitAgainIfLost(w, o) ==
    /\ stage[w][o] = "submitting"
    /\ MayCall(w, o)
    /\ calls[o] < 2
    /\ calls' = [calls EXCEPT ![o] = @ + 1]
    /\ UNCHANGED <<store, cache, epoch, lease, permit, stage, reply>>

\* submit_once reaches order_send and then throws, times out, or returns an
\* empty payload: execute() returns without another durable step.
SubmitOnceLost(w, o) ==
    /\ stage[w][o] = "submitting"
    /\ MayCall(w, o)
    /\ calls' = [calls EXCEPT ![o] = @ + 1]
    /\ reply' = [reply EXCEPT ![o] = "lost"]
    /\ permit' = [permit EXCEPT ![w][o] = Spent]
    /\ stage' = [stage EXCEPT ![w][o] = "idle"]
    /\ UNCHANGED <<store, cache, epoch, lease>>

PersistRejection(w, o) ==
    /\ stage[w][o] = "called"
    /\ reply[o] = "rejected"
    /\ AwaitsResult(cache[w][o])
    /\ Commit(w, o, RejectionPersisted(cache[w][o], reply[o]))
    /\ stage' = [stage EXCEPT ![w][o] = "idle"]
    /\ UNCHANGED <<epoch, lease, permit, calls, reply>>

PersistResult(w, o) ==
    /\ stage[w][o] = "called"
    /\ reply[o] # "rejected"
    /\ MayPersistResult(cache[w][o], reply[o])
    /\ Commit(w, o, ResultPersisted(cache[w][o], reply[o]))
    /\ stage' = [stage EXCEPT ![w][o] = "persisted"]
    /\ UNCHANGED <<epoch, lease, permit, calls, reply>>

\* The last step of execute(): accepted or reconciling, by disposition.
AdvanceExecuted(w, o, final) ==
    /\ stage[w][o] = "persisted"
    /\ final \in {"accepted", "reconciling"}
    /\ MayAdvanceOperation(cache[w][o], final, 0)
    /\ Commit(w, o, OperationAdvanced(cache[w][o], final, 0))
    /\ stage' = [stage EXCEPT ![w][o] = "idle"]
    /\ UNCHANGED <<epoch, lease, permit, calls, reply>>

\* A result or its final transition that cannot be committed is dropped.
DropResult(w, o) ==
    /\ stage[w][o] \in {"called", "persisted"}
    /\ stage' = [stage EXCEPT ![w][o] = "idle"]
    /\ UNCHANGED <<store, cache, epoch, lease, permit, calls, reply>>

----------------------------------------------------------------------------
(* OperationReconciliationWorker: the durable part of one step.  It calls   *)
(* the journal like any owner code, so these are cases of JournalStep; they *)
(* are named for the fairness below.                                        *)

WorkerMayStep(w, o) ==
    /\ cache[w][o].rev # 0
    /\ cache[w][o].desc # "none"
    /\ cache[w][o].os \notin Terminal
    /\ cache[w][o].js \in AtLeastDispatching

NormalizeOperation(w, o) ==
    /\ WorkerMayStep(w, o)
    /\ cache[w][o].os \in {"prechecking", "submitting", "accepted"}
    /\ TransitionOperation(w, o, "reconciling", 0)

\* Faulty: a record without a reply is left at the barrier.
NormalizeJournalWithResult(w, o) ==
    /\ WorkerMayStep(w, o)
    /\ cache[w][o].js = "result_persisted"
    /\ cache[w][o].os \notin {"prechecking", "submitting", "accepted"}
    /\ TransitionJournal(w, o, "reconciling")

NormalizeJournal(w, o) ==
    /\ WorkerMayStep(w, o)
    /\ cache[w][o].os \notin {"prechecking", "submitting", "accepted"}
    /\ TransitionJournal(w, o, "reconciling")

----------------------------------------------------------------------------
\* A crash loses everything but the files; the closed lock handle frees the
\* lease.  The process restarts with an empty cache.
Crash(w) ==
    /\ cache' = [cache EXCEPT ![w] = [o \in Op |-> Absent]]
    /\ lease' = [lease EXCEPT ![w] = 0]
    /\ permit' = [permit EXCEPT ![w] = [o \in Op |-> Spent]]
    /\ stage' = [stage EXCEPT ![w] = [o \in Op |-> "idle"]]
    /\ UNCHANGED <<store, epoch, calls, reply>>

JournalStep(w, o) ==
    \/ \E kind \in Kinds : Create(w, o, kind)
    \/ \E next \in JournalState : TransitionJournal(w, o, next)
    \/ \E desc \in Descriptors, requested \in Volume :
           PersistDescriptor(w, o, desc, requested)
    \/ \E next \in OperationState, volume \in Volume \cup {0} :
           TransitionOperation(w, o, next, volume)
    \/ Recover(w, o)

ExecuteStep(w, o) ==
    \/ Admit(w, o)
    \/ RefuseExecution(w, o)
    \/ BeginSubmitting(w, o)
    \/ ReturnWithoutCall(w, o)
    \/ \E answer \in Reply : SubmitOnce(w, o, answer)
    \/ SubmitOnceLost(w, o)
    \/ PersistRejection(w, o)
    \/ PersistResult(w, o)
    \/ \E final \in {"accepted", "reconciling"} : AdvanceExecuted(w, o, final)
    \/ DropResult(w, o)

ProcessStep(w) ==
    \/ RecoverAll(w)
    \/ AcquireLease(w)
    \/ ReleaseLease(w)
    \/ Crash(w)

Next ==
    \E w \in Writer :
        \/ ProcessStep(w)
        \/ \E o \in Op : JournalStep(w, o) \/ ExecuteStep(w, o)

Spec == Init /\ [][Next]_vars

----------------------------------------------------------------------------
(* Properties.                                                             *)

\* How far a record has gone towards the one call: open before the barrier
\* (or closed there by a rejection or failure), barred at it, spent after it.
FateOf(r) ==
    IF r.js \notin AtLeastDispatching
      THEN IF r.os \in Terminal THEN "closed" ELSE "open"
      ELSE IF r.js = "dispatching" /\ r.os = "prechecking" THEN "barred"
           ELSE "spent"

\* Whatever the interleaving of writers, crashes, restarts and lost replies,
\* execute() reaches order_send at most once for one operation key.
AtMostOneCall == \A o \in Op : calls[o] <= 1

\* Recovery classifies an operation that was ever sent as reconcile_only or
\* terminal, in the store and in every owner cache that could still commit:
\* a cache that would resume it is stale, so its next commit conflicts.
NeverResumedAfterCall ==
    \A o \in Op : calls[o] > 0 =>
        /\ Classify(store[o]) # "resume_pre_dispatch"
        /\ \A w \in Writer :
               Classify(cache[w][o]) = "resume_pre_dispatch"
                   => cache[w][o].rev < store[o].rev

\* From the durable submitting commit to the return of the broker call the
\* executing writer holds the account's newest lease, under the token that the
\* record carries; so no two writers are ever inside that window, whatever
\* operations they execute.
ExecutionIsFenced ==
    \A w \in Writer : \A o \in Op :
        stage[w][o] # "idle" =>
            /\ lease[w] = epoch
            /\ store[o].tok = epoch
            /\ \A v \in Writer \ {w} : Idle(v)

\* Why one call is all there can be: an operation that was called, or whose
\* execution stands between the submitting commit and the call, has left the
\* barrier for good in the store, only one writer stands there, and a writer
\* that returned from the call holds the reply to it.
CallWindow ==
    \A o \in Op :
        /\ calls[o] = 1 => FateOf(store[o]) = "spent"
        /\ \A w \in Writer : stage[w][o] = "submitting" =>
              /\ calls[o] = 0
              /\ FateOf(store[o]) = "spent"
              /\ \A v \in Writer : stage[v][o] = "submitting" => v = w
        /\ \A w \in Writer :
              stage[w][o] = "called" => calls[o] = 1 /\ reply[o] \in Reply

\* An owner cache is never ahead of the journal directory, and at the same
\* revision it holds the same record: a decision taken on a cached record is
\* either about the current record or refused by the compare-and-commit.
CacheIsPastStore ==
    \A w \in Writer : \A o \in Op :
        /\ cache[w][o].rev <= store[o].rev
        /\ cache[w][o].rev = store[o].rev => cache[w][o] = store[o]

\* A durable result is the reply to the one call that was made: it is never
\* invented by recovery or by a writer that did not call.
ResultIsTheReply ==
    \A o \in Op : store[o].result # "none" =>
        /\ calls[o] = 1
        /\ store[o].result = reply[o]

\* Every committed record satisfies OperationRecord::valid(), so recover_all(),
\* which refuses the whole directory for one invalid record, never locks an
\* owner out of its journal.
StoreIsRecoverable ==
    \A o \in Op : store[o].rev # 0 => ValidRecord(store[o])

\* The journal forgets nothing: revisions only grow, a terminal lifecycle state
\* is final, a fencing token, once written, stays, and the settled volume of a
\* slice only grows from one fill to the next.
JournalIsMonotone ==
    [][\A o \in Op :
          /\ store'[o].rev >= store[o].rev
          /\ store[o].os \in Terminal => store'[o].os = store[o].os
          /\ store[o].tok # 0 => store'[o].tok = store[o].tok
          /\ /\ store[o].requested # 0
             /\ store[o].os \in FillState /\ store'[o].os \in FillState
             => store'[o].settled >= store[o].settled]_vars

----------------------------------------------------------------------------
(* The abstract one-shot promise, and the mapping onto it.                 *)

Abstract == INSTANCE OneShot WITH
    fate  <- [o \in Op |-> FateOf(store[o])],
    calls <- calls

\* The journal, lease, barrier and backend implement the one-shot promise.
OneShotSpec == Abstract!Spec

----------------------------------------------------------------------------
(* Progress of recovery.                                                   *)

\* An owner keeps its loop running: it reloads a stale record, finishes the
\* execution it started and steps a reconciliation worker on what it owns.
Fairness ==
    \A w \in Writer : \A o \in Op :
        /\ WF_vars(Recover(w, o))
        /\ WF_vars(NormalizeOperation(w, o))
        /\ WF_vars(NormalizeJournal(w, o))
        /\ WF_vars(DropResult(w, o) \/ PersistRejection(w, o)
                     \/ PersistResult(w, o)
                     \/ \E final \in {"accepted", "reconciling"} :
                            AdvanceExecuted(w, o, final))
        /\ WF_vars(ReturnWithoutCall(w, o) \/ SubmitOnceLost(w, o)
                     \/ \E answer \in Reply : SubmitOnce(w, o, answer))

\* Progress is only promised once the processes stop crashing.
CrashesStop == <>[][\A w \in Writer : ~Crash(w)]_vars

FairSpec == Spec /\ Fairness /\ CrashesStop

\* docs/trade-api.md:324 and operation_worker.hpp:51 say that every record at or
\* past the barrier is normalized to the reconciling journal state, or terminal,
\* whatever became of the reply.  What holds: a record whose predicates all carry
\* their tickets gets there, although the worker that normalizes holds no lease
\* and races the commit of the result.
TicketedIsNormalized ==
    \A o \in Op :
        (store[o].js \in AtLeastDispatching /\ store[o].desc = "ticketed")
            ~> (store[o].js = "reconciling" \/ store[o].os \in Terminal)

============================================================================
