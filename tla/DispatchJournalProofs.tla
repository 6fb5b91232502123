----------------------- MODULE DispatchJournalProofs -----------------------
(***************************************************************************)
(* Proofs about DispatchJournal, for any sets of operations and owner      *)
(* loops and any bounds.                                                   *)
(*                                                                         *)
(* The argument: the compare-and-commit makes every cached record either   *)
(* current or useless (CacheIsPastStore), so a commit always evolves the   *)
(* stored record itself; record evolution never goes back to the barrier   *)
(* (EvolutionKeepsFate); hence the submitting commit, which leaves the     *)
(* barrier, succeeds once, and the call needs that commit.                 *)
(***************************************************************************)
EXTENDS DispatchJournal, TLAPS

\* What a mutator makes of a record it found in the cache.
Evolves(r, c) ==
    \/ \E next \in JournalState, token \in Nat :
          /\ MayAdvanceJournal(r, next, token)
          /\ c = JournalAdvanced(r, next, token)
    \/ \E desc \in Descriptor, requested \in Nat :
          /\ MayDescribe(r, desc)
          /\ c = Described(r, desc, requested)
    \/ \E next \in OperationState, volume \in Nat :
          /\ MayAdvanceOperation(r, next, volume)
          /\ c = OperationAdvanced(r, next, volume)
    \/ \E answer \in Reply :
          /\ AwaitsResult(r)
          /\ c \in {RejectionPersisted(r, answer), ResultPersisted(r, answer)}
    \/ \E kind \in OperationKind : r = Absent /\ c = Created(kind)

\* The fate of a record moves towards "spent" or stays.
FateStep(r, c) ==
    \/ FateOf(c) = FateOf(r)
    \/ FateOf(r) = "open" /\ FateOf(c) \in {"closed", "barred"}
    \/ FateOf(r) = "barred" /\ FateOf(c) = "spent"

\* A mutator's commit of what it makes of the current record.
Mutates(w, o) == \E c : Evolves(store[o], c) /\ Commit(w, o, c)

\* What JournalIsMonotone asks of one record.
Monotone(r, c) ==
    /\ c.rev >= r.rev
    /\ r.os \in Terminal => c.os = r.os
    /\ r.tok # 0 => c.tok = r.tok
    /\ r.requested # 0 /\ r.os \in FillState /\ c.os \in FillState
          => c.settled >= r.settled

NoRecordIsAbsent == \A o \in Op : store[o].rev = 0 => store[o] = Absent

IInv ==
    /\ TypeOK
    /\ NoRecordIsAbsent
    /\ StoreIsRecoverable
    /\ CacheIsPastStore
    /\ AtMostOneCall
    /\ CallWindow

----------------------------------------------------------------------------
(* Facts about one record.                                                 *)

\* One more revision is all that Revised() changes.
LEMMA RevisedIsRecord ==
    ASSUME NEW r \in Record
    PROVE  /\ Revised(r) \in Record
           /\ Revised(r).rev = r.rev + 1
           /\ Revised(r).js = r.js
           /\ Revised(r).os = r.os
           /\ Revised(r).tok = r.tok
           /\ Revised(r).desc = r.desc
           /\ Revised(r).requested = r.requested
           /\ Revised(r).settled = r.settled
BY DEF Revised, Record

\* What each mutator builds is a record one revision after its source, and
\* the lifecycle and journal state it has.
LEMMA JournalAdvancedIsRecord ==
    ASSUME NEW r \in Record, NEW next \in JournalState, NEW token \in Nat
    PROVE  LET c == JournalAdvanced(r, next, token)
           IN  /\ c \in Record /\ c.rev = r.rev + 1
               /\ c.js = next /\ c.os = r.os
               /\ c.tok = IF next = "dispatching" THEN token ELSE r.tok
               /\ c.requested = r.requested /\ c.settled = r.settled
<1> DEFINE s == [r EXCEPT !.js = next,
                          !.tok = IF next = "dispatching" THEN token ELSE r.tok]
<1>1. /\ s \in Record /\ s.rev = r.rev /\ s.js = next /\ s.os = r.os
      /\ s.tok = IF next = "dispatching" THEN token ELSE r.tok
      /\ s.requested = r.requested /\ s.settled = r.settled
  BY DEF Record
<1>2. JournalAdvanced(r, next, token) = Revised(s)
  BY DEF JournalAdvanced
<1> HIDE DEF s
<1> QED
  BY <1>1, <1>2, RevisedIsRecord

\* persist_reconciliation_descriptor builds a record in the same two states.
LEMMA DescribedIsRecord ==
    ASSUME NEW r \in Record, NEW desc \in Descriptor, NEW requested \in Nat
    PROVE  LET c == Described(r, desc, requested)
           IN  /\ c \in Record /\ c.rev = r.rev + 1
               /\ c.js = r.js /\ c.os = r.os /\ c.tok = r.tok
<1> DEFINE s == [r EXCEPT !.desc = desc, !.requested = requested]
<1>1. /\ s \in Record /\ s.rev = r.rev
      /\ s.js = r.js /\ s.os = r.os /\ s.tok = r.tok
  BY DEF Record
<1>2. Described(r, desc, requested) = Revised(s)
  BY DEF Described
<1> HIDE DEF s
<1> QED
  BY <1>1, <1>2, RevisedIsRecord

\* transition_operation builds a record in the next lifecycle state, with the
\* settled volume it was given, or the one it had while the slice stays a fill.
LEMMA OperationAdvancedIsRecord ==
    ASSUME NEW r \in Record, NEW next \in OperationState, NEW volume \in Nat
    PROVE  LET c == OperationAdvanced(r, next, volume)
           IN  /\ c \in Record /\ c.rev = r.rev + 1
               /\ c.js = r.js /\ c.os = next /\ c.tok = r.tok
               /\ c.desc = r.desc /\ c.requested = r.requested
               /\ c.settled = IF volume # 0 THEN volume
                              ELSE IF next \in FillState THEN r.settled
                              ELSE 0
<1> DEFINE v == IF volume # 0 THEN volume
                ELSE IF next \in FillState THEN r.settled
                ELSE 0
           s == [r EXCEPT !.os = next, !.settled = v]
<1>1. v \in Nat
  BY DEF Record
<1>2. OperationAdvanced(r, next, volume) = Revised(s)
  BY DEF OperationAdvanced
<1> HIDE DEF v
<1>3. /\ s \in Record /\ s.rev = r.rev /\ s.js = r.js /\ s.os = next
      /\ s.tok = r.tok /\ s.desc = r.desc /\ s.requested = r.requested
      /\ s.settled = v
  BY <1>1 DEF Record
<1> HIDE DEF s
<1>4. /\ Revised(s) \in Record /\ Revised(s).rev = r.rev + 1
      /\ Revised(s).js = r.js /\ Revised(s).os = next /\ Revised(s).tok = r.tok
      /\ Revised(s).desc = r.desc /\ Revised(s).requested = r.requested
      /\ Revised(s).settled = v
  BY <1>3, RevisedIsRecord
<1> QED
  BY <1>2, <1>4 DEF v

\* Both result commits build a record at result_persisted that keeps its token.
LEMMA ResultPersistedIsRecord ==
    ASSUME NEW r \in Record, NEW answer \in Reply
    PROVE  LET c == ResultPersisted(r, answer)
               d == RejectionPersisted(r, answer)
           IN  /\ c \in Record /\ c.rev = r.rev + 1
               /\ c.js = "result_persisted" /\ c.os = r.os
               /\ c.tok = r.tok /\ d.tok = r.tok
               /\ d \in Record /\ d.rev = r.rev + 1
               /\ d.js = "result_persisted" /\ d.os = "rejected"
<1> DEFINE c == ResultPersisted(r, answer)
           s == [r EXCEPT !.js = "result_persisted", !.result = answer,
                          !.src = r.rev + 1]
<1>1. "result_persisted" \in JournalState /\ r.rev + 1 \in Nat
  BY DEF JournalState, Record
<1>2. /\ s \in Record /\ s.rev = r.rev /\ s.js = "result_persisted"
      /\ s.os = r.os /\ s.tok = r.tok
  BY <1>1 DEF Record
<1>3. c = Revised(s)
  BY DEF ResultPersisted
<1> HIDE DEF s
<1>4. c \in Record /\ c.rev = r.rev + 1 /\ c.js = "result_persisted"
      /\ c.os = r.os /\ c.tok = r.tok
  BY <1>2, <1>3, RevisedIsRecord
<1>5. RejectionPersisted(r, answer) = [c EXCEPT !.os = "rejected"]
  BY DEF RejectionPersisted
<1>6. "rejected" \in OperationState
  BY DEF OperationState
<1> HIDE DEF c
<1>7. LET d == [c EXCEPT !.os = "rejected"]
      IN  d \in Record /\ d.rev = c.rev /\ d.js = c.js /\ d.os = "rejected"
          /\ d.tok = c.tok
  BY <1>4, <1>6 DEF Record
<1> QED
  BY <1>4, <1>5, <1>7 DEF c

\* create() builds the first revision of a record.
LEMMA CreatedIsRecord ==
    ASSUME NEW kind \in OperationKind
    PROVE  LET c == Created(kind)
           IN  c \in Record /\ c.rev = 1 /\ c.js = "created" /\ c.os = "queued"
BY DEF Created, Absent, Record, JournalState, OperationState, Descriptor

\* The stand-in for a missing record is well typed.
LEMMA AbsentIsRecord == Absent \in Record
BY DEF Absent, Record, JournalState, OperationState, OperationKind, Descriptor

\* Every candidate record is a record, one revision after its source.
LEMMA EvolutionIsRecord ==
    ASSUME NEW r \in Record, NEW c, Evolves(r, c)
    PROVE  c \in Record /\ c.rev = r.rev + 1
<1>1. r = Absent => r.rev = 0
  BY DEF Absent
<1> QED
  BY <1>1, JournalAdvancedIsRecord, DescribedIsRecord,
     OperationAdvancedIsRecord, ResultPersistedIsRecord, CreatedIsRecord
     DEF Evolves

\* No mutator takes a record back to the barrier or before it.
LEMMA EvolutionKeepsFate ==
    ASSUME NEW r \in Record, NEW c, Evolves(r, c),
           r = Absent \/ ValidRecord(r)
    PROVE  FateStep(r, c)
<1> USE DEF FateStep, FateOf, AtLeastDispatching, AtLeastResultPersisted,
            Terminal
<1>1. ASSUME NEW next \in JournalState, NEW token \in Nat,
             MayAdvanceJournal(r, next, token),
             c = JournalAdvanced(r, next, token)
      PROVE  FateStep(r, c)
  BY <1>1, JournalAdvancedIsRecord
     DEF MayAdvanceJournal, NextJournalStates, RequiresPrechecking
<1>2. ASSUME NEW desc \in Descriptor, NEW requested \in Nat,
             c = Described(r, desc, requested)
      PROVE  FateStep(r, c)
  BY <1>2, DescribedIsRecord
<1>3. ASSUME NEW next \in OperationState, NEW volume \in Nat,
             MayAdvanceOperation(r, next, volume),
             c = OperationAdvanced(r, next, volume)
      PROVE  FateStep(r, c)
  <2>1. c.js = r.js /\ c.os = next
    BY <1>3, OperationAdvancedIsRecord
  <2>2. \/ next \in NextOperationStates(r.os)
        \/ r.os = "partially_filled" /\ next = "partially_filled"
    BY <1>3 DEF MayAdvanceOperation
  <2>3. r.js = "dispatching" => r.os # "queued"
    BY DEF Absent, ValidRecord, StatesPairedWith
  <2> QED
    BY <2>1, <2>2, <2>3 DEF NextOperationStates
<1>4. ASSUME NEW answer \in Reply, AwaitsResult(r),
             c \in {RejectionPersisted(r, answer), ResultPersisted(r, answer)}
      PROVE  FateStep(r, c)
  BY <1>4, ResultPersistedIsRecord DEF AwaitsResult
<1>5. ASSUME NEW kind \in OperationKind, r = Absent, c = Created(kind)
      PROVE  FateStep(r, c)
  BY <1>5, CreatedIsRecord DEF Absent
<1> QED
  BY <1>1, <1>2, <1>3, <1>4, <1>5 DEF Evolves

\* No mutator takes anything back that the journal has recorded.
LEMMA EvolutionIsMonotone ==
    ASSUME NEW r \in Record, NEW c, Evolves(r, c), ValidRecord(c),
           r = Absent \/ ValidRecord(r)
    PROVE  Monotone(r, c)
<1> USE DEF Monotone
<1>1. c.rev >= r.rev
  <2>1. r.rev \in Nat /\ c.rev = r.rev + 1
    BY EvolutionIsRecord DEF Record
  <2> QED
    BY <2>1
<1>2. r = Absent => r.os = "queued" /\ r.tok = 0
  BY DEF Absent
<1>3. ASSUME NEW next \in JournalState, NEW token \in Nat,
             MayAdvanceJournal(r, next, token),
             c = JournalAdvanced(r, next, token)
      PROVE  Monotone(r, c)
  <2>1. /\ c.os = r.os /\ c.settled = r.settled
        /\ c.tok = IF next = "dispatching" THEN token ELSE r.tok
    BY <1>3, JournalAdvancedIsRecord
  <2>2. next = "dispatching" => r.js = "dispatch_intent_persisted"
    BY <1>3 DEF MayAdvanceJournal, NextJournalStates, AtLeastResultPersisted
  <2>3. next = "dispatching" => r.tok = 0
    BY <1>2, <2>2 DEF ValidRecord, AtLeastDispatching, AtLeastResultPersisted
  <2>4. r.settled \in Nat
    BY DEF Record
  <2> QED
    BY <1>1, <2>1, <2>3, <2>4
<1>4. ASSUME NEW desc \in Descriptor, NEW requested \in Nat,
             MayDescribe(r, desc), c = Described(r, desc, requested)
      PROVE  Monotone(r, c)
  <2>1. c.os = r.os /\ c.tok = r.tok /\ r.os = "prechecking"
    BY <1>4, DescribedIsRecord DEF MayDescribe
  <2> QED
    BY <1>1, <2>1 DEF FillState
<1>5. ASSUME NEW next \in OperationState, NEW volume \in Nat,
             MayAdvanceOperation(r, next, volume),
             c = OperationAdvanced(r, next, volume)
      PROVE  Monotone(r, c)
  <2>1. /\ c.os = next /\ c.js = r.js /\ c.tok = r.tok
        /\ c.desc = r.desc /\ c.requested = r.requested
        /\ c.settled = IF volume # 0 THEN volume
                       ELSE IF next \in FillState THEN r.settled ELSE 0
    BY <1>5, OperationAdvancedIsRecord
  <2>2. \/ next \in NextOperationStates(r.os)
        \/ /\ r.os = "partially_filled"
           /\ next = "partially_filled"
           /\ volume > r.settled
    BY <1>5 DEF MayAdvanceOperation
  <2>3. r.os \notin Terminal
    BY <2>2 DEF NextOperationStates, Terminal
  <2>4. ASSUME r.requested # 0, r.os \in FillState, c.os \in FillState
        PROVE  c.settled >= r.settled
    <3>1. r.settled \in Nat /\ r.requested \in Nat
      BY DEF Record
    <3>2. r.os = "partially_filled"
      BY <2>3, <2>4 DEF FillState, Terminal
    <3>3. CASE next = "partially_filled"
      BY <2>1, <2>2, <3>1, <3>2, <3>3 DEF NextOperationStates
    <3>4. CASE next = "filled"
      <4>1. r # Absent
        BY <1>2, <3>2
      <4>2. r.js \in AtLeastDispatching
        BY <3>2, <4>1 DEF ValidRecord, StatesPairedWith, AtLeastDispatching,
                          AtLeastResultPersisted, Record, JournalState
      <4>3. r.desc # "none"
        BY <4>1, <4>2 DEF ValidRecord
      <4>4. r.settled <= r.requested
        BY <2>4, <4>1, <4>3 DEF ValidRecord, ValidSettlement
      <4>5. c.settled = r.requested
        BY <2>1, <2>4, <3>4, <4>3 DEF ValidRecord, ValidSettlement
      <4> QED
        BY <3>1, <4>4, <4>5
    <3> QED
      BY <2>1, <2>4, <3>3, <3>4 DEF FillState
  <2> QED
    BY <1>1, <2>1, <2>3, <2>4
<1>6. ASSUME NEW answer \in Reply, AwaitsResult(r),
             c \in {RejectionPersisted(r, answer), ResultPersisted(r, answer)}
      PROVE  Monotone(r, c)
  <2>1. c.tok = r.tok
    BY <1>6, ResultPersistedIsRecord
  <2>2. r.os = "submitting"
    BY <1>6 DEF AwaitsResult
  <2> QED
    BY <1>1, <2>1, <2>2 DEF Terminal, FillState
<1>7. ASSUME r = Absent PROVE Monotone(r, c)
  BY <1>1, <1>2, <1>7 DEF Terminal, FillState
<1> QED
  BY <1>3, <1>4, <1>5, <1>6, <1>7 DEF Evolves

----------------------------------------------------------------------------
(* Facts about a commit.                                                   *)

\* The compare-and-commit accepts a candidate only from a current cache.
LEMMA CommitIsCurrent ==
    ASSUME TypeOK, CacheIsPastStore, NEW w \in Writer, NEW o \in Op, NEW c,
           c \in Record, c.rev = cache[w][o].rev + 1, Commit(w, o, c)
    PROVE  cache[w][o] = store[o]
<1>1. cache[w][o] \in Record /\ store[o] \in Record
  BY DEF TypeOK
<1>2. cache[w][o].rev \in Nat /\ store[o].rev \in Nat
  BY <1>1 DEF Record
<1>3. c.rev = store[o].rev + 1
  BY DEF Commit, CommitAccepted
<1>4. cache[w][o].rev = store[o].rev
  BY <1>2, <1>3
<1> QED
  BY <1>4 DEF CacheIsPastStore

\* A commit of an evolved record keeps everything that concerns the journal
\* and the caches, and moves the fate of no operation backwards.
LEMMA CommitKeepsJournal ==
    ASSUME IInv, NEW w \in Writer, NEW o \in Op, NEW c,
           Evolves(store[o], c), Commit(w, o, c)
    PROVE  /\ store' \in [Op -> Record]
           /\ cache' \in [Writer -> [Op -> Record]]
           /\ NoRecordIsAbsent'
           /\ StoreIsRecoverable'
           /\ CacheIsPastStore'
           /\ \A p \in Op : FateStep(store[p], store'[p])
<1> USE DEF IInv
<1>1. store[o] \in Record
  BY DEF TypeOK
<1>2. c \in Record /\ c.rev = store[o].rev + 1
  BY <1>1, EvolutionIsRecord
<1>3. store' = [store EXCEPT ![o] = c] /\ cache' = [cache EXCEPT ![w][o] = c]
  BY DEF Commit
<1>4. store' \in [Op -> Record] /\ cache' \in [Writer -> [Op -> Record]]
  BY <1>2, <1>3 DEF TypeOK
<1>5. ValidRecord(c)
  BY DEF Commit, CommitAccepted
<1>6. \A p \in Op : store'[p] = IF p = o THEN c ELSE store[p]
  BY <1>3 DEF TypeOK
<1>7. \A v \in Writer : \A p \in Op :
        cache'[v][p] = IF v = w /\ p = o THEN c ELSE cache[v][p]
  BY <1>3 DEF TypeOK
<1>8. store[o].rev \in Nat
  BY <1>1 DEF Record
<1>9. NoRecordIsAbsent'
  BY <1>2, <1>6, <1>8 DEF NoRecordIsAbsent
<1>10. StoreIsRecoverable'
  BY <1>5, <1>6 DEF StoreIsRecoverable
<1>11. CacheIsPastStore'
  <2> SUFFICES ASSUME NEW v \in Writer, NEW p \in Op
               PROVE  /\ cache'[v][p].rev <= store'[p].rev
                      /\ cache'[v][p].rev = store'[p].rev
                            => cache'[v][p] = store'[p]
    BY DEF CacheIsPastStore
  <2>1. cache[v][p].rev \in Nat /\ store[p].rev \in Nat
    BY DEF TypeOK, Record
  <2>2. cache[v][p].rev <= store[p].rev
    BY DEF CacheIsPastStore
  <2>3. CASE p # o
    BY <2>3, <1>6, <1>7 DEF CacheIsPastStore
  <2>4. CASE p = o /\ v = w
    <3>1. cache'[v][p] = c /\ store'[p] = c /\ c.rev \in Nat
      BY <2>4, <1>2, <1>6, <1>7, <1>8
    <3> QED
      BY <3>1
  <2>5. CASE p = o /\ v # w
    BY <2>1, <2>2, <2>5, <1>2, <1>6, <1>7, <1>8
  <2> QED
    BY <2>3, <2>4, <2>5
<1>12. ASSUME NEW p \in Op PROVE FateStep(store[p], store'[p])
  <2>1. store[o] = Absent \/ ValidRecord(store[o])
    BY DEF NoRecordIsAbsent, StoreIsRecoverable
  <2>2. FateStep(store[o], c)
    BY <1>1, <2>1, EvolutionKeepsFate
  <2> QED
    BY <2>2, <1>6 DEF FateStep
<1> QED
  BY <1>4, <1>9, <1>10, <1>11, <1>12

\* A step that calls nobody and lets nobody into the call window keeps it.
LEMMA CallWindowKept ==
    ASSUME AtMostOneCall, CallWindow, calls' = calls, reply' = reply,
           \A p \in Op : FateStep(store[p], store'[p]),
           \A v \in Writer : \A p \in Op :
               stage'[v][p] \in {"submitting", "called"}
                   => stage[v][p] = stage'[v][p]
    PROVE  AtMostOneCall' /\ CallWindow'
<1>1. \A p \in Op :
        FateOf(store[p]) = "spent" => FateOf(store'[p]) = "spent"
  BY DEF FateStep
<1> QED
  BY <1>1 DEF AtMostOneCall, CallWindow

\* A record that keeps its fate makes no forbidden step.
LEMMA FateStepRefl == \A r : FateStep(r, r)
BY DEF FateStep

----------------------------------------------------------------------------
(* The actions.  Each lemma covers the actions that work alike.            *)

\* Each committing action evolves the record it finds in the store: had the
\* cached record been another one, the commit would have been refused.
LEMMA ActionsMutate ==
    ASSUME IInv, NEW w \in Writer, NEW o \in Op,
           \/ \E kind \in Kinds : Create(w, o, kind)
           \/ \E next \in JournalState : TransitionJournal(w, o, next)
           \/ \E desc \in Descriptors, requested \in Volume :
                  PersistDescriptor(w, o, desc, requested)
           \/ \E next \in OperationState, volume \in Volume \cup {0} :
                  TransitionOperation(w, o, next, volume)
           \/ Admit(w, o)
           \/ BeginSubmitting(w, o)
           \/ PersistRejection(w, o)
           \/ PersistResult(w, o)
           \/ \E final \in {"accepted", "reconciling"} :
                  AdvanceExecuted(w, o, final)
    PROVE  Mutates(w, o)
<1> DEFINE r == cache[w][o]
<1>1. r \in Record /\ TypeOK /\ CacheIsPastStore
  BY DEF IInv, TypeOK
<1>2. ASSUME NEW c, c \in Record, c.rev = r.rev + 1, Evolves(r, c),
             Commit(w, o, c)
      PROVE  Mutates(w, o)
  <2>1. r = store[o]
    BY <1>1, <1>2, CommitIsCurrent
  <2> QED
    BY <1>2, <2>1 DEF Mutates
<1>3. ASSUME NEW c, Evolves(r, c), Commit(w, o, c)
      PROVE  Mutates(w, o)
  <2>1. c \in Record /\ c.rev = r.rev + 1
    BY <1>1, <1>3, EvolutionIsRecord
  <2> QED
    BY <1>2, <1>3, <2>1
<1> HIDE DEF r
<1>4. ASSUME NEW kind \in Kinds, Create(w, o, kind)
      PROVE  Mutates(w, o)
  <2> DEFINE c == Created(kind)
  <2>1. kind \in OperationKind
    BY DispatchAssumption DEF DispatchAssumption
  <2>2. c \in Record /\ c.rev = 1
    BY <2>1, CreatedIsRecord
  <2>3. r.rev = 0 /\ Commit(w, o, c)
    BY <1>4 DEF Create, r
  <2>4. r = store[o]
    BY <1>1, <2>2, <2>3, CommitIsCurrent DEF r
  <2>5. r = Absent
    BY <2>3, <2>4 DEF IInv, NoRecordIsAbsent
  <2>6. Evolves(r, c)
    BY <2>1, <2>5 DEF Evolves
  <2> QED
    BY <1>3, <2>3, <2>6
<1>5. ASSUME NEW next \in JournalState, TransitionJournal(w, o, next)
      PROVE  Mutates(w, o)
  <2>1. Evolves(r, JournalAdvanced(r, next, 0))
    BY <1>5 DEF TransitionJournal, Evolves, r
  <2> QED
    BY <1>3, <1>5, <2>1 DEF TransitionJournal, r
<1>6. ASSUME NEW desc \in Descriptors, NEW requested \in Volume,
             PersistDescriptor(w, o, desc, requested)
      PROVE  Mutates(w, o)
  <2>1. desc \in Descriptor /\ requested \in Nat
    BY DispatchAssumption DEF DispatchAssumption
  <2>2. Evolves(r, Described(r, desc, requested))
    BY <1>6, <2>1 DEF PersistDescriptor, Evolves, r
  <2> QED
    BY <1>3, <1>6, <2>2 DEF PersistDescriptor, r
<1>7. ASSUME NEW next \in OperationState, NEW volume \in Volume \cup {0},
             TransitionOperation(w, o, next, volume)
      PROVE  Mutates(w, o)
  <2>1. volume \in Nat
    BY DispatchAssumption DEF DispatchAssumption
  <2>2. Evolves(r, OperationAdvanced(r, next, volume))
    BY <1>7, <2>1 DEF TransitionOperation, Evolves, r
  <2> QED
    BY <1>3, <1>7, <2>2 DEF TransitionOperation, r
<1>8. ASSUME Admit(w, o)
      PROVE  Mutates(w, o)
  <2>1. lease[w] \in Nat /\ "dispatching" \in JournalState
    BY DEF IInv, TypeOK, JournalState
  <2>2. Evolves(r, JournalAdvanced(r, "dispatching", lease[w]))
    BY <1>8, <2>1 DEF Admit, Evolves, r
  <2> QED
    BY <1>3, <1>8, <2>2 DEF Admit, r
<1>9. ASSUME BeginSubmitting(w, o)
      PROVE  Mutates(w, o)
  <2>1. "submitting" \in OperationState /\ 0 \in Nat
    BY DEF OperationState
  <2>2. Evolves(r, OperationAdvanced(r, "submitting", 0))
    BY <1>9, <2>1 DEF BeginSubmitting, Evolves, r
  <2> QED
    BY <1>3, <1>9, <2>2 DEF BeginSubmitting, r
<1>10. ASSUME PersistRejection(w, o)
       PROVE  Mutates(w, o)
  <2>1. reply[o] \in Reply
    BY <1>10 DEF PersistRejection, Reply
  <2>2. Evolves(r, RejectionPersisted(r, reply[o]))
    BY <1>10, <2>1 DEF PersistRejection, Evolves, r
  <2> QED
    BY <1>3, <1>10, <2>2 DEF PersistRejection, r
<1>11. ASSUME PersistResult(w, o)
       PROVE  Mutates(w, o)
  <2>1. reply[o] \in Reply
    BY <1>11 DEF PersistResult, IInv, CallWindow
  <2>2. Evolves(r, ResultPersisted(r, reply[o]))
    BY <1>11, <2>1 DEF PersistResult, MayPersistResult, Evolves, r
  <2> QED
    BY <1>3, <1>11, <2>2 DEF PersistResult, r
<1>12. ASSUME NEW final \in {"accepted", "reconciling"},
              AdvanceExecuted(w, o, final)
       PROVE  Mutates(w, o)
  <2>1. final \in OperationState /\ 0 \in Nat
    BY DEF OperationState
  <2>2. Evolves(r, OperationAdvanced(r, final, 0))
    BY <1>12, <2>1 DEF AdvanceExecuted, Evolves, r
  <2> QED
    BY <1>3, <1>12, <2>2 DEF AdvanceExecuted, r
<1> QED
  BY <1>4, <1>5, <1>6, <1>7, <1>8, <1>9, <1>10, <1>11, <1>12

\* An accepted journal mutation, wherever in the loop it is made.
LEMMA MutationStep ==
    ASSUME IInv, NEW w \in Writer, NEW o \in Op, NEW c,
           Evolves(store[o], c), Commit(w, o, c),
           UNCHANGED <<epoch, lease, calls, reply>>,
           permit' \in [Writer -> [Op -> Permit]],
           stage' \in [Writer -> [Op -> Stage]],
           \A v \in Writer : \A p \in Op :
               stage'[v][p] \in {"submitting", "called"}
                   => stage[v][p] = stage'[v][p]
    PROVE  IInv'
<1>1. /\ store' \in [Op -> Record]
      /\ cache' \in [Writer -> [Op -> Record]]
      /\ NoRecordIsAbsent'
      /\ StoreIsRecoverable'
      /\ CacheIsPastStore'
      /\ \A p \in Op : FateStep(store[p], store'[p])
  BY CommitKeepsJournal
<1>2. TypeOK'
  BY <1>1 DEF IInv, TypeOK
<1>3. AtMostOneCall' /\ CallWindow'
  BY <1>1, CallWindowKept DEF IInv
<1> QED
  BY <1>1, <1>2, <1>3 DEF IInv

\* A step that touches neither the journal nor the calls: it may reload a cache
\* from the store or empty it.
LEMMA LocalStep ==
    ASSUME IInv, UNCHANGED <<store, calls>>,
           \A v \in Writer : \A p \in Op :
               cache'[v][p] \in {cache[v][p], store[p], Absent},
           cache' \in [Writer -> [Op -> Record]],
           epoch' \in Nat,
           lease' \in [Writer -> Nat],
           permit' \in [Writer -> [Op -> Permit]],
           stage' \in [Writer -> [Op -> Stage]],
           reply' = reply,
           \A v \in Writer : \A p \in Op :
               stage'[v][p] \in {"submitting", "called"}
                   => stage[v][p] = stage'[v][p]
    PROVE  IInv'
<1> USE DEF IInv
<1>1. TypeOK'
  BY DEF TypeOK
<1>2. NoRecordIsAbsent' /\ StoreIsRecoverable'
  BY DEF NoRecordIsAbsent, StoreIsRecoverable
<1>3. CacheIsPastStore'
  <2> SUFFICES ASSUME NEW v \in Writer, NEW p \in Op
               PROVE  /\ cache'[v][p].rev <= store[p].rev
                      /\ cache'[v][p].rev = store[p].rev
                            => cache'[v][p] = store[p]
    BY DEF CacheIsPastStore
  <2>1. store[p].rev \in Nat
    BY DEF TypeOK, Record
  <2>2. CASE cache'[v][p] = cache[v][p]
    BY <2>2 DEF CacheIsPastStore
  <2>3. CASE cache'[v][p] = store[p]
    BY <2>1, <2>3
  <2>4. CASE cache'[v][p] = Absent
    <3>1. Absent.rev = 0
      BY DEF Absent
    <3> QED
      BY <2>1, <2>4, <3>1 DEF NoRecordIsAbsent
  <2> QED
    BY <2>2, <2>3, <2>4
<1>4. AtMostOneCall' /\ CallWindow'
  BY CallWindowKept, FateStepRefl
<1> QED
  BY <1>1, <1>2, <1>3, <1>4

\* The submitting commit opens the call window of an operation that was never
\* called, because only a barred record can make it.
LEMMA BeginSubmittingStep ==
    ASSUME IInv, NEW w \in Writer, NEW o \in Op, BeginSubmitting(w, o)
    PROVE  IInv'
<1> USE DEF IInv
<1>1. PICK c : Evolves(store[o], c) /\ Commit(w, o, c)
  BY ActionsMutate DEF Mutates
<1>2. /\ store' \in [Op -> Record]
      /\ cache' \in [Writer -> [Op -> Record]]
      /\ NoRecordIsAbsent'
      /\ StoreIsRecoverable'
      /\ CacheIsPastStore'
      /\ \A p \in Op : FateStep(store[p], store'[p])
  BY <1>1, CommitKeepsJournal
<1>3. /\ calls' = calls /\ reply' = reply
      /\ stage' = [stage EXCEPT ![w][o] = "submitting"]
      /\ UNCHANGED <<epoch, lease, permit>>
  BY DEF BeginSubmitting
<1>4. TypeOK'
  <2>1. stage' \in [Writer -> [Op -> Stage]]
    BY <1>3 DEF TypeOK, Stage
  <2> QED
    BY <1>2, <1>3, <2>1 DEF TypeOK
<1>5. FateOf(store[o]) = "barred" /\ FateOf(store'[o]) = "spent"
  <2> DEFINE r == cache[w][o]
             d == OperationAdvanced(r, "submitting", 0)
  <2>1. r \in Record /\ "submitting" \in OperationState
    BY DEF TypeOK, OperationState
  <2>2. d \in Record /\ d.rev = r.rev + 1 /\ d.js = r.js /\ d.os = "submitting"
    BY <2>1, OperationAdvancedIsRecord
  <2>3. Commit(w, o, d) /\ r.js = "dispatching" /\ r.os = "prechecking"
    BY DEF BeginSubmitting
  <2>4. store[o] = r
    BY <2>2, <2>3, CommitIsCurrent
  <2>5. store'[o] = d
    BY <2>3 DEF Commit, TypeOK
  <2> HIDE DEF d, r
  <2> QED
    BY <2>2, <2>3, <2>4, <2>5 DEF FateOf, AtLeastDispatching
<1>6. /\ calls[o] = 0
      /\ \A v \in Writer : stage[v][o] # "submitting"
  <2>1. calls[o] \in Nat /\ calls[o] <= 1 /\ calls[o] # 1
    BY <1>5 DEF TypeOK, AtMostOneCall, CallWindow
  <2> QED
    BY <2>1, <1>5 DEF CallWindow
<1>7. \A v \in Writer : \A p \in Op :
        stage'[v][p] = IF v = w /\ p = o THEN "submitting" ELSE stage[v][p]
  BY <1>3 DEF TypeOK
<1>8. \A p \in Op : FateOf(store[p]) = "spent" => FateOf(store'[p]) = "spent"
  BY <1>2 DEF FateStep
<1>9. AtMostOneCall' /\ CallWindow'
  BY <1>3, <1>5, <1>6, <1>7, <1>8 DEF AtMostOneCall, CallWindow
<1> QED
  BY <1>2, <1>4, <1>9

\* The call takes the caller out of the window and closes it for good.
LEMMA CallStep ==
    ASSUME IInv, NEW w \in Writer, NEW o \in Op,
           \/ \E answer \in Reply : SubmitOnce(w, o, answer)
           \/ SubmitOnceLost(w, o)
    PROVE  IInv' /\ calls[o] = 0 /\ FateOf(store[o]) = "spent"
<1> USE DEF IInv
<1>1. stage[w][o] = "submitting" /\ UNCHANGED <<store, cache, epoch, lease>>
  BY DEF SubmitOnce, SubmitOnceLost
<1>2. calls[o] = 0 /\ FateOf(store[o]) = "spent"
  BY <1>1 DEF CallWindow
<1>3. calls' = [calls EXCEPT ![o] = 1]
  BY <1>2 DEF SubmitOnce, SubmitOnceLost
<1>4. permit' = [permit EXCEPT ![w][o] = Spent]
  BY DEF SubmitOnce, SubmitOnceLost
<1>5. PICK answer \in Reply \cup {"lost"}, next \in {"called", "idle"} :
        /\ reply' = [reply EXCEPT ![o] = answer]
        /\ stage' = [stage EXCEPT ![w][o] = next]
        /\ next = "called" => answer \in Reply
  BY DEF SubmitOnce, SubmitOnceLost
<1>6. TypeOK'
  <2>1. permit' \in [Writer -> [Op -> Permit]]
    BY <1>4 DEF TypeOK, Spent, Permit
  <2>2. stage' \in [Writer -> [Op -> Stage]]
    BY <1>5 DEF TypeOK, Stage
  <2>3. calls' \in [Op -> Nat] /\ reply' \in [Op -> Reply \cup {"none", "lost"}]
    BY <1>3, <1>5 DEF TypeOK
  <2> QED
    BY <1>1, <2>1, <2>2, <2>3 DEF TypeOK
<1>7. NoRecordIsAbsent' /\ StoreIsRecoverable' /\ CacheIsPastStore'
  BY <1>1 DEF NoRecordIsAbsent, StoreIsRecoverable, CacheIsPastStore
<1>8. \A v \in Writer : \A p \in Op :
        stage'[v][p] = IF v = w /\ p = o THEN next ELSE stage[v][p]
  BY <1>5 DEF TypeOK
<1>9. \A p \in Op : /\ calls'[p] = IF p = o THEN 1 ELSE calls[p]
                    /\ reply'[p] = IF p = o THEN answer ELSE reply[p]
  BY <1>3, <1>5 DEF TypeOK
<1>10. AtMostOneCall'
  BY <1>9 DEF AtMostOneCall
<1>11. CallWindow'
  <2> SUFFICES ASSUME NEW p \in Op
               PROVE  /\ calls'[p] = 1 => FateOf(store[p]) = "spent"
                      /\ \A v \in Writer : stage'[v][p] = "submitting" =>
                            /\ calls'[p] = 0
                            /\ FateOf(store[p]) = "spent"
                            /\ \A u \in Writer :
                                   stage'[u][p] = "submitting" => u = v
                      /\ \A v \in Writer : stage'[v][p] = "called" =>
                            calls'[p] = 1 /\ reply'[p] \in Reply
    BY <1>1 DEF CallWindow
  <2>1. CASE p # o
    BY <2>1, <1>8, <1>9 DEF CallWindow
  <2>2. CASE p = o
    <3>1. \A v \in Writer : stage'[v][o] # "submitting"
      BY <1>1, <1>8 DEF CallWindow
    <3>2. \A v \in Writer : stage'[v][o] = "called" => v = w /\ next = "called"
      BY <1>2, <1>8 DEF CallWindow
    <3> QED
      BY <2>2, <3>1, <3>2, <1>2, <1>5, <1>9
  <2> QED
    BY <2>1, <2>2
<1> QED
  BY <1>2, <1>6, <1>7, <1>10, <1>11

\* The actions that commit a mutation but stay clear of the call window.
LEMMA CommittingStep ==
    ASSUME IInv, NEW w \in Writer, NEW o \in Op,
           \/ \E kind \in Kinds : Create(w, o, kind)
           \/ \E next \in JournalState : TransitionJournal(w, o, next)
           \/ \E desc \in Descriptors, requested \in Volume :
                  PersistDescriptor(w, o, desc, requested)
           \/ \E next \in OperationState, volume \in Volume \cup {0} :
                  TransitionOperation(w, o, next, volume)
           \/ Admit(w, o)
           \/ PersistRejection(w, o)
           \/ PersistResult(w, o)
           \/ \E final \in {"accepted", "reconciling"} :
                  AdvanceExecuted(w, o, final)
    PROVE  IInv' /\ Mutates(w, o) /\ calls' = calls
<1>1. PICK c : Evolves(store[o], c) /\ Commit(w, o, c)
  BY ActionsMutate DEF Mutates
<1>2. TypeOK
  BY DEF IInv
<1>3. UNCHANGED <<epoch, lease, calls, reply>>
  BY DEF Create, TransitionJournal, PersistDescriptor, TransitionOperation,
         Admit, PersistRejection, PersistResult, AdvanceExecuted
<1>4. permit' \in [Writer -> [Op -> Permit]]
  <2>1. CASE permit' = permit
    BY <1>2, <2>1 DEF TypeOK
  <2>2. CASE Admit(w, o)
    <3> DEFINE next == JournalAdvanced(cache[w][o], "dispatching", lease[w])
    <3>1. next \in Record
      BY <1>2, JournalAdvancedIsRecord DEF TypeOK, JournalState
    <3>2. [tok |-> next.tok, rev |-> next.rev] \in Permit
      BY <3>1 DEF Record, Permit
    <3>3. permit' = [permit EXCEPT ![w][o] = [tok |-> next.tok,
                                             rev |-> next.rev]]
      BY <2>2 DEF Admit
    <3> HIDE DEF next
    <3> QED
      BY <1>2, <3>2, <3>3 DEF TypeOK
  <2> QED
    BY <2>1, <2>2
    DEF Create, TransitionJournal, PersistDescriptor, TransitionOperation,
        PersistRejection, PersistResult, AdvanceExecuted
<1>5. PICK next \in {"idle", "persisted"} :
        stage' \in {stage, [stage EXCEPT ![w][o] = next]}
  BY DEF Create, TransitionJournal, PersistDescriptor, TransitionOperation,
         Admit, PersistRejection, PersistResult, AdvanceExecuted
<1>6. /\ stage' \in [Writer -> [Op -> Stage]]
      /\ \A v \in Writer : \A p \in Op :
             stage'[v][p] \in {"submitting", "called"}
                 => stage[v][p] = stage'[v][p]
  <2>1. CASE stage' = stage
    BY <1>2, <2>1 DEF TypeOK
  <2>2. CASE stage' = [stage EXCEPT ![w][o] = next]
    <3>1. stage' \in [Writer -> [Op -> Stage]]
      BY <1>2, <2>2 DEF TypeOK, Stage
    <3>2. \A v \in Writer : \A p \in Op :
            stage'[v][p] = IF v = w /\ p = o THEN next ELSE stage[v][p]
      BY <1>2, <2>2 DEF TypeOK
    <3> QED
      BY <3>1, <3>2
  <2> QED
    BY <1>5, <2>1, <2>2
<1> QED
  BY <1>1, <1>3, <1>4, <1>6, MutationStep DEF Mutates

\* The actions that leave the journal and the calls alone.
LEMMA QuietStep ==
    ASSUME IInv, NEW w \in Writer,
           \/ ProcessStep(w)
           \/ \E o \in Op : \/ Recover(w, o)
                            \/ RefuseExecution(w, o)
                            \/ ReturnWithoutCall(w, o)
                            \/ DropResult(w, o)
           \/ UNCHANGED vars
    PROVE  IInv' /\ UNCHANGED <<store, calls>>
<1> USE DEF TypeOK
<1>1. TypeOK
  BY DEF IInv
<1>2. "idle" \in Stage /\ Spent \in Permit
  BY DEF Stage, Spent, Permit
<1>3. CASE RecoverAll(w)
  <2>1. cache' = [cache EXCEPT ![w] = store]
    BY <1>3 DEF RecoverAll
  <2>2. /\ cache' \in [Writer -> [Op -> Record]]
        /\ \A v \in Writer : \A p \in Op :
               cache'[v][p] \in {cache[v][p], store[p], Absent}
    BY <1>1, <2>1
  <2> QED
    BY <1>1, <1>3, <2>2, LocalStep DEF RecoverAll
<1>4. CASE AcquireLease(w)
  <2>1. epoch' \in Nat /\ lease' \in [Writer -> Nat]
    BY <1>1, <1>4 DEF AcquireLease
  <2> QED
    BY <1>1, <1>4, <2>1, LocalStep DEF AcquireLease
<1>5. CASE ReleaseLease(w)
  <2>1. lease' \in [Writer -> Nat]
    BY <1>1, <1>5 DEF ReleaseLease
  <2> QED
    BY <1>1, <1>5, <2>1, LocalStep DEF ReleaseLease
<1>6. CASE Crash(w)
  <2> DEFINE none == [o \in Op |-> Absent]
             spent == [o \in Op |-> Spent]
             idle == [o \in Op |-> "idle"]
  <2>1. /\ none \in [Op -> Record]
        /\ spent \in [Op -> Permit]
        /\ idle \in [Op -> Stage]
        /\ \A p \in Op : none[p] = Absent /\ idle[p] = "idle"
    BY <1>2, AbsentIsRecord
  <2>2. /\ cache' = [cache EXCEPT ![w] = none]
        /\ permit' = [permit EXCEPT ![w] = spent]
        /\ stage' = [stage EXCEPT ![w] = idle]
        /\ lease' = [lease EXCEPT ![w] = 0]
        /\ UNCHANGED <<store, epoch, calls, reply>>
    BY <1>6 DEF Crash
  <2> HIDE DEF none, spent, idle
  <2>3. /\ cache' \in [Writer -> [Op -> Record]]
        /\ \A v \in Writer : \A p \in Op :
               cache'[v][p] \in {cache[v][p], store[p], Absent}
    BY <1>1, <2>1, <2>2
  <2>4. /\ stage' \in [Writer -> [Op -> Stage]]
        /\ \A v \in Writer : \A p \in Op :
               stage'[v][p] \in {"submitting", "called"}
                   => stage[v][p] = stage'[v][p]
    <3>1. stage' \in [Writer -> [Op -> Stage]]
      BY <1>1, <2>1, <2>2
    <3>2. \A v \in Writer : stage'[v] = IF v = w THEN idle ELSE stage[v]
      BY <1>1, <2>2
    <3> QED
      BY <3>1, <3>2, <2>1
  <2>5. lease' \in [Writer -> Nat] /\ permit' \in [Writer -> [Op -> Permit]]
    BY <1>1, <2>1, <2>2
  <2> QED
    BY <1>1, <2>2, <2>3, <2>4, <2>5, LocalStep
<1>7. ASSUME NEW o \in Op, Recover(w, o)
      PROVE  IInv' /\ UNCHANGED <<store, calls>>
  <2>1. cache' = [cache EXCEPT ![w][o] = store[o]]
    BY <1>7 DEF Recover
  <2>2. /\ cache' \in [Writer -> [Op -> Record]]
        /\ \A v \in Writer : \A p \in Op :
               cache'[v][p] \in {cache[v][p], store[p], Absent}
    BY <1>1, <2>1
  <2> QED
    BY <1>1, <1>7, <2>2, LocalStep DEF Recover
<1>8. ASSUME NEW o \in Op,
             \/ RefuseExecution(w, o)
             \/ ReturnWithoutCall(w, o)
             \/ DropResult(w, o)
      PROVE  IInv' /\ UNCHANGED <<store, calls>>
  <2>1. /\ permit' \in {permit, [permit EXCEPT ![w][o] = Spent]}
        /\ stage' \in {stage, [stage EXCEPT ![w][o] = "idle"]}
        /\ UNCHANGED <<store, cache, epoch, lease, calls, reply>>
    BY <1>8 DEF RefuseExecution, ReturnWithoutCall, DropResult
  <2>2. permit' \in [Writer -> [Op -> Permit]]
    <3>1. [permit EXCEPT ![w][o] = Spent] \in [Writer -> [Op -> Permit]]
      BY <1>1, <1>2
    <3> QED
      BY <1>1, <2>1, <3>1
  <2>3. /\ stage' \in [Writer -> [Op -> Stage]]
        /\ \A v \in Writer : \A p \in Op :
               stage'[v][p] \in {stage[v][p], "idle"}
    <3>1. CASE stage' = [stage EXCEPT ![w][o] = "idle"]
      BY <1>1, <1>2, <3>1
    <3>2. CASE stage' = stage
      BY <1>1, <3>2
    <3> QED
      BY <2>1, <3>1, <3>2
  <2> QED
    BY <1>1, <2>1, <2>2, <2>3, LocalStep
<1>9. CASE UNCHANGED vars
  BY <1>1, <1>9, LocalStep DEF vars
<1> QED
  BY <1>3, <1>4, <1>5, <1>6, <1>7, <1>8, <1>9 DEF ProcessStep

----------------------------------------------------------------------------
(* The invariant, and what it gives.                                       *)

\* With an empty journal the invariant holds.
LEMMA InitEstablishes == Init => IInv
<1> SUFFICES ASSUME Init PROVE IInv
  OBVIOUS
<1> USE DEF Init
<1>1. TypeOK
  <2>1. "idle" \in Stage /\ Spent \in Permit
    BY DEF Stage, Spent, Permit
  <2> QED
    BY <2>1, AbsentIsRecord DEF TypeOK
<1>2. Absent.rev = 0
  BY DEF Absent
<1>3. NoRecordIsAbsent /\ StoreIsRecoverable /\ CacheIsPastStore
  BY <1>2 DEF NoRecordIsAbsent, StoreIsRecoverable, CacheIsPastStore
<1>4. AtMostOneCall /\ CallWindow
  BY DEF AtMostOneCall, CallWindow
<1> QED
  BY <1>1, <1>3, <1>4 DEF IInv

\* Every step of every owner loop keeps the invariant.
LEMMA StepPreserves == IInv /\ [Next]_vars => IInv'
<1> SUFFICES ASSUME IInv, [Next]_vars PROVE IInv'
  OBVIOUS
<1>1. CASE UNCHANGED vars
  <2>1. CASE Writer = {}
    BY <1>1, <2>1 DEF IInv, TypeOK, NoRecordIsAbsent, StoreIsRecoverable,
                      CacheIsPastStore, AtMostOneCall, CallWindow, vars
  <2>2. ASSUME NEW w \in Writer PROVE IInv'
    BY <1>1, QuietStep
  <2> QED
    BY <2>1, <2>2
<1>2. ASSUME NEW w \in Writer, ProcessStep(w) PROVE IInv'
  BY <1>2, QuietStep
<1>3. ASSUME NEW w \in Writer, NEW o \in Op, JournalStep(w, o) PROVE IInv'
  BY <1>3, CommittingStep, QuietStep DEF JournalStep
<1>4. ASSUME NEW w \in Writer, NEW o \in Op, ExecuteStep(w, o) PROVE IInv'
  BY <1>4, CommittingStep, QuietStep, BeginSubmittingStep, CallStep
     DEF ExecuteStep
<1> QED
  BY <1>1, <1>2, <1>3, <1>4 DEF Next

\* The invariant holds in every reachable state.
THEOREM Inductive == Spec => []IInv
BY InitEstablishes, StepPreserves, PTL DEF Spec

\* Every reachable state is well typed.
THEOREM TypeCorrect == Spec => []TypeOK
<1>1. IInv => TypeOK
  BY DEF IInv
<1> QED
  BY <1>1, Inductive, PTL

\* Every committed record satisfies OperationRecord::valid().
THEOREM StoreStaysRecoverable == Spec => []StoreIsRecoverable
<1>1. IInv => StoreIsRecoverable
  BY DEF IInv
<1> QED
  BY <1>1, Inductive, PTL

\* No owner cache runs ahead of the journal directory or disagrees with it.
THEOREM CachesStayPastStore == Spec => []CacheIsPastStore
<1>1. IInv => CacheIsPastStore
  BY DEF IInv
<1> QED
  BY <1>1, Inductive, PTL

\* One operation key reaches order_send at most once.
THEOREM OneCall == Spec => []AtMostOneCall
<1>1. IInv => AtMostOneCall
  BY DEF IInv
<1> QED
  BY <1>1, Inductive, PTL

\* What was sent is never classified as resumable by a cache that can commit.
THEOREM CalledIsNeverResumed == Spec => []NeverResumedAfterCall
<1>1. IInv => NeverResumedAfterCall
  <2> SUFFICES ASSUME IInv, NEW o \in Op, calls[o] > 0
               PROVE  /\ Classify(store[o]) # "resume_pre_dispatch"
                      /\ \A w \in Writer :
                             Classify(cache[w][o]) = "resume_pre_dispatch"
                                 => cache[w][o].rev < store[o].rev
    BY DEF NeverResumedAfterCall
  <2>1. calls[o] = 1
    BY DEF IInv, TypeOK, AtMostOneCall
  <2>2. FateOf(store[o]) = "spent"
    BY <2>1 DEF IInv, CallWindow
  <2>3. Classify(store[o]) # "resume_pre_dispatch"
    BY <2>2 DEF FateOf, Classify
  <2>4. ASSUME NEW w \in Writer,
               Classify(cache[w][o]) = "resume_pre_dispatch"
        PROVE  cache[w][o].rev < store[o].rev
    <3>1. cache[w][o] # store[o]
      BY <2>3, <2>4
    <3>2. /\ cache[w][o].rev <= store[o].rev
          /\ cache[w][o].rev # store[o].rev
      BY <3>1 DEF IInv, CacheIsPastStore
    <3>3. cache[w][o].rev \in Nat /\ store[o].rev \in Nat
      BY DEF IInv, TypeOK, Record
    <3> QED
      BY <3>2, <3>3
  <2> QED
    BY <2>3, <2>4
<1> QED
  BY <1>1, Inductive, PTL

\* No step takes anything back that the journal has recorded.
LEMMA StepIsMonotone ==
    IInv /\ [Next]_vars => \A p \in Op : Monotone(store[p], store'[p])
<1> SUFFICES ASSUME IInv, [Next]_vars
             PROVE  \A p \in Op : Monotone(store[p], store'[p])
  OBVIOUS
<1>1. ASSUME UNCHANGED store
      PROVE  \A p \in Op : Monotone(store[p], store'[p])
  BY <1>1 DEF IInv, TypeOK, Record, Monotone
<1>2. CASE UNCHANGED vars
  BY <1>1, <1>2 DEF vars
<1>3. ASSUME NEW w \in Writer, ProcessStep(w)
      PROVE  \A p \in Op : Monotone(store[p], store'[p])
  BY <1>1, <1>3, QuietStep
<1>4. ASSUME NEW w \in Writer, NEW o \in Op, Mutates(w, o), NEW p \in Op
      PROVE  Monotone(store[p], store'[p])
  <2>1. PICK c : Evolves(store[o], c) /\ Commit(w, o, c)
    BY <1>4 DEF Mutates
  <2>2. \A q \in Op : store'[q] = IF q = o THEN c ELSE store[q]
    BY <2>1 DEF Commit, IInv, TypeOK
  <2>3. store[o] \in Record /\ ValidRecord(c)
    BY <2>1 DEF IInv, TypeOK, Commit, CommitAccepted
  <2>4. store[o] = Absent \/ ValidRecord(store[o])
    BY DEF IInv, NoRecordIsAbsent, StoreIsRecoverable
  <2>5. Monotone(store[o], c)
    BY <2>1, <2>3, <2>4, EvolutionIsMonotone
  <2>6. Monotone(store[p], store[p])
    BY DEF IInv, TypeOK, Record, Monotone
  <2> QED
    BY <2>2, <2>5, <2>6
<1>5. ASSUME NEW w \in Writer, NEW o \in Op, JournalStep(w, o)
      PROVE  \A p \in Op : Monotone(store[p], store'[p])
  BY <1>1, <1>4, <1>5, CommittingStep, QuietStep DEF JournalStep
<1>6. ASSUME NEW w \in Writer, NEW o \in Op, BeginSubmitting(w, o)
      PROVE  \A p \in Op : Monotone(store[p], store'[p])
  BY <1>4, <1>6, ActionsMutate
<1>7. ASSUME NEW w \in Writer, NEW o \in Op,
             \/ \E answer \in Reply : SubmitOnce(w, o, answer)
             \/ SubmitOnceLost(w, o)
      PROVE  UNCHANGED store
  BY <1>7 DEF SubmitOnce, SubmitOnceLost
<1>8. ASSUME NEW w \in Writer, NEW o \in Op, ExecuteStep(w, o)
      PROVE  \A p \in Op : Monotone(store[p], store'[p])
  BY <1>1, <1>4, <1>6, <1>7, <1>8, CommittingStep, QuietStep DEF ExecuteStep
<1> QED
  BY <1>2, <1>3, <1>5, <1>8 DEF Next

\* The journal takes nothing back: not a revision, a terminal state, a fencing
\* token or a settled volume.
THEOREM JournalStaysMonotone == Spec => JournalIsMonotone
<1>1. IInv /\ [Next]_vars
        => [\A o \in Op :
              /\ store'[o].rev >= store[o].rev
              /\ store[o].os \in Terminal => store'[o].os = store[o].os
              /\ store[o].tok # 0 => store'[o].tok = store[o].tok
              /\ /\ store[o].requested # 0
                 /\ store[o].os \in FillState /\ store'[o].os \in FillState
                 => store'[o].settled >= store[o].settled]_vars
  BY StepIsMonotone DEF Monotone
<1> QED
  BY <1>1, Inductive, PTL DEF Spec, JournalIsMonotone

----------------------------------------------------------------------------
(* The execution window is fenced.                                         *)

\* A lease holds the newest epoch, and nobody else holds one.
LeaseIsNewest ==
    \A w \in Writer : lease[w] # 0 =>
        /\ lease[w] = epoch
        /\ \A v \in Writer : lease[v] # 0 => v = w

\* An execution under way is one of a lease holder, with the token of its record.
StageHoldsLease ==
    \A w \in Writer : \A o \in Op :
        stage[w][o] # "idle" => lease[w] # 0 /\ store[o].tok = lease[w]

FencedInv == IInv /\ LeaseIsNewest /\ StageHoldsLease

\* Only a process step changes a lease, and only while its writer executes nothing.
LEMMA LeaseStep ==
    ASSUME TypeOK, LeaseIsNewest, NEW w \in Writer, ProcessStep(w)
    PROVE  /\ LeaseIsNewest'
           /\ \A v \in Writer : \A p \in Op :
                 stage'[v][p] # "idle" =>
                    stage[v][p] # "idle" /\ lease'[v] = lease[v]
<1> USE DEF TypeOK
<1>1. CASE RecoverAll(w)
  BY <1>1 DEF RecoverAll, LeaseIsNewest
<1>2. CASE AcquireLease(w)
  <2>1. /\ \A v \in Writer : lease[v] = 0 /\ lease'[v] = IF v = w THEN epoch + 1 ELSE 0
        /\ epoch' = epoch + 1 /\ stage' = stage
        /\ \A p \in Op : stage[w][p] = "idle"
    BY <1>2 DEF AcquireLease, Idle
  <2>2. LeaseIsNewest'
    BY <2>1 DEF LeaseIsNewest
  <2> QED
    BY <2>1, <2>2
<1>3. CASE ReleaseLease(w)
  <2>1. /\ \A v \in Writer : lease'[v] = IF v = w THEN 0 ELSE lease[v]
        /\ epoch' = epoch /\ stage' = stage
        /\ \A p \in Op : stage[w][p] = "idle"
    BY <1>3 DEF ReleaseLease, Idle
  <2>2. LeaseIsNewest'
    BY <2>1 DEF LeaseIsNewest
  <2> QED
    BY <2>1, <2>2
<1>4. CASE Crash(w)
  <2>1. /\ \A v \in Writer : lease'[v] = IF v = w THEN 0 ELSE lease[v]
        /\ epoch' = epoch
        /\ \A v \in Writer : \A p \in Op :
              stage'[v][p] = IF v = w THEN "idle" ELSE stage[v][p]
    BY <1>4 DEF Crash
  <2>2. LeaseIsNewest'
    BY <2>1 DEF LeaseIsNewest
  <2> QED
    BY <2>1, <2>2
<1> QED
  BY <1>1, <1>2, <1>3, <1>4 DEF ProcessStep

\* An execution begins with the submitting commit, under the permit's token.
LEMMA ExecutionBegins ==
    ASSUME IInv, NEW w \in Writer, NEW o \in Op, BeginSubmitting(w, o)
    PROVE  lease[w] # 0 /\ store'[o].tok = lease[w]
<1> DEFINE r == cache[w][o]
           d == OperationAdvanced(r, "submitting", 0)
<1>1. r \in Record /\ "submitting" \in OperationState /\ 0 \in Nat
  BY DEF IInv, TypeOK, OperationState
<1>2. d.tok = r.tok
  BY <1>1, OperationAdvancedIsRecord
<1>3. store'[o] = d
  BY DEF BeginSubmitting, Commit, IInv, TypeOK
<1>4. permit[w][o].tok # 0 /\ r.tok = permit[w][o].tok /\ lease[w] = permit[w][o].tok
  BY DEF BeginSubmitting, ValidPermit
<1> HIDE DEF d, r
<1> QED
  BY <1>2, <1>3, <1>4

\* The steps within a loop leave the leases alone, and start no execution except
\* by the submitting commit.
LEMMA LoopStep ==
    ASSUME TypeOK, NEW w \in Writer, NEW o \in Op,
           JournalStep(w, o) \/ ExecuteStep(w, o)
    PROVE  /\ UNCHANGED <<epoch, lease>>
           /\ \A v \in Writer : \A p \in Op :
                 stage'[v][p] # "idle" =>
                    \/ stage[v][p] # "idle"
                    \/ v = w /\ p = o /\ BeginSubmitting(w, o)
<1>1. CASE JournalStep(w, o)
  BY <1>1 DEF JournalStep, Create, TransitionJournal, PersistDescriptor,
              TransitionOperation, Recover
<1>2. CASE ExecuteStep(w, o)
  <2>1. UNCHANGED <<epoch, lease>>
    BY <1>2 DEF ExecuteStep, Admit, RefuseExecution, BeginSubmitting,
                ReturnWithoutCall, SubmitOnce, SubmitOnceLost, PersistRejection,
                PersistResult, AdvanceExecuted, DropResult
  <2>2. CASE BeginSubmitting(w, o)
    <3>1. stage' = [stage EXCEPT ![w][o] = "submitting"]
      BY <2>2 DEF BeginSubmitting
    <3> QED
      BY <2>1, <2>2, <3>1 DEF TypeOK
  <2>3. CASE Admit(w, o) \/ RefuseExecution(w, o)
    BY <2>1, <2>3 DEF Admit, RefuseExecution
  <2>4. CASE \/ ReturnWithoutCall(w, o) \/ SubmitOnceLost(w, o)
             \/ \E answer \in Reply : SubmitOnce(w, o, answer)
             \/ PersistRejection(w, o) \/ PersistResult(w, o)
             \/ \E final \in {"accepted", "reconciling"} : AdvanceExecuted(w, o, final)
             \/ DropResult(w, o)
    <3>1. stage[w][o] # "idle" /\ \E next \in Stage : stage' = [stage EXCEPT ![w][o] = next]
      BY <2>4 DEF ReturnWithoutCall, SubmitOnce, SubmitOnceLost, PersistRejection,
                  PersistResult, AdvanceExecuted, DropResult, Stage
    <3> QED
      BY <2>1, <3>1 DEF TypeOK
  <2> QED
    BY <1>2, <2>2, <2>3, <2>4 DEF ExecuteStep
<1> QED
  BY <1>1, <1>2

LEMMA FencedStep == FencedInv /\ [Next]_vars => FencedInv'
<1> SUFFICES ASSUME FencedInv, [Next]_vars PROVE FencedInv'
  OBVIOUS
<1>1. IInv /\ LeaseIsNewest /\ StageHoldsLease /\ TypeOK
  BY DEF FencedInv, IInv
<1>2. IInv'
  BY <1>1, StepPreserves
<1>3. \A p \in Op : store[p].tok # 0 => store'[p].tok = store[p].tok
  BY <1>1, StepIsMonotone DEF Monotone
<1>4. ASSUME \A v \in Writer : \A p \in Op :
                stage'[v][p] # "idle" =>
                   \/ stage[v][p] # "idle" /\ lease'[v] = lease[v]
                   \/ lease'[v] # 0 /\ store'[p].tok = lease'[v]
      PROVE  StageHoldsLease'
  BY <1>1, <1>3, <1>4 DEF StageHoldsLease
<1>5. CASE UNCHANGED vars
  <2>1. StageHoldsLease' /\ LeaseIsNewest'
    BY <1>1, <1>5 DEF vars, StageHoldsLease, LeaseIsNewest
  <2> QED
    BY <1>2, <2>1 DEF FencedInv
<1>6. ASSUME NEW w \in Writer, ProcessStep(w)
      PROVE  LeaseIsNewest' /\ StageHoldsLease'
  BY <1>1, <1>4, <1>6, LeaseStep
<1>7. ASSUME NEW w \in Writer, NEW o \in Op, JournalStep(w, o) \/ ExecuteStep(w, o)
      PROVE  LeaseIsNewest' /\ StageHoldsLease'
  <2>1. /\ epoch' = epoch /\ lease' = lease
        /\ \A v \in Writer : \A p \in Op :
              stage'[v][p] # "idle" =>
                 \/ stage[v][p] # "idle"
                 \/ v = w /\ p = o /\ BeginSubmitting(w, o)
    BY <1>1, <1>7, LoopStep
  <2>2. BeginSubmitting(w, o) => lease[w] # 0 /\ store'[o].tok = lease[w]
    BY <1>1, ExecutionBegins
  <2>3. LeaseIsNewest'
    BY <1>1, <2>1 DEF LeaseIsNewest
  <2> QED
    BY <1>4, <2>1, <2>2, <2>3
<1> QED
  BY <1>2, <1>5, <1>6, <1>7 DEF Next, FencedInv

\* From the submitting commit to the end of the call the executing writer alone
\* holds the account's lease, under the token of the record.
THEOREM ExecutionStaysFenced == Spec => []ExecutionIsFenced
<1>1. Init => FencedInv
  <2> SUFFICES ASSUME Init PROVE FencedInv
    OBVIOUS
  <2>1. LeaseIsNewest /\ StageHoldsLease
    BY DEF Init, LeaseIsNewest, StageHoldsLease
  <2> QED
    BY <2>1, InitEstablishes DEF FencedInv
<1>2. FencedInv => ExecutionIsFenced
  <2> SUFFICES ASSUME FencedInv, NEW w \in Writer, NEW o \in Op, stage[w][o] # "idle"
               PROVE  /\ lease[w] = epoch /\ store[o].tok = epoch
                      /\ \A v \in Writer \ {w} : Idle(v)
    BY DEF ExecutionIsFenced
  <2>1. lease[w] # 0 /\ lease[w] = epoch /\ store[o].tok = epoch
    BY DEF FencedInv, LeaseIsNewest, StageHoldsLease
  <2>2. \A v \in Writer \ {w} : lease[v] = 0
    BY <2>1 DEF FencedInv, LeaseIsNewest
  <2>3. \A v \in Writer \ {w} : Idle(v)
    BY <2>2 DEF FencedInv, StageHoldsLease, Idle
  <2> QED
    BY <2>1, <2>3
<1> QED
  BY <1>1, <1>2, FencedStep, PTL DEF Spec

----------------------------------------------------------------------------
(* The persisted result is the broker's reply.                             *)

\* A mutator that persists no result keeps the one that there is.
LEMMA ResultIsKept ==
    ASSUME NEW r \in Record,
           NEW js \in JournalState, NEW token \in Nat,
           NEW desc \in Descriptor, NEW requested \in Nat,
           NEW os \in OperationState, NEW volume \in Nat
    PROVE  /\ JournalAdvanced(r, js, token).result = r.result
           /\ Described(r, desc, requested).result = r.result
           /\ OperationAdvanced(r, os, volume).result = r.result
<1>1. \A s \in Record : Revised(s).result = s.result
  BY DEF Revised, Record
<1>2. ASSUME NEW t \in Nat
      PROVE  LET s == [r EXCEPT !.js = js, !.tok = t] IN
                s \in Record /\ s.result = r.result
  BY DEF Record
<1>3. LET s == [r EXCEPT !.desc = desc, !.requested = requested] IN
         s \in Record /\ s.result = r.result
  BY DEF Record
<1>4. ASSUME NEW v \in Nat
      PROVE  LET s == [r EXCEPT !.os = os, !.settled = v] IN
                s \in Record /\ s.result = r.result
  BY DEF Record
<1>5. JournalAdvanced(r, js, token).result = r.result
  <2>1. (IF js = "dispatching" THEN token ELSE r.tok) \in Nat
    BY DEF Record
  <2> QED
    BY <1>1, <1>2, <2>1 DEF JournalAdvanced
<1>6. Described(r, desc, requested).result = r.result
  BY <1>1, <1>3 DEF Described
<1>7. OperationAdvanced(r, os, volume).result = r.result
  <2>1. (IF volume # 0 THEN volume ELSE IF os \in FillState THEN r.settled ELSE 0) \in Nat
    BY DEF Record
  <2> QED
    BY <1>1, <1>4, <2>1 DEF OperationAdvanced
<1> QED
  BY <1>5, <1>6, <1>7

LEMMA ResultIsTheAnswer ==
    ASSUME NEW r \in Record, NEW answer \in Reply
    PROVE  /\ ResultPersisted(r, answer).result = answer
           /\ RejectionPersisted(r, answer).result = answer
<1> DEFINE s == [r EXCEPT !.js = "result_persisted", !.result = answer, !.src = r.rev + 1]
           c == ResultPersisted(r, answer)
<1>1. s \in Record /\ s.result = answer
  <2>1. "result_persisted" \in JournalState /\ r.rev + 1 \in Nat
    BY DEF JournalState, Record
  <2> QED
    BY <2>1 DEF Record
<1>2. c = Revised(s)
  BY DEF ResultPersisted
<1> HIDE DEF s
<1>3. c \in Record /\ c.result = answer
  <2>1. Revised(s).result = s.result
    BY <1>1 DEF Revised, Record
  <2> QED
    BY <1>1, <1>2, <2>1, RevisedIsRecord
<1> HIDE DEF c
<1>4. [c EXCEPT !.os = "rejected"].result = answer
  BY <1>3 DEF Record
<1> QED
  BY <1>3, <1>4 DEF RejectionPersisted, c

\* What a commit makes of a current record, if the candidate has its result.
LEMMA CommitKeepsResult ==
    ASSUME IInv, NEW w \in Writer, NEW o \in Op, NEW c \in Record,
           c.rev = cache[w][o].rev + 1, c.result = cache[w][o].result,
           Commit(w, o, c)
    PROVE  \A p \in Op : store'[p].result = store[p].result
<1>1. cache[w][o] = store[o]
  BY CommitIsCurrent DEF IInv
<1>2. \A p \in Op : store'[p] = IF p = o THEN c ELSE store[p]
  BY DEF Commit, IInv, TypeOK
<1> QED
  BY <1>1, <1>2

\* Only the two result commits give a record a result.
LEMMA ResultsStay ==
    ASSUME IInv, NEW w \in Writer, NEW o \in Op,
           \/ \E kind \in Kinds : Create(w, o, kind)
           \/ \E next \in JournalState : TransitionJournal(w, o, next)
           \/ \E desc \in Descriptors, requested \in Volume :
                  PersistDescriptor(w, o, desc, requested)
           \/ \E next \in OperationState, volume \in Volume \cup {0} :
                  TransitionOperation(w, o, next, volume)
           \/ Admit(w, o)
           \/ BeginSubmitting(w, o)
           \/ \E final \in {"accepted", "reconciling"} : AdvanceExecuted(w, o, final)
    PROVE  \A p \in Op : store'[p].result \in {store[p].result, "none"}
<1> DEFINE r == cache[w][o]
<1>1. r \in Record /\ TypeOK
  BY DEF IInv, TypeOK
<1>2. CASE \E kind \in Kinds : Create(w, o, kind)
  <2>1. PICK kind \in Kinds : Commit(w, o, Created(kind))
    BY <1>2 DEF Create
  <2>2. Created(kind).result = "none"
    BY DEF Created, Absent
  <2>3. \A p \in Op : store'[p] = IF p = o THEN Created(kind) ELSE store[p]
    BY <1>1, <2>1 DEF Commit, TypeOK
  <2> QED
    BY <2>2, <2>3
<1>3. ASSUME NEW next \in JournalState, NEW token \in Nat,
             Commit(w, o, JournalAdvanced(r, next, token))
      PROVE  \A p \in Op : store'[p].result = store[p].result
  <2> DEFINE c == JournalAdvanced(r, next, token)
  <2>1. c \in Record /\ c.rev = r.rev + 1
    BY <1>1, JournalAdvancedIsRecord
  <2>2. "none" \in Descriptor /\ "queued" \in OperationState /\ 0 \in Nat
    BY DEF Descriptor, OperationState
  <2>3. c.result = r.result
    BY <1>1, <2>2, ResultIsKept
  <2> HIDE DEF c
  <2> QED
    BY <1>3, <2>1, <2>3, CommitKeepsResult DEF c
<1>4. ASSUME NEW desc \in Descriptor, NEW requested \in Nat,
             Commit(w, o, Described(r, desc, requested))
      PROVE  \A p \in Op : store'[p].result = store[p].result
  <2> DEFINE c == Described(r, desc, requested)
  <2>1. c \in Record /\ c.rev = r.rev + 1
    BY <1>1, DescribedIsRecord
  <2>2. "created" \in JournalState /\ "queued" \in OperationState /\ 0 \in Nat
    BY DEF JournalState, OperationState
  <2>3. c.result = r.result
    BY <1>1, <2>2, ResultIsKept
  <2> HIDE DEF c
  <2> QED
    BY <1>4, <2>1, <2>3, CommitKeepsResult DEF c
<1>5. ASSUME NEW next \in OperationState, NEW volume \in Nat,
             Commit(w, o, OperationAdvanced(r, next, volume))
      PROVE  \A p \in Op : store'[p].result = store[p].result
  <2> DEFINE c == OperationAdvanced(r, next, volume)
  <2>1. c \in Record /\ c.rev = r.rev + 1
    BY <1>1, OperationAdvancedIsRecord
  <2>2. "created" \in JournalState /\ "none" \in Descriptor /\ 0 \in Nat
    BY DEF JournalState, Descriptor
  <2>3. c.result = r.result
    BY <1>1, <2>2, ResultIsKept
  <2> HIDE DEF c
  <2> QED
    BY <1>5, <2>1, <2>3, CommitKeepsResult DEF c
<1> HIDE DEF r
<1>6. CASE \E next \in JournalState : TransitionJournal(w, o, next)
  BY <1>3, <1>6 DEF TransitionJournal, r
<1>7. CASE \E desc \in Descriptors, requested \in Volume :
              PersistDescriptor(w, o, desc, requested)
  <2>1. Descriptors \subseteq Descriptor /\ Volume \subseteq Nat
    BY DispatchAssumption DEF DispatchAssumption
  <2> QED
    BY <1>4, <1>7, <2>1 DEF PersistDescriptor, r
<1>8. CASE \E next \in OperationState, volume \in Volume \cup {0} :
              TransitionOperation(w, o, next, volume)
  <2>1. Volume \cup {0} \subseteq Nat
    BY DispatchAssumption DEF DispatchAssumption
  <2> QED
    BY <1>5, <1>8, <2>1 DEF TransitionOperation, r
<1>9. CASE Admit(w, o)
  <2>1. "dispatching" \in JournalState /\ lease[w] \in Nat
    BY <1>1 DEF JournalState, TypeOK
  <2> QED
    BY <1>3, <1>9, <2>1 DEF Admit, r
<1>10. CASE BeginSubmitting(w, o)
  <2>1. "submitting" \in OperationState /\ 0 \in Nat
    BY DEF OperationState
  <2> QED
    BY <1>5, <1>10, <2>1 DEF BeginSubmitting, r
<1>11. CASE \E final \in {"accepted", "reconciling"} : AdvanceExecuted(w, o, final)
  <2>1. {"accepted", "reconciling"} \subseteq OperationState /\ 0 \in Nat
    BY DEF OperationState
  <2> QED
    BY <1>5, <1>11, <2>1 DEF AdvanceExecuted, r
<1> QED
  BY <1>2, <1>6, <1>7, <1>8, <1>9, <1>10, <1>11

\* The result commits persist what the call returned to this writer.
LEMMA ResultComesFromTheCall ==
    ASSUME IInv, NEW w \in Writer, NEW o \in Op,
           PersistRejection(w, o) \/ PersistResult(w, o)
    PROVE  /\ calls[o] = 1 /\ store'[o].result = reply[o]
           /\ \A p \in Op \ {o} : store'[p] = store[p]
           /\ UNCHANGED <<calls, reply>>
<1>1. stage[w][o] = "called" /\ UNCHANGED <<calls, reply>>
  BY DEF PersistRejection, PersistResult
<1>2. calls[o] = 1 /\ reply[o] \in Reply
  BY <1>1 DEF IInv, CallWindow
<1>3. cache[w][o] \in Record
  BY DEF IInv, TypeOK
<1>4. PICK c : /\ c \in {ResultPersisted(cache[w][o], reply[o]),
                         RejectionPersisted(cache[w][o], reply[o])}
               /\ Commit(w, o, c)
  BY DEF PersistRejection, PersistResult
<1>5. c.result = reply[o]
  BY <1>2, <1>3, <1>4, ResultIsTheAnswer
<1>6. store'[o] = c /\ \A p \in Op \ {o} : store'[p] = store[p]
  BY <1>4 DEF Commit, IInv, TypeOK
<1> QED
  BY <1>1, <1>2, <1>5, <1>6

LEMMA ResultStep == IInv /\ ResultIsTheReply /\ [Next]_vars => ResultIsTheReply'
<1> SUFFICES ASSUME IInv, ResultIsTheReply, [Next]_vars PROVE ResultIsTheReply'
  OBVIOUS
<1>1. ASSUME UNCHANGED <<calls, reply>>,
             \A p \in Op : store'[p].result \in {store[p].result, "none"}
      PROVE  ResultIsTheReply'
  BY <1>1 DEF ResultIsTheReply
<1>2. CASE UNCHANGED vars
  BY <1>1, <1>2 DEF vars
<1>3. ASSUME NEW w \in Writer, ProcessStep(w) PROVE ResultIsTheReply'
  <2>1. UNCHANGED <<store, calls, reply>>
    BY <1>3 DEF ProcessStep, RecoverAll, AcquireLease, ReleaseLease, Crash
  <2> QED
    BY <1>1, <2>1
<1>4. ASSUME NEW w \in Writer, NEW o \in Op, JournalStep(w, o)
      PROVE  ResultIsTheReply'
  <2>1. UNCHANGED <<calls, reply>>
    BY <1>4 DEF JournalStep, Create, TransitionJournal, PersistDescriptor,
                TransitionOperation, Recover
  <2>2. Recover(w, o) => store' = store
    BY DEF Recover
  <2> QED
    BY <1>1, <1>4, <2>1, <2>2, ResultsStay DEF JournalStep
<1>5. ASSUME NEW w \in Writer, NEW o \in Op, ExecuteStep(w, o)
      PROVE  ResultIsTheReply'
  <2>1. CASE \/ Admit(w, o) \/ BeginSubmitting(w, o)
             \/ \E final \in {"accepted", "reconciling"} : AdvanceExecuted(w, o, final)
    <3>1. UNCHANGED <<calls, reply>>
      BY <2>1 DEF Admit, BeginSubmitting, AdvanceExecuted
    <3> QED
      BY <1>1, <2>1, <3>1, ResultsStay
  <2>2. CASE RefuseExecution(w, o) \/ ReturnWithoutCall(w, o) \/ DropResult(w, o)
    <3>1. UNCHANGED <<store, calls, reply>>
      BY <2>2 DEF RefuseExecution, ReturnWithoutCall, DropResult
    <3> QED
      BY <1>1, <3>1
  <2>3. CASE (\E answer \in Reply : SubmitOnce(w, o, answer)) \/ SubmitOnceLost(w, o)
    <3>1. calls[o] = 0
      BY <2>3, CallStep
    <3>2. /\ store' = store
          /\ \A p \in Op \ {o} : calls'[p] = calls[p] /\ reply'[p] = reply[p]
      BY <2>3 DEF SubmitOnce, SubmitOnceLost, IInv, TypeOK
    <3> QED
      BY <3>1, <3>2 DEF ResultIsTheReply
  <2>4. CASE PersistRejection(w, o) \/ PersistResult(w, o)
    BY <2>4, ResultComesFromTheCall DEF ResultIsTheReply
  <2> QED
    BY <1>5, <2>1, <2>2, <2>3, <2>4 DEF ExecuteStep
<1> QED
  BY <1>2, <1>3, <1>4, <1>5 DEF Next

\* A persisted result is what the one call returned, whoever persisted it.
THEOREM ResultStaysTheReply == Spec => []ResultIsTheReply
<1>1. Init => ResultIsTheReply
  BY DEF Init, ResultIsTheReply, Absent
<1> QED
  BY <1>1, ResultStep, Inductive, PTL DEF Spec

----------------------------------------------------------------------------
(* The journal, lease, barrier and backend implement OneShot.              *)

\* With an empty journal every operation is open and uncalled.
LEMMA InitRefines == Init => Abstract!Init
<1>1. FateOf(Absent) = "open"
  BY DEF FateOf, Absent, AtLeastDispatching, AtLeastResultPersisted, Terminal
<1> QED
  BY <1>1 DEF Init, Abstract!Init

\* A mutation moves the fate of one operation, or of none.
LEMMA MutationRefines ==
    ASSUME IInv, NEW w \in Writer, NEW o \in Op, Mutates(w, o), calls' = calls
    PROVE  [Abstract!Next]_(Abstract!vars)
<1> DEFINE fate == [p \in Op |-> FateOf(store[p])]
<1>1. PICK c : Evolves(store[o], c) /\ Commit(w, o, c)
  BY DEF Mutates
<1>2. \A p \in Op : store'[p] = IF p = o THEN c ELSE store[p]
  BY <1>1 DEF Commit, IInv, TypeOK
<1>3. FateStep(store[o], c)
  <2>1. FateStep(store[o], store'[o])
    BY <1>1, CommitKeepsJournal
  <2> QED
    BY <1>2, <2>1
<1>4. fate' = [fate EXCEPT ![o] = FateOf(c)]
  BY <1>2
<1>5. CASE FateOf(c) = FateOf(store[o])
  <2>1. fate' = fate
    BY <1>4, <1>5
  <2> QED
    BY <2>1 DEF Abstract!vars
<1>6. CASE FateOf(store[o]) = "open" /\ FateOf(c) \in {"closed", "barred"}
  <2>1. fate[o] = "open"
    BY <1>6
  <2> QED
    BY <1>4, <1>6, <2>1 DEF Abstract!Next, Abstract!Close, Abstract!Bar
<1>7. CASE FateOf(store[o]) = "barred" /\ FateOf(c) = "spent"
  <2>1. fate[o] = "barred"
    BY <1>7
  <2> QED
    BY <1>4, <1>7, <2>1 DEF Abstract!Next, Abstract!Spend
<1> QED
  BY <1>3, <1>5, <1>6, <1>7 DEF FateStep

\* Every step closes, bars, spends or calls one operation, or none.
LEMMA StepRefines == IInv /\ [Next]_vars => [Abstract!Next]_(Abstract!vars)
<1> SUFFICES ASSUME IInv, [Next]_vars PROVE [Abstract!Next]_(Abstract!vars)
  OBVIOUS
<1>1. ASSUME UNCHANGED <<store, calls>> PROVE [Abstract!Next]_(Abstract!vars)
  BY <1>1 DEF Abstract!vars
<1>2. CASE UNCHANGED vars
  BY <1>1, <1>2 DEF vars
<1>3. ASSUME NEW w \in Writer, ProcessStep(w)
      PROVE  [Abstract!Next]_(Abstract!vars)
  BY <1>1, <1>3, QuietStep
<1>4. ASSUME NEW w \in Writer, NEW o \in Op, JournalStep(w, o)
      PROVE  [Abstract!Next]_(Abstract!vars)
  BY <1>1, <1>4, CommittingStep, QuietStep, MutationRefines DEF JournalStep
<1>5. ASSUME NEW w \in Writer, NEW o \in Op, BeginSubmitting(w, o)
      PROVE  [Abstract!Next]_(Abstract!vars)
  BY <1>5, ActionsMutate, MutationRefines DEF BeginSubmitting
<1>6. ASSUME NEW w \in Writer, NEW o \in Op,
             \/ \E answer \in Reply : SubmitOnce(w, o, answer)
             \/ SubmitOnceLost(w, o)
      PROVE  [Abstract!Next]_(Abstract!vars)
  <2>1. calls[o] = 0 /\ FateOf(store[o]) = "spent"
    BY <1>6, CallStep
  <2>2. store' = store /\ calls' = [calls EXCEPT ![o] = 1]
    BY <1>6, <2>1 DEF SubmitOnce, SubmitOnceLost
  <2> QED
    BY <2>1, <2>2 DEF Abstract!Next, Abstract!Call
<1>7. ASSUME NEW w \in Writer, NEW o \in Op, ExecuteStep(w, o)
      PROVE  [Abstract!Next]_(Abstract!vars)
  BY <1>1, <1>5, <1>6, <1>7, CommittingStep, QuietStep, MutationRefines
     DEF ExecuteStep
<1> QED
  BY <1>2, <1>3, <1>4, <1>7 DEF Next

\* Every behaviour of the dispatch core is a behaviour of OneShot: an operation
\* passes the barrier once, one step spends it, and only then can it be called.
THEOREM Refinement == Spec => OneShotSpec
BY InitRefines, StepRefines, Inductive, PTL
   DEF Spec, OneShotSpec, Abstract!Spec

============================================================================
