---------------------------- MODULE LedgerProofs ----------------------------
(***************************************************************************)
(* The two ledgers of deals keep their promises for every set of deals and *)
(* processes, every choice of units and windows, and any bounds.           *)
(*                                                                         *)
(* The close.  A work is a fact with its frontier, from the moment that    *)
(* the producer derived it: it is sound by itself and rests on manifests.  *)
(* IFiles relates the three kinds of files, of which the manifest is       *)
(* always there first; ILock tells what the process that holds the lock    *)
(* has tested of them; IRecovery, what a recovery has got done.  IBroker   *)
(* is conditional, as the promise is: while no read was narrower than the  *)
(* anchor's window, works contain one another, their units are the         *)
(* broker's, and the settled volume is the total of the deals that were    *)
(* known at some time.  Two frontiers of one volume are then of the same   *)
(* deals, for a total of positive units tells sets that contain one        *)
(* another apart; this is what lets a manifest of the current record       *)
(* always be completed.                                                    *)
(*                                                                         *)
(* The open.  OFiles relates entries to discriminators one to one; OCalls  *)
(* says of a call that is about to remove a preparation that what it       *)
(* intends is in another file; OUsable says that no deal was seen, by the  *)
(* process that may still admit facts, before a receipt of an entry that   *)
(* does not refer to it.                                                   *)
(***************************************************************************)
EXTENDS MCLedgers, SetSums

----------------------------------------------------------------------------
(* The inductive invariant of the ledger of a managed CLOSE.               *)

\* Where a process can be; in which of them it carries a proof, and in which
\* it holds the lock.
Places == {"idle", "commit", "manifest", "fact", "frontier", "recover"}
Committing == {"commit", "manifest", "fact", "frontier"}
Admitted == {"manifest", "fact", "frontier"}

\* Facts, entries, frontiers, works, processes and graphs.
FactType == [deal : Deal, revision : Nat, units : Nat, stamp : Nat]
EntryType == [deal : Deal, revision : Nat, units : Nat]
FrontierType ==
    [revision : Nat, settled : Nat, stamp : Nat, entries : SUBSET EntryType]
WorkType == [fact : FactType, frontier : FrontierType]
ProcessType ==
    [pc : Places, work : WorkType \cup {Nothing}, recovering : BOOLEAN,
     todo : SUBSET WorkType, tried : SUBSET (WorkType \cup {Nothing}),
     progress : BOOLEAN, asked : SUBSET WorkType, complete : BOOLEAN]
GraphType ==
    [alive : BOOLEAN, reads : Nat, evidence : [Deal -> Nat],
     covered : SUBSET Deal, window : SUBSET Deal]

\* Types, and the history of the record as far as it has come.
IType ==
    /\ filled \in [Deal -> Nat]
    /\ journal \in [revision : Nat, settled : Nat]
    /\ graph \in GraphType
    /\ pendings \subseteq WorkType
    /\ facts \subseteq FactType
    /\ frontiers \subseteq FrontierType
    /\ proc \in [Process -> ProcessType]
    /\ lock \in Process \cup {Nobody}
    /\ settledAt \in [1 .. journal.revision -> Nat]
    /\ journal.revision # 0
    /\ settledAt[journal.revision] = journal.settled

\* What the producer makes of a fact and those before it, whatever happens to
\* the files.
Sound(w) ==
    /\ w \in WorkType
    /\ w.frontier.revision = w.fact.revision
    /\ w.frontier.settled # 0
    /\ Entry(w.fact) \in w.frontier.entries
    /\ ValidFrontier(w.frontier)

\* Its earlier facts are in manifests.
Rests(w) == \A e \in OtherEntries(w) : \E z \in pendings : e = Entry(z.fact)

\* All that is being committed or was once to be published.
Works ==
    pendings \cup {proc[p].work : p \in {q \in Process : proc[q].pc \in Committing}}

\* All works are sound.
IWorks == \A w \in Works : Sound(w) /\ Rests(w)

\* The journal stood at the revision of a frontier, and at its volume.
WasAuthorized(w) ==
    /\ w.frontier.revision \in 1 .. journal.revision
    /\ settledAt[w.frontier.revision] = w.frontier.settled
    /\ w.frontier.settled <= journal.settled

\* Their manifests would have the same file name.
SameNames(w, z) ==
    w.frontier.revision = z.frontier.revision /\ w.fact.deal = z.fact.deal

\* A manifest names a deal in its frontier as it stands in another one of the same revision.
Names(w, z) == Entry(z.fact) \in w.frontier.entries

\* Manifests are authorized and unique, no two of one revision name each
\* other's fact, and facts and frontiers are those of manifests.
IFiles ==
    /\ \A w \in pendings : WasAuthorized(w)
    /\ \A w, z \in pendings : SameNames(w, z) => w = z
    /\ \A w, z \in pendings :
         w.frontier.revision = z.frontier.revision /\ Names(w, z) /\ Names(z, w)
         => w = z
    /\ \A f \in facts : \E z \in pendings : f = z.fact
    /\ \A x \in frontiers : \E z \in pendings : x = z.frontier
    /\ \A f, g \in facts : f.deal = g.deal => f = g
    /\ \A w \in pendings, f \in facts :
         f.deal = w.fact.deal => w.fact.revision <= f.revision
    /\ FrontiersAreBacked

\* What the store has tested when it writes, and what it has written so far.
MayWrite(pc, w) ==
    /\ WasAuthorized(w)
    /\ \A z \in pendings : z.frontier.revision <= w.frontier.revision
    /\ IF pc = "manifest" THEN PendingFor(w) \subseteq {w} ELSE w \in pendings
    /\ FactOn(w.fact.deal) \subseteq {w.fact}
    /\ FrontierAt(w.frontier.revision) \subseteq {w.frontier}
    /\ \A e \in OtherEntries(w) : \E f \in facts : e = Entry(f)
    /\ pc = "frontier" => w.fact \in facts

\* Only the holder of the lock is between the test and the last write.
ILock ==
    \A p \in Process : proc[p].pc \in Admitted =>
        lock = p /\ MayWrite(proc[p].pc, proc[p].work)

\* A recovery has published what it need not try again.
Recovers(s) ==
    /\ s.todo \subseteq s.asked /\ s.asked \subseteq pendings
    /\ s.complete => s.todo = {}
    /\ \A w \in s.asked \ s.todo : w.fact \in facts /\ w.frontier \in frontiers

IRecovery == \A p \in Process : Recovers(proc[p])

\* What the graph knows was executed, and was seen again by a read of its moment.
IGraph ==
    \A d \in Deal :
        /\ graph.evidence[d] # 0 => filled[d] # 0
        /\ graph.evidence[d] # 0 /\ d \in graph.window =>
              graph.evidence[d] = graph.reads

\* The deals that a work's frontier counts; of two works with wide reads, those
\* of one are among those of the other.
DealsOf(w) == {e.deal : e \in w.frontier.entries}
Nested(A, B) == A \subseteq B \/ B \subseteq A

\* What reads as wide as the anchor's window tell.
Honest(w) ==
    /\ DealsOf(w) \subseteq Known(graph)
    /\ \A e \in w.frontier.entries : e.units = filled[e.deal]

\* The volume of the record is that of the deals that were known at some time.
Settles(K) ==
    /\ journal.settled = Total(K, filled)
    /\ \A w \in Works : Nested(DealsOf(w), K)

\* While each read was as wide as the anchor's window.
IBroker ==
    narrow = {} =>
        /\ \A w \in Works : Honest(w)
        /\ \A w, z \in Works : Nested(DealsOf(w), DealsOf(z))
        /\ graph.alive => \E K \in SUBSET Known(graph) : Settles(K)

ISettlement == IType /\ IWorks /\ IFiles /\ ILock /\ IRecovery /\ IGraph /\ IBroker

----------------------------------------------------------------------------
(* Sums of units.                                                          *)

\* The ledger's total is the sum of a function over a set of deals.
LEMMA TotalIsSum ==
    ASSUME NEW S, NEW f
    PROVE  Total(S, f) = SumOver(f, S)
BY DEF Total, SumOver

\* The sum of a frontier's entries is the sum of a finite set of units.
LEMMA SumOfEntries ==
    ASSUME NEW E
    PROVE  SumUnits(E) = SumOfUnits(E)
BY DEF SumUnits, SumOfUnits

\* The total of deals that the broker executed does not change any more.
LEMMA TotalStays ==
    ASSUME NEW S \in SUBSET Deal, NEW f \in [Deal -> Nat], NEW g \in [Deal -> Nat],
           \A d \in S : f[d] = g[d]
    PROVE  Total(S, f) = Total(S, g)
<1>1. IsFiniteSet(S)
  BY LedgerAssumption, FS_Subset
<1>2. \A d \in S : f[d] \in Nat /\ f[d] = g[d]
  OBVIOUS
<1>3. SumOver(f, S) = SumOver(g, S)
  BY <1>1, <1>2, SumOfEquals
<1> QED
  BY <1>3, TotalIsSum

\* A total of deals is a number, and that of none is 0.
LEMMA TotalType ==
    ASSUME NEW S \in SUBSET Deal, NEW f \in [Deal -> Nat]
    PROVE  Total(S, f) \in Nat /\ Total({}, f) = 0
<1>1. IsFiniteSet(S)
  BY LedgerAssumption, FS_Subset
<1>2. \A d \in S : f[d] \in Nat
  OBVIOUS
<1> QED
  BY <1>1, <1>2, SumType, TotalIsSum

\* One deal more adds its units.
LEMMA TotalWithOne ==
    ASSUME NEW S \in SUBSET Deal, NEW f \in [Deal -> Nat], NEW d \in Deal, d \notin S
    PROVE  Total(S \cup {d}, f) = Total(S, f) + f[d]
<1>1. IsFiniteSet(S)
  BY LedgerAssumption, FS_Subset
<1>2. \A x \in S \cup {d} : f[x] \in Nat
  OBVIOUS
<1>3. SumOver(f, S \cup {d}) = SumOver(f, S) + f[d]
  BY <1>1, <1>2, SumOfMore
<1> QED
  BY <1>3, TotalIsSum

\* Of two nested sets of executed deals with the same total, neither is larger.
LEMMA TotalTells ==
    ASSUME NEW T \in SUBSET Deal, NEW S \in SUBSET T, NEW f \in [Deal -> Nat],
           \A d \in T : f[d] # 0, Total(T, f) <= Total(S, f)
    PROVE  S = T
<1>1. IsFiniteSet(T)
  BY LedgerAssumption, FS_Subset
<1>2. \A x \in T : f[x] \in Nat
  OBVIOUS
<1> SUFFICES ASSUME NEW y \in T \ S
             PROVE  FALSE
  OBVIOUS
<1>3. SumOver(f, S) + f[y] <= SumOver(f, T)
  BY <1>1, <1>2, SumOfPart
<1>4. SumOver(f, T) <= SumOver(f, S)
  BY TotalIsSum
<1>5. SumOver(f, T) \in Nat /\ SumOver(f, S) \in Nat /\ f[y] \in Nat /\ f[y] # 0
  BY TotalIsSum, TotalType
<1> QED
  BY <1>3, <1>4, <1>5

\* A frontier whose entries say what the broker did settles the total of its deals.
LEMMA FrontierTotals ==
    ASSUME NEW w \in WorkType, ValidFrontier(w.frontier), NEW f \in [Deal -> Nat],
           \A e \in w.frontier.entries : e.units = f[e.deal]
    PROVE  w.frontier.settled = Total(DealsOf(w), f) /\ DealsOf(w) \in SUBSET Deal
<1> DEFINE E == w.frontier.entries
           g == [e \in E |-> e.deal]
<1>1. E \subseteq EntryType
  BY DEF WorkType, FrontierType
<1>2. DealsOf(w) \subseteq Deal
  BY <1>1 DEF DealsOf, EntryType
<1>3. \A x, y \in E : x.deal = y.deal => x = y
  BY DEF ValidFrontier
<1>4. IsFiniteSet(E)
  <2>1. g \in Injection(E, Deal)
    BY <1>1, <1>3 DEF EntryType, Injection, IsInjective
  <2> HIDE DEF g, E
  <2> QED
    BY <2>1, LedgerAssumption, FS_Injection
<1>5. \A x \in E : x.units \in Nat /\ f[x.deal] = x.units
  BY <1>1 DEF EntryType
<1>6. SumOfUnits(E) = SumOver(f, {x.deal : x \in E})
  <2> HIDE DEF E
  <2> QED
    BY <1>3, <1>4, <1>5, SumOfNamed
<1> QED
  BY <1>2, <1>6, SumOfEntries, TotalIsSum DEF DealsOf, ValidFrontier

----------------------------------------------------------------------------
(* The initial state, and the moves of processes.                          *)

\* The initial state has no manifest, no file and no process that does anything.
LEMMA InitSettlement == Init => ISettlement
<1> SUFFICES ASSUME Init
             PROVE  ISettlement
  OBVIOUS
<1> USE DEF Init
<1>1. Idle \in ProcessType
  BY DEF Idle, ProcessType, Places
<1>2. IType
  <2>1. proc \in [Process -> ProcessType]
    BY <1>1
  <2>2. graph \in GraphType
    BY DEF GraphType
  <2>3. settledAt \in [1 .. journal.revision -> Nat] /\ settledAt[journal.revision] = 0
    OBVIOUS
  <2> QED
    BY <2>1, <2>2, <2>3 DEF IType
<1>3. \A p \in Process : proc[p] = Idle
  OBVIOUS
<1>4. Works = {}
  BY <1>3 DEF Works, Idle, Committing
<1>5. IWorks
  BY <1>4 DEF IWorks
<1>6. IFiles
  BY DEF IFiles, FrontiersAreBacked, EntriesAreBacked
<1>7. ILock
  BY <1>3 DEF ILock, Idle, Admitted
<1>8. IRecovery
  BY <1>3 DEF IRecovery, Recovers, Idle
<1>9. IGraph
  BY DEF IGraph
<1>10. IBroker
  <2>1. filled \in [Deal -> Nat]
    OBVIOUS
  <2>2. Total({}, filled) = 0
    <3>1. {} \in SUBSET Deal
      OBVIOUS
    <3> QED
      BY <2>1, <3>1, TotalType
  <2>3. Settles({})
    BY <1>4, <2>2 DEF Settles
  <2> QED
    BY <1>4, <2>3 DEF IBroker
<1> QED
  BY <1>2, <1>5, <1>6, <1>7, <1>8, <1>9, <1>10 DEF ISettlement

\* What a process that is committing carries is a proof.
LEMMA CommittingWork ==
    ASSUME IWorks, NEW p \in Process, proc[p].pc \in Committing
    PROVE  proc[p].work \in Works /\ proc[p].work \in WorkType
BY DEF IWorks, Works, Sound

\* What the caller does with an answer is one of three things.
LEMMA ReturnedIs ==
    ASSUME NEW s \in ProcessType, NEW answer
    PROVE  \/ Returned(s, answer) = Idle
           \/ /\ answer \in Done
              /\ Returned(s, answer) =
                   [s EXCEPT !.pc = "recover", !.work = Nothing, !.todo = @ \ {s.work},
                             !.progress = TRUE]
           \/ /\ answer = "missing_fact"
              /\ Returned(s, answer) =
                   [s EXCEPT !.pc = "recover", !.work = Nothing, !.tried = @ \cup {s.work}]
BY DEF Returned

\* A process that got its answer is idle or goes on with its recovery.
LEMMA ReturnedType ==
    ASSUME NEW s \in ProcessType, NEW answer
    PROVE  /\ Returned(s, answer) \in ProcessType
           /\ Returned(s, answer).pc \in {"idle", "recover"}
<1>1. s \in [pc : Places, work : WorkType \cup {Nothing}, recovering : BOOLEAN,
             todo : SUBSET WorkType, tried : SUBSET (WorkType \cup {Nothing}),
             progress : BOOLEAN, asked : SUBSET WorkType, complete : BOOLEAN]
  BY DEF ProcessType
<1>2. CASE Returned(s, answer) = Idle
  BY <1>2 DEF Idle, ProcessType, Places
<1>3. CASE Returned(s, answer) =
             [s EXCEPT !.pc = "recover", !.work = Nothing, !.todo = @ \ {s.work},
                       !.progress = TRUE]
  <2>1. s.todo \ {s.work} \in SUBSET WorkType
    BY <1>1
  <2> HIDE DEF WorkType, Nothing
  <2> QED
    BY <1>1, <1>3, <2>1 DEF ProcessType, Places
<1>4. CASE Returned(s, answer) =
             [s EXCEPT !.pc = "recover", !.work = Nothing, !.tried = @ \cup {s.work}]
  <2>1. s.tried \cup {s.work} \in SUBSET (WorkType \cup {Nothing})
    BY <1>1
  <2> HIDE DEF WorkType, Nothing
  <2> QED
    BY <1>1, <1>4, <2>1 DEF ProcessType, Places
<1> QED
  BY <1>2, <1>3, <1>4, ReturnedIs

\* One process goes to another state.
Moves(p, s) ==
    /\ p \in Process /\ s \in ProcessType
    /\ proc' = [proc EXCEPT ![p] = s]

\* A move changes one process.
LEMMA MovesIs ==
    ASSUME IType, NEW p, NEW s, Moves(p, s)
    PROVE  /\ proc' \in [Process -> ProcessType]
           /\ proc'[p] = s
           /\ \A q \in Process : q # p => proc'[q] = proc[q]
BY DEF Moves, IType

\* Only the process that moves can be committing something else.
LEMMA WorksOfMove ==
    ASSUME IType, NEW p, NEW s, Moves(p, s)
    PROVE  /\ Works' \subseteq pendings' \cup Works
                                \cup (IF s.pc \in Committing THEN {s.work} ELSE {})
           /\ pendings' \subseteq Works'
<1>1. /\ proc'[p] = s
      /\ \A q \in Process : q # p => proc'[q] = proc[q]
  BY MovesIs
<1> SUFFICES ASSUME NEW w \in Works'
             PROVE  w \in pendings' \/ w \in Works \/ (s.pc \in Committing /\ w = s.work)
  BY DEF Works
<1>2. CASE w \in pendings'
  BY <1>2
<1>3. CASE w \notin pendings'
  <2>1. PICK q \in Process : proc'[q].pc \in Committing /\ w = proc'[q].work
    BY <1>3 DEF Works
  <2>2. CASE q = p
    BY <1>1, <2>1, <2>2
  <2>3. CASE q # p
    BY <1>1, <2>1, <2>3 DEF Works
  <2> QED
    BY <2>2, <2>3
<1> QED
  BY <1>2, <1>3

----------------------------------------------------------------------------
(* Steps that leave the files alone.                                       *)

\* Files and record stay.
Quiet == UNCHANGED <<pendings, facts, frontiers, journal, settledAt>>

\* A work that is sound and rests on manifests may be taken up; the lock goes
\* only from and to the process that moves.
LEMMA QuietMove ==
    ASSUME IType, IWorks, IFiles, ILock, IRecovery, Quiet, NEW p, NEW s, Moves(p, s),
           s.pc \in Committing => Sound(s.work) /\ Rests(s.work),
           s.pc \in Admitted => lock' = p /\ MayWrite(s.pc, s.work),
           lock' = lock \/ lock \in {p, Nobody},
           Recovers(s)
    PROVE  IWorks' /\ IFiles' /\ ILock' /\ IRecovery'
<1>1. /\ proc'[p] = s
      /\ \A q \in Process : q # p => proc'[q] = proc[q]
  BY MovesIs
<1>2. IWorks'
  <2> SUFFICES ASSUME NEW w \in Works'
               PROVE  Sound(w) /\ Rests(w)'
    BY DEF IWorks, Sound
  <2>1. w \in Works \/ (s.pc \in Committing /\ w = s.work)
    <3>1. pendings' \subseteq Works
      BY DEF Quiet, Works
    <3> QED
      BY <3>1, WorksOfMove
  <2>2. Sound(w) /\ Rests(w)
    BY <2>1 DEF IWorks
  <2> QED
    BY <2>2 DEF Rests, Quiet, OtherEntries, Entry
<1>3. IFiles'
  BY DEF IFiles, Quiet, WasAuthorized, FrontiersAreBacked
<1>4. ILock'
  <2> SUFFICES ASSUME NEW q \in Process, proc'[q].pc \in Admitted
               PROVE  (lock = q /\ MayWrite(proc[q].pc, proc[q].work))'
    BY DEF ILock
  <2>1. lock' = q /\ MayWrite(proc'[q].pc, proc'[q].work)
    <3>1. CASE q = p
      BY <1>1, <3>1
    <3>2. CASE q # p
      <4>1. proc'[q] = proc[q]
        BY <1>1, <3>2
      <4>2. lock = q /\ MayWrite(proc[q].pc, proc[q].work)
        BY <4>1 DEF ILock
      <4>3. lock' = lock
        BY <3>2, <4>2, LedgerAssumption
      <4> QED
        BY <4>1, <4>2, <4>3
    <3> QED
      BY <3>1, <3>2
  <2> QED
    BY <2>1 DEF MayWrite, Quiet, WasAuthorized, PendingFor, FactOn, FrontierAt,
                OtherEntries, Entry
<1>5. IRecovery'
  <2>1. \A q \in Process : Recovers(proc'[q])
    BY <1>1 DEF IRecovery
  <2> QED
    BY <2>1 DEF IRecovery, Recovers, Quiet
<1> QED
  BY <1>2, <1>3, <1>4, <1>5

\* Steps that only let the world go on.
LEMMA QuietWorld ==
    ASSUME IWorks, IFiles, ILock, IRecovery, Quiet, UNCHANGED <<proc, lock>>
    PROVE  /\ IWorks' /\ IFiles' /\ ILock' /\ IRecovery'
           /\ Works' = Works
<1>1. Works' = Works
  BY DEF Works, Quiet
<1>2. IWorks'
  BY <1>1 DEF IWorks, Sound, Rests, Quiet, OtherEntries, Entry
<1>3. IFiles'
  BY DEF IFiles, Quiet, WasAuthorized, FrontiersAreBacked
<1>4. ILock'
  <2> SUFFICES ASSUME NEW q \in Process, proc[q].pc \in Admitted
               PROVE  lock = q /\ MayWrite(proc[q].pc, proc[q].work)'
    BY DEF ILock
  <2>1. lock = q /\ MayWrite(proc[q].pc, proc[q].work)
    BY DEF ILock
  <2> QED
    BY <2>1 DEF MayWrite, Quiet, WasAuthorized, PendingFor, FactOn, FrontierAt,
                OtherEntries, Entry
<1>5. IRecovery'
  BY DEF IRecovery, Recovers, Quiet
<1> QED
  BY <1>1, <1>2, <1>3, <1>4, <1>5

\* Nothing is known or claimed that was not before.
LEMMA SameClaims ==
    ASSUME IGraph, IBroker, UNCHANGED <<filled, journal, narrow>>,
           Works' \subseteq Works,
           graph'.evidence = graph.evidence, graph'.reads = graph.reads,
           graph'.window = graph.window, graph'.alive => graph.alive
    PROVE  IGraph' /\ IBroker'
<1>1. IGraph'
  BY DEF IGraph
<1>2. Known(graph') = Known(graph)
  BY DEF Known
<1>3. IBroker'
  <2> SUFFICES ASSUME narrow = {}
               PROVE  /\ \A w \in Works' : Honest(w)'
                      /\ \A w, z \in Works' : Nested(DealsOf(w), DealsOf(z))
                      /\ graph'.alive => \E K \in SUBSET Known(graph') : Settles(K)'
    BY DEF IBroker
  <2>1. \A w \in Works : Honest(w)
    BY DEF IBroker
  <2>2. \A w \in Works' : Honest(w)'
    BY <1>2, <2>1 DEF Honest
  <2>3. \A w, z \in Works' : Nested(DealsOf(w), DealsOf(z))
    BY DEF IBroker
  <2>4. ASSUME graph'.alive
        PROVE  \E K \in SUBSET Known(graph') : Settles(K)'
    <3>1. PICK K \in SUBSET Known(graph) : Settles(K)
      BY <2>4 DEF IBroker
    <3>2. Settles(K)'
      BY <3>1 DEF Settles
    <3> QED
      BY <1>2, <3>1, <3>2
  <2> QED
    BY <2>2, <2>3, <2>4
<1> QED
  BY <1>1, <1>3

----------------------------------------------------------------------------
(* The broker, the graph and the journal.                                  *)

\* The graph knows of no deal that the broker has not executed.
LEMMA KnownAreFilled ==
    ASSUME IGraph
    PROVE  Known(graph) \subseteq Deal /\ \A d \in Known(graph) : filled[d] # 0
BY DEF IGraph, Known

\* Two lots of units that agree on the deals that are known.
LEMMA ClaimsStay ==
    ASSUME IType, IGraph, IBroker, narrow = {}, filled' \in [Deal -> Nat],
           \A d \in Known(graph) : filled'[d] = filled[d],
           Known(graph) \subseteq Known(graph'), Works' = Works
    PROVE  /\ \A w \in Works' : Honest(w)'
           /\ \A w, z \in Works' : Nested(DealsOf(w), DealsOf(z))
           /\ \A K \in SUBSET Known(graph) : Total(K, filled') = Total(K, filled)
<1>1. ASSUME NEW w \in Works
      PROVE  Honest(w)'
  <2>1. DealsOf(w) \subseteq Known(graph) /\ \A e \in w.frontier.entries : e.units = filled[e.deal]
    BY DEF IBroker, Honest
  <2>2. \A e \in w.frontier.entries : e.deal \in Known(graph)
    BY <2>1 DEF DealsOf
  <2> QED
    BY <2>1, <2>2 DEF Honest
<1>2. \A w, z \in Works : Nested(DealsOf(w), DealsOf(z))
  BY DEF IBroker
<1>3. ASSUME NEW K \in SUBSET Known(graph)
      PROVE  Total(K, filled') = Total(K, filled)
  <2>1. K \in SUBSET Deal /\ \A d \in K : filled'[d] = filled[d]
    BY KnownAreFilled
  <2>2. filled \in [Deal -> Nat]
    BY DEF IType
  <2> QED
    BY <2>1, <2>2, TotalStays
<1> QED
  BY <1>1, <1>2, <1>3

\* A new deal of the broker is not known to the graph, and in no work.
LEMMA FillKeeps ==
    ASSUME ISettlement, NEW d \in Deal, NEW u \in Units, Fill(d, u)
    PROVE  ISettlement'
<1> USE DEF ISettlement
<1>1. /\ filled[d] = 0 /\ filled' = [filled EXCEPT ![d] = u]
      /\ UNCHANGED <<journal, graph, pendings, facts, frontiers, proc, lock,
                     settledAt, narrow>>
  BY DEF Fill
<1>2. Quiet
  BY <1>1 DEF Quiet
<1>3. u \in Nat /\ u # 0
  BY LedgerAssumption
<1>4. IType'
  BY <1>1, <1>3 DEF IType
<1>5. IWorks' /\ IFiles' /\ ILock' /\ IRecovery' /\ Works' = Works
  BY <1>1, <1>2, QuietWorld
<1>6. IGraph'
  BY <1>1, <1>3 DEF IGraph, IType
<1>7. IBroker'
  <2> SUFFICES ASSUME narrow = {}
               PROVE  (/\ \A w \in Works : Honest(w)
                       /\ \A w, z \in Works : Nested(DealsOf(w), DealsOf(z))
                       /\ graph.alive => \E K \in SUBSET Known(graph) : Settles(K))'
    BY <1>1 DEF IBroker
  <2>1. /\ filled' \in [Deal -> Nat] /\ Known(graph) \subseteq Known(graph')
        /\ \A x \in Known(graph) : filled'[x] = filled[x]
    BY <1>1, <1>4, KnownAreFilled DEF IType
  <2>2. /\ \A w \in Works' : Honest(w)'
        /\ \A w, z \in Works' : Nested(DealsOf(w), DealsOf(z))
        /\ \A K \in SUBSET Known(graph) : Total(K, filled') = Total(K, filled)
    BY <1>5, <2>1, ClaimsStay
  <2>3. ASSUME graph.alive
        PROVE  \E K \in SUBSET Known(graph) : Settles(K)'
    <3>1. PICK K \in SUBSET Known(graph) : Settles(K)
      BY <2>3 DEF IBroker
    <3>2. Settles(K)'
      BY <1>1, <1>5, <2>2, <3>1 DEF Settles
    <3> QED
      BY <3>2
  <2> QED
    BY <1>1, <2>2, <2>3
<1> QED
  BY <1>4, <1>5, <1>6, <1>7

\* A read may only add deals to those that are known, and all of the window's.
LEMMA ReadKeeps ==
    ASSUME ISettlement, NEW w \in Window, Read(w)
    PROVE  ISettlement'
<1> USE DEF ISettlement
<1>1. /\ graph' = [graph EXCEPT
                     !.reads = graph.reads + 1,
                     !.evidence = [d \in Deal |-> IF d \in w /\ filled[d] # 0
                                                  THEN graph.reads + 1
                                                  ELSE graph.evidence[d]],
                     !.covered = @ \cup w,
                     !.window = w]
      /\ UNCHANGED <<filled, journal, pendings, facts, frontiers, proc, lock,
                     settledAt, narrow>>
  BY DEF Read
<1>2. Quiet
  BY <1>1 DEF Quiet
<1>3. graph \in GraphType /\ w \in SUBSET Deal
  BY LedgerAssumption DEF IType
<1>4. graph' \in GraphType
  <2> DEFINE ev == [d \in Deal |-> IF d \in w /\ filled[d] # 0 THEN graph.reads + 1
                                   ELSE graph.evidence[d]]
  <2>1. ev \in [Deal -> Nat]
    BY <1>3 DEF GraphType
  <2> HIDE DEF ev
  <2>2. graph' = [graph EXCEPT !.reads = graph.reads + 1, !.evidence = ev,
                               !.covered = graph.covered \cup w, !.window = w]
    BY <1>1 DEF ev
  <2>3. graph.reads + 1 \in Nat /\ graph.covered \cup w \in SUBSET Deal
    BY <1>3 DEF GraphType
  <2> QED
    BY <1>3, <2>1, <2>2, <2>3 DEF GraphType
<1>5. /\ graph'.reads = graph.reads + 1 /\ graph'.window = w /\ graph'.alive = graph.alive
      /\ \A d \in Deal : graph'.evidence[d] = IF d \in w /\ filled[d] # 0
                                              THEN graph.reads + 1
                                              ELSE graph.evidence[d]
  BY <1>1, <1>3 DEF GraphType
<1>6. IType'
  BY <1>1, <1>4 DEF IType
<1>7. IWorks' /\ IFiles' /\ ILock' /\ IRecovery' /\ Works' = Works
  BY <1>1, <1>2, QuietWorld
<1>8. IGraph'
  BY <1>1, <1>3, <1>5 DEF IGraph
<1>9. IBroker'
  <2> SUFFICES ASSUME narrow = {}
               PROVE  (/\ \A x \in Works : Honest(x)
                       /\ \A x, z \in Works : Nested(DealsOf(x), DealsOf(z))
                       /\ graph.alive => \E K \in SUBSET Known(graph) : Settles(K))'
    BY <1>1 DEF IBroker
  <2>1. /\ filled' \in [Deal -> Nat] /\ Known(graph) \subseteq Known(graph')
        /\ \A x \in Known(graph) : filled'[x] = filled[x]
    <3>1. graph.reads \in Nat
      BY <1>3 DEF GraphType
    <3> QED
      BY <1>1, <1>5, <3>1 DEF IType, Known
  <2>2. /\ \A x \in Works' : Honest(x)'
        /\ \A x, z \in Works' : Nested(DealsOf(x), DealsOf(z))
        /\ \A K \in SUBSET Known(graph) : Total(K, filled') = Total(K, filled)
    BY <1>7, <2>1, ClaimsStay
  <2>3. ASSUME graph'.alive
        PROVE  \E K \in SUBSET Known(graph') : Settles(K)'
    <3>1. PICK K \in SUBSET Known(graph) : Settles(K)
      BY <1>5, <2>3 DEF IBroker
    <3>2. Settles(K)'
      BY <1>1, <1>7, <2>2, <3>1 DEF Settles
    <3> QED
      BY <2>1, <3>2
  <2> QED
    BY <1>1, <2>2, <2>3
<1> QED
  BY <1>6, <1>7, <1>8, <1>9

\* The next record, at its revision and its volume.
LEMMA NextRecordIs ==
    ASSUME IType, NEW j \in NextRecords
    PROVE  /\ j \in [revision : Nat, settled : Nat]
           /\ j.revision = journal.revision + 1
           /\ journal.settled <= j.settled
           /\ \/ j.settled = journal.settled
              \/ j.settled = Total(IF graph.alive THEN Known(graph) ELSE Deal, filled)
<1>1. journal \in [revision : Nat, settled : Nat] /\ filled \in [Deal -> Nat]
  BY DEF IType
<1> DEFINE t == Total(IF graph.alive THEN Known(graph) ELSE Deal, filled)
<1>2. t \in Nat
  <2>1. (IF graph.alive THEN Known(graph) ELSE Deal) \in SUBSET Deal
    BY DEF Known
  <2> QED
    BY <1>1, <2>1, TotalType
<1> HIDE DEF t
<1>3. /\ j \in [revision : {journal.revision + 1}, settled : {journal.settled, t}]
      /\ journal.settled <= j.settled
  BY DEF NextRecords, t
<1> QED
  BY <1>1, <1>2, <1>3 DEF t

\* A new revision of the record changes no volume that was settled before it.
LEMMA AdvanceKeeps ==
    ASSUME ISettlement, NEW j \in NextRecords, Advance(j)
    PROVE  ISettlement'
<1> USE DEF ISettlement
<1>1. /\ journal' = j
      /\ settledAt' = [r \in DOMAIN settledAt \cup {j.revision} |->
                         IF r = j.revision THEN j.settled ELSE settledAt[r]]
      /\ UNCHANGED <<filled, graph, pendings, facts, frontiers, proc, lock, narrow>>
  BY DEF Advance
<1>2. /\ j \in [revision : Nat, settled : Nat] /\ j.revision = journal.revision + 1
      /\ journal.settled <= j.settled
      /\ journal.revision \in Nat /\ journal.settled \in Nat
      /\ settledAt \in [1 .. journal.revision -> Nat]
  BY NextRecordIs DEF IType
<1>3. /\ settledAt' \in [1 .. j.revision -> Nat] /\ settledAt'[j.revision] = j.settled
      /\ \A r \in 1 .. journal.revision : settledAt'[r] = settledAt[r]
  <2>1. DOMAIN settledAt \cup {j.revision} = 1 .. j.revision
    BY <1>2
  <2>2. j.revision \in 1 .. j.revision
    BY <1>2
  <2>3. \A r \in 1 .. journal.revision : r \in 1 .. j.revision /\ r # j.revision
    BY <1>2
  <2>4. \A r \in 1 .. j.revision : r # j.revision => r \in 1 .. journal.revision
    BY <1>2
  <2> QED
    BY <1>1, <1>2, <2>1, <2>2, <2>3, <2>4
<1>4. IType'
  BY <1>1, <1>2, <1>3 DEF IType
<1>5. Works' = Works
  BY <1>1 DEF Works
<1>6. IWorks'
  BY <1>1, <1>5 DEF IWorks, Sound, Rests, OtherEntries, Entry
<1>7. ASSUME NEW w \in Works, WasAuthorized(w)
      PROVE  WasAuthorized(w)'
  <2>1. w.frontier.settled \in Nat
    BY DEF IWorks, Sound, WorkType, FrontierType
  <2>2. /\ w.frontier.revision \in 1 .. journal.revision
        /\ settledAt[w.frontier.revision] = w.frontier.settled
        /\ w.frontier.settled <= journal.settled
    BY <1>7 DEF WasAuthorized
  <2>3. w.frontier.revision \in 1 .. j.revision
    BY <1>2, <2>2
  <2>4. w.frontier.settled <= j.settled
    BY <1>2, <2>1, <2>2
  <2> QED
    BY <1>1, <1>3, <2>2, <2>3, <2>4 DEF WasAuthorized
<1>8. IFiles'
  <2>1. \A w \in pendings : WasAuthorized(w)'
    BY <1>7 DEF IFiles, Works
  <2> QED
    BY <1>1, <2>1 DEF IFiles, FrontiersAreBacked
<1>9. ILock'
  <2> SUFFICES ASSUME NEW q \in Process, proc[q].pc \in Admitted
               PROVE  lock = q /\ MayWrite(proc[q].pc, proc[q].work)'
    BY <1>1 DEF ILock
  <2>1. lock = q /\ MayWrite(proc[q].pc, proc[q].work)
    BY DEF ILock
  <2>2. proc[q].work \in Works
    BY DEF Works, Admitted, Committing
  <2>3. WasAuthorized(proc[q].work)'
    BY <1>1, <1>7, <2>1, <2>2 DEF MayWrite, WasAuthorized
  <2> QED
    BY <1>1, <2>1, <2>3 DEF MayWrite, PendingFor, FactOn, FrontierAt, OtherEntries, Entry
<1>10. IRecovery'
  BY <1>1 DEF IRecovery, Recovers
<1>11. IGraph'
  BY <1>1 DEF IGraph
<1>12. IBroker'
  <2> SUFFICES ASSUME narrow = {}
               PROVE  (/\ \A w \in Works : Honest(w)
                       /\ \A w, z \in Works : Nested(DealsOf(w), DealsOf(z))
                       /\ graph.alive => \E K \in SUBSET Known(graph) : Settles(K))'
    BY <1>1 DEF IBroker
  <2>1. /\ \A w \in Works' : Honest(w)'
        /\ \A w, z \in Works' : Nested(DealsOf(w), DealsOf(z))
    BY <1>1, <1>5 DEF IBroker, Honest
  <2>2. ASSUME graph.alive
        PROVE  \E K \in SUBSET Known(graph) : Settles(K)'
    <3>1. CASE j.settled = journal.settled
      BY <1>1, <1>5, <2>2, <3>1 DEF IBroker, Settles
    <3>2. CASE j.settled # journal.settled
      <4>1. j.settled = Total(Known(graph), filled)
        BY <2>2, <3>2, NextRecordIs
      <4>2. \A w \in Works : Nested(DealsOf(w), Known(graph))
        BY DEF IBroker, Honest, Nested
      <4>3. Settles(Known(graph))'
        BY <1>1, <1>5, <4>1, <4>2 DEF Settles
      <4> QED
        BY <1>1, <4>3 DEF Settles
    <3> QED
      BY <3>1, <3>2
  <2> QED
    BY <1>1, <2>1, <2>2
<1> QED
  BY <1>4, <1>6, <1>8, <1>9, <1>10, <1>11, <1>12

----------------------------------------------------------------------------
(* The producer.                                                           *)

\* What an entry tells of a fact.
LEMMA EntryIs ==
    ASSUME NEW f
    PROVE  /\ Entry(f).deal = f.deal /\ Entry(f).revision = f.revision
           /\ Entry(f).units = f.units
BY DEF Entry

\* A scan returns the facts of the manifests.
LEMMA ScannedIs ==
    ASSUME IType, IFiles, NEW f \in Scanned
    PROVE  f \in FactType /\ \E z \in pendings : f = z.fact
<1>1. CASE f \in facts
  BY <1>1 DEF IFiles, IType
<1>2. CASE f \notin facts
  <2>1. PICK z \in pendings : f = z.fact
    BY <1>2 DEF Scanned
  <2>2. z \in WorkType
    BY DEF IType
  <2> QED
    BY <2>1, <2>2 DEF WorkType
<1> QED
  BY <1>1, <1>2

\* The proof that the producer makes.
ProofOf(j, d, units, prior) ==
    [fact |-> FactOf(graph, j, d, units),
     frontier |-> FrontierOf(j, FactOf(graph, j, d, units), prior)]

\* What the producer returns is sound and rests on the manifests of its scan.
LEMMA ProofIs ==
    ASSUME IType, IFiles, NEW j \in [revision : Nat, settled : Nat], NEW d \in Deal,
           NEW units \in 1 .. j.settled, NEW prior \in SUBSET Scanned,
           NEW w, w = ProofOf(j, d, units, prior),
           j.settled > 0, ValidFrontier(w.frontier)
    PROVE  /\ Sound(w) /\ Rests(w)
           /\ w.fact.deal = d /\ w.fact.units = units
           /\ w.frontier.settled = j.settled
           /\ w.frontier.entries = {Entry(f) : f \in prior \cup {w.fact}}
           /\ DealsOf(w) = {f.deal : f \in prior} \cup {d}
<1> DEFINE fact == FactOf(graph, j, d, units)
           entries == {Entry(f) : f \in prior \cup {fact}}
<1>1. /\ fact \in FactType
      /\ fact.deal = d /\ fact.revision = j.revision /\ fact.units = units
      /\ fact.stamp \in Nat
  BY DEF FactOf, FactType, IType, GraphType
<1>2. prior \subseteq FactType
  BY ScannedIs
<1>3. entries \subseteq EntryType
  <2> HIDE DEF fact
  <2>1. \A f \in FactType : Entry(f) \in EntryType
    BY DEF FactType, Entry, EntryType
  <2> QED
    BY <1>1, <1>2, <2>1
<1>4. /\ w.fact = fact
      /\ w.frontier = [revision |-> j.revision, settled |-> j.settled,
                       stamp |-> fact.stamp, entries |-> entries]
  BY DEF ProofOf, FrontierOf
<1>5. w = [fact |-> w.fact, frontier |-> w.frontier]
  BY DEF ProofOf
<1> HIDE DEF fact
<1>6. w.frontier \in FrontierType
  <2> HIDE DEF entries
  <2> QED
    BY <1>1, <1>3, <1>4 DEF FrontierType
<1>7. w \in WorkType
  <2>1. w.fact \in FactType
    BY <1>1, <1>4
  <2> QED
    BY <1>5, <1>6, <2>1 DEF WorkType
<1>8. Sound(w)
  BY <1>1, <1>4, <1>7 DEF Sound
<1>9. Rests(w)
  <2> SUFFICES ASSUME NEW e \in OtherEntries(w)
               PROVE  \E z \in pendings : e = Entry(z.fact)
    BY DEF Rests
  <2>1. e \in entries /\ e.deal # d
    BY <1>1, <1>4 DEF OtherEntries
  <2>2. PICK f \in prior \cup {fact} : e = Entry(f)
    BY <2>1
  <2>3. f \in prior
    BY <1>1, <2>1, <2>2, EntryIs
  <2> QED
    BY <2>2, <2>3, ScannedIs
<1>10. DealsOf(w) = {f.deal : f \in prior} \cup {d}
  <2>1. DealsOf(w) = {e.deal : e \in entries}
    BY <1>4 DEF DealsOf
  <2>2. {e.deal : e \in entries} = {f.deal : f \in prior \cup {fact}}
    BY EntryIs
  <2> QED
    BY <1>1, <2>1, <2>2
<1> QED
  BY <1>1, <1>4, <1>8, <1>9, <1>10

\* After reads as wide as the anchor's window, the units of a new deal are those
\* the broker executed: the volume is that of deals which were known when it was
\* recorded; the earlier facts, which the record had settled when they were
\* committed, are among them; and what they leave of it is not nothing.
LEMMA NewUnits ==
    ASSUME IType, IWorks, IFiles, IGraph, IBroker, narrow = {}, graph.window = Deal,
           NEW j \in NextRecords \cup {journal}, NEW d \in Deal,
           NEW units \in 1 .. j.settled, NEW prior \in SUBSET Scanned,
           NEW w, w = ProofOf(j, d, units, prior),
           MayDerive(graph, j, d, units, prior), ValidFrontier(w.frontier)
    PROVE  DealsOf(w) = Known(graph) /\ units = filled[d]
           /\ \A e \in w.frontier.entries : e.units = filled[e.deal]
<1> DEFINE known == Known(graph)
           old == {f.deal : f \in prior}
<1>1. /\ j \in [revision : Nat, settled : Nat]
      /\ j.settled = journal.settled \/ j.settled = Total(known, filled)
      /\ graph.alive /\ graph.reads > 0 /\ j.settled > 0
      /\ Fresh(graph) \ old = {d} /\ old \subseteq Fresh(graph)
  <2>1. graph.alive /\ graph.reads > 0 /\ j.settled > 0
        /\ Fresh(graph) \ old = {d} /\ old \subseteq Fresh(graph)
    BY DEF MayDerive
  <2>2. journal \in [revision : Nat, settled : Nat]
    BY DEF IType
  <2> QED
    BY <2>1, <2>2, NextRecordIs
<1>2. filled \in [Deal -> Nat] /\ known \in SUBSET Deal /\ \A x \in known : filled[x] # 0
  BY KnownAreFilled DEF IType
<1>3. Fresh(graph) = known
  BY <1>1 DEF Fresh, Known, IGraph, IType, GraphType
<1>4. known = old \cup {d} /\ d \notin old /\ old \in SUBSET known /\ d \in known
  BY <1>1, <1>3
<1>5. /\ Sound(w) /\ w.fact.deal = d /\ w.fact.units = units
      /\ w.frontier.settled = j.settled
      /\ w.frontier.entries = {Entry(f) : f \in prior \cup {w.fact}}
      /\ DealsOf(w) = old \cup {d}
  BY <1>1, ProofIs
<1> HIDE DEF known, old
<1>6. ASSUME NEW f \in prior
      PROVE  /\ f.units = filled[f.deal]
             /\ \E z \in pendings : f = z.fact
  <2>1. PICK z \in pendings : f = z.fact
    BY ScannedIs
  <2>2. z \in Works
    BY DEF Works
  <2>3. Entry(f) \in z.frontier.entries
    BY <2>1, <2>2 DEF IWorks, Sound
  <2>4. f.units = filled[f.deal]
    BY <2>2, <2>3, EntryIs DEF IBroker, Honest
  <2> QED
    BY <2>1, <2>4
\* The sum of what the entries claim.
<1> DEFINE claim == [filled EXCEPT ![d] = units]
<1>7. claim \in [Deal -> Nat] /\ claim[d] = units /\ \A x \in Deal : x # d => claim[x] = filled[x]
  BY <1>1, <1>2
<1>8. \A e \in w.frontier.entries : e.units = claim[e.deal]
  <2> SUFFICES ASSUME NEW f \in prior \cup {w.fact}
               PROVE  Entry(f).units = claim[Entry(f).deal]
    BY <1>5
  <2>1. CASE f = w.fact
    BY <1>5, <1>7, <2>1, EntryIs
  <2>2. CASE f \in prior
    <3>1. f.deal \in old
      BY <2>2 DEF old
    <3>2. f.deal \in Deal /\ f.deal # d
      BY <1>2, <1>4, <3>1
    <3> QED
      BY <1>6, <1>7, <2>2, <3>2, EntryIs
  <2> QED
    BY <2>1, <2>2
<1> HIDE DEF claim
<1>9. j.settled = Total(old, filled) + units
  <2>1. w \in WorkType
    BY <1>5 DEF Sound
  <2>2. j.settled = Total(old \cup {d}, claim)
    BY <1>5, <1>7, <1>8, <2>1, FrontierTotals
  <2>3. old \in SUBSET Deal
    BY <1>2, <1>4
  <2>4. Total(old \cup {d}, claim) = Total(old, claim) + units
    BY <1>4, <1>7, <2>3, TotalWithOne
  <2>5. Total(old, claim) = Total(old, filled)
    <3>1. \A x \in old : claim[x] = filled[x]
      BY <1>4, <1>7, <2>3
    <3> QED
      BY <1>2, <1>7, <2>3, <3>1, TotalStays
  <2> QED
    BY <2>2, <2>4, <2>5
\* The volume is that of all that is known.
<1>10. j.settled = Total(known, filled)
  <2> SUFFICES ASSUME j.settled = journal.settled
               PROVE  j.settled = Total(known, filled)
    BY <1>1
  <2>1. PICK K \in SUBSET known : Settles(K)
    BY <1>1 DEF IBroker, known
  <2>2. K \in SUBSET Deal /\ \A x \in K : filled[x] # 0
    BY <1>2
  <2>3. ASSUME NEW f \in prior
        PROVE  f.deal \in K
    <3>1. PICK z \in pendings : f = z.fact
      BY <1>6
    <3>2. z \in Works /\ Sound(z) /\ Honest(z)
      BY DEF Works, IWorks, IBroker
    <3>3. f.deal \in DealsOf(z)
      BY <3>1, <3>2, EntryIs DEF Sound, DealsOf
    <3>4. /\ z.frontier.settled = Total(DealsOf(z), filled)
          /\ DealsOf(z) \in SUBSET Deal
      BY <1>2, <3>2, FrontierTotals DEF Sound, Honest
    <3>5. z.frontier.settled <= journal.settled
      BY DEF IFiles, WasAuthorized
    <3>6. journal.settled = Total(K, filled) /\ Nested(DealsOf(z), K)
      BY <2>1, <3>2 DEF Settles
    <3>7. CASE DealsOf(z) \subseteq K
      BY <3>3, <3>7
    <3>8. CASE K \subseteq DealsOf(z)
      <4>1. \A x \in DealsOf(z) : filled[x] # 0
        BY <1>2, <3>2 DEF Honest, known
      <4>2. Total(DealsOf(z), filled) <= Total(K, filled)
        BY <3>4, <3>5, <3>6
      <4>3. K = DealsOf(z)
        BY <1>2, <3>4, <3>8, <4>1, <4>2, TotalTells
      <4> QED
        BY <3>3, <4>3
    <3> QED
      BY <3>6, <3>7, <3>8 DEF Nested
  <2>4. old \subseteq K
    BY <2>3 DEF old
  <2>5. K # old
    <3> SUFFICES ASSUME K = old
                 PROVE  FALSE
      OBVIOUS
    <3>1. j.settled = Total(old, filled)
      BY <2>1 DEF Settles
    <3>2. j.settled \in Nat /\ units \in Nat /\ units > 0 /\ Total(old, filled) \in Nat
      BY <1>1, <1>2, <2>2, TotalType
    <3> QED
      BY <1>9, <3>1, <3>2
  <2>6. K = known
    BY <1>4, <2>4, <2>5
  <2> QED
    BY <2>1, <2>6 DEF Settles
<1>11. units = filled[d]
  <2>1. old \in SUBSET Deal
    BY <1>2, <1>4
  <2>2. Total(known, filled) = Total(old, filled) + filled[d]
    BY <1>2, <1>4, <2>1, TotalWithOne
  <2>3. Total(old, filled) \in Nat /\ units \in Nat /\ filled[d] \in Nat
    BY <1>1, <1>2, <2>1, TotalType
  <2> QED
    BY <1>9, <1>10, <2>2, <2>3
<1>12. claim = filled
  BY <1>2, <1>11 DEF claim
<1> QED
  BY <1>4, <1>5, <1>8, <1>11, <1>12 DEF known

\* The producer's proof joins the works; with wide reads it is of the deals that are known.
LEMMA DeriveKeeps ==
    ASSUME ISettlement, NEW j \in NextRecords \cup {journal}, NEW d \in Deal,
           NEW units \in 1 .. j.settled, NEW prior \in SUBSET Scanned,
           Derive(j, d, units, prior)
    PROVE  ISettlement'
<1> USE DEF ISettlement
<1>1. PICK w : w = ProofOf(j, d, units, prior)
  OBVIOUS
<1>2. PICK s : s = [Idle EXCEPT !.pc = "commit", !.work = w]
  OBVIOUS
<1>3. /\ MayDerive(graph, j, d, units, prior)
      /\ ValidFrontier(w.frontier)
      /\ proc' = [proc EXCEPT ![Owner] = s]
      /\ narrow' = IF graph.window = Deal THEN narrow ELSE narrow \cup {w.fact}
      /\ UNCHANGED <<filled, journal, graph, pendings, facts, frontiers, lock,
                     settledAt>>
  BY Zenon, <1>1, <1>2 DEF Derive, ProofOf
<1>4. j \in [revision : Nat, settled : Nat] /\ j.settled > 0
  BY <1>3, NextRecordIs DEF IType, MayDerive
<1>5. Sound(w) /\ Rests(w)
  BY <1>1, <1>3, <1>4, ProofIs
<1>6. /\ s.pc = "commit" /\ s.work = w
      /\ s.todo = {} /\ s.asked = {} /\ s.complete = FALSE
      /\ s \in ProcessType
  <2>1. w \in WorkType
    BY <1>5 DEF Sound
  <2> HIDE DEF WorkType
  <2> QED
    BY <1>2, <2>1 DEF Idle, ProcessType, Places
<1>7. Moves(Owner, s)
  BY <1>3, <1>6, LedgerAssumption DEF Moves
<1>8. Quiet
  BY <1>3 DEF Quiet
<1>9. IType'
  BY <1>3, <1>7, MovesIs DEF IType
<1>10. IWorks' /\ IFiles' /\ ILock' /\ IRecovery'
  <2>1. Recovers(s)
    BY <1>6 DEF Recovers
  <2>2. s.pc \notin Admitted
    BY <1>6 DEF Admitted
  <2> QED
    BY <1>3, <1>5, <1>6, <1>7, <1>8, <2>1, <2>2, QuietMove
<1>11. IGraph'
  BY <1>3 DEF IGraph
<1>12. Works' \subseteq Works \cup {w}
  <2>1. pendings' \subseteq Works
    BY <1>3 DEF Works
  <2> QED
    BY <1>6, <1>7, <2>1, WorksOfMove
<1>13. IBroker'
  <2> SUFFICES ASSUME narrow' = {}
               PROVE  /\ \A z \in Works' : Honest(z)
                      /\ \A x, z \in Works' : Nested(DealsOf(x), DealsOf(z))
                      /\ graph.alive => \E K \in SUBSET Known(graph) :
                            /\ journal.settled = Total(K, filled)
                            /\ \A z \in Works' : Nested(DealsOf(z), K)
    BY <1>3 DEF IBroker, Honest, Settles
  <2>1. narrow = {} /\ graph.window = Deal
    BY <1>3
  <2>2. DealsOf(w) = Known(graph) /\ \A e \in w.frontier.entries : e.units = filled[e.deal]
    BY <1>1, <1>3, <2>1, NewUnits
  <2>3. /\ \A z \in Works : Honest(z)
        /\ \A x, z \in Works : Nested(DealsOf(x), DealsOf(z))
    BY <2>1 DEF IBroker
  <2>4. \A z \in Works' : Honest(z)
    BY <1>12, <2>2, <2>3 DEF Honest
  <2>5. \A z \in Works : Nested(DealsOf(z), DealsOf(w)) /\ Nested(DealsOf(w), DealsOf(z))
    BY <2>2, <2>3 DEF Honest, Nested
  <2>6. \A x, z \in Works' : Nested(DealsOf(x), DealsOf(z))
    BY <1>12, <2>3, <2>5 DEF Nested
  <2>7. ASSUME graph.alive
        PROVE  \E K \in SUBSET Known(graph) :
                  /\ journal.settled = Total(K, filled)
                  /\ \A z \in Works' : Nested(DealsOf(z), K)
    <3>1. PICK K \in SUBSET Known(graph) : Settles(K)
      BY <2>1, <2>7 DEF IBroker
    <3>2. Nested(DealsOf(w), K)
      BY <2>2 DEF Nested
    <3> QED
      BY <1>12, <3>1, <3>2 DEF Settles
  <2> QED
    BY <2>4, <2>6, <2>7
<1> QED
  BY <1>9, <1>10, <1>11, <1>13

----------------------------------------------------------------------------
(* The commit.                                                             *)

\* A verdict says what was tested.
LEMMA VerdictIs ==
    ASSUME NEW w
    PROVE  /\ Verdict(w) = "publish" =>
                /\ ~ Conflicts(w) /\ Authorized(journal, w)
                /\ \A e \in OtherEntries(w) :
                      FactOn(e.deal) # {} /\ \A f \in FactOn(e.deal) : Entry(f) = e
           /\ Verdict(w) \in Done => w.fact \in facts /\ w.frontier \in frontiers
BY Zenon DEF Verdict, Done

\* What a process does with an answer keeps its recovery right, if a final one
\* means that its work is published.
LEMMA ReturnedRecovers ==
    ASSUME NEW s \in ProcessType, Recovers(s), NEW answer,
           answer \in Done => s.work.fact \in facts /\ s.work.frontier \in frontiers
    PROVE  Recovers(Returned(s, answer))
<1>1. s \in [pc : Places, work : WorkType \cup {Nothing}, recovering : BOOLEAN,
             todo : SUBSET WorkType, tried : SUBSET (WorkType \cup {Nothing}),
             progress : BOOLEAN, asked : SUBSET WorkType, complete : BOOLEAN]
  BY DEF ProcessType
<1>2. PICK r : r = Returned(s, answer)
  OBVIOUS
<1>3. CASE r = Idle
  BY <1>2, <1>3 DEF Recovers, Idle
<1>4. CASE /\ answer \in Done
           /\ r = [s EXCEPT !.pc = "recover", !.work = Nothing, !.todo = @ \ {s.work},
                            !.progress = TRUE]
  <2>1. r.asked = s.asked /\ r.complete = s.complete /\ r.todo = s.todo \ {s.work}
    <3> HIDE DEF WorkType
    <3> QED
      BY <1>1, <1>4
  <2> QED
    BY <1>2, <1>4, <2>1 DEF Recovers
<1>5. CASE r = [s EXCEPT !.pc = "recover", !.work = Nothing, !.tried = @ \cup {s.work}]
  <2>1. r.asked = s.asked /\ r.complete = s.complete /\ r.todo = s.todo
    <3> HIDE DEF WorkType
    <3> QED
      BY <1>1, <1>5
  <2> QED
    BY <1>2, <2>1 DEF Recovers
<1> QED
  BY <1>2, <1>3, <1>4, <1>5, ReturnedIs

\* A process that moves takes along what it may recover.
LEMMA ProcIs ==
    ASSUME ISettlement, NEW p \in Process
    PROVE  /\ proc[p] \in ProcessType /\ Recovers(proc[p])
           /\ \A f : [proc[p] EXCEPT !.pc = f].pc = f
           /\ \A f \in Places : [proc[p] EXCEPT !.pc = f] \in ProcessType
           /\ \A f : [proc[p] EXCEPT !.pc = f].work = proc[p].work
           /\ \A f : Recovers([proc[p] EXCEPT !.pc = f])
<1>1. proc[p] \in ProcessType /\ Recovers(proc[p])
  BY DEF ISettlement, IType, IRecovery
<1>2. PICK s : s = proc[p]
  OBVIOUS
<1>3. s \in [pc : Places, work : WorkType \cup {Nothing}, recovering : BOOLEAN,
             todo : SUBSET WorkType, tried : SUBSET (WorkType \cup {Nothing}),
             progress : BOOLEAN, asked : SUBSET WorkType, complete : BOOLEAN]
  BY <1>1, <1>2 DEF ProcessType
<1>4. ASSUME NEW f
      PROVE  /\ [s EXCEPT !.pc = f].pc = f /\ [s EXCEPT !.pc = f].work = s.work
             /\ [s EXCEPT !.pc = f].todo = s.todo /\ [s EXCEPT !.pc = f].asked = s.asked
             /\ [s EXCEPT !.pc = f].complete = s.complete
             /\ f \in Places => [s EXCEPT !.pc = f] \in ProcessType
  <2> HIDE DEF WorkType
  <2> QED
    BY <1>3 DEF ProcessType
<1> QED
  BY <1>1, <1>2, <1>4 DEF Recovers

\* A step that moves one process and leaves all else, but for the lock.
LEMMA OnlyMoves ==
    ASSUME ISettlement, NEW p, NEW s, Moves(p, s), Recovers(s),
           s.pc \in Committing => s.work \in Works,
           s.pc \in Admitted => lock' = p /\ MayWrite(s.pc, s.work),
           lock' = lock \/ (lock \in {p, Nobody} /\ lock' \in {p, Nobody}),
           UNCHANGED <<filled, journal, graph, pendings, facts, frontiers,
                       settledAt, narrow>>
    PROVE  ISettlement'
<1> USE DEF ISettlement
<1>1. Quiet
  BY DEF Quiet
<1>2. IType'
  BY MovesIs DEF IType, Moves
<1>3. s.pc \in Committing => Sound(s.work) /\ Rests(s.work)
  BY DEF IWorks
<1>4. IWorks' /\ IFiles' /\ ILock' /\ IRecovery'
  BY <1>1, <1>3, QuietMove
<1>5. Works' \subseteq Works
  <2>1. pendings' \subseteq Works
    BY DEF Works
  <2> QED
    BY <2>1, WorksOfMove
<1>6. IGraph' /\ IBroker'
  BY <1>5, SameClaims
<1> QED
  BY <1>2, <1>4, <1>6

\* A commit that is admitted has compared the files and the record under the lock.
LEMMA AdmitKeeps ==
    ASSUME ISettlement, NEW p \in Process, Admit(p)
    PROVE  ISettlement'
<1> DEFINE w == proc[p].work
<1>1. /\ proc[p].pc = "commit" /\ lock = Nobody
      /\ IF Verdict(w) = "publish"
         THEN lock' = p /\ proc' = [proc EXCEPT ![p].pc = "manifest"]
         ELSE lock' = lock /\ proc' = [proc EXCEPT ![p] = Returned(@, Verdict(w))]
      /\ UNCHANGED <<filled, journal, graph, pendings, facts, frontiers,
                     settledAt, narrow>>
  BY Zenon DEF Admit
<1>2. w \in Works /\ Sound(w) /\ Rests(w)
  BY <1>1 DEF Works, Committing, ISettlement, IWorks
<1> HIDE DEF w
<1>3. CASE Verdict(w) = "publish"
  <2>1. PICK s : s = [proc[p] EXCEPT !.pc = "manifest"]
    OBVIOUS
  <2>2. s \in ProcessType /\ Recovers(s) /\ s.pc = "manifest" /\ s.work = w
    BY <2>1, ProcIs DEF Places, w
  <2>3. Moves(p, s)
    BY <1>1, <1>3, <2>1, <2>2 DEF Moves
  <2>4. MayWrite("manifest", w)
    <3>1. /\ ~ Conflicts(w) /\ Authorized(journal, w)
          /\ \A e \in OtherEntries(w) :
                FactOn(e.deal) # {} /\ \A f \in FactOn(e.deal) : Entry(f) = e
      BY <1>3, VerdictIs
    <3>2. WasAuthorized(w)
      BY <3>1 DEF Authorized, WasAuthorized, ISettlement, IType
    <3>3. \A z \in pendings : z.frontier.revision <= w.frontier.revision
      BY <3>1 DEF Authorized, ISettlement, IFiles, WasAuthorized, IType
    <3>4. PendingFor(w) \subseteq {w} /\ FactOn(w.fact.deal) \subseteq {w.fact}
          /\ FrontierAt(w.frontier.revision) \subseteq {w.frontier}
      BY <3>1 DEF Conflicts
    <3>5. \A e \in OtherEntries(w) : \E f \in facts : e = Entry(f)
      BY <3>1 DEF FactOn
    <3> QED
      BY <3>2, <3>3, <3>4, <3>5 DEF MayWrite
  <2> QED
    BY <1>1, <1>2, <1>3, <2>2, <2>3, <2>4, OnlyMoves
<1>4. CASE Verdict(w) # "publish"
  <2>1. PICK s : s = Returned(proc[p], Verdict(w))
    OBVIOUS
  <2>2. s \in ProcessType /\ s.pc \in {"idle", "recover"}
    BY <2>1, ProcIs, ReturnedType
  <2>3. Recovers(s)
    BY <2>1, ProcIs, VerdictIs, ReturnedRecovers DEF w
  <2>4. Moves(p, s)
    BY <1>1, <1>4, <2>1, <2>2 DEF Moves
  <2> QED
    BY <1>1, <1>4, <2>2, <2>3, <2>4, OnlyMoves DEF Committing, Admitted
<1> QED
  BY <1>3, <1>4

\* A failed write leaves the files as they are and gives the lock back.
LEMMA WriteFailsKeeps ==
    ASSUME ISettlement, NEW p \in Process, WriteFails(p)
    PROVE  ISettlement'
<1>1. /\ proc[p].pc \in Admitted
      /\ proc' = [proc EXCEPT ![p] = Returned(@, "io_error")]
      /\ lock' = Nobody
      /\ UNCHANGED <<filled, journal, graph, pendings, facts, frontiers,
                     settledAt, narrow>>
  BY DEF WriteFails, Admitted
<1>2. PICK s : s = Returned(proc[p], "io_error")
  OBVIOUS
<1>3. s \in ProcessType /\ s.pc \in {"idle", "recover"}
  BY <1>2, ProcIs, ReturnedType
<1>4. Recovers(s)
  BY <1>2, ProcIs, ReturnedRecovers DEF Done
<1>5. Moves(p, s)
  BY <1>1, <1>2, <1>3 DEF Moves
<1>6. lock = p
  BY <1>1 DEF ISettlement, ILock
<1> QED
  BY <1>1, <1>3, <1>4, <1>5, <1>6, OnlyMoves DEF Committing, Admitted

\* A recovery starts with every manifest to be tried.
LEMMA CollectKeeps ==
    ASSUME ISettlement, NEW p \in Process, Collect(p)
    PROVE  ISettlement'
<1>1. PICK s : s = IF pendings = {} THEN Idle
                   ELSE [Idle EXCEPT !.pc = "recover", !.recovering = TRUE,
                                     !.todo = pendings, !.asked = pendings]
  OBVIOUS
<1>2. /\ proc' = [proc EXCEPT ![p] = s]
      /\ UNCHANGED <<filled, journal, graph, pendings, facts, frontiers, lock,
                     settledAt, narrow>>
  BY <1>1 DEF Collect
<1>3. pendings \subseteq WorkType
  BY DEF ISettlement, IType
<1>4. s \in ProcessType /\ s.pc \in {"idle", "recover"} /\ Recovers(s)
  <2> HIDE DEF WorkType
  <2> QED
    BY <1>1, <1>3 DEF Idle, ProcessType, Places, Recovers
<1>5. Moves(p, s)
  BY <1>2, <1>4 DEF Moves
<1> QED
  BY <1>2, <1>4, <1>5, OnlyMoves DEF Committing, Admitted

\* It takes up a manifest, whose work is sound.
LEMMA ReplayKeeps ==
    ASSUME ISettlement, NEW p \in Process, NEW w \in pendings, Replay(p, w)
    PROVE  ISettlement'
<1>1. PICK s : s = [proc[p] EXCEPT !.pc = "commit", !.work = w]
  OBVIOUS
<1>2. /\ proc' = [proc EXCEPT ![p] = s]
      /\ UNCHANGED <<filled, journal, graph, pendings, facts, frontiers, lock,
                     settledAt, narrow>>
  BY <1>1 DEF Replay
<1>3. w \in WorkType
  BY DEF ISettlement, IType
<1>4. PICK q : q = proc[p]
  OBVIOUS
<1>5. q \in ProcessType /\ Recovers(q)
  BY <1>4, ProcIs
<1>6. /\ s \in ProcessType /\ s.pc = "commit" /\ s.work = w
      /\ s.todo = q.todo /\ s.asked = q.asked /\ s.complete = q.complete
  <2> HIDE DEF WorkType
  <2> QED
    BY <1>1, <1>3, <1>4, <1>5 DEF ProcessType, Places
<1>7. Recovers(s)
  BY <1>5, <1>6 DEF Recovers
<1>8. Moves(p, s)
  BY <1>2, <1>6 DEF Moves
<1>9. w \in Works
  BY DEF Works
<1> QED
  BY <1>2, <1>6, <1>7, <1>8, <1>9, OnlyMoves DEF Admitted

\* And is complete only when nothing is left to be tried.
LEMMA EndPassKeeps ==
    ASSUME ISettlement, NEW p \in Process, EndPass(p)
    PROVE  ISettlement'
<1>1. PICK q : q = proc[p]
  OBVIOUS
<1>2. PICK s : s = IF q.todo = {}
                   THEN [Idle EXCEPT !.asked = q.asked, !.complete = TRUE]
                   ELSE IF q.progress
                        THEN [q EXCEPT !.tried = {}, !.progress = FALSE]
                   ELSE Idle
  OBVIOUS
<1>3. /\ q.pc = "recover" /\ proc' = [proc EXCEPT ![p] = s]
      /\ UNCHANGED <<filled, journal, graph, pendings, facts, frontiers, lock,
                     settledAt, narrow>>
  BY <1>1, <1>2 DEF EndPass
<1>4. q \in ProcessType /\ Recovers(q)
  BY <1>1, ProcIs
<1>5. s \in ProcessType /\ s.pc \in {"idle", "recover"} /\ Recovers(s)
  <2>1. CASE q.todo = {}
    <3> HIDE DEF WorkType
    <3> QED
      BY <1>2, <1>4, <2>1 DEF Idle, ProcessType, Places, Recovers
  <2>2. CASE q.todo # {} /\ q.progress
    <3>1. s = [q EXCEPT !.tried = {}, !.progress = FALSE]
      BY <1>2, <2>2
    <3>2. /\ s \in ProcessType /\ s.pc = q.pc /\ s.todo = q.todo
          /\ s.asked = q.asked /\ s.complete = q.complete
      <4> HIDE DEF WorkType
      <4> QED
        BY <1>4, <3>1 DEF ProcessType
    <3> QED
      BY <1>3, <1>4, <3>2 DEF Recovers
  <2>3. CASE q.todo # {} /\ ~ q.progress
    <3>1. s = Idle
      BY <1>2, <2>3
    <3> HIDE DEF WorkType
    <3> QED
      BY <3>1 DEF Idle, ProcessType, Places, Recovers
  <2> QED
    BY <2>1, <2>2, <2>3
<1>6. Moves(p, s)
  BY <1>3, <1>5 DEF Moves
<1> QED
  BY <1>3, <1>5, <1>6, OnlyMoves DEF Committing, Admitted

----------------------------------------------------------------------------
(* The writes.                                                             *)

\* What a process that writes has.
LEMMA WriterHas ==
    ASSUME ISettlement, NEW p \in Process, proc[p].pc \in Admitted
    PROVE  /\ lock = p /\ MayWrite(proc[p].pc, proc[p].work)
           /\ proc[p].work \in Works /\ Sound(proc[p].work) /\ Rests(proc[p].work)
           /\ \A q \in Process : q # p => proc[q].pc \notin Admitted
BY DEF ISettlement, ILock, IWorks, Works, Admitted, Committing

\* A new manifest is authorized by the record as it is, and replaces none.
LEMMA PublishManifestKeeps ==
    ASSUME ISettlement, NEW p \in Process, PublishManifest(p)
    PROVE  ISettlement'
<1> USE DEF ISettlement
<1>1. PICK w : w = proc[p].work
  OBVIOUS
<1>2. PICK s : s = [proc[p] EXCEPT !.pc = "fact"]
  OBVIOUS
<1>3. /\ proc[p].pc = "manifest"
      /\ pendings' = IF PendingFor(w) = {} THEN pendings \cup {w} ELSE pendings
      /\ proc' = [proc EXCEPT ![p] = s]
      /\ UNCHANGED <<filled, journal, graph, facts, frontiers, lock, settledAt, narrow>>
  <2>1. [proc EXCEPT ![p].pc = "fact"] = [proc EXCEPT ![p] = s]
    BY <1>2 DEF IType
  <2> QED
    BY <1>1, <2>1 DEF PublishManifest
<1>4. /\ lock = p /\ MayWrite("manifest", w)
      /\ w \in Works /\ Sound(w) /\ Rests(w)
      /\ \A q \in Process : q # p => proc[q].pc \notin Admitted
  <2>1. proc[p].pc \in Admitted
    BY <1>3 DEF Admitted
  <2> QED
    BY <1>1, <1>3, <2>1, WriterHas
<1>5. /\ s \in ProcessType /\ Recovers(s) /\ s.pc = "fact" /\ s.work = w
  BY <1>1, <1>2, ProcIs DEF Places
<1>6. Moves(p, s)
  BY <1>3, <1>5 DEF Moves
<1>7. pendings' = pendings \cup {w} /\ PendingFor(w) \subseteq {w}
  BY <1>3, <1>4 DEF MayWrite, PendingFor
<1>8. IType'
  <2>1. w \in WorkType
    BY <1>4 DEF Sound
  <2> QED
    BY <1>3, <1>6, <1>7, <2>1, MovesIs DEF IType
<1>9. Works' \subseteq Works
  <2>1. pendings' \subseteq Works
    BY <1>4, <1>7 DEF Works
  <2> QED
    BY <1>4, <1>5, <1>6, <2>1, WorksOfMove
<1>10. IWorks'
  BY <1>7, <1>9 DEF IWorks, Sound, Rests, OtherEntries, Entry
<1>11. IFiles'
  <2>1. \A z \in pendings' : WasAuthorized(z)'
    BY <1>3, <1>4, <1>7 DEF IFiles, MayWrite, WasAuthorized
  <2>2. \A z \in pendings : SameNames(w, z) \/ SameNames(z, w) => z = w
    BY <1>7 DEF SameNames, PendingFor
  <2>3. \A y, z \in pendings' : SameNames(y, z) => y = z
    BY <1>7, <2>2 DEF IFiles
  <2>4. ASSUME NEW z \in pendings, w.frontier.revision = z.frontier.revision, Names(z, w)
        PROVE  w \in pendings
    <3>1. Sound(z) /\ Rests(z)
      BY DEF IWorks, Works
    <3>2. CASE Entry(w.fact) \in OtherEntries(z)
      <4>1. PICK y \in pendings : Entry(w.fact) = Entry(y.fact)
        BY <3>1, <3>2 DEF Rests
      <4>2. y.fact.deal = w.fact.deal /\ y.fact.revision = w.fact.revision
        BY <4>1, EntryIs
      <4>3. y.frontier.revision = w.frontier.revision
        BY <1>4, <4>2 DEF IWorks, Works, Sound
      <4> QED
        BY <2>2, <4>2, <4>3 DEF SameNames
    <3>3. CASE Entry(w.fact) \notin OtherEntries(z)
      <4>1. w.fact.deal = z.fact.deal
        BY <2>4, <3>3, EntryIs DEF OtherEntries, Names
      <4> QED
        BY <2>2, <2>4, <4>1 DEF SameNames
    <3> QED
      BY <3>2, <3>3
  <2>5. \A y, z \in pendings' :
           y.frontier.revision = z.frontier.revision /\ Names(y, z) /\ Names(z, y) => y = z
    <3> SUFFICES ASSUME NEW y \in pendings', NEW z \in pendings',
                        y.frontier.revision = z.frontier.revision, Names(y, z), Names(z, y),
                        y # z
                 PROVE  FALSE
      OBVIOUS
    <3>1. CASE y \in pendings /\ z \in pendings
      BY <3>1 DEF IFiles
    <3>2. CASE y = w /\ z \in pendings
      BY <2>4, <3>1, <3>2
    <3>3. CASE y \in pendings /\ z = w
      BY <2>4, <3>1, <3>3
    <3> QED
      BY <1>7, <3>1, <3>2, <3>3
  <2>6. /\ \A f \in facts : \E z \in pendings' : f = z.fact
        /\ \A x \in frontiers : \E z \in pendings' : x = z.frontier
        /\ \A f, g \in facts : f.deal = g.deal => f = g
        /\ FrontiersAreBacked
    BY <1>7 DEF IFiles
  <2>7. \A f \in facts : f.deal = w.fact.deal => f = w.fact
    BY <1>4 DEF MayWrite, FactOn
  <2>8. \A z \in pendings', f \in facts :
           f.deal = z.fact.deal => z.fact.revision <= f.revision
    <3>1. \A z \in pendings, f \in facts :
             f.deal = z.fact.deal => z.fact.revision <= f.revision
      BY DEF IFiles
    <3>2. w.fact.revision <= w.fact.revision
      BY <1>4 DEF Sound, WorkType, FactType
    <3> QED
      BY <1>7, <2>7, <3>1, <3>2
  <2> QED
    BY <1>3, <2>1, <2>3, <2>5, <2>6, <2>8
       DEF IFiles, FrontiersAreBacked, SameNames, Names, Entry, EntriesAreBacked
<1>12. ILock'
  <2> SUFFICES ASSUME NEW q \in Process, proc'[q].pc \in Admitted
               PROVE  lock' = q /\ (MayWrite(proc[q].pc, proc[q].work))'
    BY DEF ILock
  <2>1. q = p
    BY <1>4, <1>6, MovesIs
  <2>2. proc'[q] = s
    BY <1>6, <2>1, MovesIs
  <2>3. /\ WasAuthorized(w)
        /\ \A z \in pendings : z.frontier.revision <= w.frontier.revision
        /\ FactOn(w.fact.deal) \subseteq {w.fact}
        /\ FrontierAt(w.frontier.revision) \subseteq {w.frontier}
        /\ \A e \in OtherEntries(w) : \E f \in facts : e = Entry(f)
    BY <1>4 DEF MayWrite
  <2>4. w.frontier.revision <= w.frontier.revision
    BY <1>4 DEF Sound, WorkType, FrontierType
  <2>5. \A z \in pendings' : z.frontier.revision <= w.frontier.revision
    BY <1>7, <2>3, <2>4
  <2>6. MayWrite("fact", w)'
    BY <1>3, <1>7, <2>3, <2>5 DEF MayWrite, WasAuthorized, FactOn, FrontierAt,
                                  OtherEntries, Entry
  <2> QED
    BY <1>3, <1>4, <1>5, <2>1, <2>2, <2>6
<1>13. IRecovery'
  <2>1. \A q \in Process : Recovers(proc'[q])
    BY <1>5, <1>6, MovesIs DEF IRecovery
  <2> QED
    BY <1>3, <1>7, <2>1 DEF IRecovery, Recovers
<1>14. IGraph' /\ IBroker'
  BY <1>3, <1>9, SameClaims
<1> QED
  BY <1>8, <1>10, <1>11, <1>12, <1>13, <1>14

\* A new fact is that of its manifest, and the first of its deal.
LEMMA PublishFactKeeps ==
    ASSUME ISettlement, NEW p \in Process, PublishFact(p)
    PROVE  ISettlement'
<1> USE DEF ISettlement
<1>1. PICK w : w = proc[p].work
  OBVIOUS
<1>2. PICK s : s = [proc[p] EXCEPT !.pc = "frontier"]
  OBVIOUS
<1>3. /\ proc[p].pc = "fact"
      /\ facts' = IF FactOn(w.fact.deal) = {} THEN facts \cup {w.fact} ELSE facts
      /\ proc' = [proc EXCEPT ![p] = s]
      /\ UNCHANGED <<filled, journal, graph, pendings, frontiers, lock, settledAt, narrow>>
  <2>1. [proc EXCEPT ![p].pc = "frontier"] = [proc EXCEPT ![p] = s]
    BY <1>2 DEF IType
  <2> QED
    BY <1>1, <2>1 DEF PublishFact
<1>4. /\ lock = p /\ MayWrite("fact", w)
      /\ w \in Works /\ Sound(w) /\ Rests(w)
      /\ \A q \in Process : q # p => proc[q].pc \notin Admitted
  <2>1. proc[p].pc \in Admitted
    BY <1>3 DEF Admitted
  <2> QED
    BY <1>1, <1>3, <2>1, WriterHas
<1>5. s \in ProcessType /\ Recovers(s) /\ s.pc = "frontier" /\ s.work = w
  BY <1>1, <1>2, ProcIs DEF Places
<1>6. Moves(p, s)
  BY <1>3, <1>5 DEF Moves
<1>7. facts' = facts \cup {w.fact} /\ w \in pendings
      /\ \A f \in facts : f.deal = w.fact.deal => f = w.fact
  BY <1>3, <1>4 DEF MayWrite, FactOn
<1>8. IType'
  <2>1. w.fact \in FactType
    BY <1>4 DEF Sound, WorkType
  <2> QED
    BY <1>3, <1>6, <1>7, <2>1, MovesIs DEF IType
<1>9. Works' \subseteq Works
  <2>1. pendings' \subseteq Works
    BY <1>3 DEF Works
  <2> QED
    BY <1>4, <1>5, <1>6, <2>1, WorksOfMove
<1>10. IWorks'
  BY <1>3, <1>9 DEF IWorks, Sound, Rests, OtherEntries, Entry
<1>11. IFiles'
  <2>1. \A f \in facts' : \E z \in pendings : f = z.fact
    BY <1>7 DEF IFiles
  <2>2. \A f, g \in facts' : f.deal = g.deal => f = g
    BY <1>7 DEF IFiles
  <2>3. ASSUME NEW z \in pendings, w.fact.deal = z.fact.deal
        PROVE  z.fact.revision <= w.fact.revision
    BY <1>4 DEF MayWrite, IWorks, Works, Sound
  <2>4. \A z \in pendings, f \in facts' :
           f.deal = z.fact.deal => z.fact.revision <= f.revision
    BY <1>7, <2>3 DEF IFiles
  <2>5. FrontiersAreBacked'
    BY <1>3, <1>7 DEF IFiles, FrontiersAreBacked, EntriesAreBacked, Entry
  <2> QED
    BY <1>3, <2>1, <2>2, <2>4, <2>5 DEF IFiles, WasAuthorized
<1>12. ILock'
  <2> SUFFICES ASSUME NEW q \in Process, proc'[q].pc \in Admitted
               PROVE  lock' = q /\ (MayWrite(proc[q].pc, proc[q].work))'
    BY DEF ILock
  <2>1. q = p
    BY <1>4, <1>6, MovesIs
  <2>2. proc'[q] = s
    BY <1>6, <2>1, MovesIs
  <2>3. MayWrite("frontier", w)'
    BY <1>3, <1>4, <1>7 DEF MayWrite, WasAuthorized, FactOn, FrontierAt, PendingFor,
                            OtherEntries, Entry
  <2> QED
    BY <1>3, <1>4, <1>5, <2>1, <2>2, <2>3
<1>13. IRecovery'
  <2>1. \A q \in Process : Recovers(proc'[q])
    BY <1>5, <1>6, MovesIs DEF IRecovery
  <2> QED
    BY <1>3, <1>7, <2>1 DEF IRecovery, Recovers
<1>14. IGraph' /\ IBroker'
  BY <1>3, <1>9, SameClaims
<1> QED
  BY <1>8, <1>10, <1>11, <1>12, <1>13, <1>14

\* A new frontier finds each of its entries among the facts.
LEMMA PublishFrontierKeeps ==
    ASSUME ISettlement, NEW p \in Process, PublishFrontier(p)
    PROVE  ISettlement'
<1> USE DEF ISettlement
<1>1. PICK w : w = proc[p].work
  OBVIOUS
<1>2. PICK s : s = Returned(proc[p], "committed")
  OBVIOUS
<1>3. /\ proc[p].pc = "frontier"
      /\ frontiers' = IF FrontierAt(w.frontier.revision) = {}
                      THEN frontiers \cup {w.frontier} ELSE frontiers
      /\ proc' = [proc EXCEPT ![p] = s]
      /\ lock' = Nobody
      /\ UNCHANGED <<filled, journal, graph, pendings, facts, settledAt, narrow>>
  BY <1>1, <1>2 DEF PublishFrontier
<1>4. /\ lock = p /\ MayWrite("frontier", w)
      /\ w \in Works /\ Sound(w) /\ Rests(w)
      /\ \A q \in Process : q # p => proc[q].pc \notin Admitted
  <2>1. proc[p].pc \in Admitted
    BY <1>3 DEF Admitted
  <2> QED
    BY <1>1, <1>3, <2>1, WriterHas
<1>5. s \in ProcessType /\ s.pc \in {"idle", "recover"}
  BY <1>2, ProcIs, ReturnedType
<1>6. Moves(p, s)
  BY <1>3, <1>5 DEF Moves
<1>7. frontiers' = frontiers \cup {w.frontier} /\ w \in pendings /\ w.fact \in facts
  BY <1>3, <1>4 DEF MayWrite, FrontierAt
<1>8. IType'
  <2>1. w.frontier \in FrontierType
    BY <1>4 DEF Sound, WorkType
  <2> QED
    BY <1>3, <1>6, <1>7, <2>1, MovesIs DEF IType
<1>9. Works' \subseteq Works
  <2>1. pendings' \subseteq Works
    BY <1>3 DEF Works
  <2> QED
    BY <1>5, <1>6, <2>1, WorksOfMove DEF Committing
<1>10. IWorks'
  BY <1>3, <1>9 DEF IWorks, Sound, Rests, OtherEntries, Entry
<1>11. IFiles'
  <2>1. \A x \in frontiers' : \E z \in pendings : x = z.frontier
    BY <1>7 DEF IFiles
  <2>2. \A e \in w.frontier.entries : \E f \in facts : Entry(f) = e
    <3> SUFFICES ASSUME NEW e \in w.frontier.entries
                 PROVE  \E f \in facts : Entry(f) = e
      OBVIOUS
    <3>1. CASE e.deal = w.fact.deal
      <4>1. e = Entry(w.fact)
        BY <1>4, <3>1, EntryIs DEF Sound, ValidFrontier
      <4> QED
        BY <1>7, <4>1
    <3>2. CASE e.deal # w.fact.deal
      BY <1>4, <3>2 DEF MayWrite, OtherEntries
    <3> QED
      BY <3>1, <3>2
  <2>3. FrontiersAreBacked'
    BY <1>3, <1>7, <2>2 DEF IFiles, FrontiersAreBacked, EntriesAreBacked, Entry
  <2> QED
    BY <1>3, <2>1, <2>3 DEF IFiles, WasAuthorized
<1>12. ILock'
  <2>1. \A q \in Process : proc'[q].pc \notin Admitted
    BY <1>4, <1>5, <1>6, MovesIs DEF Admitted
  <2> QED
    BY <2>1 DEF ILock
<1>13. IRecovery'
  <2>1. PICK q : q = proc[p]
    OBVIOUS
  <2>2. q \in ProcessType /\ Recovers(q) /\ q.work = w
    BY <1>1, <2>1, ProcIs
  <2>3. Recovers(s)'
    <3>1. CASE s = Idle
      BY <3>1 DEF Recovers, Idle
    <3>2. CASE s = [q EXCEPT !.pc = "recover", !.work = Nothing, !.todo = @ \ {q.work},
                             !.progress = TRUE]
      <4>1. s.asked = q.asked /\ s.complete = q.complete /\ s.todo = q.todo \ {q.work}
        <5> HIDE DEF WorkType
        <5> QED
          BY <2>2, <3>2 DEF ProcessType
      <4> QED
        BY <1>3, <1>7, <2>2, <4>1 DEF Recovers
    <3>3. \/ s = Idle
          \/ s = [q EXCEPT !.pc = "recover", !.work = Nothing, !.todo = @ \ {q.work},
                           !.progress = TRUE]
      <4>1. "committed" # "missing_fact" /\ s = Returned(q, "committed")
        BY <1>2, <2>1
      <4> QED
        BY <2>2, <4>1, ReturnedIs
    <3> QED
      BY <3>1, <3>2, <3>3
  <2>4. \A x \in Process : x # p => Recovers(proc'[x])
    BY <1>6, MovesIs DEF IRecovery
  <2>5. \A x \in Process : x # p => Recovers(proc[x])'
    BY <1>3, <1>7, <2>4 DEF Recovers
  <2>6. proc'[p] = s
    BY <1>6, MovesIs
  <2> QED
    BY <2>3, <2>5, <2>6 DEF IRecovery, Recovers
<1>14. IGraph' /\ IBroker'
  BY <1>3, <1>9, SameClaims
<1> QED
  BY <1>8, <1>10, <1>11, <1>12, <1>13, <1>14

\* A crash frees the lock and loses the graph, and touches no file.
LEMMA CrashKeeps ==
    ASSUME ISettlement, NEW p \in Process, Crash(p)
    PROVE  ISettlement'
<1> USE DEF ISettlement
<1>1. /\ proc' = [proc EXCEPT ![p] = Idle]
      /\ lock' = IF lock = p THEN Nobody ELSE lock
      /\ graph' = IF p = Owner THEN [graph EXCEPT !.alive = FALSE] ELSE graph
      /\ UNCHANGED <<filled, journal, pendings, facts, frontiers, settledAt, narrow>>
  BY DEF Crash
<1>2. Idle \in ProcessType /\ Idle.pc = "idle" /\ Recovers(Idle)
  BY DEF Idle, ProcessType, Places, Recovers
<1>3. Moves(p, Idle)
  BY <1>1, <1>2 DEF Moves
<1>4. /\ graph' \in GraphType /\ graph'.evidence = graph.evidence
      /\ graph'.reads = graph.reads /\ graph'.window = graph.window
      /\ graph'.alive => graph.alive
  BY <1>1 DEF IType, GraphType
<1>5. IType'
  BY <1>1, <1>3, <1>4, MovesIs DEF IType
<1>6. Quiet
  BY <1>1 DEF Quiet
<1>7. IWorks' /\ IFiles' /\ ILock' /\ IRecovery'
  BY <1>1, <1>2, <1>3, <1>6, QuietMove DEF Committing, Admitted
<1>8. Works' \subseteq Works
  <2>1. pendings' \subseteq Works
    BY <1>1 DEF Works
  <2> QED
    BY <1>2, <1>3, <2>1, WorksOfMove DEF Committing
<1>9. IGraph' /\ IBroker'
  BY <1>1, <1>4, <1>8, SameClaims
<1> QED
  BY <1>5, <1>7, <1>9

\* Every step of the ledger, and a step that changes nothing.
LEMMA NextKeeps ==
    ASSUME ISettlement, [Next]_vars
    PROVE  ISettlement'
<1>1. CASE UNCHANGED vars
  <2>1. UNCHANGED <<filled, journal, graph, pendings, facts, frontiers, proc, lock,
                    settledAt, narrow>>
    BY <1>1 DEF vars
  <2>2. IType' /\ IFiles' /\ IGraph'
    BY <2>1 DEF ISettlement, IType, IFiles, WasAuthorized, FrontiersAreBacked, IGraph
  <2>3. Works' = Works
    BY <2>1 DEF Works
  <2>4. IWorks'
    BY <2>1, <2>3 DEF ISettlement, IWorks, Sound, Rests
  <2>5. ILock' /\ IRecovery'
    BY <2>1 DEF ISettlement, ILock, MayWrite, WasAuthorized, PendingFor, FactOn,
                FrontierAt, IRecovery, Recovers
  <2>6. IBroker'
    BY <2>1, <2>3 DEF ISettlement, IBroker, Honest, Known, Settles
  <2> QED
    BY <2>2, <2>4, <2>5, <2>6 DEF ISettlement
<1>2. ASSUME NEW d \in Deal, NEW u \in Units, Fill(d, u)
      PROVE  ISettlement'
  BY <1>2, FillKeeps
<1>3. ASSUME NEW w \in Window, Read(w)
      PROVE  ISettlement'
  BY <1>3, ReadKeeps
<1>4. ASSUME NEW j \in NextRecords, Advance(j)
      PROVE  ISettlement'
  BY <1>4, AdvanceKeeps
<1>5. ASSUME NEW j \in NextRecords \cup {journal}, NEW d \in Deal,
             NEW u \in 1 .. j.settled, NEW prior \in SUBSET Scanned,
             Derive(j, d, u, prior)
      PROVE  ISettlement'
  BY <1>5, DeriveKeeps
<1>6. ASSUME NEW p \in Process,
             \/ Admit(p) \/ PublishManifest(p) \/ PublishFact(p)
             \/ PublishFrontier(p) \/ WriteFails(p)
             \/ Collect(p) \/ EndPass(p) \/ Crash(p)
             \/ \E w \in pendings : Replay(p, w)
      PROVE  ISettlement'
  BY <1>6, AdmitKeeps, PublishManifestKeeps, PublishFactKeeps, PublishFrontierKeeps,
     WriteFailsKeeps, CollectKeeps, EndPassKeeps, CrashKeeps, ReplayKeeps
<1> QED
  BY <1>1, <1>2, <1>3, <1>4, <1>5, <1>6 DEF Next

----------------------------------------------------------------------------
(* What the invariant of the ledger implies.                               *)

\* A manifest is a work, and so a sound proof.
LEMMA ManifestIsProof ==
    ASSUME ISettlement, NEW w \in pendings
    PROVE  /\ w \in Works /\ Sound(w) /\ Rests(w) /\ WasAuthorized(w)
           /\ w \in WorkType
BY DEF ISettlement, IWorks, IFiles, Works, Sound

\* Each published frontier is backed by facts and tells the journal's volume.
LEMMA ProvedFrontiers ==
    ASSUME ISettlement
    PROVE  FrontiersAreProofs
<1>1. FrontiersAreBacked
  BY DEF ISettlement, IFiles
<1>2. ASSUME NEW x \in frontiers
      PROVE  x.revision \in DOMAIN settledAt /\ SumUnits(x.entries) = settledAt[x.revision]
  <2>1. PICK z \in pendings : x = z.frontier
    BY DEF ISettlement, IFiles
  <2>2. Sound(z) /\ WasAuthorized(z)
    BY ManifestIsProof
  <2> QED
    BY <2>1, <2>2 DEF ISettlement, IType, Sound, ValidFrontier, WasAuthorized
<1> QED
  BY <1>1, <1>2 DEF FrontiersAreProofs, FrontiersTellTheJournal

\* A recovery that says it is complete has nothing left to publish.
LEMMA CompleteRecoveries ==
    ASSUME ISettlement
    PROVE  RecoveryIsComplete
BY DEF ISettlement, IRecovery, Recovers, RecoveryIsComplete

\* With reads wide enough, a fact says what the broker executed.
LEMMA BrokersFacts ==
    ASSUME ISettlement
    PROVE  FactsAreTheBrokers
<1> SUFFICES ASSUME narrow = {}, NEW f \in facts
             PROVE  f.units = filled[f.deal]
  BY DEF FactsAreTheBrokers
<1>1. PICK z \in pendings : f = z.fact
  BY DEF ISettlement, IFiles
<1>2. z \in Works /\ Sound(z)
  BY ManifestIsProof
<1>3. Entry(f) \in z.frontier.entries
  BY <1>1, <1>2 DEF Sound
<1>4. Honest(z)
  BY <1>2 DEF ISettlement, IBroker
<1> QED
  BY <1>3, <1>4 DEF Honest, Entry

\* The manifests of a directory that can be gone on with.
Current ==
    /\ narrow = {}
    /\ \A w \in pendings :
         w.frontier \in frontiers \/ w.frontier.revision = journal.revision

\* The fact of a deal that is published is that of every manifest of the deal.
LEMMA OneFact ==
    ASSUME ISettlement, Current, NEW w \in pendings, NEW f \in facts,
           f.deal = w.fact.deal
    PROVE  f = w.fact
<1>1. PICK x \in pendings : f = x.fact
  BY DEF ISettlement, IFiles
<1>2. Sound(w) /\ WasAuthorized(w) /\ Sound(x) /\ WasAuthorized(x)
  BY ManifestIsProof
<1>3. w.fact.revision <= f.revision
  BY DEF ISettlement, IFiles
<1>4. f \in FactType /\ w.fact \in FactType
  BY <1>1, ManifestIsProof DEF WorkType
<1>5. CASE f.revision = w.fact.revision
  <2>1. SameNames(w, x)
    BY <1>1, <1>2, <1>5 DEF SameNames, Sound
  <2> QED
    BY <1>1, <2>1 DEF ISettlement, IFiles
<1>6. CASE w.fact.revision < f.revision
  <2>1. w.frontier.revision # journal.revision
    <3>1. f.revision \in 1 .. journal.revision /\ journal.revision \in Nat
      BY <1>1, <1>2 DEF WasAuthorized, Sound, ISettlement, IType
    <3> QED
      BY <1>2, <1>4, <1>6, <3>1 DEF Sound, FactType
  <2>2. w.frontier \in frontiers
    BY <2>1 DEF Current
  <2>3. PICK g \in facts : Entry(g) = Entry(w.fact)
    BY <1>2, <2>2 DEF ISettlement, IFiles, FrontiersAreBacked, EntriesAreBacked, Sound
  <2>4. g.deal = w.fact.deal /\ g.revision = w.fact.revision
    BY <2>3 DEF Entry
  <2>5. g = f
    BY <2>4 DEF ISettlement, IFiles
  <2> QED
    BY <1>4, <1>6, <2>4, <2>5 DEF FactType
<1>7. w.fact.revision < f.revision \/ f.revision = w.fact.revision
  BY <1>3, <1>4 DEF FactType
<1> QED
  BY <1>5, <1>6, <1>7

\* Of a manifest and a published frontier of one revision, each names the deal of the other.
LEMMA NamedByFrontier ==
    ASSUME ISettlement, Current, NEW w \in pendings, NEW y \in pendings,
           y.frontier \in frontiers, DealsOf(w) = DealsOf(y)
    PROVE  Names(y, w)
<1>1. Sound(w) /\ Sound(y)
  BY ManifestIsProof
<1>2. Entry(w.fact).deal \in DealsOf(y)
  BY <1>1 DEF Sound, DealsOf
<1>3. PICK e \in y.frontier.entries : e.deal = w.fact.deal
  BY <1>2 DEF DealsOf, Entry
<1>4. PICK f \in facts : Entry(f) = e
  BY <1>3 DEF ISettlement, IFiles, FrontiersAreBacked, EntriesAreBacked
<1>5. f = w.fact
  BY <1>3, <1>4, OneFact DEF Entry
<1> QED
  BY <1>3, <1>4, <1>5 DEF Names

\* And the frontier of a revision that is published is that of every manifest of the revision.
LEMMA OneFrontier ==
    ASSUME ISettlement, Current, NEW w \in pendings, NEW x \in frontiers,
           x.revision = w.frontier.revision
    PROVE  x = w.frontier
<1>1. PICK y \in pendings : x = y.frontier
  BY DEF ISettlement, IFiles
<1>2. /\ w \in Works /\ Sound(w) /\ Rests(w) /\ WasAuthorized(w) /\ w \in WorkType
      /\ y \in Works /\ Sound(y) /\ Rests(y) /\ WasAuthorized(y) /\ y \in WorkType
  BY ManifestIsProof
<1>3. CASE w.fact.deal = y.fact.deal
  <2>1. SameNames(w, y)
    BY <1>1, <1>3 DEF SameNames
  <2> QED
    BY <1>1, <2>1 DEF ISettlement, IFiles
<1>4. CASE w.fact.deal # y.fact.deal
  <2>1. Honest(w) /\ Honest(y) /\ Nested(DealsOf(w), DealsOf(y))
    BY <1>2 DEF ISettlement, IBroker, Current
  <2>2. w.frontier.settled = y.frontier.settled
    BY <1>1, <1>2 DEF WasAuthorized
  <2>3. DealsOf(w) = DealsOf(y)
    <3>1. filled \in [Deal -> Nat]
      BY DEF ISettlement, IType
    <3>2. /\ w.frontier.settled = Total(DealsOf(w), filled) /\ DealsOf(w) \in SUBSET Deal
          /\ y.frontier.settled = Total(DealsOf(y), filled) /\ DealsOf(y) \in SUBSET Deal
      BY <1>2, <2>1, <3>1, FrontierTotals DEF Sound, Honest
    <3>3. \A d \in DealsOf(w) \cup DealsOf(y) : filled[d] # 0
      BY <2>1 DEF ISettlement, IGraph, Honest, Known
    <3>4. Total(DealsOf(w), filled) = Total(DealsOf(y), filled)
      BY <2>2, <3>2
    <3>5. Total(DealsOf(w), filled) \in Nat
      BY <3>1, <3>2, TotalType
    <3>6. CASE DealsOf(w) \subseteq DealsOf(y)
      BY <3>1, <3>2, <3>3, <3>4, <3>5, <3>6, TotalTells
    <3>7. CASE DealsOf(y) \subseteq DealsOf(w)
      BY <3>1, <3>2, <3>3, <3>4, <3>5, <3>7, TotalTells
    <3> QED
      BY <2>1, <3>6, <3>7 DEF Nested
  <2>4. Names(y, w)
    BY <1>1, <2>3, NamedByFrontier
  <2>5. Entry(y.fact).deal \in DealsOf(w)
    BY <1>2, <2>3 DEF Sound, DealsOf
  <2>6. PICK e \in w.frontier.entries : e.deal = y.fact.deal
    BY <2>5 DEF DealsOf, Entry
  <2>7. PICK z \in pendings : e = Entry(z.fact)
    BY <1>2, <1>4, <2>6 DEF Rests, OtherEntries
  <2>8. z.fact.deal = y.fact.deal /\ Sound(z) /\ WasAuthorized(z)
    BY <2>6, <2>7, ManifestIsProof DEF Entry
  <2>9. CASE z.fact.revision = y.fact.revision
    <3>1. SameNames(z, y)
      BY <1>2, <2>8, <2>9 DEF SameNames, Sound
    <3>2. z = y
      BY <3>1 DEF ISettlement, IFiles
    <3>3. Names(w, y)
      BY <2>6, <2>7, <3>2 DEF Names
    <3> QED
      BY <1>1, <2>4, <3>3 DEF ISettlement, IFiles
  <2>10. CASE z.fact.revision # y.fact.revision
    <3>1. z.fact.revision < y.fact.revision /\ y.fact.revision <= journal.revision
      <4>1. e.revision <= w.frontier.revision
        BY <1>2, <2>6 DEF Sound, ValidFrontier
      <4>2. e.revision = z.fact.revision
        BY <2>7 DEF Entry
      <4>3. w.frontier.revision = y.fact.revision
        BY <1>1, <1>2 DEF Sound
      <4>4. z.fact.revision \in Nat /\ y.fact.revision \in Nat
        BY <1>2, <2>8 DEF Sound, WorkType, FactType
      <4>5. y.fact.revision <= journal.revision
        BY <1>2 DEF WasAuthorized, Sound
      <4> QED
        BY <2>10, <4>1, <4>2, <4>3, <4>4, <4>5
    <3>2. z.frontier \in frontiers
      <4>1. z.frontier.revision # journal.revision
        BY <1>2, <2>8, <3>1 DEF Sound, WorkType, FactType, ISettlement, IType
      <4> QED
        BY <4>1 DEF Current
    <3>3. PICK g \in facts : Entry(g) = Entry(z.fact)
      BY <2>8, <3>2 DEF ISettlement, IFiles, FrontiersAreBacked, EntriesAreBacked, Sound
    <3>4. g.deal = y.fact.deal /\ g.revision = z.fact.revision
      BY <2>8, <3>3 DEF Entry
    <3>5. y.fact.revision <= g.revision
      BY <3>4 DEF ISettlement, IFiles
    <3>6. z.fact.revision \in Nat /\ y.fact.revision \in Nat
      BY <1>2, <2>8 DEF Sound, WorkType, FactType
    <3> QED
      BY <3>1, <3>4, <3>5, <3>6
  <2> QED
    BY <2>9, <2>10
<1> QED
  BY <1>3, <1>4

\* No scan refuses such a directory, and no replay of its manifests is refused.
LEMMA RecoverableManifests ==
    ASSUME ISettlement
    PROVE  CurrentManifestsAreRecoverable
<1> SUFFICES ASSUME Current
             PROVE  /\ ScanCompletes
                    /\ \A w \in pendings :
                         Verdict(w) \in {"publish", "already_committed", "missing_fact"}
  BY DEF CurrentManifestsAreRecoverable, Current
<1>1. ASSUME NEW w \in pendings
      PROVE  /\ FactOn(w.fact.deal) \subseteq {w.fact}
             /\ FrontierAt(w.frontier.revision) \subseteq {w.frontier}
  BY <1>1, OneFact, OneFrontier DEF FactOn, FrontierAt
<1>2. ScanCompletes
  BY <1>1 DEF ScanCompletes, ISettlement, IFiles, FrontiersAreBacked
<1>3. ASSUME NEW w \in pendings
      PROVE  Verdict(w) \in {"publish", "already_committed", "missing_fact"}
  <2>1. w \in Works /\ Sound(w) /\ Rests(w) /\ WasAuthorized(w) /\ w \in WorkType
    BY ManifestIsProof
  <2>2. ~ Conflicts(w)
    <3>1. PendingFor(w) \subseteq {w}
      BY DEF PendingFor, ISettlement, IFiles, SameNames
    <3> QED
      BY <1>1, <3>1 DEF Conflicts
  <2>3. \A e \in OtherEntries(w) : \A f \in FactOn(e.deal) : Entry(f) = e
    <3> SUFFICES ASSUME NEW e \in OtherEntries(w), NEW f \in FactOn(e.deal)
                 PROVE  Entry(f) = e
      OBVIOUS
    <3>1. PICK z \in pendings : e = Entry(z.fact)
      BY <2>1 DEF Rests
    <3>2. f \in facts /\ f.deal = z.fact.deal
      BY <3>1 DEF FactOn, Entry
    <3> QED
      BY <3>1, <3>2, OneFact
  <2>4. Authorized(journal, w) \/ (w.fact \in facts /\ w.frontier \in frontiers)
    <3>1. CASE w.frontier.revision = journal.revision
      BY <2>1, <3>1 DEF Authorized, WasAuthorized, Sound, ISettlement, IType
    <3>2. CASE w.frontier \in frontiers
      <4>1. PICK g \in facts : Entry(g) = Entry(w.fact)
        BY <2>1, <3>2 DEF ISettlement, IFiles, FrontiersAreBacked, EntriesAreBacked, Sound
      <4>2. g = w.fact
        BY <4>1, OneFact DEF Entry
      <4> QED
        BY <3>2, <4>2
    <3> QED
      BY <3>1, <3>2 DEF Current
  <2> QED
    BY <2>2, <2>3, <2>4 DEF Verdict
<1> QED
  BY <1>2, <1>3

----------------------------------------------------------------------------
(* The inductive invariant of the directory of a managed OPEN.             *)

\* Facts, entries, reads and calls.
OpenFactType ==
    [deal : Ticket, units : Nat, graph : Reader, revision : 1 .. MaxSamples + 1]
OpenEntryType == [frontier : Nat, refs : SUBSET OpenFactType]
SampleType == [window : SUBSET Ticket, shown : SUBSET Ticket]
CallType == [pc : {"idle", "loaded", "remove"}, entry : OpenEntryType]

\* Types, and that there are finitely many files.
OType ==
    /\ executed \subseteq Ticket
    /\ samples \in [Reader -> Seq(SampleType)]
    /\ openFacts \subseteq OpenFactType /\ IsFiniteSet(openFacts)
    /\ preps \subseteq OpenEntryType /\ allocs \subseteq OpenEntryType
    /\ IsFiniteSet(Files)
    /\ call \in [Reader -> CallType]
    /\ persisted \in BOOLEAN /\ returned \in BOOLEAN

\* A graph shows what the broker made, and facts are of processes that held the
\* lease, at a revision of their graph, of deals that it shows.
OGraphs ==
    /\ \A p \in Reader : \A n \in DOMAIN samples[p] : samples[p][n].shown \subseteq executed
    /\ holder \in Reader /\ holder \in pastHolders
    /\ \A f \in openFacts : /\ f.graph \in pastHolders
                            /\ f.revision \in DOMAIN samples[f.graph]
                            /\ Showing(f.graph, f.deal) # {}

\* A discriminator is of one set of facts, and a set of facts has one.
OFiles ==
    /\ \A e \in Files : e.refs \subseteq openFacts /\ LastRevision(e.refs) <= e.frontier
    /\ \A x, y \in Files : x.frontier = y.frontier \/ x.refs = y.refs => x = y

\* Without the preparations of a discriminator, what they intended is still there.
Replaced(k) ==
    \A x \in At(preps, k) :
        \E y \in allocs \cup (preps \ At(preps, k)) : x.refs \subseteq y.refs

\* A call that is about to remove a preparation holds the lease, and loses nothing.
OCalls ==
    \A p \in Reader : call[p].pc = "remove" =>
        holder = p /\ Replaced(call[p].entry.frontier)

\* No deal that an entry does not refer to came before a receipt that it refers
\* to: among the facts, and in the graph whose process may still add some.
Closed(e) ==
    /\ \A f \in openFacts \ e.refs, g \in e.refs :
         f.graph = g.graph => f.revision > g.revision
    /\ \A g \in e.refs, t \in Ticket :
         g.graph = holder /\ (\A f \in e.refs : f.deal # t) =>
            \A n \in Showing(holder, t) : n > g.revision

\* While callers are honest and no process gets the lease back.
OUsable == FactsAreHonest /\ ~ returned => \A e \in Files : Closed(e)

IOpening ==
    /\ OType /\ OGraphs /\ OFiles /\ OCalls /\ OUsable
    /\ AllocationsAreTheBrokers /\ FrontiersOnlyGrow /\ IntentIsKept

\* The last receipt of a set of facts is one of its receipts, and the latest.
LEMMA LastReceipt ==
    ASSUME NEW refs \in SUBSET OpenFactType, refs # {}
    PROVE  /\ LastRevision(refs) \in Nat
           /\ \A f \in refs : f.revision <= LastRevision(refs)
<1> DEFINE S == {f.revision : f \in refs}
<1>1. S \in SUBSET Nat /\ S # {} /\ \A y \in S : y <= MaxSamples + 1
  BY OpeningAssumption DEF OpenFactType
<1>2. MaxSamples + 1 \in Nat
  BY OpeningAssumption
<1> HIDE DEF S
<1>3. Max(S) \in S /\ \A y \in S : y <= Max(S)
  BY <1>1, <1>2, GreatestOf
<1> QED
  BY <1>1, <1>3 DEF LastRevision, S

\* Among one more discriminator than there are files, one is free.
LEMMA FreeIs ==
    ASSUME IsFiniteSet(Files), Files \subseteq OpenEntryType, NEW k \in Nat
    PROVE  FreeFrom(k) \in Nat /\ k <= FreeFrom(k) /\ At(Files, FreeFrom(k)) = {}
<1> DEFINE C == Cardinality(Files)
           S == {n \in k .. k + C : At(Files, n) = {}}
           F == [x \in Files |-> x.frontier]
           D == {x.frontier : x \in Files}
<1>1. C \in Nat
  BY FS_CardinalityType
<1>2. S # {}
  <2> SUFFICES ASSUME S = {}
               PROVE  FALSE
    OBVIOUS
  <2>1. k .. k + C \subseteq D
    BY <1>1 DEF At
  <2>2. F \in Surjection(Files, D)
    BY DEF Surjection
  <2>3. IsFiniteSet(D) /\ Cardinality(D) <= C /\ Cardinality(D) \in Nat
    <3> HIDE DEF F, D
    <3> QED
      BY <2>2, FS_Surjection, FS_CardinalityType
  <2>4. Cardinality(k .. k + C) <= Cardinality(D)
    <3> HIDE DEF D
    <3> QED
      BY <2>1, <2>3, FS_Subset
  <2>5. Cardinality(k .. k + C) = C + 1
    <3> HIDE DEF C
    <3>1. k \in Int /\ k + C \in Int /\ ~ (k > k + C) /\ (k + C) - k + 1 = C + 1
      BY <1>1
    <3> QED
      BY <3>1, FS_Interval
  <2> HIDE DEF C, D
  <2> QED
    BY <1>1, <2>3, <2>4, <2>5
<1>3. S \in SUBSET Nat
  BY <1>1
<1>4. Min(S) \in S
  <2> HIDE DEF S
  <2> QED
    BY <1>2, <1>3, LeastOf
<1>5. FreeFrom(k) = Min(S)
  BY DEF FreeFrom
<1>6. \A n \in S : n \in Nat /\ k <= n /\ At(Files, n) = {}
  BY <1>1
<1> HIDE DEF S
<1> QED
  BY <1>4, <1>5, <1>6

\* The one initial state of the directory.
LEMMA InitKeepsOpening == InitOpening => IOpening
<1> SUFFICES ASSUME InitOpening
             PROVE  IOpening
  OBVIOUS
<1> USE DEF InitOpening
<1>1. Files = {} /\ openFacts = {}
  BY DEF Files
<1>2. OType
  <2>1. NoCall \in CallType
    BY DEF NoCall, NoEntry, CallType, OpenEntryType
  <2>2. call \in [Reader -> CallType]
    BY <2>1
  <2>3. samples \in [Reader -> Seq(SampleType)]
    <3>1. <<[window |-> Ticket, shown |-> {}]>> \in Seq(SampleType)
      BY DEF SampleType
    <3> QED
      BY <3>1
  <2>4. IsFiniteSet({})
    BY FS_EmptySet
  <2> QED
    BY <1>1, <2>2, <2>3, <2>4 DEF OType
<1>3. OGraphs
  <2>1. ASSUME NEW p \in Reader, NEW n \in DOMAIN samples[p]
        PROVE  samples[p][n].shown \subseteq executed
    <3>1. CASE p = FirstReader
      <4>1. samples[p] = <<[window |-> Ticket, shown |-> {}]>>
        BY <3>1
      <4>2. n = 1
        BY <4>1
      <4> QED
        BY <4>1, <4>2
    <3>2. CASE p # FirstReader
      BY <3>2
    <3> QED
      BY <3>1, <3>2
  <2> QED
    BY <1>1, <2>1, OpeningAssumption DEF OGraphs
<1>4. OFiles /\ OUsable
  BY <1>1 DEF OFiles, OUsable
<1>5. OCalls
  BY DEF OCalls, NoCall
<1>6. AllocationsAreTheBrokers /\ FrontiersOnlyGrow /\ IntentIsKept
  BY DEF AllocationsAreTheBrokers, FrontiersOnlyGrow, IntentIsKept
<1> QED
  BY <1>2, <1>3, <1>4, <1>5, <1>6 DEF IOpening

\* A deal of the broker that no graph shows yet.
LEMMA ExecuteKeeps ==
    ASSUME IOpening, NEW t \in Ticket, Execute(t)
    PROVE  IOpening'
<1> USE DEF Execute, IOpening
<1>1. OType'
  BY DEF OType, Files
<1>2. OGraphs'
  BY DEF OGraphs, Showing
<1>3. OFiles' /\ OCalls'
  BY DEF OFiles, Files, OCalls, Replaced, At
<1>4. OUsable'
  BY DEF OUsable, Files, Closed, Showing, FactsAreHonest, FirstEvidence, CoveredExactly
<1>5. AllocationsAreTheBrokers' /\ FrontiersOnlyGrow' /\ IntentIsKept'
  BY DEF AllocationsAreTheBrokers, FrontiersOnlyGrow, IntentIsKept, Files
<1> QED
  BY <1>1, <1>2, <1>3, <1>4, <1>5

\* Only persisted, the calls and their count differ, and no call is about to
\* remove something else.
LEMMA CallsKeep ==
    ASSUME IOpening, call' \in [Reader -> CallType], persisted' \in BOOLEAN,
           UNCHANGED <<executed, samples, openFacts, preps, allocs, holder,
                       returned, pastHolders, intended, newest>>,
           \A p \in Reader : call'[p].pc = "remove" => call'[p] = call[p]
    PROVE  IOpening'
<1> USE DEF IOpening
<1>1. OType'
  BY DEF OType, Files
<1>2. OGraphs'
  BY DEF OGraphs, Showing
<1>3. OFiles'
  BY DEF OFiles, Files
<1>4. OCalls'
  <2> SUFFICES ASSUME NEW p \in Reader, call'[p].pc = "remove"
               PROVE  (holder = p /\ Replaced(call[p].entry.frontier))'
    BY DEF OCalls
  <2>1. holder = p /\ Replaced(call[p].entry.frontier)
    BY DEF OCalls
  <2> QED
    BY <2>1 DEF Replaced, At
<1>5. OUsable'
  BY DEF OUsable, Files, Closed, Showing, FactsAreHonest, FirstEvidence, CoveredExactly
<1>6. AllocationsAreTheBrokers' /\ FrontiersOnlyGrow' /\ IntentIsKept'
  BY DEF AllocationsAreTheBrokers, FrontiersOnlyGrow, IntentIsKept, Files
<1> QED
  BY <1>1, <1>2, <1>3, <1>4, <1>5, <1>6

\* The record goes on.
LEMMA JournalGoesOnKeeps ==
    ASSUME IOpening, JournalGoesOn
    PROVE  IOpening'
BY CallsKeep DEF JournalGoesOn, IOpening, OType

\* A call that fails leaves what it wrote.
LEMMA CallFailsKeeps ==
    ASSUME IOpening, NEW p \in Reader, CallFails(p)
    PROVE  IOpening'
<1>1. NoCall \in CallType /\ NoCall.pc # "remove"
  BY DEF NoCall, NoEntry, CallType, OpenEntryType
<1>2. call \in [Reader -> CallType] /\ persisted \in BOOLEAN
  BY DEF IOpening, OType
<1>3. call' = [call EXCEPT ![p] = NoCall]
  BY DEF CallFails
<1>4. call' \in [Reader -> CallType]
  BY <1>1, <1>2, <1>3
<1>5. \A q \in Reader : call'[q].pc = "remove" => call'[q] = call[q]
  BY <1>1, <1>2, <1>3
<1> QED
  BY <1>2, <1>4, <1>5, CallsKeep DEF CallFails

\* A call that has loaded an entry has written nothing.
LEMMA LoadEntryKeeps ==
    ASSUME IOpening, NEW p \in Reader, NEW k, LoadEntry(p, k)
    PROVE  IOpening'
<1>1. PICK e \in Files : call' = [call EXCEPT ![p] = [pc |-> "loaded", entry |-> e]]
  BY DEF LoadEntry, LoadedPreparations, LoadedAllocations, At, Files
<1>2. PICK c : c = [pc |-> "loaded", entry |-> e]
  OBVIOUS
<1>3. c \in CallType /\ c.pc # "remove"
  BY <1>2 DEF IOpening, OType, Files, CallType
<1>4. call \in [Reader -> CallType] /\ persisted \in BOOLEAN
  BY DEF IOpening, OType
<1>5. call' = [call EXCEPT ![p] = c]
  BY <1>1, <1>2
<1>6. call' \in [Reader -> CallType]
  BY <1>3, <1>4, <1>5
<1>7. \A q \in Reader : call'[q].pc = "remove" => call'[q] = call[q]
  BY <1>3, <1>4, <1>5
<1> QED
  BY <1>4, <1>6, <1>7, CallsKeep DEF LoadEntry

\* A graph never loses a read: what first showed a deal stays the first.
LEMMA SampleGrows ==
    ASSUME OType, NEW p \in Reader, NEW w \in Sampled, Sample(p, w)
    PROVE  /\ samples' \in [Reader -> Seq(SampleType)]
           /\ \A q \in Reader :
                /\ DOMAIN samples[q] \subseteq DOMAIN samples'[q]
                /\ \A n \in DOMAIN samples[q] : samples'[q][n] = samples[q][n]
                /\ \A n \in DOMAIN samples'[q] \ DOMAIN samples[q] :
                     /\ samples'[q][n].shown \subseteq executed
                     /\ \A m \in DOMAIN samples[q] : n > m
<1>1. PICK s : s = [window |-> w, shown |-> w \cap executed]
  OBVIOUS
<1>2. s \in SampleType /\ s.shown \subseteq executed
  BY <1>1, OpeningAssumption DEF SampleType
<1>3. samples \in [Reader -> Seq(SampleType)]
  BY DEF OType
<1>4. samples' = [samples EXCEPT ![p] = Append(samples[p], s)]
  BY <1>1 DEF Sample
<1>5. PICK a : a = samples[p]
  OBVIOUS
<1>6. a \in Seq(SampleType)
  BY <1>3, <1>5
<1>7. /\ Append(a, s) \in Seq(SampleType)
      /\ DOMAIN a = 1 .. Len(a) /\ Len(a) \in Nat
      /\ DOMAIN Append(a, s) = 1 .. Len(a) + 1
      /\ \A n \in 1 .. Len(a) : Append(a, s)[n] = a[n]
      /\ Append(a, s)[Len(a) + 1] = s
  <2> HIDE DEF SampleType
  <2> QED
    BY <1>2, <1>6
<1>8. samples'[p] = Append(a, s) /\ \A q \in Reader : q # p => samples'[q] = samples[q]
  BY <1>3, <1>4, <1>5
<1>9. samples' \in [Reader -> Seq(SampleType)]
  <2> HIDE DEF SampleType
  <2> QED
    BY <1>3, <1>4, <1>5, <1>7
<1>10. \A n \in DOMAIN samples'[p] \ DOMAIN samples[p] :
          /\ n = Len(a) + 1
          /\ \A m \in DOMAIN samples[p] : n > m
  BY <1>5, <1>7, <1>8
<1>11. ASSUME NEW q \in Reader
       PROVE  /\ DOMAIN samples[q] \subseteq DOMAIN samples'[q]
              /\ \A n \in DOMAIN samples[q] : samples'[q][n] = samples[q][n]
              /\ \A n \in DOMAIN samples'[q] \ DOMAIN samples[q] :
                   /\ samples'[q][n].shown \subseteq executed
                   /\ \A m \in DOMAIN samples[q] : n > m
  <2>1. CASE q = p
    <3>1. DOMAIN samples[q] \subseteq DOMAIN samples'[q]
      BY <1>5, <1>7, <1>8, <2>1
    <3>2. \A n \in DOMAIN samples[q] : samples'[q][n] = samples[q][n]
      BY <1>5, <1>7, <1>8, <2>1
    <3>3. \A n \in DOMAIN samples'[q] \ DOMAIN samples[q] : samples'[q][n] = s
      BY <1>7, <1>8, <1>10, <2>1
    <3> QED
      BY <1>2, <1>10, <2>1, <3>1, <3>2, <3>3
  <2>2. CASE q # p
    BY <1>8, <2>2
  <2> QED
    BY <2>1, <2>2
<1> QED
  BY <1>9, <1>11

\* A new read shows deals at a later revision than every receipt.
LEMMA SampleKeeps ==
    ASSUME IOpening, NEW p \in Reader, NEW w \in Sampled, Sample(p, w)
    PROVE  IOpening'
<1> USE DEF IOpening
<1>1. UNCHANGED <<executed, persisted, openFacts, preps, allocs, holder, call, loads,
                  returned, pastHolders, intended, newest>>
  BY DEF Sample
<1>2. /\ samples' \in [Reader -> Seq(SampleType)]
      /\ \A q \in Reader :
           /\ DOMAIN samples[q] \subseteq DOMAIN samples'[q]
           /\ \A n \in DOMAIN samples[q] : samples'[q][n] = samples[q][n]
           /\ \A n \in DOMAIN samples'[q] \ DOMAIN samples[q] :
                /\ samples'[q][n].shown \subseteq executed
                /\ \A m \in DOMAIN samples[q] : n > m
  BY SampleGrows
<1>3. OType'
  BY <1>1, <1>2 DEF OType, Files
<1>4. \A f \in openFacts : f \in OpenFactType
  BY DEF OType
<1>5. OGraphs'
  <2>1. ASSUME NEW q \in Reader, NEW n \in DOMAIN samples'[q]
        PROVE  samples'[q][n].shown \subseteq executed
    BY <1>2 DEF OGraphs
  <2>2. ASSUME NEW f \in openFacts
        PROVE  /\ f.graph \in pastHolders /\ f.revision \in DOMAIN samples'[f.graph]
               /\ Showing(f.graph, f.deal)' # {}
    <3>1. f.graph \in Reader
      BY <1>4 DEF OpenFactType
    <3>2. /\ f.graph \in pastHolders /\ f.revision \in DOMAIN samples[f.graph]
          /\ Showing(f.graph, f.deal) # {}
      BY DEF OGraphs
    <3>3. PICK n \in DOMAIN samples[f.graph] : f.deal \in samples[f.graph][n].shown
      BY <3>2 DEF Showing
    <3>4. n \in Showing(f.graph, f.deal)'
      BY <1>2, <3>1, <3>3 DEF Showing
    <3> QED
      BY <1>2, <3>1, <3>2, <3>4
  <2>3. \A f \in openFacts : Showing(f.graph, f.deal)' # {}
    BY <2>2
  <2> QED
    BY <1>1, <2>1, <2>2, <2>3 DEF OGraphs, Showing
<1>6. OFiles' /\ OCalls'
  BY <1>1 DEF OFiles, Files, OCalls, Replaced, At
<1>7. FactsAreHonest' => FactsAreHonest
  <2> SUFFICES ASSUME FactsAreHonest', NEW f \in openFacts
               PROVE  /\ f.units = 1
                      /\ f.revision = FirstEvidence(f.graph, f.deal)
                      /\ CoveredExactly(f.graph, f.revision)
    BY DEF FactsAreHonest
  <2> DEFINE S == Showing(f.graph, f.deal)
             N == {r \in DOMAIN samples'[f.graph] : f.deal \in samples'[f.graph][r].shown}
  <2>1. f.graph \in Reader /\ f.revision \in DOMAIN samples[f.graph] /\ S # {}
    BY <1>4 DEF OGraphs, OpenFactType
  <2>2. f.units = 1 /\ f.revision = Min(N) /\ samples'[f.graph][f.revision].window = Ticket
    BY <1>1 DEF FactsAreHonest, FirstEvidence, Showing, CoveredExactly
  <2>3. /\ DOMAIN samples[f.graph] \subseteq Nat
        /\ DOMAIN samples'[f.graph] \subseteq Nat
    BY <1>2, <2>1 DEF OType
  <2>4. /\ S \subseteq N /\ S \in SUBSET Nat /\ N \in SUBSET Nat
        /\ \A n \in N \ S, m \in S : n > m
    BY <1>2, <2>1, <2>3 DEF Showing
  <2>5. Min(S) \in S /\ \A y \in S : Min(S) <= y
    <3> HIDE DEF S
    <3> QED
      BY <2>1, <2>4, LeastOf
  <2>6. Min(N) \in N /\ \A y \in N : Min(N) <= y
    <3>1. N # {}
      BY <2>1, <2>4
    <3> HIDE DEF N
    <3> QED
      BY <2>4, <3>1, LeastOf
  <2>7. Min(S) = Min(N)
    <3>1. PICK a : a = Min(S)
      OBVIOUS
    <3>2. PICK b : b = Min(N)
      OBVIOUS
    <3>3. a \in S /\ (\A y \in S : a <= y) /\ b \in N /\ (\A y \in N : b <= y)
      BY <2>5, <2>6, <3>1, <3>2
    <3> HIDE DEF S, N
    <3>4. a \in Nat /\ b \in Nat /\ b <= a
      BY <2>4, <3>3
    <3>5. b \in S
      <4> SUFFICES ASSUME b \notin S
                   PROVE  FALSE
        OBVIOUS
      <4>1. b > a
        BY <2>4, <3>3
      <4> QED
        BY <3>4, <4>1
    <3>6. a = b
      BY <3>3, <3>4, <3>5
    <3> QED
      BY <3>1, <3>2, <3>6
  <2> QED
    BY <1>2, <2>1, <2>2, <2>7 DEF FirstEvidence, CoveredExactly
<1>8. OUsable'
  <2> SUFFICES ASSUME FactsAreHonest', ~ returned', NEW e \in Files'
               PROVE  Closed(e)'
    BY DEF OUsable
  <2>1. Closed(e) /\ e \in Files
    BY <1>1, <1>7 DEF OUsable, Files
  <2>2. \A f \in openFacts \ e.refs, g \in e.refs : f.graph = g.graph => f.revision > g.revision
    BY <2>1 DEF Closed
  <2>3. ASSUME NEW g \in e.refs, NEW t \in Ticket, g.graph = holder,
               \A f \in e.refs : f.deal # t,
               NEW n \in DOMAIN samples'[holder], t \in samples'[holder][n].shown
        PROVE  n > g.revision
    <3>1. g \in openFacts /\ g.revision \in DOMAIN samples[holder] /\ holder \in Reader
      BY <2>1, <2>3 DEF OFiles, OGraphs
    <3>2. CASE n \in DOMAIN samples[holder]
      <4>1. n \in Showing(holder, t)
        BY <1>2, <2>3, <3>1, <3>2 DEF Showing
      <4> QED
        BY <2>1, <2>3, <4>1 DEF Closed
    <3>3. CASE n \notin DOMAIN samples[holder]
      BY <1>2, <3>1, <3>3
    <3> QED
      BY <3>2, <3>3
  <2> QED
    BY <1>1, <2>2, <2>3 DEF Closed, Showing
<1>9. AllocationsAreTheBrokers' /\ FrontiersOnlyGrow' /\ IntentIsKept'
  BY <1>1 DEF AllocationsAreTheBrokers, FrontiersOnlyGrow, IntentIsKept, Files
<1> QED
  BY <1>3, <1>5, <1>6, <1>8, <1>9

\* A process that never held the lease has no fact of its graph in the directory.
LEMMA TakeLeaseKeeps ==
    ASSUME IOpening, NEW p \in Reader, TakeLease(p)
    PROVE  IOpening'
<1> USE DEF IOpening
<1>1. /\ p # holder /\ call[holder].pc # "remove"
      /\ holder' = p
      /\ returned' = (returned \/ p \in pastHolders)
      /\ pastHolders' = pastHolders \cup {p}
      /\ UNCHANGED <<executed, persisted, samples, openFacts, preps, allocs, call,
                     loads, intended, newest>>
  BY Zenon DEF TakeLease
<1>2. OType'
  <2>1. returned' \in BOOLEAN
    BY Zenon, <1>1
  <2> QED
    BY <1>1, <2>1 DEF OType, Files
<1>3. OGraphs'
  BY <1>1 DEF OGraphs, Showing
<1>4. OFiles'
  BY <1>1 DEF OFiles, Files
<1>5. OCalls'
  BY <1>1 DEF OCalls
<1>6. OUsable'
  <2> SUFFICES ASSUME FactsAreHonest', ~ returned', NEW e \in Files'
               PROVE  Closed(e)'
    BY DEF OUsable
  <2>1. ~ returned /\ p \notin pastHolders
    BY Zenon, <1>1
  <2>2. FactsAreHonest /\ e \in Files
    BY <1>1 DEF FactsAreHonest, FirstEvidence, Showing, CoveredExactly, Files
  <2>3. Closed(e)
    BY <2>1, <2>2 DEF OUsable
  <2>4. \A g \in e.refs : g.graph # holder'
    BY <1>1, <2>1, <2>2 DEF OFiles, OGraphs
  <2> QED
    BY <1>1, <2>3, <2>4 DEF Closed
<1>7. AllocationsAreTheBrokers' /\ FrontiersOnlyGrow' /\ IntentIsKept'
  BY <1>1 DEF AllocationsAreTheBrokers, FrontiersOnlyGrow, IntentIsKept, Files
<1> QED
  BY <1>2, <1>3, <1>4, <1>5, <1>6, <1>7

\* An honest new fact is later than every receipt of its graph that an entry refers to.
LEMMA CommitFactKeeps ==
    ASSUME IOpening, NEW t \in Ticket, NEW u \in {1, 2}, NEW r \in 1 .. MaxSamples + 1,
           CommitFact(t, u, r)
    PROVE  IOpening'
<1> USE DEF IOpening
<1>1. PICK x : x = [deal |-> t, units |-> u, graph |-> holder, revision |-> r]
  OBVIOUS
<1>2. /\ call[holder].pc # "remove"
      /\ t \in Seen(holder) /\ r \in DOMAIN samples[holder]
      /\ \A f \in openFacts : f.deal # t
      /\ openFacts' = openFacts \cup {x}
      /\ UNCHANGED <<executed, persisted, samples, preps, allocs, holder, call, loads,
                     returned, pastHolders, intended, newest>>
  BY <1>1 DEF CommitFact
<1>3. x.deal = t /\ x.units = u /\ x.graph = holder /\ x.revision = r
  BY <1>1
<1>4. x \in OpenFactType
  BY <1>1 DEF OpenFactType, OGraphs
<1>5. OType'
  <2>1. IsFiniteSet(openFacts')
    BY <1>2, FS_AddElement DEF OType
  <2> QED
    BY <1>2, <1>4, <2>1 DEF OType, Files
<1>6. OGraphs'
  BY <1>2, <1>3 DEF OGraphs, Showing, Seen
<1>7. OFiles'
  BY <1>2 DEF OFiles, Files
<1>8. OCalls'
  BY <1>2 DEF OCalls, Replaced, At
<1>9. OUsable'
  <2> SUFFICES ASSUME FactsAreHonest', ~ returned', NEW e \in Files'
               PROVE  Closed(e)'
    BY DEF OUsable
  <2>1. FactsAreHonest
    BY <1>2 DEF FactsAreHonest, FirstEvidence, Showing, CoveredExactly
  <2>2. e \in Files /\ Closed(e) /\ e.refs \subseteq openFacts
    BY <1>2, <2>1 DEF OUsable, Files, OFiles
  <2>3. r \in Showing(holder, t)
    <3>1. r = Min(Showing(holder, t))
      BY <1>2, <1>3 DEF FactsAreHonest, FirstEvidence, Showing
    <3>2. Showing(holder, t) # {} /\ Showing(holder, t) \in SUBSET Nat
      BY <1>2 DEF Seen, Showing, OType, OGraphs
    <3> QED
      BY <3>1, <3>2, LeastOf
  <2>4. ASSUME NEW g \in e.refs, g.graph = holder
        PROVE  r > g.revision
    BY <1>2, <2>2, <2>3, <2>4 DEF Closed
  <2>5. \A f \in openFacts' \ e.refs, g \in e.refs : f.graph = g.graph => f.revision > g.revision
    BY <1>2, <1>3, <2>2, <2>4 DEF Closed
  <2> QED
    BY <1>2, <2>2, <2>5 DEF Closed, Showing
<1>10. AllocationsAreTheBrokers' /\ FrontiersOnlyGrow' /\ IntentIsKept'
  BY <1>2 DEF AllocationsAreTheBrokers, FrontiersOnlyGrow, IntentIsKept, Files
<1> QED
  BY <1>5, <1>6, <1>7, <1>8, <1>9, <1>10

\* What a proof says of the facts: there are some, they are the broker's, and the
\* graph shows no other deal.
LEMMA VerifiedIs ==
    ASSUME OType, OGraphs, NEW p \in Reader, Verified(p)
    PROVE  /\ persisted /\ openFacts # {}
           /\ \A f \in openFacts : f.deal \in executed /\ f.units = 1
           /\ \A t \in Ticket : (\A f \in openFacts : f.deal # t) => Showing(p, t) = {}
<1>1. {f.deal : f \in openFacts} = Seen(p) /\ Bound \in Seen(p) /\ persisted
  BY DEF Verified
<1>2. \A f \in openFacts : f.deal \in Seen(p) /\ f.units = 1
  BY DEF Verified, FactIsProved
<1>3. ASSUME NEW t \in Seen(p)
      PROVE  t \in executed
  BY DEF Seen, Showing, OGraphs
<1>4. \A t \in Ticket : (\A f \in openFacts : f.deal # t) => Showing(p, t) = {}
  BY <1>1 DEF Seen
<1> QED
  BY <1>1, <1>2, <1>3, <1>4

\* A new entry of all the facts, under a free discriminator that is not below their receipts.
NewEntry(e) ==
    /\ e \in OpenEntryType /\ e.refs = openFacts
    /\ Equivalents(Files, e) = {} =>
         At(Files, e.frontier) = {} /\ LastRevision(openFacts) <= e.frontier

\* The store keeps its discipline when it is given a preparation of all the
\* facts that the holder's graph proves.
LEMMA StoreKeeps ==
    ASSUME OType, OGraphs, OFiles, OUsable, Verified(holder), NEW e, NewEntry(e),
           preps' = StoredPreparations(e),
           UNCHANGED <<executed, samples, openFacts, allocs, holder, returned,
                       pastHolders>>
    PROVE  /\ preps' \subseteq OpenEntryType /\ IsFiniteSet(Files')
           /\ OFiles' /\ OUsable'
           /\ preps \subseteq preps' /\ preps' \subseteq preps \cup {e}
           /\ \E x \in Files' : x.refs = openFacts
<1>1. CASE Equivalents(Files, e) # {}
  <2>1. preps' = preps /\ Files' = Files
    BY <1>1 DEF StoredPreparations, Files
  <2>2. OFiles'
    BY <2>1 DEF OFiles
  <2>3. OUsable'
    BY <2>1 DEF OUsable, Closed, Showing, FactsAreHonest, FirstEvidence, CoveredExactly
  <2>4. \E x \in Files : x.refs = openFacts
    BY <1>1 DEF Equivalents, NewEntry
  <2> QED
    BY <2>1, <2>2, <2>3, <2>4 DEF OType
<1>2. CASE Equivalents(Files, e) = {}
  <2>1. preps' = preps \cup {e} /\ Files' = Files \cup {e}
    BY <1>2 DEF StoredPreparations, Files
  <2>2. At(Files, e.frontier) = {} /\ LastRevision(openFacts) <= e.frontier
    BY <1>2 DEF NewEntry
  <2>3. preps' \subseteq OpenEntryType /\ IsFiniteSet(Files')
    BY <2>1, FS_AddElement DEF OType, NewEntry
  <2>4. OFiles'
    <3>1. \A x \in Files' : x.refs \subseteq openFacts /\ LastRevision(x.refs) <= x.frontier
      BY <2>1, <2>2 DEF OFiles, NewEntry
    <3>2. \A x \in Files : x.frontier # e.frontier /\ x.refs # e.refs
      BY <1>2, <2>2 DEF At, Equivalents
    <3>3. \A x, y \in Files' : x.frontier = y.frontier \/ x.refs = y.refs => x = y
      BY <2>1, <3>2 DEF OFiles
    <3> QED
      BY <3>1, <3>3 DEF OFiles, LastRevision
  <2>5. OUsable'
    <3> SUFFICES ASSUME FactsAreHonest', ~ returned', NEW x \in Files'
                 PROVE  Closed(x)'
      BY DEF OUsable
    <3>1. FactsAreHonest /\ ~ returned
      BY DEF FactsAreHonest, FirstEvidence, Showing, CoveredExactly
    <3>2. Closed(x)
      <4>1. CASE x \in Files
        BY <3>1, <4>1 DEF OUsable
      <4>2. CASE x = e
        <5>1. x.refs = openFacts
          BY <4>2 DEF NewEntry
        <5>2. holder \in Reader
          BY DEF OGraphs
        <5>3. \A t \in Ticket : (\A f \in openFacts : f.deal # t) => Showing(holder, t) = {}
          BY <5>2, VerifiedIs
        <5> QED
          BY <5>1, <5>3 DEF Closed
      <4> QED
        BY <2>1, <4>1, <4>2
    <3> QED
      BY <3>2 DEF Closed, Showing
  <2> QED
    BY <2>1, <2>3, <2>4, <2>5 DEF NewEntry
<1> QED
  BY <1>1, <1>2

\* The entry that is built from a proof has its equivalent's discriminator or a free one.
LEMMA CandidateIsNew ==
    ASSUME OType, OGraphs, Verified(holder)
    PROVE  NewEntry(Candidate)
<1> DEFINE same == Equivalents(Files, BuiltEntry)
           L == LastRevision(openFacts)
<1>1. openFacts # {} /\ openFacts \in SUBSET OpenFactType
  BY VerifiedIs DEF OType, OGraphs
<1>2. L \in Nat
  BY <1>1, LastReceipt
<1>3. BuiltEntry = [frontier |-> L, refs |-> openFacts]
  BY DEF BuiltEntry
<1>4. PICK k : k = IF same # {} THEN Min({x.frontier : x \in same}) ELSE FreeFrom(L)
  OBVIOUS
<1>5. Candidate = [frontier |-> k, refs |-> openFacts]
  <2>1. Candidate = [BuiltEntry EXCEPT !.frontier =
                       IF same # {} THEN Min({x.frontier : x \in same})
                       ELSE FreeFrom(BuiltEntry.frontier)]
    BY Zenon DEF Candidate
  <2>2. BuiltEntry.frontier = L
    BY <1>3
  <2>3. Candidate = [BuiltEntry EXCEPT !.frontier = k]
    BY <1>4, <2>1, <2>2
  <2> QED
    BY <1>3, <2>3
<1>6. IsFiniteSet(Files) /\ Files \subseteq OpenEntryType
  BY DEF OType, Files
<1>7. k \in Nat
  <2>1. CASE same # {}
    <3>1. {x.frontier : x \in same} \in SUBSET Nat /\ {x.frontier : x \in same} # {}
      BY <1>6, <2>1 DEF Equivalents, OpenEntryType
    <3> QED
      BY <1>4, <2>1, <3>1, LeastOf
  <2>2. CASE same = {}
    BY <1>2, <1>4, <1>6, <2>2, FreeIs
  <2> QED
    BY <2>1, <2>2
<1>8. Equivalents(Files, Candidate) = same
  BY <1>3, <1>5 DEF Equivalents
<1>9. same = {} => At(Files, k) = {} /\ L <= k
  BY <1>2, <1>4, <1>6, FreeIs
<1>10. Candidate \in OpenEntryType /\ Candidate.refs = openFacts /\ Candidate.frontier = k
  BY <1>1, <1>5, <1>7 DEF OpenEntryType
<1> QED
  BY <1>8, <1>9, <1>10 DEF NewEntry

\* That of a successor is past the discriminator of what it succeeds.
LEMMA SuccessorIsNew ==
    ASSUME OType, OGraphs, Verified(holder), NEW e \in OpenEntryType
    PROVE  NewEntry(Successor(e)) /\ Successor(e).frontier > e.frontier
<1> DEFINE L == LastRevision(openFacts)
<1>1. openFacts # {} /\ openFacts \in SUBSET OpenFactType
  BY VerifiedIs DEF OType, OGraphs
<1>2. L \in Nat
  BY <1>1, LastReceipt
<1>3. IsFiniteSet(Files) /\ Files \subseteq OpenEntryType
  BY DEF OType, Files
<1>4. PICK n : n = e.frontier
  OBVIOUS
<1>5. n \in Nat
  BY <1>4 DEF OpenEntryType
<1>6. PICK m : m = Max({L, n + 1})
  OBVIOUS
<1>7. m \in Nat /\ L <= m /\ n < m
  <2> HIDE DEF L
  <2>1. {L, n + 1} \in SUBSET Nat /\ L + n + 1 \in Nat
    BY <1>2, <1>5
  <2>2. \A y \in {L, n + 1} : y <= L + n + 1
    BY <1>2, <1>5
  <2>3. m \in {L, n + 1} /\ \A y \in {L, n + 1} : y <= m
    BY <1>6, <2>1, <2>2, GreatestOf
  <2> QED
    BY <1>2, <1>5, <2>3
<1>8. PICK k : k = FreeFrom(m)
  OBVIOUS
<1>9. k \in Nat /\ m <= k /\ At(Files, k) = {}
  BY <1>3, <1>7, <1>8, FreeIs
<1>10. Successor(e) = [frontier |-> k, refs |-> openFacts]
  BY <1>4, <1>6, <1>8 DEF Successor
<1>11. k > n /\ L <= k
  <2> HIDE DEF L
  <2> QED
    BY <1>2, <1>5, <1>7, <1>9
<1>12. /\ Successor(e) \in OpenEntryType
       /\ Successor(e).refs = openFacts /\ Successor(e).frontier = k
  BY <1>1, <1>9, <1>10 DEF OpenEntryType
<1> QED
  BY <1>4, <1>9, <1>11, <1>12 DEF NewEntry

\* A preparation is of all the facts, and joins what was intended.
LEMMA PrepareKeeps ==
    ASSUME IOpening, Prepare
    PROVE  IOpening'
<1> USE DEF IOpening
<1>1. PICK e : e = Candidate
  OBVIOUS
<1>2. /\ call[holder].pc # "remove" /\ Verified(holder)
      /\ preps' = StoredPreparations(e)
      /\ intended' = intended \cup {e.refs}
      /\ UNCHANGED <<executed, persisted, samples, openFacts, allocs, holder, call,
                     loads, returned, pastHolders, newest>>
  BY <1>1 DEF Prepare
<1>3. NewEntry(e)
  BY <1>1, <1>2, CandidateIsNew
<1>4. /\ preps' \subseteq OpenEntryType /\ IsFiniteSet(Files')
      /\ OFiles' /\ OUsable'
      /\ preps \subseteq preps'
      /\ \E x \in Files' : x.refs = openFacts
  BY <1>2, <1>3, StoreKeeps
<1>5. OType'
  BY <1>2, <1>4 DEF OType
<1>6. OGraphs'
  BY <1>2 DEF OGraphs, Showing
<1>7. OCalls'
  BY <1>2 DEF OCalls
<1>8. AllocationsAreTheBrokers' /\ FrontiersOnlyGrow'
  BY <1>2 DEF AllocationsAreTheBrokers, FrontiersOnlyGrow
<1>9. IntentIsKept'
  BY <1>2, <1>3, <1>4 DEF IntentIsKept, Files, NewEntry
<1> QED
  BY <1>4, <1>5, <1>6, <1>7, <1>8, <1>9

\* What is removed has been replaced.
LEMMA RemovePreparationKeeps ==
    ASSUME IOpening, NEW p \in Reader, RemovePreparation(p)
    PROVE  IOpening'
<1> USE DEF IOpening
<1>1. PICK k : k = call[p].entry.frontier
  OBVIOUS
<1>2. /\ call[p].pc = "remove"
      /\ preps' = preps \ At(preps, k)
      /\ call' = [call EXCEPT ![p] = NoCall]
      /\ UNCHANGED <<executed, persisted, samples, openFacts, allocs, holder, loads,
                     returned, pastHolders, intended, newest>>
  BY <1>1 DEF RemovePreparation
<1>3. Files' \subseteq Files
  BY <1>2 DEF Files
<1>4. OType'
  <2>1. NoCall \in CallType
    BY DEF NoCall, NoEntry, CallType, OpenEntryType
  <2>2. IsFiniteSet(Files')
    BY <1>3, FS_Subset DEF OType
  <2> QED
    BY <1>2, <2>1, <2>2 DEF OType
<1>5. OGraphs'
  BY <1>2 DEF OGraphs, Showing
<1>6. OFiles'
  BY <1>2, <1>3 DEF OFiles
<1>7. OCalls'
  BY <1>2 DEF OCalls, NoCall, OType
<1>8. OUsable'
  BY <1>2, <1>3 DEF OUsable, Closed, Showing, FactsAreHonest, FirstEvidence, CoveredExactly
<1>9. AllocationsAreTheBrokers' /\ FrontiersOnlyGrow'
  BY <1>2 DEF AllocationsAreTheBrokers, FrontiersOnlyGrow
<1>10. IntentIsKept'
  <2> SUFFICES ASSUME NEW s \in intended
               PROVE  \E e \in Files' : s \subseteq e.refs
    BY <1>2 DEF IntentIsKept
  <2>1. PICK e \in Files : s \subseteq e.refs
    BY DEF IntentIsKept
  <2>2. Replaced(k)
    BY <1>1, <1>2 DEF OCalls
  <2>3. CASE e \in At(preps, k)
    BY <1>2, <2>1, <2>2, <2>3 DEF Replaced, Files
  <2>4. CASE e \notin At(preps, k)
    BY <1>2, <2>1, <2>4 DEF Files
  <2> QED
    BY <2>3, <2>4
<1> QED
  BY <1>4, <1>5, <1>6, <1>7, <1>8, <1>9, <1>10

\* What publish has found when it goes on to write.
LEMMA PublishVerdictIs ==
    ASSUME NEW p, NEW e,
           PublishVerdict(p, e) \in {"publish", "supersede", "retire"}
    PROVE  /\ At(preps, e.frontier) \subseteq {e} /\ Verified(p)
           /\ PublishVerdict(p, e) = "retire" => \E a \in allocs : a.refs = e.refs
           /\ PublishVerdict(p, e) = "publish" => e \in preps /\ e.refs = openFacts
           /\ PublishVerdict(p, e) = "supersede" =>
                e \in preps /\ e.refs \subseteq openFacts /\ e.refs # openFacts
<1> DEFINE prep == At(preps, e.frontier)
           alloc == At(allocs, e.frontier)
           equivalents == Equivalents(Files, e)
           names == {x.frontier : x \in equivalents}
<1>1. PICK v : v = PublishVerdict(p, e)
  OBVIOUS
<1>2. v = IF prep \ {e} # {} THEN "conflict"
          ELSE IF ~ Verified(p) THEN "invalid_source"
          ELSE IF Cardinality(names) > 1 THEN "invalid_record"
          ELSE IF names \ {e.frontier} # {}
               THEN IF equivalents \cap allocs = {} THEN "conflict"
                    ELSE IF ExactlyProved(e) /\ \A x \in equivalents : SourcesHold(x)
                         THEN "retire" ELSE "invalid_source"
          ELSE IF alloc \ {e} # {} THEN "conflict"
          ELSE IF alloc # {} THEN IF SourcesHold(e) THEN "retire" ELSE "invalid_source"
          ELSE IF prep = {} THEN "missing_source"
          ELSE IF ~ SourcesHold(e) THEN "invalid_source"
          ELSE IF ExactlyProved(e) THEN "publish" ELSE "supersede"
  BY <1>1 DEF PublishVerdict
<1>3. prep \subseteq preps /\ alloc \subseteq allocs
  BY DEF At
<1>4. \A x \in equivalents : x.refs = e.refs
  BY DEF Equivalents
<1>5. SourcesHold(e) => e.refs \subseteq openFacts
  BY DEF SourcesHold
<1>6. ExactlyProved(e) <=> e.refs = openFacts
  BY DEF ExactlyProved
<1> HIDE DEF prep, alloc, equivalents, names
<1>7. v \in {"publish", "supersede", "retire"}
  BY <1>1
<1>8. prep \subseteq {e} /\ Verified(p)
  BY <1>2, <1>7
<1>9. v = "retire" => \E a \in allocs : a.refs = e.refs
  <2> SUFFICES ASSUME v = "retire"
               PROVE  \E a \in allocs : a.refs = e.refs
    OBVIOUS
  <2>1. equivalents \cap allocs # {} \/ (alloc # {} /\ alloc \subseteq {e})
    BY <1>2
  <2> QED
    BY <1>3, <1>4, <2>1
<1>10. v = "publish" => prep # {} /\ ExactlyProved(e)
  BY <1>2
<1>11. v = "supersede" => prep # {} /\ ~ ExactlyProved(e) /\ SourcesHold(e)
  BY <1>2
<1> QED
  BY <1>1, <1>3, <1>5, <1>6, <1>8, <1>9, <1>10, <1>11 DEF prep

\* A proof, and the rest of what the verdict needs: the preparation is taken to its end.
LEMMA PreparationsEnd ==
    ASSUME IOpening, Verified(holder), OpeningScanCompletes, NEW e \in preps
    PROVE  PublishVerdict(holder, e) \in {"publish", "supersede", "retire"}
<1> DEFINE prep == At(preps, e.frontier)
           alloc == At(allocs, e.frontier)
           equivalents == Equivalents(Files, e)
           names == {x.frontier : x \in equivalents}
<1>1. PublishVerdict(holder, e) =
          IF prep \ {e} # {} THEN "conflict"
          ELSE IF ~ Verified(holder) THEN "invalid_source"
          ELSE IF Cardinality(names) > 1 THEN "invalid_record"
          ELSE IF names \ {e.frontier} # {}
               THEN IF equivalents \cap allocs = {} THEN "conflict"
                    ELSE IF ExactlyProved(e) /\ \A x \in equivalents : SourcesHold(x)
                         THEN "retire" ELSE "invalid_source"
          ELSE IF alloc \ {e} # {} THEN "conflict"
          ELSE IF alloc # {} THEN IF SourcesHold(e) THEN "retire" ELSE "invalid_source"
          ELSE IF prep = {} THEN "missing_source"
          ELSE IF ~ SourcesHold(e) THEN "invalid_source"
          ELSE IF ExactlyProved(e) THEN "publish" ELSE "supersede"
  BY DEF PublishVerdict
<1>2. e \in Files /\ \A x, y \in Files : x.frontier = y.frontier \/ x.refs = y.refs => x = y
  BY DEF IOpening, OFiles, Files
<1>3. prep = {e} /\ alloc \subseteq {e} /\ equivalents = {e}
  BY <1>2 DEF At, Equivalents, Files
<1>4. names = {e.frontier}
  BY <1>3
<1>5. Cardinality(names) = 1
  BY <1>4, FS_Singleton
<1>6. SourcesHold(e)
  BY <1>2 DEF OpeningScanCompletes
<1> HIDE DEF prep, alloc, equivalents, names
<1>7. ~ (Cardinality(names) > 1)
  BY <1>5
<1> QED
  BY <1>1, <1>3, <1>4, <1>6, <1>7

\* The directory is never refused, and a process that proves it can go on.
LEMMA UsableOpening ==
    ASSUME IOpening
    PROVE  OpeningStaysUsable
<1> SUFFICES ASSUME persisted, FactsAreHonest, ~ returned
             PROVE  /\ OpeningScanCompletes
                    /\ Verified(holder) =>
                         \A e \in preps : PublishVerdict(holder, e)
                                            \in {"publish", "supersede", "retire"}
  BY DEF OpeningStaysUsable
<1>1. OpeningScanCompletes
  BY DEF OpeningScanCompletes, SourcesHold, IOpening, OFiles, OUsable, Closed
<1> QED
  BY <1>1, PreparationsEnd

\* The first write of publish: an allocation of all the facts, or the successor of
\* a smaller entry.
LEMMA PublishKeeps ==
    ASSUME IOpening, NEW p \in Reader, Publish(p)
    PROVE  IOpening'
<1> USE DEF IOpening
<1>1. PICK e : e = call[p].entry
  OBVIOUS
<1>2. PICK v : v = PublishVerdict(p, e)
  OBVIOUS
<1>3. PICK c : c = IF v \in {"publish", "supersede", "retire"}
                   THEN [pc |-> "remove", entry |-> e] ELSE NoCall
  OBVIOUS
<1>4. /\ call[p].pc = "loaded" /\ holder = p
      /\ allocs' = IF v = "publish" THEN allocs \cup {e} ELSE allocs
      /\ newest' = IF v = "publish" THEN e.refs ELSE newest
      /\ preps' = IF v = "supersede" THEN StoredPreparations(Successor(e)) ELSE preps
      /\ call' = [call EXCEPT ![p] = c]
      /\ UNCHANGED <<executed, persisted, samples, openFacts, holder, loads,
                     returned, pastHolders, intended>>
  BY <1>1, <1>2, <1>3, Zenon DEF Publish
<1>5. /\ v \in {"publish", "supersede", "retire"} =>
           At(preps, e.frontier) \subseteq {e} /\ Verified(p)
      /\ v = "retire" => \E a \in allocs : a.refs = e.refs
      /\ v = "publish" => e \in preps /\ e.refs = openFacts
      /\ v = "supersede" => e \in preps /\ e.refs \subseteq openFacts /\ e.refs # openFacts
  BY <1>2, PublishVerdictIs
<1>6. e \in OpenEntryType
  BY <1>1 DEF OType, CallType
<1>7. c \in CallType
  BY <1>3, <1>6 DEF NoCall, NoEntry, CallType, OpenEntryType
<1>8. /\ preps' \subseteq OpenEntryType /\ allocs' \subseteq OpenEntryType
      /\ IsFiniteSet(Files') /\ OFiles' /\ OUsable'
      /\ preps \subseteq preps' /\ allocs \subseteq allocs'
  <2>1. CASE v = "supersede"
    <3>1. NewEntry(Successor(e))
      BY <1>4, <1>5, <1>6, <2>1, SuccessorIsNew
    <3>2. allocs' = allocs /\ preps' = StoredPreparations(Successor(e))
      BY <1>4, <2>1
    <3>3. Verified(holder)
      BY <1>4, <1>5, <2>1
    <3> QED
      BY <1>4, <3>1, <3>2, <3>3, StoreKeeps DEF OType
  <2>2. CASE v # "supersede"
    <3>1. preps' = preps /\ Files' = Files
      BY <1>4, <1>5, <2>2 DEF Files
    <3>2. OFiles'
      BY <1>4, <3>1 DEF OFiles
    <3>3. OUsable'
      BY <1>4, <3>1 DEF OUsable, Closed, Showing, FactsAreHonest, FirstEvidence,
                        CoveredExactly
    <3> QED
      BY <1>4, <1>6, <3>1, <3>2, <3>3 DEF OType
  <2> QED
    BY <2>1, <2>2
<1>9. OType'
  BY <1>4, <1>7, <1>8 DEF OType
<1>10. OGraphs'
  BY <1>4 DEF OGraphs, Showing
<1>11. OCalls'
  <2> SUFFICES ASSUME NEW q \in Reader, call'[q].pc = "remove"
               PROVE  holder' = q /\ Replaced(call[q].entry.frontier)'
    BY DEF OCalls
  <2>1. q = p
    BY <1>4 DEF OCalls, OType
  <2>2. call'[q] = c /\ c.pc = "remove"
    BY <1>4, <2>1 DEF OType
  <2>3. v \in {"publish", "supersede", "retire"} /\ c.entry = e
    BY <1>3, <2>2 DEF NoCall
  <2>4. PICK k : k = e.frontier
    OBVIOUS
  <2>5. At(preps, k) \subseteq {e}
    BY <1>5, <2>3, <2>4
  <2>6. \A x \in At(preps', k) :
           \E y \in allocs' \cup (preps' \ At(preps', k)) : x.refs \subseteq y.refs
    <3>1. CASE v = "publish"
      <4>1. preps' = preps /\ e \in allocs'
        BY <1>4, <3>1
      <4> QED
        BY <2>5, <4>1
    <3>2. CASE v = "retire"
      <4>1. preps' = preps /\ allocs' = allocs
        BY <1>4, <3>2
      <4> QED
        BY <1>5, <2>5, <3>2, <4>1
    <3>3. CASE v = "supersede"
      <4>1. NewEntry(Successor(e)) /\ Successor(e).frontier > k
        BY <1>4, <1>5, <1>6, <2>4, <3>3, SuccessorIsNew
      <4>2. allocs' = allocs /\ preps' = StoredPreparations(Successor(e))
        BY <1>4, <3>3
      <4>3. Verified(holder)
        BY <1>4, <1>5, <3>3
      <4>4. /\ preps' \subseteq preps \cup {Successor(e)}
            /\ \E x \in Files' : x.refs = openFacts
        BY <1>4, <4>1, <4>2, <4>3, StoreKeeps
      <4>5. PICK y \in Files' : y.refs = openFacts
        BY <4>4
      <4>6. k \in Nat /\ Successor(e).frontier # k
        BY <1>6, <2>4, <4>1 DEF OpenEntryType, NewEntry
      <4>7. At(preps', k) \subseteq {e}
        BY <2>5, <4>4, <4>6 DEF At
      <4>8. y \notin At(preps', k) /\ e.refs \subseteq y.refs
        BY <1>5, <3>3, <4>5, <4>7
      <4>9. y \in allocs' \cup (preps' \ At(preps', k))
        BY <4>5, <4>8 DEF Files
      <4> QED
        BY <4>7, <4>8, <4>9
    <3> QED
      BY <2>3, <3>1, <3>2, <3>3
  <2> QED
    BY <1>4, <2>1, <2>2, <2>3, <2>4, <2>6 DEF Replaced, At
<1>12. AllocationsAreTheBrokers'
  <2>1. CASE v = "publish"
    <3>1. \A f \in openFacts : f.deal \in executed /\ f.units = 1
      BY <1>5, <2>1, VerifiedIs
    <3> QED
      BY <1>4, <1>5, <2>1, <3>1 DEF AllocationsAreTheBrokers
  <2>2. CASE v # "publish"
    BY <1>4, <2>2 DEF AllocationsAreTheBrokers
  <2> QED
    BY <2>1, <2>2
<1>13. FrontiersOnlyGrow'
  <2>1. CASE v = "publish"
    BY <1>4, <1>5, <2>1 DEF FrontiersOnlyGrow, OFiles, Files
  <2>2. CASE v # "publish"
    BY <1>4, <2>2 DEF FrontiersOnlyGrow
  <2> QED
    BY <2>1, <2>2
<1>14. IntentIsKept'
  BY <1>4, <1>8 DEF IntentIsKept, Files
<1> QED
  BY <1>8, <1>9, <1>10, <1>11, <1>12, <1>13, <1>14

\* Every step of the directory, and a step that changes nothing.
LEMMA OpeningNextKeeps ==
    ASSUME IOpening, [OpeningNext]_openingVars
    PROVE  IOpening'
<1>1. CASE UNCHANGED openingVars
  <2>1. UNCHANGED <<executed, persisted, samples, openFacts, preps, allocs, holder,
                    call, loads, returned, pastHolders, intended, newest>>
    BY <1>1 DEF openingVars
  <2>2. call \in [Reader -> CallType] /\ persisted \in BOOLEAN
    BY DEF IOpening, OType
  <2> QED
    BY <2>1, <2>2, CallsKeep
<1>2. ASSUME NEW t \in Ticket, Execute(t)
      PROVE  IOpening'
  BY <1>2, ExecuteKeeps
<1>3. ASSUME JournalGoesOn
      PROVE  IOpening'
  BY <1>3, JournalGoesOnKeeps
<1>4. ASSUME NEW t \in Ticket, NEW u \in {1, 2}, NEW r \in 1 .. MaxSamples + 1,
             CommitFact(t, u, r)
      PROVE  IOpening'
  BY <1>4, CommitFactKeeps
<1>5. ASSUME Prepare
      PROVE  IOpening'
  BY <1>5, PrepareKeeps
<1>6. ASSUME NEW p \in Reader,
             \/ \E w \in Sampled : Sample(p, w)
             \/ TakeLease(p)
             \/ \E e \in Files : LoadEntry(p, e.frontier)
             \/ Publish(p) \/ RemovePreparation(p) \/ CallFails(p)
      PROVE  IOpening'
  BY <1>6, SampleKeeps, TakeLeaseKeeps, LoadEntryKeeps, PublishKeeps,
     RemovePreparationKeeps, CallFailsKeeps
<1> QED
  BY <1>1, <1>2, <1>3, <1>4, <1>5, <1>6 DEF OpeningNext

----------------------------------------------------------------------------
(* The two ledgers together, and what is proved of them.                   *)

\* Each behaviour has one of the ledgers, and the other stays as it began.
ILedgers == ISettlement /\ IOpening

\* A step of either ledger leaves the other one alone.
LEMMA LedgersKeep ==
    ASSUME ILedgers, [LedgersNext]_ledgersVars
    PROVE  ILedgers'
<1>1. [Next]_vars /\ [OpeningNext]_openingVars
  BY DEF LedgersNext, SettlementLedgerNext, OpeningAllocationNext, ledgersVars
<1> QED
  BY <1>1, NextKeeps, OpeningNextKeeps DEF ILedgers

\* The invariant of each ledger holds for any numbers of deals and processes, any
\* windows and any bounds.
THEOREM LedgersInvariant == LedgersSpec => []ILedgers
<1>1. LedgersInit => ILedgers
  BY InitSettlement, InitKeepsOpening DEF LedgersInit, ILedgers
<1> QED
  BY <1>1, LedgersKeep, PTL DEF LedgersSpec

\* At every moment, whatever crashed or failed, a published frontier of a CLOSE is
\* backed by published facts and sums to the volume settled at its revision.
THEOREM PublishedFrontiersAreProofs == LedgersSpec => []FrontiersAreProofs
<1>1. ILedgers => FrontiersAreProofs
  BY ProvedFrontiers DEF ILedgers
<1> QED
  BY <1>1, LedgersInvariant, PTL

\* Where the reads are as wide as the anchor's window, facts say what the broker
\* executed; an allocation of an OPEN says it in any case.
THEOREM LedgersTellTheBroker == LedgersSpec => []UnitsAreTheBrokers
<1>1. ILedgers => UnitsAreTheBrokers
  BY BrokersFacts DEF ILedgers, IOpening, UnitsAreTheBrokers
<1> QED
  BY <1>1, LedgersInvariant, PTL

\* No crash, failed write or interleaving leaves a directory that a scan refuses or
\* that a replay or a publisher cannot go on with.
THEOREM LedgersStayUsable == LedgersSpec => []DirectoriesStayUsable
<1>1. ILedgers => DirectoriesStayUsable
  BY RecoverableManifests, UsableOpening DEF ILedgers, DirectoriesStayUsable
<1> QED
  BY <1>1, LedgersInvariant, PTL

\* A recovery that says so is complete, and no preparation is removed before what it
\* intended is in another file.
THEOREM PreparationsSurvive == LedgersSpec => []NothingPreparedIsLost
<1>1. ILedgers => NothingPreparedIsLost
  BY CompleteRecoveries DEF ILedgers, IOpening, NothingPreparedIsLost
<1> QED
  BY <1>1, LedgersInvariant, PTL

=============================================================================
