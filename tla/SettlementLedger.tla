--------------------------- MODULE SettlementLedger ---------------------------
(***************************************************************************)
(* The ledger of what each broker deal contributed to one managed CLOSE:   *)
(* the private producer that derives a deal's fact and the cumulative      *)
(* frontier from the observation graph, and the file store that publishes  *)
(* them under its lock, file by file, and replays what a crash or a failed *)
(* write left half published.                                              *)
(*                                                                         *)
(* The journal's record of the operation goes on meanwhile: the store      *)
(* reads it, and nothing ties the two together.  One operation, one        *)
(* account; a deal is its own moment in the history, so that a window is   *)
(* a set of deals.  Files that are malformed are not modelled: a rename    *)
(* publishes a whole file or nothing.                                      *)
(***************************************************************************)
EXTENDS Integers, FiniteSets, FiniteSetsExt

CONSTANTS
    Deal,        \* the deals that the close may be filled by
    Anchor,      \* the deal that the operation's descriptor is bound to
    Units,       \* what one deal may contribute, in logical units
    Window,      \* the windows in which the deals are read
    Process,     \* the processes that open the store
    Owner,       \* the one that sent the close and watches the broker
    MaxRevision, \* bound on the revisions of the journal's record
    MaxReads     \* bound on the reads of the history

Nobody == "nobody"

ASSUME LedgerAssumption ==
    /\ Anchor \in Deal /\ IsFiniteSet(Deal)
    /\ Units \subseteq Nat \ {0}
    /\ Window \subseteq SUBSET Deal
    /\ Owner \in Process /\ Nobody \notin Process
    /\ MaxRevision \in Nat /\ MaxReads \in Nat

VARIABLES
    filled,    \* what the broker executed: deal -> units, 0 before it
    journal,   \* the stored record: its revision and its settled volume
    graph,     \* the owner's observation graph: whether it is still there, its
               \* reads, the read that last showed each deal, the moments it
               \* has covered and the window of the last read
    pendings,  \* publication manifests: sets of [fact, frontier]
    facts,     \* fact files
    frontiers, \* frontier files
    proc,      \* what each process is doing: see Idle
    lock,      \* the process that holds the store's lock, or Nobody
    settledAt, \* history: the settled volume at each revision of the journal
    narrow     \* history: facts derived after a read narrower than the anchor's
vars == <<filled, journal, graph, pendings, facts, frontiers, proc, lock,
          settledAt, narrow>>

Nothing == [fact |-> 0, frontier |-> 0]

Total(S, f) == MapThenSumSet(LAMBDA d : f[d], S)
SumUnits(entries) == MapThenSumSet(LAMBDA e : e.units, entries)
Known(g) == {d \in Deal : g.evidence[d] # 0}
Fresh(g) == {d \in Deal : g.evidence[d] = g.reads /\ g.reads # 0}

\* A process that does nothing: its place in a commit or a recovery, the proof
\* that it commits, and of a recovery the manifests still to be published, those
\* tried in this pass, whether the pass got anywhere and what was found at first.
Idle == [pc |-> "idle", work |-> Nothing, recovering |-> FALSE, todo |-> {},
         tried |-> {}, progress |-> FALSE, asked |-> {}, complete |-> FALSE]

Init ==
    /\ filled = [d \in Deal |-> 0]
    /\ journal = [revision |-> 1, settled |-> 0]
    /\ graph = [alive |-> TRUE, reads |-> 0, evidence |-> [d \in Deal |-> 0],
                covered |-> {}, window |-> {}]
    /\ pendings = {} /\ facts = {} /\ frontiers = {}
    /\ proc = [p \in Process |-> Idle]
    /\ lock = Nobody
    /\ settledAt = [r \in {1} |-> 0]
    /\ narrow = {}

-----------------------------------------------------------------------------
(* Around the ledger: the broker, the graph and the journal. *)

\* The broker fills the close, or a part of it, by a deal.
Fill(d, u) ==
    /\ filled[d] = 0
    /\ filled' = [filled EXCEPT ![d] = u]
    /\ UNCHANGED <<journal, graph, pendings, facts, frontiers, proc, lock,
                   settledAt, narrow>>

\* A complete read of the history in a window: the deals in it carry the new
\* revision, the others keep what they had, and the window joins the coverage.
Read(w) ==
    /\ graph.alive /\ graph.reads < MaxReads
    /\ LET r == graph.reads + 1 IN
       graph' = [graph EXCEPT
                   !.reads = r,
                   !.evidence = [d \in Deal |-> IF d \in w /\ filled[d] # 0
                                                THEN r ELSE @[d]],
                   !.covered = @ \cup w,
                   !.window = w]
    /\ UNCHANGED <<filled, journal, pendings, facts, frontiers, proc, lock,
                   settledAt, narrow>>

\* The next revision of the record: another step of its life at the same
\* settled volume, or the volume of the deals that are known by now.
NextRecords ==
    {j \in [revision : {journal.revision + 1},
            settled : {journal.settled,
                       Total(IF graph.alive THEN Known(graph) ELSE Deal, filled)}] :
        j.revision <= MaxRevision /\ j.settled >= journal.settled}

Advance(j) ==
    /\ journal' = j
    /\ settledAt' = [r \in DOMAIN settledAt \cup {j.revision} |->
                       IF r = j.revision THEN j.settled ELSE settledAt[r]]
    /\ UNCHANGED <<filled, graph, pendings, facts, frontiers, proc, lock,
                   narrow>>

-----------------------------------------------------------------------------
(* The producer. *)

Entry(f) == [deal |-> f.deal, revision |-> f.revision, units |-> f.units]

\* Without the count of the new contributions.
MayDeriveOneOfMany(g, j, d, units, prior) ==
    /\ g.alive /\ g.reads > 0
    /\ j.settled > 0 /\ units \in 1 .. j.settled
    /\ g.covered = Deal
    /\ Anchor \in Known(g)
    /\ d \in Fresh(g) \ {f.deal : f \in prior}
    /\ \A f \in prior : f.revision <= j.revision /\ f.deal \in Fresh(g)

\* Every requirement of the producer on the operation, the graph, the deal and
\* the earlier facts: the window covered since the baseline, each deal it
\* counts read at the latest revision, and exactly one of them new.
MayDerive(g, j, d, units, prior) ==
    /\ g.alive /\ g.reads > 0
    /\ j.settled > 0 /\ units \in 1 .. j.settled
    /\ g.covered = Deal
    /\ Anchor \in Known(g)
    /\ d \in Fresh(g)
    /\ \A f \in prior : f.revision <= j.revision /\ f.deal \in Fresh(g)
    /\ Fresh(g) \ {f.deal : f \in prior} = {d}

FactOf(g, j, d, units) ==
    [deal |-> d, revision |-> j.revision, units |-> units, stamp |-> g.reads]

FrontierOf(j, fact, prior) ==
    [revision |-> j.revision, settled |-> j.settled, stamp |-> fact.stamp,
     entries |-> {Entry(f) : f \in prior \cup {fact}}]

\* No deal twice, and the sum is the cumulative volume.
ValidFrontier(r) ==
    /\ \A e1, e2 \in r.entries : e1.deal = e2.deal => e1 = e2
    /\ \A e \in r.entries : e.revision <= r.revision
    /\ SumUnits(r.entries) = r.settled

\* What a scan returns: the published facts, and those of the manifests alone.
Scanned == facts \cup {w.fact : w \in pendings}

\* The owner asks for one deal, with its own copy of the record (the stored one
\* or the one that it is about to store), units of its own and earlier facts
\* that it chose among those of a scan; then it sets out to commit the proof.
Derive(j, d, units, prior) ==
    /\ proc[Owner].pc = "idle"
    /\ MayDerive(graph, j, d, units, prior)
    /\ LET fact == FactOf(graph, j, d, units)
           frontier == FrontierOf(j, fact, prior) IN
       /\ ValidFrontier(frontier)
       /\ proc' = [proc EXCEPT ![Owner] =
                     [Idle EXCEPT !.pc = "commit",
                                  !.work = [fact |-> fact, frontier |-> frontier]]]
       /\ narrow' = IF graph.window = Deal THEN narrow ELSE narrow \cup {fact}
    /\ UNCHANGED <<filled, journal, graph, pendings, facts, frontiers, lock,
                   settledAt>>

-----------------------------------------------------------------------------
(* The store: one commit under the lock. *)

FactOn(d) == {f \in facts : f.deal = d}
FrontierAt(r) == {x \in frontiers : x.revision = r}
PendingFor(w) == {x \in pendings : /\ x.frontier.revision = w.frontier.revision
                                   /\ x.fact.deal = w.fact.deal}

\* A file of the same name with another content.
Conflicts(w) ==
    \/ \E f \in FactOn(w.fact.deal) : f # w.fact
    \/ \E x \in FrontierAt(w.frontier.revision) : x # w.frontier
    \/ \E x \in PendingFor(w) : x # w

OtherEntries(w) == {e \in w.frontier.entries : e.deal # w.fact.deal}

\* By the volume alone.
AuthorizedAtAnyRevision(j, w) == j.settled # 0 /\ j.settled = w.frontier.settled

\* The journal's record as it stands authorizes this frontier and no other.
Authorized(j, w) ==
    /\ j.revision = w.frontier.revision
    /\ j.settled # 0
    /\ j.settled = w.frontier.settled

\* The first requirement that fails, in the order of the code; "publish" when
\* there is something to write.
Verdict(w) ==
    IF Conflicts(w) THEN "conflict"
    ELSE IF \E e \in OtherEntries(w) : FactOn(e.deal) = {} THEN "missing_fact"
    ELSE IF \E e \in OtherEntries(w) : \E f \in FactOn(e.deal) : Entry(f) # e
         THEN "invalid_record"
    ELSE IF w.fact \in facts /\ w.frontier \in frontiers
         THEN "already_committed"
    ELSE IF Authorized(journal, w) THEN "publish"
    ELSE "invalid_operation_record"

Done == {"committed", "already_committed"}

\* What the caller does with the answer of a commit: a direct caller takes it,
\* a recovery goes on with the next manifest unless the answer is final.
Returned(s, answer) ==
    IF ~ s.recovering THEN Idle
    ELSE IF answer \in Done
         THEN [s EXCEPT !.pc = "recover", !.work = Nothing, !.todo = @ \ {s.work},
                        !.progress = TRUE]
    ELSE IF answer = "missing_fact"
         THEN [s EXCEPT !.pc = "recover", !.work = Nothing, !.tried = @ \cup {s.work}]
    ELSE Idle

Admit(p) ==
    /\ proc[p].pc = "commit" /\ lock = Nobody
    /\ LET verdict == Verdict(proc[p].work) IN
       IF verdict = "publish"
       THEN lock' = p /\ proc' = [proc EXCEPT ![p].pc = "manifest"]
       ELSE lock' = lock /\ proc' = [proc EXCEPT ![p] = Returned(@, verdict)]
    /\ UNCHANGED <<filled, journal, graph, pendings, facts, frontiers,
                   settledAt, narrow>>

\* Each file is written unless it was there when the lock was taken.
PublishManifest(p) ==
    /\ proc[p].pc = "manifest"
    /\ pendings' = IF PendingFor(proc[p].work) = {}
                   THEN pendings \cup {proc[p].work} ELSE pendings
    /\ proc' = [proc EXCEPT ![p].pc = "fact"]
    /\ UNCHANGED <<filled, journal, graph, facts, frontiers, lock, settledAt,
                   narrow>>

PublishFact(p) ==
    /\ proc[p].pc = "fact"
    /\ facts' = IF FactOn(proc[p].work.fact.deal) = {}
                THEN facts \cup {proc[p].work.fact} ELSE facts
    /\ proc' = [proc EXCEPT ![p].pc = "frontier"]
    /\ UNCHANGED <<filled, journal, graph, pendings, frontiers, lock, settledAt,
                   narrow>>

PublishFrontier(p) ==
    /\ proc[p].pc = "frontier"
    /\ frontiers' = IF FrontierAt(proc[p].work.frontier.revision) = {}
                    THEN frontiers \cup {proc[p].work.frontier} ELSE frontiers
    /\ proc' = [proc EXCEPT ![p] = Returned(@, "committed")]
    /\ lock' = Nobody
    /\ UNCHANGED <<filled, journal, graph, pendings, facts, settledAt, narrow>>

\* A write or a rename fails: what was published before it stays.
WriteFails(p) ==
    /\ proc[p].pc \in {"manifest", "fact", "frontier"}
    /\ proc' = [proc EXCEPT ![p] = Returned(@, "io_error")]
    /\ lock' = Nobody
    /\ UNCHANGED <<filled, journal, graph, pendings, facts, frontiers,
                   settledAt, narrow>>

-----------------------------------------------------------------------------
(* Recovery of what was half published. *)

\* The manifests are collected under the lock, and the lock is given back.
Collect(p) ==
    /\ proc[p].pc = "idle" /\ lock = Nobody
    /\ proc' = [proc EXCEPT ![p] =
                  IF pendings = {} THEN Idle
                  ELSE [Idle EXCEPT !.pc = "recover", !.recovering = TRUE,
                                    !.todo = pendings, !.asked = pendings]]
    /\ UNCHANGED <<filled, journal, graph, pendings, facts, frontiers, lock,
                   settledAt, narrow>>

\* The next manifest of the pass.
Replay(p, w) ==
    /\ proc[p].pc = "recover"
    /\ w \in proc[p].todo \ proc[p].tried
    /\ proc' = [proc EXCEPT ![p] = [@ EXCEPT !.pc = "commit", !.work = w]]
    /\ UNCHANGED <<filled, journal, graph, pendings, facts, frontiers, lock,
                   settledAt, narrow>>

\* The end of a pass: success when nothing is left, another pass if this one
\* got anywhere, else the answer that a fact is missing.
EndPass(p) ==
    /\ proc[p].pc = "recover"
    /\ proc[p].todo \subseteq proc[p].tried
    /\ proc' = [proc EXCEPT ![p] =
                  IF @.todo = {}
                  THEN [Idle EXCEPT !.asked = proc[p].asked, !.complete = TRUE]
                  ELSE IF @.progress
                       THEN [@ EXCEPT !.tried = {}, !.progress = FALSE]
                  ELSE Idle]
    /\ UNCHANGED <<filled, journal, graph, pendings, facts, frontiers, lock,
                   settledAt, narrow>>

\* A process ends where it stands, and is started again.  The system frees its
\* lock; the graph of the owner, and with it the baseline's instance, is gone.
Crash(p) ==
    /\ proc' = [proc EXCEPT ![p] = Idle]
    /\ lock' = IF lock = p THEN Nobody ELSE lock
    /\ graph' = IF p = Owner THEN [graph EXCEPT !.alive = FALSE] ELSE graph
    /\ UNCHANGED <<filled, journal, pendings, facts, frontiers, settledAt,
                   narrow>>

-----------------------------------------------------------------------------
Next ==
    \/ \E d \in Deal, u \in Units : Fill(d, u)
    \/ \E w \in Window : Read(w)
    \/ \E j \in NextRecords : Advance(j)
    \/ \E j \in NextRecords \cup {journal} :
         \E d \in Deal, u \in 1 .. j.settled, prior \in SUBSET Scanned :
            Derive(j, d, u, prior)
    \/ \E p \in Process :
         \/ Admit(p) \/ PublishManifest(p) \/ PublishFact(p)
         \/ PublishFrontier(p) \/ WriteFails(p)
         \/ Collect(p) \/ EndPass(p) \/ Crash(p)
         \/ \E w \in pendings : Replay(p, w)

Spec == Init /\ [][Next]_vars

-----------------------------------------------------------------------------
(* What the ledger promises. *)

\* What a scan of the directory, or the load of a frontier, tests of the files
\* that are published.
EntriesAreBacked(xs, fs) ==
    \A x \in xs : \A e \in x.entries : \E f \in fs : Entry(f) = e

\* A scan also compares each manifest with the files that carry its names.
ScanCompletes ==
    /\ EntriesAreBacked(frontiers, facts)
    /\ \A w \in pendings :
         /\ FactOn(w.fact.deal) \subseteq {w.fact}
         /\ FrontierAt(w.frontier.revision) \subseteq {w.frontier}

\* The frontier is published last: at no moment, whatever crashed or failed,
\* does one name a fact that is not there as it says.
FrontiersAreBacked == EntriesAreBacked(frontiers, facts)

\* The record is the owner's copy, is compared before the files are written
\* and moves on meanwhile: still each frontier decomposes the volume settled at its own revision.
FrontiersTellTheJournal ==
    \A x \in frontiers :
        /\ x.revision \in DOMAIN settledAt
        /\ SumUnits(x.entries) = settledAt[x.revision]

\* ADR-0032: a published frontier is a whole proof of one settled volume.
FrontiersAreProofs == FrontiersAreBacked /\ FrontiersTellTheJournal

\* Where each read was as wide as the anchor's window, the units that the
\* owner claimed for a deal are those the broker executed by it.
FactsAreTheBrokers ==
    narrow = {} => \A f \in facts : f.units = filled[f.deal]

\* With such reads, a manifest whose record has not moved on can be completed: no scan refuses
\* the directory because of it, and a replay is not refused.
CurrentManifestsAreRecoverable ==
    /\ narrow = {}
    /\ \A w \in pendings :
         w.frontier \in frontiers \/ w.frontier.revision = journal.revision
    => /\ ScanCompletes
       /\ \A w \in pendings :
            Verdict(w) \in {"publish", "already_committed", "missing_fact"}

\* A recovery that says it is complete has published each manifest it found.
RecoveryIsComplete ==
    \A p \in Process :
        proc[p].complete =>
            \A w \in proc[p].asked : w.fact \in facts /\ w.frontier \in frontiers

\* A frontier refers to every deal that contributed to its cumulative volume.
FrontierRefersToEveryDeal ==
    \A x \in frontiers :
        Total({e.deal : e \in x.entries}, filled) = x.settled

=============================================================================
