--------------------------- MODULE OpeningAllocation ---------------------------
(***************************************************************************)
(* The directory of what one managed OPEN was filled by: the facts of its  *)
(* deals, the verifier that compares them with the journal and with the    *)
(* observation graph of the process that asks, and the publisher that      *)
(* writes each cumulative frontier first as a preparation and then as an   *)
(* allocation, under the lease of the account.                             *)
(*                                                                         *)
(* One operation, whose result is bound to the deal Bound; its baseline is *)
(* the first read of FirstReader's graph.  A deal is its own moment in the *)
(* history, so that a window is a set of deals, and each is of one unit.   *)
(* The processes hold the lease in turns; one that was restarted is        *)
(* another process, with a graph of its own.  A call keeps the lease to    *)
(* its end: only the failure of its second write divides it.               *)
(***************************************************************************)
EXTENDS Integers, FiniteSets, FiniteSetsExt, Sequences

CONSTANTS
    Ticket,      \* the deals that the order may be filled by
    Bound,       \* the deal that the result of the OPEN named
    Misread,     \* the deals whose fact a caller may get wrong
    Sampled,     \* the windows in which the history is read
    Reader,      \* the processes
    FirstReader, \* the one that sent the order
    MaxSamples,  \* bound on the reads of one graph, after the baseline
    MaxLoads     \* bound on the calls of publish

ASSUME OpeningAssumption ==
    /\ IsFiniteSet(Ticket) /\ Bound \in Ticket
    /\ Misread \subseteq Ticket
    /\ Sampled \subseteq SUBSET Ticket
    /\ FirstReader \in Reader
    /\ MaxSamples \in Nat /\ MaxLoads \in Nat

VARIABLES
    executed,  \* the deals that the broker made
    persisted, \* the journal's record is still in result_persisted
    samples,   \* the graph of each process: its reads, [window, shown]
    openFacts, \* fact files: [deal, units, graph, revision]
    preps,     \* prep files: [frontier, refs], the refs being whole facts
    allocs,    \* alloc files: the same
    holder,    \* the process that holds the lease
    call,      \* the call of publish that each process is in: [pc, entry]
    loads,     \* calls of publish so far
    returned,  \* history: a process was given the lease again
    pastHolders, \* history: those that held it
    intended,  \* history: the frontiers that were ever prepared
    newest     \* history: the frontier that was published last
openingVars == <<executed, persisted, samples, openFacts, preps, allocs, holder,
                 call, loads, returned, pastHolders, intended, newest>>

NoEntry == [frontier |-> 0, refs |-> {}]
NoCall == [pc |-> "idle", entry |-> NoEntry]

InitOpening ==
    /\ executed = {} /\ persisted = TRUE
    /\ samples = [p \in Reader |->
                    IF p = FirstReader THEN <<[window |-> Ticket, shown |-> {}]>>
                    ELSE <<>>]
    /\ openFacts = {} /\ preps = {} /\ allocs = {}
    /\ holder = FirstReader
    /\ call = [p \in Reader |-> NoCall] /\ loads = 0
    /\ returned = FALSE /\ pastHolders = {FirstReader}
    /\ intended = {} /\ newest = {}

Files == preps \cup allocs

-----------------------------------------------------------------------------
(* Around the directory. *)

Execute(t) ==
    /\ t \notin executed
    /\ executed' = executed \cup {t}
    /\ UNCHANGED <<persisted, samples, openFacts, preps, allocs, holder, call,
                   loads, returned, pastHolders, intended, newest>>

\* The lifecycle of the operation goes past result_persisted.
JournalGoesOn ==
    /\ persisted /\ persisted' = FALSE
    /\ UNCHANGED <<executed, samples, openFacts, preps, allocs, holder, call,
                   loads, returned, pastHolders, intended, newest>>

\* A complete read of the history in a window.
Sample(p, w) ==
    /\ Len(samples[p]) < IF p = FirstReader THEN MaxSamples + 1 ELSE MaxSamples
    /\ samples' = [samples EXCEPT ![p] =
                     Append(@, [window |-> w, shown |-> w \cap executed])]
    /\ UNCHANGED <<executed, persisted, openFacts, preps, allocs, holder, call,
                   loads, returned, pastHolders, intended, newest>>

\* The lease is given up, or its holder ends, and another process takes it.
TakeLease(p) ==
    /\ p # holder /\ call[holder].pc # "remove"
    /\ holder' = p
    /\ returned' = (returned \/ p \in pastHolders)
    /\ pastHolders' = pastHolders \cup {p}
    /\ UNCHANGED <<executed, persisted, samples, openFacts, preps, allocs, call,
                   loads, intended, newest>>

\* What a graph tells of a deal: the revisions that showed it, and the newest
\* one that covered its time.
Showing(p, t) == {r \in DOMAIN samples[p] : t \in samples[p][r].shown}
Covering(p, t) == {r \in DOMAIN samples[p] : t \in samples[p][r].window}
Seen(p) == {t \in Ticket : Showing(p, t) # {}}
FirstEvidence(p, t) == Min(Showing(p, t))
Evidence(p, t) == Max(Showing(p, t))
CoveredExactly(p, r) == samples[p][r].window = Ticket

-----------------------------------------------------------------------------
(* The store of facts: one immutable file for each deal. *)

\* A fact is what the caller claims: the store knows nothing of its source.
CommitFact(t, units, r) ==
    /\ call[holder].pc # "remove"
    /\ t \in Seen(holder) /\ r \in DOMAIN samples[holder]
    /\ t \notin Misread => units = 1 /\ r = FirstEvidence(holder, t)
    /\ \A f \in openFacts : f.deal # t
    /\ openFacts' = openFacts \cup
         {[deal |-> t, units |-> units, graph |-> holder, revision |-> r]}
    /\ UNCHANGED <<executed, persisted, samples, preps, allocs, holder, call,
                   loads, returned, pastHolders, intended, newest>>

-----------------------------------------------------------------------------
(* The verifier. *)

BaselineRevision == 1

\* The deal is in the newest complete sample that covers its time, one of the
\* declared window, and it came after the baseline.
DealIsProved(p, t) ==
    /\ Evidence(p, t) = Max(Covering(p, t))
    /\ CoveredExactly(p, Evidence(p, t))
    /\ p = FirstReader => FirstEvidence(p, t) > BaselineRevision

\* The receipt is of the graph of the baseline, or of this graph and its first
\* complete sight of the deal.
ReceiptIsProved(p, f) ==
    /\ f.graph \in {FirstReader, p}
    /\ f.graph = FirstReader => f.revision > BaselineRevision
    /\ f.graph = p =>
         f.revision = FirstEvidence(p, f.deal) /\ CoveredExactly(p, f.revision)

FactIsProved(p, f) ==
    /\ f.deal \in Seen(p)
    /\ ReceiptIsProved(p, f)
    /\ f.units = 1

\* The proof, when there is one, is of all the facts: one for each deal that
\* the graph knows of.
Verified(p) ==
    /\ persisted
    /\ Bound \in Seen(p)
    /\ \A t \in Seen(p) : DealIsProved(p, t)
    /\ \A f \in openFacts : FactIsProved(p, f)
    /\ {f.deal : f \in openFacts} = Seen(p)

-----------------------------------------------------------------------------
(* Entries. *)

LastRevision(refs) == Max({f.revision : f \in refs})

\* The durable sources of an entry: its facts are stored, its discriminator is
\* not below their receipts, and no other fact of a graph it refers to was
\* admitted by then.
SourcesHold(e) ==
    /\ persisted
    /\ e.refs \subseteq openFacts
    /\ LastRevision(e.refs) <= e.frontier
    /\ \A f \in openFacts \ e.refs, g \in e.refs :
         f.graph = g.graph => f.revision > g.revision

OpeningScanCompletes ==
    /\ \A e \in Files : SourcesHold(e)
    /\ \A e1, e2 \in Files : e1.refs = e2.refs => e1.frontier = e2.frontier

Equivalents(files, e) == {x \in files : x.refs = e.refs}
At(files, k) == {x \in files : x.frontier = k}

\* The first free discriminator from k on.
FreeFrom(k) ==
    Min({n \in k .. k + Cardinality(Files) : At(Files, n) = {}})

\* The entry of all the facts, at the last of their receipts.
BuiltEntry == [frontier |-> LastRevision(openFacts), refs |-> openFacts]

\* The same under the discriminator of its equivalent, or under a free one.
Candidate ==
    LET same == Equivalents(Files, BuiltEntry)
    IN [BuiltEntry EXCEPT !.frontier =
          IF same # {} THEN Min({x.frontier : x \in same}) ELSE FreeFrom(@)]

\* The successor of a preparation that later fills have extended.
Successor(e) ==
    [frontier |-> FreeFrom(Max({LastRevision(openFacts), e.frontier + 1})),
     refs |-> openFacts]

-----------------------------------------------------------------------------
(* The publisher. *)

\* The store writes a preparation unless an equivalent file is there.
StoredPreparations(e) ==
    IF Equivalents(Files, e) # {} THEN preps ELSE preps \cup {e}

\* Verify, build, scan, choose the discriminator and store the preparation.
Prepare ==
    /\ call[holder].pc # "remove"
    /\ Verified(holder) /\ OpeningScanCompletes
    /\ preps' = StoredPreparations(Candidate)
    /\ intended' = intended \cup {Candidate.refs}
    /\ UNCHANGED <<executed, persisted, samples, openFacts, allocs, holder, call,
                   loads, returned, pastHolders, newest>>

LoadedPreparations(k) == At(preps, k)
LoadedAllocations(k) == At(allocs, k)

\* publish loads the preparation of the key, or else the allocation, before it
\* asks for the lease.
LoadEntry(p, k) ==
    /\ call[p].pc = "idle" /\ loads < MaxLoads
    /\ \E e \in IF LoadedPreparations(k) # {} THEN LoadedPreparations(k)
                ELSE LoadedAllocations(k) :
         call' = [call EXCEPT ![p] = [pc |-> "loaded", entry |-> e]]
    /\ loads' = loads + 1
    /\ UNCHANGED <<executed, persisted, samples, openFacts, preps, allocs, holder,
                   returned, pastHolders, intended, newest>>

\* A proof that extends the entry is as good as an exact one.
CoveredByTheProof(e) == e.refs \subseteq openFacts

\* The proof, which is of every fact, is of this entry and no larger.
ExactlyProved(e) == e.refs = openFacts

\* What publish decides of the entry it was called with, in the order of the
\* code.  "retire": an allocation says it already, and what is left of the
\* preparation goes.
PublishVerdict(p, e) ==
    LET prep == At(preps, e.frontier)
        alloc == At(allocs, e.frontier)
        equivalents == Equivalents(Files, e)
        names == {x.frontier : x \in equivalents}
        retired(holds) == IF holds THEN "retire" ELSE "invalid_source"
    IN IF prep \ {e} # {} THEN "conflict"
       ELSE IF ~ Verified(p) THEN "invalid_source"
       ELSE IF Cardinality(names) > 1 THEN "invalid_record"
       ELSE IF names \ {e.frontier} # {}
            THEN IF equivalents \cap allocs = {} THEN "conflict"
                 ELSE retired(ExactlyProved(e)
                              /\ \A x \in equivalents : SourcesHold(x))
       ELSE IF alloc \ {e} # {} THEN "conflict"
       ELSE IF alloc # {} THEN retired(SourcesHold(e))
       ELSE IF prep = {} THEN "missing_source"
       ELSE IF ~ SourcesHold(e) THEN "invalid_source"
       ELSE IF ExactlyProved(e) THEN "publish" ELSE "supersede"

\* The first write of the call.
Publish(p) ==
    /\ call[p].pc = "loaded" /\ holder = p
    /\ LET e == call[p].entry
           verdict == PublishVerdict(p, e)
       IN /\ allocs' = IF verdict = "publish" THEN allocs \cup {e} ELSE allocs
          /\ newest' = IF verdict = "publish" THEN e.refs ELSE newest
          /\ preps' = IF verdict = "supersede"
                      THEN StoredPreparations(Successor(e)) ELSE preps
          /\ call' = [call EXCEPT ![p] =
                        IF verdict \in {"publish", "supersede", "retire"}
                        THEN [pc |-> "remove", entry |-> e] ELSE NoCall]
    /\ UNCHANGED <<executed, persisted, samples, openFacts, holder, loads,
                   returned, pastHolders, intended>>

\* The second: the preparation is removed.
RemovePreparation(p) ==
    /\ call[p].pc = "remove"
    /\ preps' = preps \ At(preps, call[p].entry.frontier)
    /\ call' = [call EXCEPT ![p] = NoCall]
    /\ UNCHANGED <<executed, persisted, samples, openFacts, allocs, holder, loads,
                   returned, pastHolders, intended, newest>>

\* The first write fails, the lease is lost, the removal fails or the process
\* ends: what was written stays.
CallFails(p) ==
    /\ call[p].pc # "idle"
    /\ call' = [call EXCEPT ![p] = NoCall]
    /\ UNCHANGED <<executed, persisted, samples, openFacts, preps, allocs, holder,
                   loads, returned, pastHolders, intended, newest>>

-----------------------------------------------------------------------------
OpeningNext ==
    \/ \E t \in Ticket : Execute(t)
    \/ JournalGoesOn
    \/ \E t \in Ticket, u \in {1, 2}, r \in 1 .. MaxSamples + 1 : CommitFact(t, u, r)
    \/ Prepare
    \/ \E p \in Reader :
         \/ \E w \in Sampled : Sample(p, w)
         \/ TakeLease(p)
         \/ \E e \in Files : LoadEntry(p, e.frontier)
         \/ Publish(p) \/ RemovePreparation(p) \/ CallFails(p)

-----------------------------------------------------------------------------
(* What the directory promises. *)

\* Whatever units and receipts the facts claim, an allocation refers only to
\* deals that the broker made, at the volume it made them.
AllocationsAreTheBrokers ==
    \A a \in allocs : \A f \in a.refs : f.deal \in executed /\ f.units = 1

\* "never published as a smaller frontier" (ADR-0043): though preparations of
\* several frontiers stand side by side and their calls are interrupted, no
\* allocation has a deal that the last one published has not.
FrontiersOnlyGrow == \A a \in allocs : a.refs \subseteq newest

\* A preparation goes only when its deals are in another file: no crash and no
\* failed write loses what was once prepared.
IntentIsKept == \A s \in intended : \E e \in Files : s \subseteq e.refs

\* Each fact is the first complete sight of its deal, at the broker's volume.
FactsAreHonest ==
    \A f \in openFacts :
        /\ f.units = 1
        /\ f.revision = FirstEvidence(f.graph, f.deal)
        /\ CoveredExactly(f.graph, f.revision)

\* While the record is the one prepared from, the facts are honest and no
\* process gets the lease back: a scan is never refused, and a process whose
\* graph proves the facts gets each preparation published or retired.
OpeningStaysUsable ==
    persisted /\ FactsAreHonest /\ ~ returned =>
        /\ OpeningScanCompletes
        /\ Verified(holder) =>
             \A e \in preps :
                PublishVerdict(holder, e) \in {"publish", "supersede", "retire"}

=============================================================================
