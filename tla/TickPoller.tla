------------------------------ MODULE TickPoller ------------------------------
(***************************************************************************)
(* One source of realtime_poller: an epoch reads forward from the cursor   *)
(* up to the clock's horizon, reads the overlap window again, and then     *)
(* publishes what is new and moves the committed cursor.  The terminal and *)
(* the clock go on between any two reads.                                  *)
(***************************************************************************)
EXTENDS TickPages

CONSTANTS
    Budget,     \* ticks that one phase of an epoch may hold
    MinOverlap, \* the overlap window, in time
    MaxOverlap,
    Arriving,   \* payloads of the ticks that a source gets
    Statuses,   \* how an answer with rows may end: see Status
    Refusals    \* whether one without may be transient

\* "unknown" is a page whose status could not be read: neither clean nor partial.
Status == {"clean", "transient", "unknown"}

ASSUME PollerAssumption ==
    /\ Budget \in Nat \ {0}
    /\ MinOverlap \in Nat \ {0} /\ MaxOverlap \in Nat
    /\ Arriving \subseteq Payload
    /\ Statuses \subseteq Status /\ "clean" \in Statuses
    /\ Refusals \subseteq BOOLEAN

VARIABLES
    now,       \* the clock
    source,    \* what the poller keeps of the source: see NewSource
    epoch,     \* the epoch under way: see NoEpoch
    published, \* history: the ticks of the archive that were put into the ring
    owed       \* history: ticks that came ahead of the reading and were not
pollerVars == <<now, source, epoch, published, owed>>

NoCursor == [at |-> None, seen |-> NoTicks]

NewSource(t) ==
    [initial |-> t, committed |-> NoCursor, observed |-> NoCursor,
     recover |-> FALSE, overlap |-> MinOverlap, snapshot |-> NoTicks,
     rewrites |-> FALSE, status |-> "starting"]

NoEpoch ==
    [phase |-> "idle", horizon |-> 0, start |-> None, overlap |-> MinOverlap,
     old |-> NoTicks, at |-> 0, seen |-> NoTicks, forward |-> NoTicks,
     complete |-> FALSE, tail |-> 0, tailSeen |-> NoTicks,
     reconcile |-> NoTicks, reconciled |-> FALSE, ok |-> TRUE,
     partial |-> FALSE, upstream |-> FALSE, exhausted |-> FALSE]

InitPoller ==
    /\ now = 1
    /\ source = NewSource(1)
    /\ epoch = NoEpoch
    /\ published = NoTicks
    /\ owed = NoTicks

-----------------------------------------------------------------------------
(* The world. *)

ClockTicks ==
    /\ now < MaxTime
    /\ now' = now + 1
    /\ UNCHANGED <<archive, source, epoch, published, owed>>

\* How far the forward reading has come.
Position == Max({source.initial, source.committed.at, source.observed.at}
                \cup IF epoch.phase = "idle" THEN {} ELSE {epoch.at})

TickArrives(k) ==
    /\ MayShow /\ k.time <= now
    /\ Shown(k)
    /\ owed' = IF k.time >= Position THEN owed (+) SetToBag({k}) ELSE owed
    /\ UNCHANGED <<now, source, epoch, published>>

-----------------------------------------------------------------------------
(* The forward pass. *)

Cursor == IF source.observed.at # None /\ ~ source.recover
          THEN source.observed ELSE source.committed

EpochBegins ==
    /\ epoch.phase = "idle" /\ source.status # "failed"
    /\ epoch' = [NoEpoch EXCEPT
                   !.phase = "forward", !.horizon = now, !.start = Cursor.at,
                   !.at = IF Cursor.at = None THEN source.initial ELSE Cursor.at,
                   !.seen = Cursor.seen,
                   !.overlap = source.overlap, !.old = source.snapshot]
    /\ UNCHANGED <<archive, now, source, published, owed>>

WindowFrom(e, t) == Max({source.initial, t - e.overlap})

ToTail(e) == [e EXCEPT !.phase = "tail", !.tail = WindowFrom(e, e.horizon)]

\* What the status of an answer with rows says.
Marked(e, status) ==
    [e EXCEPT !.partial = @ \/ status = "transient",
              !.upstream = @ \/ status # "clean"]

\* The boundary is taken from the latest page alone.
Forwarded(e, page, count) ==
    LET rows == Between(page, e.at, e.horizon)
        new == Unseen(page, e.at, e.seen, e.horizon)
        last == IF rows = NoTicks THEN e.at - 1 ELSE LastTime(rows)
        after == page # NoTicks /\ LastTime(page) > e.horizon
        read == [e EXCEPT !.forward = @ (+) new]
        next == [read EXCEPT !.at = last,
                             !.seen = BoundaryAfter(e.seen, e.at, last, new)]
    IN  IF page = NoTicks THEN ToTail([e EXCEPT !.complete = TRUE])
        ELSE IF last < e.at THEN ToTail([read EXCEPT !.complete = after])
        ELSE IF last = e.at /\ At(new, last) = NoTicks
        THEN ToTail([read EXCEPT !.complete = TRUE])
        ELSE IF after \/ Size(page) < count
        THEN ToTail([next EXCEPT !.complete = TRUE])
        ELSE next

\* The budget ends a phase in the middle of a page, the cursor before it.
Exhausts(e, got, new) == Size(got) + Size(new) >= Budget

ReadForward(status) ==
    LET count == PageSize + Size(epoch.seen) IN
    \E page \in Pages(epoch.at, count) :
        LET e == Marked(epoch, status)
            new == Unseen(page, e.at, e.seen, e.horizon)
        IN  /\ epoch.phase = "forward"
            /\ IF Exhausts(e, e.forward, new)
               THEN \E cut \in First(new, Budget - Size(e.forward)) :
                      epoch' = ToTail([e EXCEPT !.forward = @ (+) cut,
                                                !.partial = TRUE,
                                                !.exhausted = TRUE])
               ELSE epoch' = Forwarded(e, page, count)
            /\ UNCHANGED <<archive, now, source, published, owed>>

\* No rows: a transient refusal, or another one.
Refused(e, transient) ==
    [e EXCEPT !.ok = FALSE, !.partial = transient, !.upstream = @ \/ transient]

ForwardFails(transient) ==
    /\ epoch.phase = "forward"
    /\ epoch' = ToTail(Refused(epoch, transient))
    /\ UNCHANGED <<archive, now, source, published, owed>>

-----------------------------------------------------------------------------
(* The overlap window. *)

ToCommit(e) == [e EXCEPT !.phase = "commit"]

Reconciled(e, page, count) ==
    LET new == Unseen(page, e.tail, e.tailSeen, e.horizon)
        last == LastTime(page)
        read == [e EXCEPT !.reconcile = @ (+) new]
        next == [read EXCEPT
                   !.tail = last,
                   !.tailSeen = BoundaryAfter(e.tailSeen, e.tail, last, new)]
    IN  IF page = NoTicks THEN ToCommit([e EXCEPT !.reconciled = TRUE])
        ELSE IF last < e.tail
        THEN ToCommit([read EXCEPT !.partial = TRUE, !.upstream = TRUE])
        ELSE IF last = e.tail /\ At(new, last) = NoTicks
        THEN ToCommit([read EXCEPT !.reconciled = TRUE])
        ELSE IF Size(page) < count \/ last > e.horizon
        THEN ToCommit([next EXCEPT !.reconciled = TRUE])
        ELSE next

ReadTail(status) ==
    LET count == PageSize + Size(epoch.tailSeen) IN
    \E page \in Pages(epoch.tail, count) :
        LET e == Marked(epoch, status)
            new == Unseen(page, e.tail, e.tailSeen, e.horizon)
        IN  /\ epoch.phase = "tail"
            /\ IF Exhausts(e, e.reconcile, new)
               THEN \E cut \in First(new, Budget - Size(e.reconcile)) :
                      epoch' = ToCommit([e EXCEPT !.reconcile = @ (+) cut,
                                                  !.partial = TRUE,
                                                  !.exhausted = TRUE])
               ELSE epoch' = Reconciled(e, page, count)
            /\ UNCHANGED <<archive, now, source, published, owed>>

TailFails(transient) ==
    /\ epoch.phase = "tail"
    /\ epoch' = ToCommit(Refused(epoch, transient))
    /\ UNCHANGED <<archive, now, source, published, owed>>

\* The module or the layout of an answer cannot be used.
ReadIsFatal ==
    /\ epoch.phase \in {"forward", "tail"}
    /\ epoch' = NoEpoch
    /\ source' = [source EXCEPT !.status = "failed"]
    /\ UNCHANGED <<archive, now, published, owed>>

-----------------------------------------------------------------------------
(* The commit of an epoch, under the mutex. *)

\* Only clean results of the forward pass that were published move the commit.
NeedsReplay(e) == e.upstream \/ (~ e.complete /\ ~ e.exhausted)

IsPartial(e) == e.partial \/ ~ e.ok \/ ~ e.complete

Maximum(b, c) == b (+) (c (-) b)
Meet(b, c) == b (-) (b (-) c)

\* What was delivered of the window: the last snapshot of it and the committed
\* boundary, from the window's start by the clock of the commit.
Previous(e) ==
    LET from == WindowFrom(e, now) IN
    Between(Maximum(e.old, source.committed.seen), from, MaxTime)

\* Forward records that an earlier, unpublished epoch saw are taken as known.
Late(e) == (e.reconcile (-) Previous(e)) (-) e.forward

Fresh(e) == e.forward (+) Late(e)

\* Nothing of an epoch that is to be replayed.
Publishes(e) == IF NeedsReplay(e) THEN NoTicks ELSE Fresh(e)

Rewrites(e) ==
    \/ e.start # None /\ \E t \in Times(Late(e)) : t <= e.start
    \/ e.reconciled /\ Previous(e) (-) e.reconcile # NoTicks

\* The window grows when something went wrong, and shrinks when nothing did.
NextOverlap(e, fresh, snapshot, reconnected) ==
    LET latest == IF snapshot # NoTicks THEN snapshot
                  ELSE IF Late(e) # NoTicks THEN Late(e) ELSE fresh
        grows == \/ IsPartial(e) \/ reconnected \/ Rewrites(e)
                 \/ now - LastTime(latest) > source.overlap
    IN  IF fresh = NoTicks THEN source.overlap
        ELSE IF grows THEN Min({MaxOverlap, source.overlap * 2})
        ELSE IF snapshot # NoTicks /\ source.overlap > MinOverlap
        THEN Max({MinOverlap, source.overlap \div 2})
        ELSE source.overlap

\* The cursor that the epoch reached; none if nothing was ever read.
Reached(e, cursor) ==
    IF e.seen = NoTicks THEN cursor ELSE [at |-> e.at, seen |-> e.seen]

\* A partial epoch, too, moves the commit.
CommittedAlways(e) == Reached(e, source.committed)

Committed(e) ==
    IF IsPartial(e) THEN source.committed ELSE Reached(e, source.committed)

\* Nothing read: only the status and the time of the next poll.
EpochIsEmpty ==
    /\ epoch.phase = "commit"
    /\ ~ epoch.ok /\ epoch.forward = NoTicks /\ epoch.reconcile = NoTicks
    /\ epoch' = NoEpoch
    /\ source' = [source EXCEPT !.status = "reconnecting"]
    /\ UNCHANGED <<archive, now, published, owed>>

EpochCommits(reconnected) ==
    LET e == epoch
        fresh == Publishes(e)
        snapshot == IF e.reconciled THEN e.reconcile ELSE source.snapshot
    IN  /\ epoch.phase = "commit"
        /\ e.ok \/ e.forward # NoTicks \/ e.reconcile # NoTicks
        /\ published' = Meet(archive, published (+) fresh)
        /\ owed' = owed (-) fresh
        /\ source' = [source EXCEPT
                        !.status = IF IsPartial(e) THEN "reconnecting" ELSE "ready",
                        !.recover = IsPartial(e) /\ (@ \/ NeedsReplay(e)),
                        !.rewrites = @ \/ Rewrites(e),
                        !.snapshot = snapshot,
                        !.overlap = NextOverlap(e, fresh, snapshot, reconnected),
                        !.observed = Reached(e, source.observed),
                        !.committed = Committed(e)]
        /\ epoch' = NoEpoch
        /\ UNCHANGED <<archive, now>>

-----------------------------------------------------------------------------
PollStep ==
    \/ ClockTicks
    \/ \E k \in [time: Time, payload: Arriving] : TickArrives(k)
    \/ EpochBegins
    \/ \E s \in Statuses : ReadForward(s) \/ ReadTail(s)
    \/ \E b \in Refusals : ForwardFails(b) \/ TailFails(b)
    \/ ReadIsFatal \/ EpochIsEmpty
    \/ \E r \in {FALSE, ~ epoch.ok \/ epoch.upstream} : EpochCommits(r)

-----------------------------------------------------------------------------
\* The committed cursor passes no tick that was not published: neither one that
\* came ahead of the reading, nor one that it counts as consumed, over partial
\* epochs, cut ones and replays.
CursorPassesNothing ==
    /\ Between(owed, 0, source.committed.at - 1) = NoTicks
    /\ source.committed.seen \sqsubseteq published

\* docs/market-data-api.md: accepted ticks cannot be repeated on the next poll.
AcceptedOnce ==
    epoch.phase = "commit" => published (+) Publishes(epoch) \sqsubseteq archive

=============================================================================
