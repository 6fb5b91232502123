--------------------------- MODULE RealtimeDelivery ---------------------------
(***************************************************************************)
(* Realtime subscriptions (src/bridge/mt5_bridge.cpp): one physical source *)
(* per symbol and filter with a bounded ring of tick batches, logical      *)
(* subscriptions with a cursor per member, the poller that publishes, and  *)
(* the host's event loop that delivers.                                    *)
(*                                                                         *)
(* Each critical section under g_mutex is one action.  A poll epoch begins *)
(* under the mutex, reads without it, and commits under it; the callback   *)
(* of an event runs without it as well, so that anything may happen while  *)
(* an epoch or a callback is under way.  What the ticks of a batch are,    *)
(* the retained-tick budget and the polling times are left out: a batch is *)
(* its sequence number, and the batches of a ring are consecutive.         *)
(***************************************************************************)
EXTENDS Integers, Sequences, FiniteSets, FiniteSetsExt

CONSTANTS
    Key,               \* realtime_source_key: symbol and filter
    Requests,          \* the requests of subscriptions: sequences of keys
    Capacities,        \* the ring capacities they ask for
    Outcomes,          \* bound: the statuses that epochs end with
    MaxSubscriptions,  \* bound: subscriptions ever made
    MaxMembers,        \* bound: members of them at one time
    MaxBatches,        \* bound: batches that the sources there are published
    MaxRewrites        \* bound: rewrites that they observed

ASSUME DeliveryAssumption ==
    /\ Requests \subseteq Seq(Key) \ {<<>>}
    /\ Capacities \subseteq Nat \ {0} /\ Capacities # {}
    /\ MaxSubscriptions \in Nat \ {0}
    /\ Outcomes \subseteq {"ready", "reconnecting", "failed"}
    /\ MaxMembers \in Nat
    /\ MaxBatches \in Nat
    /\ MaxRewrites \in Nat

VARIABLES
    sources,        \* g_realtime_sources: [Key -> Source or NoSource]
    subscriptions,  \* g_realtime_subscriptions: [Handle -> Seq(Member)]
    order,          \* g_subscription_order
    rr,             \* g_rr_cursor
    memberCursor,         \* member_cursor: [Handle -> Nat]
    made,           \* g_next_subscription_id - 1
    poll,           \* the epoch of the poller that is under way, or NoPoll
    watched,        \* history: a member, <<handle, index>>, picked at the start
    passed          \* history: the events of others while it had one coming

vars ==
    <<sources, subscriptions, order, rr, memberCursor, made, poll, watched, passed>>

Handle == 1 .. MaxSubscriptions

SourceStatus == {"none", "starting", "ready", "reconnecting", "failed"}

\* born: the subscription that made the source; next: next_sequence; held: the
\* size of the ring; rewrites: inconsistency_epoch; window: the rewrites that
\* the recovery range covers.
Source == [born: Handle, next: Nat, held: 0 .. Max(Capacities),
           capacity: Capacities, status: SourceStatus,
           rewrites: 0 .. MaxRewrites, window: SUBSET (1 .. MaxRewrites)]

NoSource == [born |-> 0]

\* next: the batch to deliver next; status, rewrites: what was delivered last.
\* History: expects, the next batch by the events so far.
Member == [key: Key, next: Nat, status: SourceStatus, rewrites: Nat, capacity: Nat,
           expects: Nat]

NoPoll == [born |-> 0]

\* The poller ended by an exception: nothing starts another one.
Ended == [born |-> MaxSubscriptions + 1]

TypeOK ==
    /\ sources \in [Key -> Source \cup {NoSource}]
    /\ subscriptions \in [Handle -> Seq(Member)]
    /\ order \in Seq(Handle)
    /\ rr \in Nat
    /\ memberCursor \in [Handle -> Nat]
    /\ made \in 0 .. MaxSubscriptions
    /\ poll \in [key: Key, born: Handle] \cup {NoPoll, Ended}
    /\ watched \in Handle \X (Nat \ {0})
    /\ passed \in Nat

Init ==
    /\ sources = [k \in Key |-> NoSource]
    /\ subscriptions = [h \in Handle |-> <<>>]
    /\ order = <<>>
    /\ rr = 0
    /\ memberCursor = [h \in Handle |-> 0]
    /\ made = 0
    /\ poll = NoPoll
    /\ watched \in Handle \X UNION {DOMAIN request : request \in Requests}
    /\ passed = 0

Exists(k) == sources[k] # NoSource

Oldest(source) == source.next - source.held

\* The members of source k among the subscriptions subs.
MembersOf(subs, k) ==
    {member \in UNION {Range(subs[h]) : h \in Handle} : member.key = k}

\* The scan starts at the cursors and goes around, over subscriptions first.
HandleAt(o) == order[((rr + o) % Len(order)) + 1]

IndexAt(h, j) == ((memberCursor[h] + j) % Len(subscriptions[h])) + 1

Places ==
    UNION {{o} \X (0 .. Len(subscriptions[HandleAt(o)]) - 1) :
           o \in 0 .. Len(order) - 1}

\* The recovery window is dropped once all members know the latest rewrite.
Acknowledged(source, members) ==
    IF \E m \in members : m.rewrites < source.rewrites
      THEN source ELSE [source EXCEPT !.window = {}]

----------------------------------------------------------------------------
(* mt5bridge_subscribe_ticks, mt5bridge_unsubscribe, _unsubscribe_all.     *)

\* A new source, or the one that there is, with the larger of the capacities.
Joined(source, handle, capacity) ==
    IF source = NoSource
      THEN [born |-> handle, next |-> 1, held |-> 0, capacity |-> capacity,
            status |-> "starting", rewrites |-> 0, window |-> {}]
      ELSE [source EXCEPT !.capacity = Max({@, capacity})]

\* A member starts at the present: with the next batch and after all rewrites.
NewMember(k, source, capacity) ==
    [key |-> k, next |-> source.next, status |-> "none",
     rewrites |-> source.rewrites, capacity |-> capacity,
     expects |-> source.next]

Subscribe ==
    \E request \in Requests, capacity \in Capacities :
        LET handle == made + 1
            joined == [k \in Key |->
                          IF k \in Range(request)
                            THEN Joined(sources[k], handle, capacity)
                            ELSE sources[k]]
        IN  /\ made < MaxSubscriptions
            /\ Cardinality(Places) + Len(request) <= MaxMembers
            /\ made' = handle
            /\ sources' = joined
            /\ subscriptions' =
                  [subscriptions EXCEPT ![handle] =
                      [i \in DOMAIN request |->
                          NewMember(request[i], joined[request[i]], capacity)]]
            /\ order' = Append(order, handle)
            /\ UNCHANGED <<rr, memberCursor, poll, watched, passed>>

\* The order of the subscriptions without one of them, which it holds once.
Without(h) ==
    LET p == CHOOSE p \in DOMAIN order : order[p] = h
    IN  [i \in 1 .. Len(order) - 1 |-> order[IF i < p THEN i ELSE i + 1]]

\* Faulty: a source that stays keeps the recovery window of those who left.
UnsubscribeKeepingWindow(h) ==
    LET remaining == [subscriptions EXCEPT ![h] = <<>>]
        left      == Without(h)
    IN  /\ subscriptions[h] # <<>>
        /\ subscriptions' = remaining
        /\ order' = left
        /\ rr' = IF left = <<>> THEN 0 ELSE rr % Len(left)
        /\ sources' = [k \in Key |->
              IF MembersOf(remaining, k) = {} THEN NoSource
              ELSE [sources[k] EXCEPT !.capacity =
                       Max({m.capacity : m \in MembersOf(remaining, k)})]]
        /\ memberCursor' = [memberCursor EXCEPT ![h] = 0]
        /\ passed' = 0
        /\ UNCHANGED <<made, poll, watched>>

\* The sources that stay forget the window that only the leaving members had
\* yet to hear of, and ask for no more than the members that stay.
Unsubscribe(h) ==
    LET remaining == [subscriptions EXCEPT ![h] = <<>>]
        left      == Without(h)
    IN  /\ subscriptions[h] # <<>>
        /\ subscriptions' = remaining
        /\ order' = left
        /\ rr' = IF left = <<>> THEN 0 ELSE rr % Len(left)
        /\ sources' = [k \in Key |->
              LET members == MembersOf(remaining, k)
              IN  IF members = {} THEN NoSource
                  ELSE Acknowledged([sources[k] EXCEPT !.capacity =
                                        Max({m.capacity : m \in members})],
                                    members)]
        /\ memberCursor' = [memberCursor EXCEPT ![h] = 0]
        /\ passed' = 0
        /\ UNCHANGED <<made, poll, watched>>

\* A shutdown clears the registries in the same way.
UnsubscribeAll ==
    /\ order # <<>>
    /\ sources' = [k \in Key |-> NoSource]
    /\ subscriptions' = [h \in Handle |-> <<>>]
    /\ order' = <<>>
    /\ rr' = 0
    /\ memberCursor' = [h \in Handle |-> 0]
    /\ passed' = 0
    /\ UNCHANGED <<made, poll, watched>>

----------------------------------------------------------------------------
(* realtime_poller.                                                        *)

PollBegins(k) ==
    /\ poll = NoPoll
    /\ Exists(k)
    /\ sources[k].status # "failed"
    /\ poll' = [key |-> k, born |-> sources[k].born]
    /\ UNCHANGED <<sources, subscriptions, order, rr, memberCursor, made, watched, passed>>

Polled == sources[poll.key]

\* Faulty: a source of the same key will do.
PollIsCurrentByKey == poll \notin {NoPoll, Ended} /\ Exists(poll.key)

\* The source that was polled is still the one registered under its key.
PollIsCurrent ==
    /\ poll \notin {NoPoll, Ended}
    /\ Exists(poll.key)
    /\ Polled.born = poll.born

Commits(source) ==
    /\ sources' = [sources EXCEPT ![poll.key] = source]
    /\ poll' = NoPoll
    /\ UNCHANGED <<subscriptions, order, rr, memberCursor, made, watched, passed>>

PollIsDiscarded ==
    /\ poll \notin {NoPoll, Ended}
    /\ ~PollIsCurrent
    /\ poll' = NoPoll
    /\ UNCHANGED <<sources, subscriptions, order, rr, memberCursor, made, watched, passed>>

\* A fatal read ends the source; a failed read without data postpones it.
PollFails ==
    /\ PollIsCurrent
    /\ \E status \in {"failed", "reconnecting"} \cap Outcomes :
          Commits([Polled EXCEPT !.status = status])

\* An exception in an epoch ends the poller and fails all sources.
PollerDies ==
    /\ poll \notin {NoPoll, Ended}
    /\ poll' = Ended
    /\ sources' = [k \in Key |->
          IF Exists(k) THEN [sources[k] EXCEPT !.status = "failed"] ELSE NoSource]
    /\ UNCHANGED <<subscriptions, order, rr, memberCursor, made, watched, passed>>

\* Each batch goes to the ring, which gives up its oldest ones.
Published(source, batches) ==
    IF batches = 0 THEN source
    ELSE [source EXCEPT
             !.next = @ + batches,
             !.held = Min({@ + batches, source.capacity})]

\* A rewrite opens the recovery window or widens it.
Rewritten(source) ==
    [source EXCEPT !.rewrites = @ + 1,
                   !.window = @ \cup {source.rewrites + 1}]

OverSources(count(_)) ==
    FoldSet(LAMBDA k, sum : sum + count(sources[k]), 0, {k \in Key : Exists(k)})

BatchesSoFar == OverSources(LAMBDA source : source.next - 1)

RewritesSoFar == OverSources(LAMBDA source : source.rewrites)

\* A partial epoch leaves the source reconnecting; it publishes only what its
\* own tick budget cut off.
PollSucceeds ==
    /\ PollIsCurrent
    /\ \E status \in {"ready", "reconnecting"} \cap Outcomes,
          batches \in 0 .. MaxBatches - BatchesSoFar :
          LET published == Published([Polled EXCEPT !.status = status], batches)
          IN  \/ Commits(published)
              \/ /\ RewritesSoFar < MaxRewrites
                 /\ Commits(Rewritten(published))

----------------------------------------------------------------------------
(* mt5bridge_process_events.                                               *)

\* The event that a member has coming, in the order in which they are tried.
Due(member) ==
    LET source == sources[member.key]
    IN  IF member.status # source.status THEN "status"
        ELSE IF member.rewrites < source.rewrites THEN "inconsistency"
        ELSE IF source.held = 0 THEN "none"
        ELSE IF member.next < Oldest(source) THEN "overflow"
        ELSE IF member.next < source.next THEN "batch"
        ELSE "none"

DueAt(place) ==
    LET h == HandleAt(place[1])
    IN  Due(subscriptions[h][IndexAt(h, place[2])])

IsFirstDue(place) ==
    /\ DueAt(place) # "none"
    /\ \A other \in Places :
          DueAt(other) # "none" =>
              \/ place[1] < other[1]
              \/ place[1] = other[1] /\ place[2] <= other[2]

\* Faulty: the batches lost are counted from the one after the cursor.
AfterMiscounted(member) ==
    LET source == sources[member.key]
        oldest == Oldest(source)
    IN  IF Due(member) = "status" THEN [member EXCEPT !.status = source.status]
        ELSE IF Due(member) = "inconsistency"
          THEN [member EXCEPT !.rewrites = source.rewrites]
        ELSE IF Due(member) = "overflow"
          THEN [member EXCEPT !.next = oldest,
                              !.expects = @ + oldest - member.next - 1]
        ELSE [member EXCEPT !.next = @ + 1, !.expects = member.next + 1]

\* A member after its event.  An overflow says how many batches were lost; a
\* batch says which one it is.
After(member) ==
    LET source == sources[member.key]
        oldest == Oldest(source)
    IN  IF Due(member) = "status" THEN [member EXCEPT !.status = source.status]
        ELSE IF Due(member) = "inconsistency"
          THEN [member EXCEPT !.rewrites = source.rewrites]
        ELSE IF Due(member) = "overflow"
          THEN [member EXCEPT !.next = oldest, !.expects = @ + oldest - member.next]
        ELSE [member EXCEPT !.next = @ + 1, !.expects = member.next + 1]

\* Faulty: the scan of a subscription always starts with its first member.
RotatedOverHandles(o, h, i) ==
    /\ memberCursor' = [memberCursor EXCEPT ![h] = 0]
    /\ rr' = (rr + o + 1) % Len(order)

\* Both cursors go past what was served.
Rotated(o, h, i) ==
    /\ memberCursor' = [memberCursor EXCEPT ![h] = i % Len(subscriptions[h])]
    /\ rr' = (rr + o + 1) % Len(order)

\* The watched member has an event coming.
Waits ==
    /\ watched[2] \in DOMAIN subscriptions[watched[1]]
    /\ Due(subscriptions[watched[1]][watched[2]]) # "none"

Deliver ==
    \E place \in Places :
        LET o      == place[1]
            h      == HandleAt(o)
            i      == IndexAt(h, place[2])
            member == subscriptions[h][i]
            served == [subscriptions EXCEPT ![h][i] = After(member)]
        IN  /\ IsFirstDue(place)
            /\ subscriptions' = served
            /\ Rotated(o, h, i)
            /\ sources' =
                  IF Due(member) = "inconsistency"
                    THEN [sources EXCEPT ![member.key] =
                             Acknowledged(@, MembersOf(served, member.key))]
                    ELSE sources
            /\ passed' = IF Waits /\ watched # <<h, i>> THEN passed + 1 ELSE 0
            /\ UNCHANGED <<order, made, poll, watched>>

----------------------------------------------------------------------------
Next ==
    \/ Subscribe \/ UnsubscribeAll
    \/ \E h \in Handle : Unsubscribe(h)
    \/ \E k \in Key : PollBegins(k)
    \/ PollIsDiscarded \/ PollFails \/ PollerDies \/ PollSucceeds
    \/ Deliver

Spec == Init /\ [][Next]_vars

----------------------------------------------------------------------------
(* Properties.                                                             *)

EveryMember(P(_, _)) ==
    \A h \in Handle : \A i \in DOMAIN subscriptions[h] : P(h, subscriptions[h][i])

\* docs/market-data-api.md: a member that adds up the events it got knows which
\* batch comes next, so that no loss is ever silent and none is reported twice,
\* whatever the ring dropped and who came and went in between.
LossIsReported ==
    EveryMember(LAMBDA h, m : m.expects = m.next)

\* The one recovery window of a source covers every rewrite that any of its
\* members has yet to hear of, and it is open for no other reason.
WindowCoversTheUntold ==
    \A k \in Key : Exists(k) =>
        LET members == MembersOf(subscriptions, k)
        IN  /\ \A m \in members :
                  (m.rewrites + 1 .. sources[k].rewrites) \subseteq sources[k].window
            /\ sources[k].window # {} =>
                  \E m \in members : m.rewrites < sources[k].rewrites

\* A member loses a batch only when it is behind by more than the capacity it
\* asked for, whoever else shares the ring, joins it or leaves it.
OwnCapacityIsKept ==
    EveryMember(LAMBDA h, m :
        LET source == sources[m.key]
        IN  m.next < Oldest(source) => source.next - m.next > m.capacity)

\* A batch is lost to a member by its own delay alone, and it is told.
LossIsOwnAndReported == LossIsReported /\ OwnCapacityIsKept

\* As long as nobody unsubscribes, a member with an event coming is passed by
\* each other member of its subscription once, and by each other subscription
\* once in every turn up to its own.  (An unsubscription may make the scan skip
\* a turn: the cursor is an index into the order.)
ServedInARound ==
    Waits => passed < Len(subscriptions[watched[1]]) * MaxSubscriptions

\* An epoch that began for a source that is gone never changes the source that
\* a later subscription made under the same key.
EpochsStayWithTheirSource ==
    [][\A k \in Key : Exists(k) /\ sources'[k] # NoSource
            /\ sources'[k].next # sources[k].next
          => sources[k].born = poll.born]_vars

============================================================================
