# mt5bridge: specifications, model checking and proofs

`mt5bridge` embeds CPython and the `MetaTrader5` package in a Windows DLL, gives
a C ABI for market data and trading, and keeps, on top of the ABI, a durable
one-shot dispatch of trade operations. This directory holds TLA+ specifications
of that code, TLC configurations that check them on small instances, and proofs
for TLAPS. Paths below are relative to the repository.

## 1. The system

### Parts

| Part | State | Operations | What is hard |
|---|---|---|---|
| **Runtime lane** `src/runtime/runtime_lane.*` | waiter count per class, `occupied_`, `consecutive_trade_grants_`, one condition variable | `acquire`, `Permit` release | wake-ups, priority with a bounded burst, starvation |
| **Bridge runtime** `src/bridge/mt5_bridge.cpp` | `g_runtime_state`, `g_active_runtime_calls`, `g_mutex`, `g_python_mutex`, the poller thread and its stop flag | `initialize`, `shutdown`, `RuntimeCallAdmission` (with `suspend`/`resume`), start and stop of the poller | calls in flight or asleep while the interpreter is finalized; two mutexes, a lane, two condition variables and a join |
| **Realtime subscriptions** `src/bridge/mt5_bridge.cpp` | a source per symbol and filter (ring, status, cursor, rewrites), subscriptions with a cursor per member, round-robin cursors | `subscribe`, `unsubscribe(_all)`, a poll epoch, `process_events` | epochs read without the mutex and commit under it; overflow under several cursors; shared recovery window; fairness |
| **Poll epoch** `realtime_poller` | a committed and an observed cursor, the boundary multisets, the overlap and its snapshot | forward pass, tail pass, commit | ticks that appear between the passes or behind the cursor, partial pages, replay |
| **Tick and rate history** `src/bridge/mt5_bridge.cpp` | cursor and boundary multiset of a request, the bootstrap's search, the candidate answer | bootstrap, streaming visit, `query_rates`, `query_ticks` | pages that end inside one millisecond, a terminal that synchronizes while it answers, retries |
| **Dispatch journal** `include/mt5bridge/dispatch/journal*.hpp` | a directory of records; a cache per process; two state machines per record (journal, operation) | `create`, `transition_*`, `persist_*`, `recover(_all)`, compare-and-commit | crash between any two commits, stale caches, at-most-once |
| **Windows file stores and the lease** `src/dispatch/file_journal_store.cpp` | record files, temporary files, lock files, the epoch file | commit, load, scan, acquire and release | death or power loss between any two steps on files; two keys of one file name |
| **Admission, backend** `admission.hpp`, `lease.hpp`, `one_shot_backend.cpp` | held token, one-use permit | `admit`, `execute` | two owners, lost replies, account or lease gone around the call |
| **Observation and reconciliation** `include/mt5bridge/reconciliation/`, `operation_worker.hpp`, `operation_recovery.hpp` | the graph: records, revisions, coverage; a baseline; a cycle of samples | refresh, evaluate, the consistency policy, the dispatch gate, a worker's step | the views of one refresh belong to different instants and lag; absence as evidence |
| **Managed trade** `src/trade/managed_trade.cpp` | plan, current slice, open and pending volume, close obligation | fifteen mutators | volume conservation over partial fills, late fills, cancels |
| **Managed trade owner** `src/dispatch/managed_trade_owner.cpp` | a `ManagedTradeState` in memory, the trade's records in the journal | prepare, execute, four settlements, recovery | several commits per handler; memory against journal against broker |
| **Deal settlement ledger** `file_managed_deal_settlement_store.cpp`, `managed_deal_settlement_producer.hpp` | manifests, facts and frontiers of a CLOSE | derive and commit, recover, scan, load | three renames that a crash divides; the record that a manifest is checked against goes on |
| **Opening facts and allocations** `managed_opening_*`, `file_managed_opening_*` | facts, preparations and allocations of an OPEN | commit a fact, verify, prepare, publish, scan, load | graphs of several processes under one lease; successors of what was prepared |
| **Other ledgers** managed allocation, settlement preparation, ownership basis, broker reversal and allocation envelopes | one file store each, write-once | compare-and-commit of validated values | exact partitions of volumes |
| **ABI conversion, client wrapper, packaging** | none | field-by-field conversion, RAII | - |

### How they interact

Host threads and the poller thread call MetaTrader5 only through
`RuntimeCallAdmission`, which counts the call under `g_mutex`, waits for a permit
of the runtime lane, and takes `g_python_mutex`. `shutdown` closes the admission,
joins the poller and waits for the count. The poller commits what an epoch read
into a source; the host's event loop takes events out of it.

A managed trade owner decides with `ManagedTradeState`, makes the decision
durable in the journal, passes the admission barrier with the account's lease,
and lets the one-shot backend make the one call through the Python transport
(which is a trade-critical call of the lane). What happened is then settled from
the reply or from observations of the reconciliation worker. After a crash the
owner replays its records. What an OPEN was filled by, and what each deal gave
to a CLOSE, is proved from the observation graph and the journal together and
kept in ledgers of its own.

### What makes each part correct

- lane: mutual exclusion, no lost wake-up, the priority rules never deadlock,
  bounded overtaking, progress of market data;
- runtime: no admitted call without a live interpreter, the poller is gone before
  the teardown, a source is polled as long as it exists, every operation returns;
- subscriptions: every lost batch is reported once, rewrites are covered until
  all members were told, no member loses more than its own capacity explains,
  bounded overtaking, old epochs do not touch new sources;
- history and poller: each tick of the range once, the cursor passes nothing that
  was not published, answers are confirmed, queries end;
- journal and backend: at most one call per operation, never resumed after a
  call, a result is the broker's reply, recoverable store, fenced execution;
- file stores: a request takes effect at one instant or not at all, whatever dies;
- observation: what is concluded from evidence is true of the broker and stays
  true; no evidence of two accounts is mixed; coverage has no gap;
- managed trade: conserved exposure, no answer is a dead end, an obligation to
  close is discharged;
- owner: replay equals memory, a crash forgets no fill, the broker's exposure is
  bounded, a close never reverses the position;
- ledgers: what is claimed is what the broker did, frontiers are whole, nothing
  prepared is lost, no directory gets stuck.

`PROJECT.json` lists the hazards, each at its line and with the properties for it.

## 2. Modules

| Module | Models | How state and actions correspond |
|---|---|---|
| `JournalRecord` | `OperationRecord` and the pure rules about one record | operators on a record: `ValidRecord`, `NextJournalStates`, `NextOperationStates`, `CommitAccepted` (the store's rule), `Classify` (recovery) |
| `OneShot` | the abstract promise of dispatch | an operation is open, closed, barred or spent; a spent one is called once |
| `DispatchJournal` | journal object, store, lease, barrier, backend, recovery, normalization | `store` is the directory, `cache[w]` the `OperationJournal` of process `w`; each mutator is one action that ends in one `Commit`; `execute` is split at each commit and at the call (`stage`); `Crash` keeps `store` and `epoch` only |
| `RecordStore` | the abstract promise of the file stores | a request is asked, takes effect or is refused at one instant, and is answered; a client may die in between |
| `FileRecordStore` | the journal's and the reversals' file stores, the epoch and its lease | an action per step on files: take the lock, read, decide, begin, write and flush the temporary file, move it, answer; `ClientDies` and `PowerFails` at any of them. `target` and `temp` are files, which may be torn |
| `ManagedTradeState` | `ManagedTradeState` as a value | each mutator is a function from a state (and inputs) to the set of its results: empty if refused |
| `ManagedTrade` | any owner and any broker around it | one action per mutator, in every order |
| `ManagedTradeOwner` | the owner loop, its records, the broker | a handler is one action that either completes or stops between two of its commits; `orders` is what the broker did; `fallible` says whether commits may fail |
| `Observation` | graph, engine, gate and consistency policy | operators on a graph value: `Covered` is the sweep over windows, `Evaluate` the engine, `Agree` the policy |
| `ObservationLoop` | coordinator and worker around a broker whose views lag | one action per read of a refresh; `broker` holds what happened and, for each view, whether it shows it |
| `SettlementLedger` | producer and store of the settlement of a CLOSE | an action per rename; the producer's and the store's requirements are named conjuncts; the journal's record and the graph move on between them |
| `OpeningAllocation` | facts, verifier, publisher and directory of an OPEN | each process has a graph (`samples`); a call holds the lease to its end; only the failure of its second write divides it |
| `TickPages` | pages of `copy_ticks_from`, the inclusive cursor | ticks are bags; a page is chosen among all that the terminal may return |
| `TickHistory`, `TickPoller`, `RatesQuery` | `visit_ticks_range` and its bootstrap; one source of `realtime_poller`; `query_rates` | one action per answer of the terminal; the rest of the loop's body follows it in the same action |
| `RuntimeLane` | `acquire`/`release` | a caller is outside, awake, asleep, inside or leaving; critical sections under `mutex_` are atomic, the notification is a step of its own |
| `BridgeRuntime` | lifecycle, admission, poller thread | each critical section under `g_mutex` is an action; waiting for the lane, the interpreter, the condition variables and the join are places of a thread |
| `RealtimeDelivery` | sources, rings, subscriptions, poll commit, delivery | each critical section under `g_mutex` is an action; a batch is its sequence number; a poll epoch is a begin and one of four ends |
| `DispatchJournalProofs`, `TradeAndFilesProofs`, `RuntimeProofs`, `MarketDataProofs`, `ObservationProofs`, `LedgerProofs`, `OwnerProofs` | - | the theorems of section 6 |
| `SetSums` | - | lemmas about the least and greatest of a set of numbers, and about the sum over a finite set, which the models write as `MapThenSumSet` |
| `MCTradeAndFiles`, `MCMarketData`, `MCLedgers` | - | a behaviour picks one of the components and runs it alone, so that one run answers for each |
| `MCObservationLoop`, `MCRealtimeDelivery` | - | the host programs and the requests of the runs |

`ManagedTradeOwner` composes `JournalRecord` and `ManagedTradeState`; the record
rules are the same definitions that `DispatchJournal` uses. `RuntimeLane` and
`BridgeRuntime` meet at `TakeLane`: the first says who gets the permit, the
second what happens around it. `RealtimeDelivery` and `TickPoller` meet at the
commit of an epoch: the second says which ticks it brings, the first what the
ring and its readers do with them. `DispatchJournal` takes a commit as one
atomic step of a store that survives crashes; `FileRecordStore` implements
`RecordStore`, which is that step.

Definitions whose comment begins with "Faulty:" are deliberate mistakes. No
specification uses them. `PROJECT.json` pairs each with the definition it stands
in for and the property that must then fail, so that every property is known to
be sensitive to some bug.

## 3. Runs

| Run | Question | Bounds and why they suffice |
|---|---|---|
| `dispatch_safety` | Is there at most one call, is it fenced, does the core implement `OneShot`, does each record leave the barrier, and does none ever go back? | one operation, two processes: races are pairwise per operation key. Epoch 2 and revision 12 allow a full life of a record, with a takeover in the middle; volumes to 2 give a fill that grows; both kinds of descriptors |
| `trade_and_files` | Is the trade's state machine safe in any order of calls? Do the file stores keep their promise? | trade: target 3, slices of at most 2, so that two slices are needed and either may be partial; four operations leave room for a cancel and a replacement; four snapshots. Files: two clients; two keys that share a file and one of another store, with two values; two revisions; two tokens |
| `runtime_lane` | Exclusion, wake-ups, priority, progress | three trade callers exceed the burst limit of 2 while two market callers wait for each other too |
| `owner_recovery` | Do memory, journal and broker agree through crashes, and when a commit fails while the process goes on? | target 2, four operations: open, partial, cancel, next open or close |
| `owner_late_fill` *(violated)* | Is the exposure still tracked then? | three operations; see section 5 |
| `bridge_runtime` | Do calls, subscriptions and shutdown get along? | three host threads: one in shutdown, one in flight or suspended, one that subscribes or initializes; the poller |
| `realtime_delivery` | Is delivery honest and fair? | one source, created and removed several times by two subscriptions of one or two members; rings of 1 and 2 under 3 batches overflow by one and by two; two rewrites coalesce |
| `observation_loop` | Is what is concluded from lagging views true? | two orders, of which the second closes what the first opened; one host collects all views, three samples, in either order of reading, while the account may change; the other polls a short window that adjoins what its worker reads, or leaves a gap, and works on two requests that depend on it. Three revisions: a baseline and two later reads |
| `market_data` | Is each tick delivered once, each answer confirmed, and does each query end? | three timestamps of the history, two payloads in a millisecond, three ticks, pages of one more row than were consumed: a page ends inside each millisecond; all limits of the loops are small, so that each is spent |
| `realtime_twice` *(violated)* | Does a clean epoch publish each tick once? | the poller alone, no failing read; see section 5 |
| `ledgers` | Do the ledgers claim only what the broker did, and lose nothing? | a close of two deals read in full or one by one, the record's revision to 3, two reads. An open of two deals, of which the result names one and a caller misreads the other; two processes, two reads of each besides the baseline, two calls of publish; windows of both deals or of one. Once the opening's record has gone on from `result_persisted` nothing can be verified, and only the call under way is finished |
| `settlement_narrow` *(violated)* | Does a frontier refer to every deal it counts? | the settlement ledger with one process; see section 5 |

Deadlock is checked in `runtime_lane` and `bridge_runtime`, where nothing may
ever stop. The other models have bounds (operation ids, revisions, handles,
ticks, reads) at which a real system would go on and the model stops, so their
configurations switch the check off.

Bounds in the models: `MaxEpoch`, `MaxToken`, `MaxRevision` (the code's are
2^64-1, with the same refusal at the limit), `MaxOperations` (the plan's own),
`MaxObservations`, `MaxReads`, `MaxSamples`, `MaxLoads`, `MaxSubscriptions`,
`MaxMembers`, `MaxBatches`, `MaxRewrites`, `MaxTime`, `MaxTicks`,
`MaxBarChanges`, `HistoryEnd`, `Outcomes` (the statuses with which epochs end;
`reconnecting` differs from `ready` only in name as far as delivery goes). The
constants of `TickHistory` and `RatesQuery` named after limits, steps and probes
are the code's own, made small.

### What the less obvious properties say

- `PolicyTellsTheTruth`: when the consistency policy says consistent, there was
  an instant at which the broker was as the samples say; and it never says mismatch
  of reads that only raced each other. ADR-0010 promises no atomic snapshot; the property holds
  because only this owner trades the account, and does so between its cycles.
- `ConclusionsAreSound`: an outcome that a worker confirmed is true and stays so;
  one that it calls not observed was not to be seen in what it had asked for; the
  gate opens only on what stands.
- `CoverageIsExact`: the sweep says that a window is covered exactly if each
  millisecond of it is in a read that counts.
- `CursorPassesNothing`: a tick that was visible when an epoch read past it is
  published with that epoch or is still ahead of the cursor from which the next
  one reads.
- `AnswersAreConfirmed`: the bootstrap ends on the anchor only if two probes in a
  row saw it; bars are returned only if two clean answers in a row agree.
- `DirectoriesStayUsable`: a manifest whose record is still current can be
  recovered, and a scan of the opening directory succeeds, after any crash or
  failed write. For openings the premise is that the lease does not come back to
  a process that had lost it (`returned`): otherwise a fact at a revision which
  was already passed makes every scan fail (a hazard with a note).
- `StoresKeepTheirPromise`: `RecordStore` under the mapping in which a record
  is there when its file is moved into place.

## 4. Fairness

- `DispatchJournal!FairSpec`: an owner finishes the execution that it started and
  steps a worker on what it owns, weakly fair, and crashes stop some time. The
  code has no thread of its own here: it is the caller's loop. Nothing is assumed
  of the broker but that a call ends, with or without a reply.
- `ManagedTrade!FairSpec` (and `BothFairSpec`): the owner submits, applies, cancels
  and closes, takes snapshots, and a submitted operation is answered. Late fills
  are not assumed.
- `RuntimeLane!LaneFairSpec`: a woken thread gets the mutex, a call ends. Weak
  fairness only: no thread is assumed to win a race.
- `BridgeRuntime!FairSpec`: strong fairness of a thread's next step, as
  `g_mutex`, `g_python_mutex` and the permit are taken and given back again and
  again by others; the standard mutex gives no order, but the threads that
  compete for it are finitely many and each sleeps or works in between. The
  attempts of a rates query are bounded, hence the strong fairness of `Return`.
- `MCMarketData!MarketSpec`: a call into the terminal returns and the query goes on.
  What it returns is not assumed: the budgets end the query.

The other specifications state safety only and have no fairness.

## 5. Disagreements between code and documents

Shown by a run:

1. `owner_late_fill`: the late fill of a cancelled OPEN is committed before the
   CANCEL; if the second commit fails, the retry sees no late fill and the owner
   forgets the volume, against ADR-0029.
2. `settlement_narrow`: coverage is the union of all reads since the baseline, but
   only deals of the latest read contribute; after a narrower read the whole
   settled volume is claimed for the newest deal, and an earlier one is left out
   of the frontier.
3. `realtime_twice`: a tick that appears between the two passes of one clean epoch
   is published by the tail pass, and again by the forward pass of the next.

Met while modelling, without a run of their own: a record past the barrier whose
predicates wait for tickets of a reply that was lost is never normalized
(`journal_types.hpp:449`; `docs/trade-api.md:324`, `operation_worker.hpp:51` and
`docs/adr/0025*:40` say it is), which is why `TicketedIsNormalized` names the
ticketed ones; and the GAP event of an overflow carries the sequence of the
oldest retained batch (`mt5_bridge.cpp:3992`), against
`docs/market-data-api.md:194`.

Limits that no document contradicts are hazards with a note in `PROJECT.json`: a
rejected CANCEL cannot be followed by one that settles; a failed first probe
after admission leaves a slice `dispatching`; a poller that ended by an exception
is not restarted; an unsubscription makes the round-robin skip one turn; a page
whose status could not be read loses the epoch's ticks; a lease that returns to a
process whose graph is behind can make the opening directory unreadable.

## 6. Proofs

TLC checks the small instances of section 3. The theorems below hold for every
value of the constants that satisfies the module's assumption (`DispatchAssumption`,
`FilesAssumption`, `LaneAssumption`, `PlanAssumption`, ...), and nothing else is
taken for granted. No module that is proved about declares a recursive operator.

`DispatchJournalProofs`, for any operations and processes and any bounds:

- The inductive invariant `IInv` is `TypeOK`, `NoRecordIsAbsent` (only revision 0
  is no record), `StoreIsRecoverable`, `CacheIsPastStore`, `AtMostOneCall` and
  `CallWindow`. `AtMostOneCall` is not inductive: one must know that a called
  operation is spent in the store (`CallWindow`), which holds since the only
  way to the call is a commit that was accepted, thus on a current cache
  (`CacheIsPastStore`), and since no accepted commit takes a record back.
- The argument goes through records: lemmas say that each mutator makes a valid
  record with the next revision and moves `FateOf` along the abstract machine
  only. `Commit` is treated once, and each action cites it.
- From it: `TypeCorrect`, `StoreStaysRecoverable`, `CachesStayPastStore`, `OneCall`,
  `CalledIsNeverResumed`, `JournalStaysMonotone` and `Refinement`: every step is a
  step of `OneShot` or leaves its variables.
- `ExecutionStaysFenced` adds that the lease's holder has the newest token
  (`LeaseIsNewest`) and that a stage past admission has the lease
  (`StageHoldsLease`). `ResultStaysTheReply` adds nothing: a result comes only
  from the two commits after a call, and a second call, which could change the
  reply, is excluded by `AtMostOneCall`.

`TradeAndFilesProofs`, its files: for any clients, keys and revisions, and whatever keys
share a file name:

- `IFiles` says that a client between comparing and moving holds the lock of the
  file's store, so that what it compared with is still there, and that what is
  moved into place was written and flushed, so that no file that is read is torn
  (`FilesAreWhole`). This is why a power failure loses no record: what it tears are
  temporary files.
- `FilesKeepTheirPromise` maps the move to the instant at which the request takes
  effect, a death or a power failure to deaths of clients, and every other write
  to no step of `RecordStore`. The client that died after its move is the one whose
  request took effect without an answer.

`RuntimeProofs`, its lane: for any finite set of callers and any burst limit:

- The invariant `LaneInv` is `LaneTypeOK`, `CountsAreExact`, `OneCallInside`, `NoLostWakeUp`
  and `OvertakingIsCounted`. The last relates the history of each waiter to the
  counter in the predicate and gives `BurstsAreBounded`; exact counts give
  `LaneStaysOpen`, as the two predicates are then complementary, and with
  `NoLostWakeUp` `WaitersAreServed`.
- `TradeStaysFirst` (`TradeGoesFirst`) adds `CounterIsSomeones`: a counter above
  zero is the number of overtakings of some call that still waits, so that no
  debt is left behind by trade calls that nobody waited for.

`RuntimeProofs`, its lifecycle: for any finite set of host threads:

- `IRuntime` is `TypeOK`, `CountIsExact` (`active` is the number of threads in a
  counted place), `StateTellsTheLife`, `OneThreadCloses` and `PollerIsOwned`, with
  the two invariants of the run. `CallsUseALiveInterpreter` needs the exact count:
  the teardown goes on at `active = 0`, and only the count tells that then no
  thread is inside or suspended. `PollerIsJoinedFirst` needs that at most one
  thread is between `ShutdownBegins` and the teardown, and that this one has
  already joined the poller.

`TradeAndFilesProofs`, its trade: for any plan (target, slice limit, operation limit):

- `valid()` alone is not inductive: it admits an OPEN in flight for more than the
  plan has left, whose fill would then be refused and leave the slice reconciling
  for ever. `Sound` adds what the guards of the starts establish and every later
  step keeps: `EntryFits`, `CloseFits`, `CancelLeavesExposure`, `FillIsHeld`.
- Each mutator has a lemma: it takes a sound trade to a sound one, in a step
  that conserves volume and repeats no attempt. Applying an answer is treated
  once for all its cases (`SettlementIsGood`): a candidate that moves the volumes
  as its outcome says, and discharges the obligation exactly when nothing is
  left, is never refused.
- From it: `NoAnswerIsADeadEnd`, `VolumeIsConserved`, `OneIdIsOneAttempt`.

`MarketDataProofs`, of the delivery of realtime batches, for any keys, requests and
capacities, and any number of subscriptions, batches and rewrites:

- `IDelivery` relates each source to all of its members (`Serves`): each `Fits` it,
  that is, it is not ahead of the source, the ring holds either as many batches as
  the member asked for or all that it has not had, and the window covers every
  rewrite it was not told of. The second clause is what makes the ring's trimming
  safe under a smaller capacity: the capacity of a source is the largest of its
  members', so a ring that is cut still has what each of them may claim.
- A step concerns one source: a lemma says for each operation on a source (join,
  leave, publish, rewrite, acknowledge, deliver) that it still serves whoever is
  its member then. `EpochsNeverStray` is the comparison before
  the commit, and that no operation but the commit of an epoch touches `next` of a
  source that stays.
- The scan has an invariant of its own, `IOrder /\ IWatch`. `IOrder`: the order
  holds each subscription with members once, and both cursors are within what they
  go around (`UnsubscribeScans` is why the code reduces its cursor when the order
  shrinks). `IWatch`: the events that passed the watched member, and the turns of
  others that are still to come before its own (`Turns`: whole rounds of the
  subscriptions for each member of its own before it, and then the subscriptions
  before its own), add up to less than one round. A delivery to another takes at
  least one turn away (`AheadIs`, `TurnsFall`), a new subscription adds at most one
  to each round (`TurnsGrow`), an unsubscription starts the count again.
- From these: `LossIsToldAndOwn` (`LossIsOwnAndReported`), `WindowIsForTheUntold`,
  `EpochsNeverStray`, `EveryMemberIsServedInARound` (`ServedInARound`). `TypeOK` says
  no more than the bounds of the instance.

`MarketDataProofs`, of the readers of ticks and bars, for any ticks and bars, page
sizes, bounds and periods (`PagesAssumption`, `HistoryAssumption`, `PollerAssumption`, `RatesAssumption`):

- A bag of ticks is a function of unbounded sums and differences, and a page is any
  draw from it. Both are treated tick by tick: `Copies(b, k)` is how often a tick is
  in a bag, each operation on bags has a lemma that says what it does to that number
  (`AddedTicks`, `RemovedTicks`, `SomeTicks`, `Draw`), and two bags are equal when
  the numbers are. Thus every step becomes linear arithmetic about one tick.
- A visit of the history. `HistoryIsExact` speaks of the end only. `TickInv` says,
  for each tick, where the visit stands: before the cursor everything that the range
  had when paging began is delivered, at the cursor what was delivered is exactly
  what the boundary remembers, and beyond it nothing was. The middle clause makes
  inclusive paging exact though the order of the ticks in one millisecond differs
  from read to read; a page that is full shows all ticks before its last time.
- `BootstrapInv`: a probe that has a target was confirmed by an equal sighting with no
  failure in between. `RatesInv`: the candidate of a query is the last clean answer.
- The poller. `CursorPassesNothing` is not inductive in two ways, since an epoch may
  begin from the observed cursor as well as from the committed one, and since ticks
  arrive behind the horizon of an epoch that has begun. `PollerInv` therefore states the same of both cursors, of
  the observed one only while nothing is to be replayed (`CursorInv`), and of the
  cursor of the epoch with what it has read but not published (`EpochTick`): what is
  owed before the epoch's cursor was read forward, and what is owed at it can still
  be read. It also needs that an observed cursor stands on a tick of the archive, so
  that an epoch that starts there cannot complete on an empty boundary.
- `CursorPassesNothingAlways` assumes that no page has an unknown status
  (`"unknown"` not in `Statuses`, as in the run): with one, `upstream` is set and
  `partial` is not, the epoch's ticks are dropped and its cursor is committed all
  the same (`mt5_bridge.cpp:2268`; a hazard with a note). The other two theorems
  assume nothing of the kind.

`ObservationProofs`, for any host programs (`ProgramType`: their scopes, windows,
requests, lengths of a cycle and accounts) and any number of revisions, of the two
orders that the model has (`LoopAssumption`):

- The sweep first. What `Covered` computes is a fold in the order of the windows;
  its invariant (`Tells`) is that everything before its cursor is covered by windows
  it has passed and no window it has passed reaches the cursor, or that it has met
  a gap which no window covers. `SweepIsExact` and `CoveredIsExact`
  follow for any finite set of windows, and with them `CoverageIsExactAlways`.
- None of the other three properties is inductive: they speak of the graph, the
  samples and the outcome, and what they rest on happens while a collection is under
  way, between two reads. The argument is about views that only go on (`Beyond`): a
  view that has left what was read of it does not come back to that unless an order
  is sent, and the owner sends none inside a collection or a cycle. So each domain
  of the collection in progress is either what its view shows still, or over
  for good (`CallInv`).
- `StandingInv`: when a sample is complete, either all views show it, and it stands,
  or one of them is over, and the next sample cannot read the same there
  (`NextSampleDiffers`, by `SignatureTells`: the links that the policy compares tell
  such a view from what it was). Two samples with equal signatures leave
  the first case: `PolicyTellsTheTruthAlways`.
- `BaselineInv`, `GraphSeen`, `CallSeen`: what was seen at the baseline happened;
  a snapshot that was read since and lacks it shows that it is gone, and a
  window of a history that was read since has it. The revision of the read is what
  tells a new reading from what the graph holds from before (`Stale`). With the
  sweep: `ConclusionsAreSoundAlways`, for whatever predicates the worker was given.
- `GraphInv`: the records of the graph are of the account that it is bound to, each
  record of a history with a revision that confirmed it: `AccountsNeverMixAlways`.
- `LoopInv`, the conjunction of these, also holds the types (`LoopTypeAlways`). TLC
  checked it on the instance of the run before it was proved.

`SetSums`: the sum over a finite set adds up its elements whatever the order in
which `CHOOSE` takes them. The library's induction theorems cannot be used
(none of the provers can instantiate a parameter that is an operator), so an
induction is a descent: the sets at which a statement fails are a set, and a
well-founded order has a smallest one (`SmallestSet`, `SmallestNumber`, by `WFMin`).

`LedgerProofs`, for any deals, tickets, entries, processes and units, and any bounds
(`LedgerAssumption`, `OpeningAssumption`):

- A CLOSE. `ISettlement` speaks of *works*, a fact with its frontier, from the
  moment that the producer derived it, wherever it is kept: in a manifest or in
  a process. `IWorks` says that each is sound by itself and rests on manifests that
  are there; `IFiles`, that the manifest comes first, so that no fact or frontier
  is without one; `ILock`, what the holder of the lease has tested; `IRecovery`,
  what a recovery has got done so far; `IBroker`, that works contain one another
  and their units are the broker's while no read was narrower than the anchor's
  window. The condition is the code's: without it the claim is false
  (`settlement_narrow`).
- `FrontiersAreProofs` follows from `IWorks` and `IFiles` alone. `DirectoriesStayUsable`
  needs all parts: that the manifest of the current record can be completed
  comes down to two frontiers of one settled volume being of the same deals, which
  holds since works contain one another and a deal has at least one unit.
- An OPEN. `IOpening`: entries and the discriminators of their files are one to one
  (`OFiles`); a call that is about to remove a preparation knows another file that
  holds what it intends (`OCalls`), which is `NothingPreparedIsLost`; and while
  facts are honest and the record has not gone on, no deal was seen before a
  receipt of an entry that does not refer to it (`OUsable`).
- From both, for a behaviour that runs either ledger: `PublishedFrontiersAreProofs`,
  `LedgersTellTheBroker`, `LedgersStayUsable`, `PreparationsSurvive`.

`OwnerProofs`, for any plan and any number of operations, with a store that may
refuse commits and without (`PlanAssumption`, `OwnerAssumption`):

- `RecoveryAgrees` says nothing of the states between a crash and the restart,
  and the two bounds of the exposure nothing of the journal, so that none of
  them is inductive. The invariant `Held` has three parts, of which the first two
  hold without an owner as well:
  - `History`: each record fits the broker's order (what was settled was filled,
    what was filled was requested), and once an operation began that could not
    have begun otherwise (`Ends`), the journal knows all that the earlier ones
    filled and none of them works any more (`Quiet`), so that nothing of the past
    can change what was replayed.
  - `Bounded`: what sells is covered by the position, and without refused commits
    the position and what buys fit into the plan. The sums run over any number of
    operations; a step changes one or two of them (`SumsShift`).
  - `Stands`: the memory is of the newest record (`Memory`), and whatever the records
    before it replay to is what the slice was made of (`Retraced`). `Follows` says
    what an operation in each state makes of the trade before it: the handlers
    keep it step by step, while the replay makes it at once from the record.
    With a store that may refuse, the memory may fall behind the journal, and only
    bounds remain (the finding `owner_late_fill` of section 5).
- Each handler comes down to three facts: its record and order keep `History`, the
  sums keep `Bounded`, and the new memory is what the new record replays to. A
  CANCEL is the hard one: its settlement replays from two operations before, since
  the late fill of the OPEN turns up before the CANCEL in the journal and after it
  in memory.
- From it: `OwnerTypes`, `RecoveryIsExact` (`RecoveryAgrees`), `ExposureStaysBounded`
  (`BrokerStaysInPlan`) and `ExposureSurvives` (`CrashesForgetNothing`): at most one
  OPEN is not known to the journal, with nothing but CANCELs that have not succeeded
  after it (`UnknownIsLast`), and what it may still be filled by is what the slice
  or the pending volume accounts for. Both faulty settlements of a CANCEL in
  `ManagedTradeOwner` break `History`: they end it before the journal knows all
  that its OPEN was filled by.

What stays with TLC: all liveness (`TicketedIsNormalized`, `ObligationDischarged`,
`MarketDataProgresses`, `EveryOperationReturns`, `QueriesReturn`), as fairness and
`ENABLED` are out of the prover's reach. Every invariant and every action property
that a run checks has its theorem.

## 7. What the models leave out

- Payload bytes, digests, formats of files, malformed files, error texts,
  diagnostics counters.
- In the owner: tickets, positions, time windows and floating-point volumes of
  deals. A settlement sees the cumulative volume of an order, or nothing.
- In delivery: the ticks in a batch, polling intervals, the retained-tick budget,
  the reconnection; an epoch for a source that was already removed when it began
  (it is discarded).
- In the runtime: Python objects and the GIL, which is taken only under
  `g_python_mutex`.
- In observation: close-by orders, volumes and symbols.
- In the ledgers: foreign orders and deals, directions, quantity domains.

### Not modelled

- Managed allocation and settlement preparation: nothing reaches these stores in
  a consistent state today. A broker reversal is valid only for an INOUT deal
  (`broker_reversal.hpp:237`), while the settlement producer accepts only OUT and
  OUT_BY, so that an allocation to settle a close against cannot be made. A model
  would have to invent the caller.
- Ownership basis: one immutable record per position, written once under the
  lease, with no protocol around it.
- Broker reversal and allocation envelopes: the partition of one deal, written
  once; nothing reads it yet. The files of the reversals are in `FileRecordStore`.
- Volume admission, staged admission and close attribution: validators and exact
  arithmetic over values, called only by the stores above.
- Conversion between Python objects and the C ABI, and the C++ wrapper: no state
  of their own.
- The repository's own TLA+ sketches, tests, examples and packaging.

## 8. Plan

1. Once a caller reaches them: managed allocations, settlement preparation and
   the reversal envelopes, as a protocol over `RecordStore`.
2. The outcomes that `ManagedTradeOwner` takes as given, from `ObservationLoop`.
