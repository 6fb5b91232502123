---------------------------- MODULE BridgeRuntime ----------------------------
(***************************************************************************)
(* The life of the embedded runtime (src/bridge/mt5_bridge.cpp): host      *)
(* threads initialize it, call it, subscribe to ticks and shut it down,    *)
(* and a poller thread makes calls of its own.                             *)
(*                                                                         *)
(* g_mutex guards the lifecycle, g_python_mutex and a lane permit guard    *)
(* the interpreter.  A critical section under g_mutex is one action, but   *)
(* for initialize(), which waits for g_python_mutex while it holds g_mutex. *)
(* Here the lane admits one thread; RuntimeLane says which.                *)
(***************************************************************************)
EXTENDS Naturals, FiniteSets

CONSTANTS
    Host,    \* the host's threads
    Poller,  \* the thread of realtime_poller
    None     \* no thread

ASSUME BridgeAssumption ==
    /\ IsFiniteSet(Host)
    /\ Poller \notin Host
    /\ None \notin Host \cup {Poller}

VARIABLES
    state,       \* g_runtime_state
    live,        \* whether the interpreter and its terminal session can be used
    owner,       \* g_owner_thread; None if the host owns the interpreter
    mutex,       \* the thread that holds g_mutex while it waits
    lane,        \* the thread with the lane permit
    python,      \* the thread with g_python_mutex
    active,      \* g_active_runtime_calls
    joinable,    \* g_poller.joinable()
    stop,        \* g_poller_stop
    subscribed,  \* whether g_realtime_sources has a source
    at           \* [Thread -> Place], where each thread stands

vars == <<state, live, owner, mutex, lane, python, active, joinable, stop,
          subscribed, at>>

Thread == Host \cup {Poller}

\* A call that was admitted and is still in g_active_runtime_calls.
Counted == {"for_lane", "for_python", "inside", "suspended", "to_count"}

\* out: a host thread in no operation, or no poller thread at all; to_leave: a
\* call that gives up its permit; asleep: in a condition variable's wait set;
\* resting: in the poller's timed wait; died: returned by an exception.
Place == Counted \cup
         {"out", "to_leave", "initializing", "joining", "draining", "asleep",
          "looping", "resting", "polling", "returned", "died"}

TypeOK ==
    /\ state \in {"stopped", "running", "shutting_down"}
    /\ live \in BOOLEAN
    /\ owner \in Host \cup {None}
    /\ mutex \in Host \cup {None}
    /\ lane \in Thread \cup {None}
    /\ python \in Thread \cup {None}
    /\ active \in Nat
    /\ joinable \in BOOLEAN
    /\ stop \in BOOLEAN
    /\ subscribed \in BOOLEAN
    /\ at \in [Thread -> Place]

Init ==
    /\ state = "stopped"
    /\ live = FALSE
    /\ owner = None
    /\ mutex = None
    /\ lane = None
    /\ python = None
    /\ active = 0
    /\ joinable = FALSE
    /\ stop = FALSE
    /\ subscribed = FALSE
    /\ at = [t \in Thread |-> "out"]

lifecycle == <<state, live, owner, joinable, stop, subscribed>>

MutexIsFree == mutex = None

Moves(t, from, to) == at[t] = from /\ at' = [at EXCEPT ![t] = to]

\* Where a thread makes its calls from, and goes back to.
Outside(t) == IF t = Poller THEN "polling" ELSE "out"

----------------------------------------------------------------------------
(* RuntimeCallAdmission: constructor, suspend, resume, destructor.         *)

\* A call that finds the runtime not running is refused and changes nothing.
Admit(t) ==
    /\ MutexIsFree
    /\ state = "running"
    /\ active' = active + 1
    /\ Moves(t, Outside(t), "for_lane")
    /\ UNCHANGED <<lifecycle, mutex, lane, python>>

TakeLane(t) ==
    /\ lane = None
    /\ lane' = t
    /\ Moves(t, "for_lane", "for_python")
    /\ UNCHANGED <<lifecycle, mutex, python, active>>

TakePython(t) ==
    /\ python = None
    /\ python' = t
    /\ Moves(t, "for_python", "inside")
    /\ UNCHANGED <<lifecycle, mutex, lane, active>>

\* Between two attempts of a rates query the call sleeps without the lane and
\* the interpreter, but remains counted.
Suspend(t) ==
    /\ t \in Host
    /\ lane' = None
    /\ python' = None
    /\ Moves(t, "inside", "suspended")
    /\ UNCHANGED <<lifecycle, mutex, active>>

Resume(t) ==
    /\ Moves(t, "suspended", "for_lane")
    /\ UNCHANGED <<lifecycle, mutex, lane, python, active>>

\* The destructor gives up the interpreter before it waits for g_mutex.
Return(t) ==
    /\ python' = None
    /\ Moves(t, "inside", "to_count")
    /\ UNCHANGED <<lifecycle, mutex, lane, active>>

\* The last counted call wakes the shutdown that waits for it.
Departs(t, to) ==
    /\ active' = active - 1
    /\ at' = [u \in Thread |->
                 IF u = t THEN to
                 ELSE IF u \in Host /\ at[u] = "asleep" /\ active = 1 THEN "draining"
                 ELSE at[u]]

\* Faulty: nobody is told that the last call has left.
UncountSilently(t) ==
    /\ MutexIsFree
    /\ active' = active - 1
    /\ Moves(t, "to_count", "to_leave")
    /\ UNCHANGED <<lifecycle, mutex, lane, python>>

Uncount(t) ==
    /\ MutexIsFree
    /\ at[t] = "to_count"
    /\ Departs(t, "to_leave")
    /\ UNCHANGED <<lifecycle, mutex, lane, python>>

\* The members are destroyed after the destructor's body: the permit is last.
Leave(t) ==
    /\ lane = t
    /\ lane' = None
    /\ Moves(t, "to_leave", Outside(t))
    /\ UNCHANGED <<lifecycle, mutex, python, active>>

\* acquire() or lock() throws: the count is taken back before the permit goes.
AcquireThrows(t) ==
    /\ MutexIsFree
    /\ \/ at[t] = "for_lane" /\ Departs(t, Outside(t))
       \/ at[t] = "for_python" /\ Departs(t, "to_leave")
    /\ UNCHANGED <<lifecycle, mutex, lane, python>>

----------------------------------------------------------------------------
(* The poller.                                                             *)

Awakened == IF at[Poller] = "asleep" THEN "looping" ELSE at[Poller]

MustStop == stop \/ state # "running"

PollerLoops ==
    /\ MutexIsFree
    /\ Moves(Poller, "looping", IF MustStop THEN "returned"
                               ELSE IF subscribed THEN "resting" ELSE "asleep")
    /\ UNCHANGED <<lifecycle, mutex, lane, python, active>>

\* The timed wait ends, by the time or by a notification.
PollerWakes ==
    /\ MutexIsFree
    /\ Moves(Poller, "resting", IF MustStop THEN "returned" ELSE "polling")
    /\ UNCHANGED <<lifecycle, mutex, lane, python, active>>

\* The pages of an epoch are calls; its result is committed under g_mutex.
PollerCommits ==
    /\ MutexIsFree
    /\ Moves(Poller, "polling", "looping")
    /\ UNCHANGED <<lifecycle, mutex, lane, python, active>>

\* An exception ends the thread; g_poller remains joinable.
PollerThrows ==
    /\ MutexIsFree
    /\ Moves(Poller, "polling", "died")
    /\ UNCHANGED <<lifecycle, mutex, lane, python, active>>

----------------------------------------------------------------------------
(* Subscriptions, as far as the poller's life depends on them.             *)

\* Faulty: a poller that sleeps for want of sources is not told of one.
SubscribeSilently(t) ==
    /\ MutexIsFree
    /\ at[t] = "out"
    /\ state = "running"
    /\ subscribed' = TRUE
    /\ joinable' = TRUE
    /\ at' = IF joinable THEN at ELSE [at EXCEPT ![Poller] = "looping"]
    /\ UNCHANGED <<state, live, owner, stop, mutex, lane, python, active>>

Subscribe(t) ==
    /\ MutexIsFree
    /\ at[t] = "out"
    /\ state = "running"
    /\ subscribed' = TRUE
    /\ joinable' = TRUE
    /\ at' = [at EXCEPT ![Poller] = IF joinable THEN Awakened ELSE "looping"]
    /\ UNCHANGED <<state, live, owner, stop, mutex, lane, python, active>>

\* The last subscription goes.
Unsubscribe(t) ==
    /\ MutexIsFree
    /\ at[t] = "out"
    /\ subscribed
    /\ subscribed' = FALSE
    /\ UNCHANGED <<state, live, owner, joinable, stop, mutex, lane, python,
                   active, at>>

----------------------------------------------------------------------------
(* mt5bridge_initialize and mt5bridge_shutdown.                            *)

InitializeLocks(t) ==
    /\ MutexIsFree
    /\ mutex' = t
    /\ Moves(t, "out", "initializing")
    /\ UNCHANGED <<lifecycle, lane, python, active>>

\* It fails, or finds the runtime running or shutting down; or it starts the
\* runtime, in an interpreter of its own or in the host's.
InitializeReturns(t) ==
    /\ python = None
    /\ mutex = t
    /\ mutex' = None
    /\ Moves(t, "initializing", "out")
    /\ \/ UNCHANGED lifecycle
       \/ /\ state = "stopped"
          /\ state' = "running"
          /\ live' = TRUE
          /\ owner' \in {t, None}
          /\ stop' = FALSE
          /\ UNCHANGED <<joinable, subscribed>>
    /\ UNCHANGED <<lane, python, active>>

\* Faulty: the poller is told to stop, and not waited for.
ShutdownDetaches(t) ==
    /\ MutexIsFree
    /\ at[t] = "out"
    /\ state = "running"
    /\ owner \in {t, None}
    /\ stop' = TRUE
    /\ state' = "shutting_down"
    /\ joinable' = FALSE
    /\ at' = [at EXCEPT ![t] = "draining", ![Poller] = Awakened]
    /\ UNCHANGED <<live, owner, subscribed, mutex, lane, python, active>>

\* Only the thread that started the interpreter may stop it.
ShutdownBegins(t) ==
    /\ MutexIsFree
    /\ at[t] = "out"
    /\ state = "running"
    /\ owner \in {t, None}
    /\ stop' = TRUE
    /\ state' = "shutting_down"
    /\ joinable' = FALSE
    /\ at' = [at EXCEPT ![t] = IF joinable THEN "joining" ELSE "draining",
                        ![Poller] = Awakened]
    /\ UNCHANGED <<live, owner, subscribed, mutex, lane, python, active>>

JoinPoller(t) ==
    /\ at[t] = "joining"
    /\ at[Poller] \in {"returned", "died"}
    /\ at' = [at EXCEPT ![t] = "draining", ![Poller] = "out"]
    /\ UNCHANGED <<lifecycle, mutex, lane, python, active>>

ShutdownWaits(t) ==
    /\ MutexIsFree
    /\ active # 0
    /\ Moves(t, "draining", "asleep")
    /\ UNCHANGED <<lifecycle, mutex, lane, python, active>>

\* Faulty: calls in flight are not waited for.
ShutdownAtOnce(t) ==
    /\ MutexIsFree
    /\ python = None
    /\ state' = "stopped"
    /\ live' = FALSE
    /\ owner' = None
    /\ subscribed' = FALSE
    /\ Moves(t, "draining", "out")
    /\ UNCHANGED <<joinable, stop, mutex, lane, python, active>>

ShutdownReturns(t) ==
    /\ MutexIsFree
    /\ active = 0
    /\ python = None
    /\ state' = "stopped"
    /\ live' = FALSE
    /\ owner' = None
    /\ subscribed' = FALSE
    /\ Moves(t, "draining", "out")
    /\ UNCHANGED <<joinable, stop, mutex, lane, python, active>>

----------------------------------------------------------------------------
Call(t) ==
    \/ Admit(t) \/ TakeLane(t) \/ TakePython(t)
    \/ Suspend(t) \/ Resume(t)
    \/ Return(t) \/ Uncount(t) \/ Leave(t) \/ AcquireThrows(t)

Next ==
    \/ \E t \in Thread : Call(t)
    \/ PollerLoops \/ PollerWakes \/ PollerCommits \/ PollerThrows
    \/ \E t \in Host :
          \/ Subscribe(t) \/ Unsubscribe(t)
          \/ InitializeLocks(t) \/ InitializeReturns(t)
          \/ ShutdownBegins(t) \/ JoinPoller(t)
          \/ ShutdownWaits(t) \/ ShutdownReturns(t)

Spec == Init /\ [][Next]_vars

\* A thread in an operation goes on, and a mutex or the lane that is free
\* again and again is won some time.
Advances(t) ==
    \/ TakeLane(t) \/ TakePython(t) \/ Resume(t) \/ Return(t)
    \/ Uncount(t) \/ Leave(t)
    \/ InitializeReturns(t)
    \/ JoinPoller(t) \/ ShutdownWaits(t) \/ ShutdownReturns(t)

PollerAdvances ==
    Advances(Poller) \/ PollerLoops \/ PollerWakes \/ PollerCommits

\* The attempts of a rates query are bounded, so that some attempt returns.
FairSpec ==
    /\ Spec
    /\ \A t \in Host : SF_vars(Advances(t)) /\ SF_vars(Return(t))
    /\ SF_vars(PollerAdvances)

----------------------------------------------------------------------------
(* Properties.                                                             *)

\* docs/adr/0005-runtime-call-admission.md: an admitted call never runs in an
\* interpreter that a shutdown has finalized, not even after it was suspended.
CallsUseALiveInterpreter ==
    \A t \in Thread : at[t] \in Counted => live

\* docs/market-data-api.md:227: the poller is gone before the teardown begins.
PollerIsJoinedFirst ==
    [][live /\ ~live' => at[Poller] = "out"]_vars

\* While something is subscribed the poller neither sleeps without a deadline
\* nor has returned, whatever unsubscriptions, restarts and wake-ups came
\* before; only an exception, after which nothing restarts it, can end it.
SourcesArePolled ==
    state = "running" /\ subscribed =>
        at[Poller] \notin {"out", "asleep", "returned"}

\* Calls, initialize and shutdown never wait on each other for ever: each of
\* them returns, the shutdown although calls were in flight when it began.
EveryOperationReturns ==
    \A t \in Host : at[t] # "out" ~> at[t] = "out"

============================================================================
