----------------------------- MODULE MCMarketData -----------------------------
(***************************************************************************)
(* Model-checking instance of the three readers of market data: each       *)
(* behaviour has one of them, at its own terminal.                         *)
(***************************************************************************)
EXTENDS TickHistory, TickPoller, RatesQuery

CONSTANT Readers

VARIABLE reader
marketVars == <<reader, archive, historyVars, pollerVars, ratesVars>>

HistoryTick == [time: 0 .. HistoryEnd, payload: Payload]
InitialArchives ==
    {SetToBag(s) : s \in {x \in SUBSET HistoryTick : Cardinality(x) <= 2}}

QuietHistory ==
    /\ range = [from |-> 0, to |-> 0] /\ pc = "idle" /\ probe = NewProbe(0)
    /\ cursor = [at |-> 0, seen |-> NoTicks] /\ probes = 0 /\ partials = 0
    /\ delivered = NoTicks /\ begun = NoTicks /\ sightings = <<None, None>>

QuietRates ==
    /\ bars = {} /\ changes = 0 /\ asked = [from |-> 0, to |-> 0]
    /\ query = NewQuery

MarketInit ==
    /\ reader \in Readers
    /\ archive \in IF reader = "history" THEN InitialArchives ELSE {NoTicks}
    /\ IF reader = "history" THEN InitHistory ELSE QuietHistory
    /\ IF reader = "rates" THEN InitRates ELSE QuietRates
    /\ InitPoller

\* Another tick of the history is synchronized, older or newer.
TickSynchronized ==
    /\ MayShow
    /\ \E k \in HistoryTick : Shown(k)
    /\ UNCHANGED historyVars

QueryNext == ReadStep /\ UNCHANGED archive

HistoryQuery ==
    /\ reader = "history"
    /\ QueryNext \/ TickSynchronized
    /\ UNCHANGED <<pollerVars, ratesVars>>

Poller ==
    /\ reader = "poller"
    /\ PollStep
    /\ UNCHANGED <<historyVars, ratesVars>>

Rates ==
    /\ reader = "rates"
    /\ RatesNext
    /\ UNCHANGED <<archive, historyVars, pollerVars>>

MarketNext == UNCHANGED reader /\ (HistoryQuery \/ Poller \/ Rates)

\* Calls into the terminal return, and the queries go on with what they got.
MarketSpec ==
    /\ MarketInit /\ [][MarketNext]_marketVars
    /\ WF_marketVars(reader = "history" /\ QueryNext /\ UNCHANGED <<reader, pollerVars, ratesVars>>)
    /\ WF_marketVars(reader = "rates" /\ RatesStep
               /\ UNCHANGED <<reader, archive, historyVars, pollerVars>>)

\* Neither query takes the first answer of a terminal that still synchronizes.
AnswersAreConfirmed == BootstrapIsConfirmed /\ RatesAreConfirmed

\* No answer of the terminal keeps a query reading for ever.
QueriesReturn ==
    /\ reader = "history" => QueryEnds
    /\ reader = "rates" => RatesEnd

=============================================================================
