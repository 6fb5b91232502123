---------------------------- MODULE MCTradeAndFiles ----------------------------
(***************************************************************************)
(* Model-checking instance of the two things that the managed trade owner  *)
(* rests on, the state machine of a trade and the stores of its records:   *)
(* each behaviour has one of them.                                         *)
(***************************************************************************)
EXTENDS ManagedTrade, FileRecordStore

CONSTANTS
    o1, o2,  \* two operations whose servers have the same hash
    v, account,
    k1, k2

MCFileOf ==
    [k \in {o1, o2, v, account} |->
        CASE k \in {o1, o2} -> "op" [] k = v -> "rev" [] k = account -> "lease"]

\* A record and its successor; two different reversals; a load that collides; a
\* scan and a lease.
MCRequests ==
    LET First(key, kind) == [key |-> key, revision |-> 1, kind |-> kind]
        Second(key) == [key |-> key, revision |-> 2, kind |-> k1] IN
    [op: {"commit"},
     record: {First(o1, k1), Second(o1), First(v, k1), First(v, k2)}]
    \cup [op: {"load"}, key: {o2}]
    \cup [op: {"scan"}, keys: {{o1, o2}}]
    \cup [op: {"acquire"}]

VARIABLE part
tradeAndFilesVars == <<part, trade, filesVars>>

InitBoth == part \in {"trade", "files"} /\ Init /\ FilesInit

TradeStep(Action) ==
    /\ part = "trade"
    /\ Action
    /\ UNCHANGED <<part, filesVars>>

FilesStep ==
    /\ part = "files"
    /\ FilesNext
    /\ UNCHANGED <<part, trade>>

\* The fairness of ManagedTrade.
BothFairSpec ==
    /\ InitBoth
    /\ [][TradeStep(Next) \/ FilesStep]_tradeAndFilesVars
    /\ WF_tradeAndFilesVars(TradeStep(Submit))
    /\ WF_tradeAndFilesVars(TradeStep(Answer))
    /\ WF_tradeAndFilesVars(TradeStep(Apply))
    /\ WF_tradeAndFilesVars(TradeStep(CloseSlice))
    /\ WF_tradeAndFilesVars(TradeStep(CancelRemainder))
    /\ WF_tradeAndFilesVars(TradeStep(Refresh))
    /\ WF_tradeAndFilesVars(TradeStep(Acknowledge))
================================================================================
