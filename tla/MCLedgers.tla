------------------------------- MODULE MCLedgers -------------------------------
(***************************************************************************)
(* Model-checking instance of the two ledgers of deals: each behaviour has *)
(* one of them, that of a managed CLOSE or that of a managed OPEN.         *)
(***************************************************************************)
EXTENDS SettlementLedger, OpeningAllocation

CONSTANT Ledgers

VARIABLE ledger
ledgersVars == <<ledger, vars, openingVars>>

LedgersInit == ledger \in Ledgers /\ Init /\ InitOpening

SettlementLedgerNext ==
    /\ ledger = "settlement"
    /\ Next
    /\ UNCHANGED openingVars

\* Once the record has gone on, nothing can be verified: what is left is the
\* end of the call that was under way.
OpeningAllocationNext ==
    /\ ledger = "opening"
    /\ persisted \/ call[holder].pc = "remove"
    /\ OpeningNext
    /\ UNCHANGED vars

LedgersNext ==
    /\ UNCHANGED ledger
    /\ SettlementLedgerNext \/ OpeningAllocationNext

LedgersSpec == LedgersInit /\ [][LedgersNext]_ledgersVars

\* Whatever a caller claims, the units in either ledger are the broker's.
UnitsAreTheBrokers == FactsAreTheBrokers /\ AllocationsAreTheBrokers

\* No crash and no failed write leaves a directory that cannot be gone on with.
DirectoriesStayUsable == CurrentManifestsAreRecoverable /\ OpeningStaysUsable

\* What was once prepared is published or carried by what replaces it, and no
\* allocation is published behind a larger one.
NothingPreparedIsLost ==
    /\ RecoveryIsComplete
    /\ IntentIsKept
    /\ FrontiersOnlyGrow

=============================================================================
