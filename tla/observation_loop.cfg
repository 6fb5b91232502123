\* Two orders, two host programs, three revisions of the graph.
CONSTANTS
  Programs <- MCPrograms
  MaxRevision = 3
SPECIFICATION Spec
INVARIANTS
  PolicyTellsTheTruth
  AccountsNeverMix
  CoverageIsExact
  ConclusionsAreSound
CHECK_DEADLOCK FALSE
