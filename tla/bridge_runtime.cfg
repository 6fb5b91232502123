\* Three host threads and the poller.
CONSTANTS
  Host = {h1, h2, h3}
  Poller = poller
  None = none
SPECIFICATION FairSpec
INVARIANTS
  CallsUseALiveInterpreter
  
PROPERTIES
  PollerIsJoinedFirst
  EveryOperationReturns
