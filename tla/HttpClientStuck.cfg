SPECIFICATION FairSpec
CONSTANTS
  Programs <- BreakingPrograms
  MaxRequests = 2
  NServers = 2
  MaxRetransmits = 2
  MaxReissues = 1
  MaxNameserverTimeout = 1
PROPERTIES TimeoutTold
CHECK_DEADLOCK FALSE
