SPECIFICATION FairSpec
CONSTANTS
  Programs <- AllPrograms
  MaxRequests = 4
  NServers = 2
  MaxRetransmits = 2
  MaxReissues = 1
  MaxNameserverTimeout = 1
INVARIANTS ToldOnce IsReqIsTrue NoUseAfterFree ServersWatched
PROPERTIES Told
\* The program may make no more requests, or the object is destroyed or stuck.
CHECK_DEADLOCK FALSE
