\* Two requests out of everything a client may ask for, every kind of failure.
SPECIFICATION FairSpec
CONSTANTS
  Requests = {r1, r2}
  alice = alice
  bob = bob
  carol = carol
  s1 = s1
  s2 = s2
  None = None
  Users <- MCUsers
  Seeds <- MCSeeds
  SeedRow <- MCSeedRow
  SeedLog <- MCSeedLog
  Calls <- FaultCalls
  Faults = {"save", "delete", "db", "ack", "close", "crash"}
  MaxCrashes = 1
INVARIANTS
  HistoryExplainsStatus
  AnswersAreTrue
  EveryOrphanHasACause
  LocksAreHeldByTransactions
PROPERTIES
  EveryRequestIsServed
