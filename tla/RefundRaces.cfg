\* Three concurrent requests; sessions may fail to close, nothing else fails.
SPECIFICATION Spec
CONSTANTS
  Requests = {r1, r2, r3}
  alice = alice
  bob = bob
  carol = carol
  s1 = s1
  s2 = s2
  None = None
  Users <- MCUsers
  Seeds <- MCSeeds
  SeedRow <- MCSeedRow
  SeedLog <- MCSeedLog
  Calls <- RaceCalls
  Faults = {"close"}
  MaxCrashes = 0
SYMMETRY Symmetry
INVARIANTS
  TypeOK
  HistoryExplainsStatus
  FilesBehindRows
  AnswersAreTrue
PROPERTIES
  PaidIsFinal
  ImplementsLifecycle
