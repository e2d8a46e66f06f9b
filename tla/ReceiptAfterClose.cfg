\* A session that fails to close after the insert committed.
SPECIFICATION Spec
CONSTANTS
  Requests = {r1, r2}
  alice = alice
  bob = bob
  carol = carol
  s1 = s1
  s2 = s2
  None = None
  Users <- MCUsers
  Seeds <- MCSeeds
  SeedRow <- MCSeedRow
  SeedLog <- MCSeedLog
  Calls <- RaceCalls
  Faults = {"close"}
  MaxCrashes = 0
INVARIANT
  ReceiptSurvivesItsCommit
