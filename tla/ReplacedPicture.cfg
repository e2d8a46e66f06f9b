\* Two uploads or removals of one user, and nothing fails.
SPECIFICATION Spec
CONSTANTS
  Requests = {r1, r2}
  alice = alice
  bob = bob
  None = None
  Users <- MCUsers
  Pictured <- MCPictured
  Calls <- RaceCalls
  Faults = {}
  MaxCrashes = 0
INVARIANT
  ReplacedPictureIsGone
