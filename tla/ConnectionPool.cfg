\* Three requests share two connections; a session may last two ticks.  Liveness
\* is checked here as well, hence no symmetry.
SPECIFICATION Spec
CONSTANTS
  Requests = {r1, r2, r3}
  Operations <- MCOperations
  RefundRows = {f1}
  UserRows = {u1}
  Capacity = 2
  PoolTimeout = 3
  LockTimeout = 1
  SessionTime = 2
INVARIANTS
  TypeOK
  NothingLeaks
  PoolNeverWaitsForItself
  RefusedOnlyWhenCrowded
PROPERTY
  EveryRequestEnds
