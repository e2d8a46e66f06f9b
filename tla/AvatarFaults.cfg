\* Three requests out of everything a client may ask for, every kind of failure.
SPECIFICATION Spec
CONSTANTS
  Requests = {r1, r2, r3}
  alice = alice
  bob = bob
  None = None
  Users <- MCUsers
  Pictured <- MCPictured
  Calls <- FaultCalls
  Faults = {"save", "delete", "db", "ack", "crash"}
  MaxCrashes = 1
SYMMETRY Symmetry
INVARIANTS
  TypeOK
  AvatarIsThere
  EveryOrphanAvatarHasACause
