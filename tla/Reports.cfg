\* One report against two writes of other requests.
SPECIFICATION Spec
CONSTANTS
  Nobody = Nobody
  Tables <- MCTables
  People <- MCPeople
  Calls <- MCCalls
  Today <- MCToday
  MaxWrites = 2
INVARIANT
  TypeOK
  QuietListingIsComplete
  EveryMissedRowHasAWrite
  SummaryAddsUp
  OnlyOwnRefunds
  EndpointsAgree
