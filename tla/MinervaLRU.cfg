CONSTANTS
  MaxItemsArg = 2
  MaxEpoch = 6
  MaxGets = 8
  Requests <- MCRequestsAll
INIT Init
NEXT Next
INVARIANTS
  TypeOK
  ItemMatchesEpoch
  FutureMatches
