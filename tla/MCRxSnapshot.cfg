SPECIFICATION FairSpec
CONSTANTS
  Cells = {payload, cycle}
  MaxReadRetries = 2
  MaxPublishes = 3
INVARIANTS
  TypeOK
  NoTornRead
PROPERTY ReadReturns
