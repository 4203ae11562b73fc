SPECIFICATION Spec
CONSTANTS
  Clients = {c1, c2}
  Nobody = nobody
  Moves <- MCMoves
  Length = 5
  MmPerRev = 5
  Sign <- MCSign
  Track <- MCTrack
  Shifts <- MCShifts
  HomeEnds <- MCHomeEnds
  Offsets = {1}
INVARIANTS
  TypeOK
  PositionTrue
  MoveLands
CHECK_DEADLOCK FALSE
