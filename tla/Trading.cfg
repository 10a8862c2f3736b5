SPECIFICATION FairSpec
CONSTANTS
  None = None
  p1 = p1
  p2 = p2
  A = A
  B = B
  Pools = {p1, p2}
  Tokens = {A, B}
  Amount = 2
  MaxPositions = 1
  MaxPaid = 2
  MaxTries = 2
  Scenes <- Trades
  Races = {}
INVARIANTS TypeOK OneSellAtATime OnePositionPerToken NothingStranded WithinSlots
PROPERTIES ClosedIsGone ProceedsAreCounted TargetIsKept EndsOnceLate
CHECK_DEADLOCK FALSE
