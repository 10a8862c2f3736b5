SPECIFICATION WorkingSpec
CONSTANTS
  p1 = p1
  p2 = p2
  c1 = c1
  c2 = c2
  Procs = {p1, p2}
  Calls = {c1, c2}
  ProcOf <- TwoProcs
  Stores = {s1}
  MaxGrant = 2
  MaxGen = 1
  None = None
  Unreadable = Unreadable
  Faults = {"load", "save", "clear", "delete", "lock"}
INVARIANT NeverNeither
INVARIANT UndoneIsNotStored
PROPERTY SignedOutLeavesNothing
PROPERTY KeepsPromise
PROPERTY ParkedIsFiled
