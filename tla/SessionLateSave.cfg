SPECIFICATION Spec
CONSTANTS
  p1 = p1
  p2 = p2
  c1 = c1
  c2 = c2
  Procs = {p1, p2}
  Calls = {c1, c2}
  ProcOf <- TwoProcs
  Stores = {s1}
  MaxGrant = 1
  MaxGen = 2
  None = None
  Unreadable = Unreadable
  Faults = {"orphan", "impatient"}
SYMMETRY Swap
INVARIANT LateSaveTakesNothingBack
