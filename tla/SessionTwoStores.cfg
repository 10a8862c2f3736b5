SPECIFICATION Spec
CONSTANTS
  p1 = p1
  p2 = p2
  c1 = c1
  c2 = c2
  Procs = {p1, p2}
  Calls = {c1, c2}
  ProcOf <- TwoProcs
  Stores = {s1, s2}
  MaxGrant = 2
  MaxGen = 1
  None = None
  Unreadable = Unreadable
  Faults = {"save"}
SYMMETRY Swap
INVARIANT NeverNeither
