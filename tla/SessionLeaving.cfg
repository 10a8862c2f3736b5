SPECIFICATION LeavingSpec
CONSTANTS
  p1 = p1
  p2 = p2
  c1 = c1
  c2 = c2
  Procs = {p1}
  Calls = {c1, c2}
  ProcOf <- OneProc
  Stores = {s1, s2}
  MaxGrant = 1
  MaxGen = 1
  None = None
  Unreadable = Unreadable
  Faults = {"load", "save", "reply", "lock", "kill", "panic", "unwind", "impatient", "unreadable", "orphan"}
INVARIANT TypeOK
INVARIANT OneAtATime
PROPERTY LeavingEnds
