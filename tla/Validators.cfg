SPECIFICATION Spec
CONSTANTS
  None = None
  Cmds = {c1, c2}
  Machines = {m1, m2}
  Names = {v1}
  Addresses = {a1, a2}
  MaxVer = 3
  Scenes <- Networks
SYMMETRY Alike
INVARIANTS OnceEach PasswordIsStored KeyIsKept
PROPERTY NothingOverwritten
