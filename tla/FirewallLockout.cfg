SPECIFICATION Spec
CONSTANTS
  Clients = {c1, c2}
  Workers = {w1, w2}
  Faults = {"disk", "nft", "systemd", "reboot"}
  Races = {"halfKept"}
  None = None
SYMMETRY Alike
INVARIANT TypeOK
INVARIANT LockoutIsGuarded
PROPERTY KeptIsProven
