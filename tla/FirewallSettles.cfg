SPECIFICATION FairSpec
CONSTANTS
  Clients = {c1, c2}
  Workers = {w1, w2}
  Faults = {"nft", "systemd", "reboot"}
  Races = {}
  None = None
INVARIANT KeptOrGuarded
INVARIANT OpeningsAreKept
PROPERTY OpensOnlyOwn
PROPERTY LockoutEnds
