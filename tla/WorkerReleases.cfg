SPECIFICATION FairSpec
CONSTANTS
  key = key
  Releases = {1, 2}
  Secrets = {key}
  Needs <- KeySince2
  Faults = {"agent", "cut", "torn", "disk"}
  None = None
  Clients = {c1, c2}
  Keep = 1
  Asked = {"unlock", "lock", "start", "stop", "restart"}
  Races = {}
INVARIANT StaysStopped
INVARIANT PointedIsOnDisk
INVARIANT RunsFromDisk
INVARIANT LeftTrusted
INVARIANT OneVerb
PROPERTY StartsAgain
