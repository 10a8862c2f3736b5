SPECIFICATION Spec
CONSTANTS
  key = key
  Releases = {1, 2}
  Secrets = {key}
  Needs <- KeyUntil1
  Faults = {}
  None = None
  Clients = {c1, c2}
  Keep = 1
  Asked = {}
  Races = {}
SYMMETRY Alike
INVARIANT PreviousCanRun
