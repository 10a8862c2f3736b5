SPECIFICATION Spec
CONSTANTS
  Clients = {c1, c2}
  Lines = {"grpc", "unlimited"}
  Slow = {"unlimited"}
  MaxBought = 2
  Scenes <- Everything
  Races = {}
SYMMETRY Alike
VIEW Matters
INVARIANT TypeOK
INVARIANT ChargedIsKnown
INVARIANT ReleaseEndsAll
PROPERTY NeverBuysAnother
