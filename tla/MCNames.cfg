CONSTANTS
  c1 = c1
  c2 = c2
  v1 = v1
  p1 = p1
  p2 = p2
  None = None
  Clients = {c1, c2}
  Inputs <- FiveNames
  Fold <- Folded
  Similarity <- Alikeness
  maxDepth = 2
  Reports <- ThreeReports
  Words <- WordsOf
  junk = {"AT SEA"}
  abbrevLike = {"SNGP"}
  Ports = {p1, p2}
  PortNames <- TwoPorts
  Casts <- ThreeCasts
SPECIFICATION Spec
INVARIANTS
  ForksAreReviewed
  OwnershipIsTree
  GroupsMatchChains
  HintsAreBest
CHECK_DEADLOCK FALSE
