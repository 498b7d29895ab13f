SPECIFICATION OrderSpec
CONSTANTS
  Nodes = {1, 2, 3, 4}
  Rank <- MCRank
INVARIANTS
  CycleVerdict
  RankedOrder
