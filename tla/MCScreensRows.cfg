SPECIFICATION Spec
CONSTANTS
  ENTRIES = 2
  Items = {i1, i2}
  NoItem = NoItem
  Reports <- MCReports
  TakeOvers = FALSE
SYMMETRY MCSymmetry
INVARIANT RankHasSlot
