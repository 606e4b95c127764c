SPECIFICATION Spec
CONSTANTS
  ENTRIES = 2
  Items = {i1, i2}
  NoItem = NoItem
  UI = UI
  Workers = {w1, w2}
  Installers = {t1}
  DlErrors <- MCDlErrors
  SysErrors <- MCSysErrors
  Folders = {d1}
  DefaultFolder = d1
  MaxTakeOvers = 1
SYMMETRY MCSymmetry
INVARIANTS TypeOK StatusTruthful NoGhost InstallWhole BadgeCounts
PROPERTIES ReusesFinishedSlots PoolProtocol
