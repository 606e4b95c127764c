SPECIFICATION FairSpec
CONSTANTS
  ENTRIES = 1
  Items = {i1}
  NoItem = NoItem
  UI = UI
  Workers = {w1, w2}
  Installers = {t1}
  DlErrors <- MCDlErrors
  SysErrors <- MCSysErrors
  Folders = {d1, d2}
  DefaultFolder = d1
  MaxTakeOvers = 1
INVARIANT InstallWhole
PROPERTY ThreadsEnd
