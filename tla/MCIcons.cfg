SPECIFICATION Spec
CONSTANTS
  NumApps = 2
  FieldSize = 1
  Keep = 0
  MinCount = 0
  Preloaded = {0}
  Clearable = {1}
  Lists <- MCLists
INVARIANTS TypeOK SharedTexturesLive
PROPERTY PageServed
