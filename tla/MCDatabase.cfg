SPECIFICATION FairSpec
CONSTANTS
  CDNs = {c1, c2}
  Default = c1
  MaxVersion = 2
  MaxFailures = 2
  MaxPresses = 2
  None = None
  Broken = Broken
INVARIANTS TypeOK ShowsCurrent OneServer
PROPERTY Settles
