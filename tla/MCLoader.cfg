SPECIFICATION FairSpec
CONSTANTS
  c1 = c1
  c2 = c2
  CDNs = {c1, c2}
  MaxRelease = 2
  Revoked <- MCRevoked
  MaxFailures = 3
  None = None
  Broken = Broken
INVARIANTS TypeOK LocalVouches LaunchesCurrent LaunchesVerified
PROPERTY LaunchesInTheEnd
