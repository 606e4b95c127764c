SPECIFICATION FairSpec
CONSTANTS
  NumGames = 2
  MaxInstalls = 2
INVARIANTS TypeOK BalancedLocks BadgeExact NoCircularWait
PROPERTIES Responds CheckEnds InstallSettles
