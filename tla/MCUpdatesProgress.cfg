SPECIFICATION FairSpec
CONSTANTS
  NumGames = 1
  MaxInstalls = 0
PROPERTY NeverDeadlocks
