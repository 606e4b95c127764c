SPECIFICATION Spec
CONSTANTS
  NumGames = 3
  Columns = 2
  Rows = 1
  Groups = {1, 2, 3}
  GroupOf <- MCGroupOf
  Tokens = 2
  MaxDownloads = 1
INVARIANTS TypeOK SelectionShown ListsDenote
