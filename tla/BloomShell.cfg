SPECIFICATION Spec
CONSTANTS
  g1 = g1
  g2 = g2
  g3 = g3
  g4 = g4
  g5 = g5
  Systems <- MCSystems
  SystemOrder <- MCSystemOrder
  Games <- MCGames
  GameOrder <- MCGameOrder
  SystemOf <- MCSystemOf
  Playable <- MCSystems
  SystemCapacity = 2
  PageSize = 1
  GameCapacity = 3
  ListCapacity = 3
  Rows = 2
  Settings <- MCSettings
  Chars = {"a"}
  MaxQuery = 1
  Matches <- MCMatches
  InitialLists <- MCInitialLists
  None = None
  MaxMoves = 1
  MaxWrites = 2
CONSTRAINT MCFew
CHECK_DEADLOCK FALSE
INVARIANTS
  TypeOK
  FocusShown
  ResultsAreOfList
  FavoritesStored
  LoadComplete
