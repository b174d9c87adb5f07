SPECIFICATION Spec
CONSTANTS
  gb = gb
  md = md
  app = app
  g1 = g1
  g2 = g2
  g3 = g3
  o1 = o1
  o2 = o2
  c1 = c1
  c2 = c2
  Systems <- MCSystems
  Apps = {app}
  Games <- MCGames
  SystemOf <- MCSystemOf
  Homes <- MCHomes
  Idle = Idle
  Stamps = {1, 2}
  First = 1
  RecentLimit = 2
  OnionLists <- MCOnionLists
  Openers = {o1, o2}
  Scanners = {c1, c2}
  MaxChanges = 3
SYMMETRY MCSymmetry
CONSTRAINT MCFew
CHECK_DEADLOCK FALSE
INVARIANTS
  TypeOK
  FavoritesCompact
  SettledAsOnCard
PROPERTIES
  GenerationTells
  SchemaOnlyAdvances
  ListsKept
