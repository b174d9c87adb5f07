SPECIFICATION Spec
CONSTANTS
  Files = {sheet, list}
  Playlists = {list}
  Sheets = {sheet}
  Images = {i1, i2}
  Procs = {p1, p2}
  None = None
  Gone = Gone
  MaxEvents = 1
SYMMETRY Alike
CONSTRAINT MCFew
INVARIANTS
  TypeOK
  RowsTell
  CompletedScanIndexes
  AllResolves
