SPECIFICATION MCSpec
CONSTANTS
  Clients = {c1, c2}
  Entries = {live, saved}
  Backups = {b1, b2}
  Inodes = {1, 2, 3, 4, 5, 6, 7, 8, 9, 10}
  MaxEdits = 2
  MaxDeaths = 1
  None = None
  Absent = Absent
  Pages <- MCPages
  Keys = {"search", "item 1", "item 2", "item 3"}
  SearchKey = "search"
  MaxSavedPages = 5
  MaxCandidates = 3
  MaxDetails = 2
SYMMETRY Symmetry
INVARIANTS
  TypeOK
  NothingIsTorn
  KeepsWhatWasThere
  ReadyPlanCollects
CHECK_DEADLOCK FALSE
