SPECIFICATION Spec
CONSTANTS
  w1 = w1
  w2 = w2
  p1 = p1
  o1 = o1
  o2 = o2
  Workflows = {w1, w2}
  Products = {p1}
  Offers = {o1, o2}
  ProductOf <- MCProductOf
  LastStage <- MCLastStage
  Nobody = nobody
  Operators = {op}
  MaxImports = 1
CONSTRAINT StagesBound
SYMMETRY OfferSymmetry
INVARIANTS
  TypeOK
  NothingLeftBehind
  ArchiveCoversItsTrail
PROPERTIES
  DeletionKeepsSharedRows
  DeletesWhatWasShown
CHECK_DEADLOCK FALSE
