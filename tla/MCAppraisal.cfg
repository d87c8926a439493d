SPECIFICATION Spec
CONSTANTS
  None = None
  NaN = NaN
  Scale = 100
  IndexScale = 10000
  MaxCandidates = 3
  Requests <- MCRequests
  PageSets <- MCPageSets
  OfficialSets <- MCOfficialSets
  References <- MCReferences
  Days = {0, 300}
INVARIANTS
  TypeOK
  OneReadingDecides
  NearerScoresNoLess
  WhatWasAcceptedIsNotRefused
  FrontsAreDominanceDepth
  BetterRanksFirst
  RecommendationIsDefensible
