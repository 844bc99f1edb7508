CONSTANTS
  f = f
  g = g
  h = h
  Keys <- MCKeys
  SortFields <- MCFields
  Values <- MCValues
  TextRank <- MCTextRank
  Kind <- MCKind
  Dist <- MCDist
  Tables <- MCTables
  Writes <- MCWrites
  Plans <- MCPlans
  BatchSize = 2
  Null = Null
  NoRow = NoRow
SPECIFICATION Spec
INVARIANTS
  TypeOK
  FetchedOnce
  NothingSkipped
  TotalBracketed
  RightPage
  ErrorNeedsFault
PROPERTIES
  EverySearchAnswered
