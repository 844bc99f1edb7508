CONSTANTS
  n = n
  m = m
  b = b
  v = v
  u = u
  w = w
  z = z
  items = items
  i = i
  other = other
  Statements <- MCStatements
  Fields <- MCFields
  VectorFields = {v, u, w}
  IndexMetric <- MCIndexMetric
  BoolFields = {b}
  Table <- MCTable
  Rows <- MCRows
  TableName = items
  MaxInt = 15
  Window = 4
  Null = Null
  Bad = Bad
  Bare = Bare
  Yes = Yes
  No = No
  Names = {n, m, b, v, u, w, z}
  Qualifiers = {Bare, items, i, other}
  Literals = {1, 2, 3, Null, Bad}
  Values = {1, 2, 3, Bad, Yes}
  Depth = 5
  Nesting = 7
SPECIFICATION Spec
INVARIANTS
  WhereFaithful
  PlanRenders
  AnswerFaithful
