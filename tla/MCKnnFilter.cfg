CONSTANTS
  n = n
  m = m
  t = t
  x = x
  y = y
  Fields <- MCFields
  TextField = {t}
  Nullable = {n, t}
  Rows <- MCRows
  Bodies <- KnnBodies
  Score = Score
  MaxInt = 15
  Window = 4
  DefaultSize = 2
  Null = Null
  Bad = Bad
  Names = {n, m, t}
  Values = {1, 2, 3, x, y, Bad}
  Depth = 4
  Nesting = 13
SPECIFICATION Spec
INVARIANT
  KnnFilterFaithful
