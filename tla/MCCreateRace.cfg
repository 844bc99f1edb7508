CONSTANTS
  Req = {r1, r2}
  k1 = k1
  k2 = k2
  k3 = k3
  k4 = k4
  k5 = k5
  a = a
  b = b
  v1 = v1
  v2 = v2
  Keys <- MCKeys
  NewIds <- MCNewIds
  Fields <- MCFields
  Values <- MCValues
  Round <- MCRound
  RoundKey <- MCRoundKey
  Preloaded <- MCPreloaded
  Schemas <- MCSchemas
  Inputs <- CreateInputs
  ScanLimit = 2
  Null = Null
  Absent = Absent
  Bad = Bad
  NoKey = NoKey
  BadId = BadId
  NoRow = NoRow
  NoInput = NoInput
SPECIFICATION Spec
INVARIANT
  CreateExclusive
