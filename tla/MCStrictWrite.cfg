CONSTANTS
  Metas <- MCMetas
  RequestsTo <- MCRequestsTo
  Table <- MCTable
  Bits <- MCBits
  Mantissa = 3
  Mantissa32 = 2
  Exponent = 5
  Exponent32 = 4
SPECIFICATION Spec
CHECK_DEADLOCK FALSE
INVARIANTS
  ColumnsCarryRows
  RefusedExactly
