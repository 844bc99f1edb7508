CONSTANTS
  Tables <- MCTables
  Params <- MCParams
  Texts <- MCTexts
  Numerals <- MCNumerals
  Likes <- MCLikes
  Queries <- MCQueries
SPECIFICATION Spec
CHECK_DEADLOCK FALSE
INVARIANTS
  RowsFaithful
  PageFaithful
  DescribedAsDelivered
