CONSTANTS
  Names <- MCNames
  MaxGen = 3
  TypeOf <- MCTypeOf
  Strings <- MCStrings
SPECIFICATION Spec
INVARIANTS
  TypeOK
  CatalogCoherent
  AppliedPrefix
  
PROPERTIES
  StringAnswered
