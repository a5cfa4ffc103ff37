SPECIFICATION Spec
CONSTANTS
  A = A
  B = B
  C = C
  E = E
  N = N
  F = F
  Frame = F
  NoId = NoId
  Names <- MCNames
  Chosen <- MCChosen
  Predicates <- MCPredicates
  Transforms <- MCPredicates
  Genesis <- MCGenesis
  MaxOrdinal = 3
  MaxOperations = 3
INVARIANTS FramesNameAssertedClaims
CHECK_DEADLOCK FALSE
