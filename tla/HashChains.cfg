SPECIFICATION Spec
CONSTANTS
  NULL = NULL
  Buckets = {b0, b1}
  Nodes = {n1, n2, n3, n4}
  Names = {x, y}
INVARIANTS
  LookupIsComplete
  ChainsAreLinked
  ChainOperationsAreExact
  HashesAreExact
PROPERTIES
  DestroyIsSafe
