SPECIFICATION Spec
CONSTANTS
  NULL = NULL
  Heads = {g, h}
  Nodes = {n1, n2, n3, n4}
INVARIANTS
  RingsAreClosed
  EntryOperationsAreExact
  ListOperationsAreExact
  WalksVisitAll
SYMMETRY Symmetry
