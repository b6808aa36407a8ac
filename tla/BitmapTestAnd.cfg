SPECIFICATION Spec
CONSTANTS
  LongSizes = {4}
  BITS_PER_INT = 2
  BITS_PER_BYTE = 2
  Bitmaps = {a}
  Sizes = {3, 4, 5}
  MaxBits = 8
INVARIANTS
  TestAndIsExact
