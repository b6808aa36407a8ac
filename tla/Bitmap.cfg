SPECIFICATION Spec
CONSTANTS
  LongSizes = {2, 4}
  BITS_PER_INT = 2
  BITS_PER_BYTE = 2
  Bitmaps = {a, b}
  Sizes = {3, 4, 5, 9}
  MaxBits = 12
INVARIANTS
  TypeOK
  CombinationsAreBitwise
  ShiftsMoveBits
  ChangesAreExact
  LookupsAreExact
