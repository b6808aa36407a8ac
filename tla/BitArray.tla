------------------------------ MODULE BitArray ------------------------------
(***************************************************************************)
(* The bit-array operations the TSN map is built from, on the abstraction  *)
(* it uses them with: a bit array is the set of the indices of its set     *)
(* bits.  Storage comes in machine words of BITS_PER_LONG bits, so a map   *)
(* of n bits also owns the bits up to the end of its last word.            *)
(***************************************************************************)
EXTENDS Integers, FiniteSets, FiniteSetsExt

CONSTANT BITS_PER_LONG

ASSUME WordAssumption == BITS_PER_LONG \in Nat \ {0}

\* Round x up to a multiple of a.
ALIGN(x, a) == ((x + a - 1) \div a) * a

\* The bits held by the BITS_TO_LONGS(n) words that back n bits.
BitsOfLongs(n) == ALIGN(n, BITS_PER_LONG)

\* The index of the first clear bit below size, or size.
find_first_zero_bit(map, size) ==
  LET zeros == (0 .. (size - 1)) \ map
  IN  IF zeros = {} THEN size ELSE Min(zeros)

\* The index of the next set bit at or after offset and below size, or size.
find_next_bit(map, size, offset) ==
  LET ones == map \cap (offset .. (size - 1))
  IN  IF ones = {} THEN size ELSE Min(ones)

\* The index of the next clear bit at or after offset and below size, or size.
find_next_zero_bit(map, size, offset) ==
  LET zeros == (offset .. (size - 1)) \ map
  IN  IF zeros = {} THEN size ELSE Min(zeros)

\* Logical right shift of the first nbits bits; what lies beyond is cleared.
bitmap_shift_right(map, shift, nbits) ==
  {i \in 0 .. (nbits - 1) : i + shift < nbits /\ i + shift \in map}

\* How many of the first nbits bits are set.
bitmap_weight(map, nbits) == Cardinality(map \cap (0 .. (nbits - 1)))
=============================================================================
