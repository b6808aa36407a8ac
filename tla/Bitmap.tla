------------------------------- MODULE Bitmap -------------------------------
(***************************************************************************)
(* The bitmaps of vlstp/bitmap.c and vlstp/bitops.c at word level: an      *)
(* array of machine words, a word being the set of its one bits.  The      *)
(* number of valid bits need not fill the last word, and the bits behind   *)
(* it are 'don't care'.  An operation may write the bitmap it reads: the   *)
(* shifts, which read other words than the one they write, are modelled    *)
(* turn by turn, a word written in an earlier turn being read as written.  *)
(***************************************************************************)
EXTENDS Integers, Sequences, FiniteSets, FiniteSetsExt, SequencesExt

CONSTANTS
  LongSizes,       \* the widths of unsigned long: builds
  BITS_PER_INT,    \* of unsigned int
  BITS_PER_BYTE,
  Bitmaps,         \* the bitmaps of the program
  Sizes,           \* how many valid bits they have
  MaxBits          \* bound of the model: on the bits of all bitmaps

ASSUME BitmapAssumption ==
  /\ LongSizes \subseteq Nat \ {0}
  /\ BITS_PER_INT \in Nat \ {0}
  /\ BITS_PER_BYTE \in Nat \ {0}
  /\ Sizes \subseteq Nat \ {0}
  /\ MaxBits \in Nat

\* Halving leads down to 1.
PowerOf2(n) ==
  \E halves \in SUBSET (1 .. n) :
    /\ n \in halves
    /\ \A x \in halves \ {1} : x % 2 = 0 /\ x \div 2 \in halves

ASSUME WidthAssumption == \A w \in LongSizes : PowerOf2(w)

VARIABLES
  BITS_PER_LONG,   \* of this build
  nbits,           \* the size, the same for all bitmaps
  constant,        \* whether the compiler knows the size
  maps             \* the words of every bitmap

buildVars  == <<BITS_PER_LONG, nbits, constant>>
bitmapVars == <<buildVars, maps>>

ones == 0 .. (BITS_PER_LONG - 1)

BITS_TO_LONGS(n) == (n + BITS_PER_LONG - 1) \div BITS_PER_LONG
WordsOf(n)       == 0 .. (BITS_TO_LONGS(n) - 1)
BIT_WORD(i)      == i \div BITS_PER_LONG
BIT_MASK(i)      == {i % BITS_PER_LONG}

BITMAP_FIRST_WORD_MASK(start) == (start % BITS_PER_LONG) .. (BITS_PER_LONG - 1)
BITMAP_LAST_WORD_MASK(n)      == 0 .. (BITS_PER_LONG - 1 - ((-n) % BITS_PER_LONG))

ShiftUp(w, n)   == {b \in ones : b - n \in w}
ShiftDown(w, n) == {b \in ones : b + n \in w}
Xor(v, w)       == SymDiff(v, w)

\* The bits of word k an operation on n bits looks at: all of a full word,
\* the masked ones of the last.
Valid(n, k) == IF k < n \div BITS_PER_LONG THEN ones ELSE BITMAP_LAST_WORD_MASK(n)

\* The valid bits of the bitmap a, as numbers.
Bits(a, n)    == {i \in 0 .. (n - 1) : i % BITS_PER_LONG \in a[BIT_WORD(i)]}
AllBits(a, n) == Bits(a, BITS_TO_LONGS(n) * BITS_PER_LONG)
-----------------------------------------------------------------------------
(* Stores.  A word stored behind the end of the bitmap appears behind it,  *)
(* where a bitmap has none.                                                *)

Store(m, d, k, w) ==
  [m EXCEPT ![d] = [j \in DOMAIN m[d] \cup {k} |-> IF j = k THEN w ELSE m[d][j]]]

\* A loop over the words ks of d, which looks at no other word it writes.
ForEach(m, d, ks, Value(_)) ==
  [m EXCEPT ![d] = [k \in DOMAIN m[d] \cup ks |-> IF k \in ks THEN Value(k) ELSE m[d][k]]]

\* Mutant: one word too many.
Cleared_over(m, d, first, count) ==
  ForEach(m, d, first .. (first + count), LAMBDA k : {})

\* memset of count words to 0.
Cleared(m, d, first, count) ==
  ForEach(m, d, first .. (first + count - 1), LAMBDA k : {})

\* A bitmap of at most one word, of a size known when the call is compiled,
\* is handled as that word: the header's short cuts.
small_const_nbits(n) == constant /\ n <= BITS_PER_LONG
Word(m, d, w) == Store(m, d, 0, w)

bitmap_zero(m, d, n) ==
  IF small_const_nbits(n) THEN Word(m, d, {})
  ELSE Cleared(m, d, 0, BITS_TO_LONGS(n))

bitmap_fill(m, d, n) ==
  LET last   == BITS_TO_LONGS(n) - 1
      filled == IF small_const_nbits(n) THEN m
                ELSE ForEach(m, d, 0 .. (last - 1), LAMBDA k : ones)
  IN  Store(filled, d, last, BITMAP_LAST_WORD_MASK(n))

bitmap_copy(m, d, s, n) ==
  IF small_const_nbits(n) THEN Word(m, d, m[s][0])
  ELSE ForEach(m, d, WordsOf(n), LAMBDA k : m[s][k])

__bitmap_complement(m, d, s, n) ==
  ForEach(m, d, WordsOf(n), LAMBDA k : ones \ m[s][k])

bitmap_complement(m, d, s, n) ==
  IF small_const_nbits(n) THEN Word(m, d, ones \ m[s][0])
  ELSE __bitmap_complement(m, d, s, n)

\* Mutant: the last word is not masked.
__and_unmasked(m, d, s1, s2, n) ==
  ForEach(m, d, WordsOf(n), LAMBDA k : m[s1][k] \cap m[s2][k])

__bitmap_and(m, d, s1, s2, n) ==
  ForEach(m, d, WordsOf(n), LAMBDA k : m[s1][k] \cap m[s2][k] \cap Valid(n, k))

bitmap_and(m, d, s1, s2, n) ==
  IF small_const_nbits(n)
  THEN Word(m, d, m[s1][0] \cap m[s2][0] \cap BITMAP_LAST_WORD_MASK(n))
  ELSE __bitmap_and(m, d, s1, s2, n)

__bitmap_or(m, d, s1, s2, n) ==
  ForEach(m, d, WordsOf(n), LAMBDA k : m[s1][k] \cup m[s2][k])

bitmap_or(m, d, s1, s2, n) ==
  IF small_const_nbits(n) THEN Word(m, d, m[s1][0] \cup m[s2][0])
  ELSE __bitmap_or(m, d, s1, s2, n)

__bitmap_xor(m, d, s1, s2, n) ==
  ForEach(m, d, WordsOf(n), LAMBDA k : Xor(m[s1][k], m[s2][k]))

bitmap_xor(m, d, s1, s2, n) ==
  IF small_const_nbits(n) THEN Word(m, d, Xor(m[s1][0], m[s2][0]))
  ELSE __bitmap_xor(m, d, s1, s2, n)

__bitmap_andnot(m, d, s1, s2, n) ==
  ForEach(m, d, WordsOf(n), LAMBDA k : (m[s1][k] \ m[s2][k]) \cap Valid(n, k))

bitmap_andnot(m, d, s1, s2, n) ==
  IF small_const_nbits(n)
  THEN Word(m, d, (m[s1][0] \ m[s2][0]) \cap BITMAP_LAST_WORD_MASK(n))
  ELSE __bitmap_andnot(m, d, s1, s2, n)

\* bitmap_and and bitmap_andnot return whether the result is not empty.
AnyWord(m, d, n) == \E k \in WordsOf(n) : m[d][k] # {}

\* What a right shift sees of word k: not the unused bits.
Used(n, k) == IF k = BITS_TO_LONGS(n) - 1 THEN BITMAP_LAST_WORD_MASK(n) ELSE ones

\* Mutant: from the last word down.
__shift_right_down(m, d, s, shift, n) ==
  LET lim == BITS_TO_LONGS(n)
      off == shift \div BITS_PER_LONG
      rem == shift % BITS_PER_LONG
      moved[k \in 0 .. (lim - off - 1)] ==
        LET src(j) == (IF d = s /\ j > k /\ j < lim - off THEN moved[j] ELSE m[s][j])
                        \cap Used(n, j)
            upper  == IF rem = 0 \/ off + k + 1 >= lim THEN {}
                      ELSE ShiftUp(src(off + k + 1), BITS_PER_LONG - rem)
        IN  ShiftDown(src(off + k), rem) \cup upper
  IN  Cleared(ForEach(m, d, 0 .. (lim - off - 1), LAMBDA k : moved[k]), d, lim - off, off)

\* Upward, so that in place a word is read before it is written.
__bitmap_shift_right(m, d, s, shift, n) ==
  LET lim == BITS_TO_LONGS(n)
      off == shift \div BITS_PER_LONG
      rem == shift % BITS_PER_LONG
      moved[k \in 0 .. (lim - off - 1)] ==
        LET src(j) == (IF d = s /\ j < k THEN moved[j] ELSE m[s][j]) \cap Used(n, j)
            upper  == IF rem = 0 \/ off + k + 1 >= lim THEN {}
                      ELSE ShiftUp(src(off + k + 1), BITS_PER_LONG - rem)
        IN  ShiftDown(src(off + k), rem) \cup upper
  IN  Cleared(ForEach(m, d, 0 .. (lim - off - 1), LAMBDA k : moved[k]), d, lim - off, off)

bitmap_shift_right(m, d, s, shift, n) ==
  IF small_const_nbits(n)
  THEN Word(m, d, ShiftDown(m[s][0] \cap BITMAP_LAST_WORD_MASK(n), shift))
  ELSE __bitmap_shift_right(m, d, s, shift, n)

\* Downward, for the same reason.  The last word is not masked.
__bitmap_shift_left(m, d, s, shift, n) ==
  LET lim == BITS_TO_LONGS(n)
      off == shift \div BITS_PER_LONG
      rem == shift % BITS_PER_LONG
      moved[k \in off .. (lim - 1)] ==
        LET src(j) == IF d = s /\ j > k THEN moved[j] ELSE m[s][j]
            lower  == IF rem = 0 \/ k = off THEN {}
                      ELSE ShiftDown(src(k - off - 1), BITS_PER_LONG - rem)
        IN  lower \cup ShiftUp(src(k - off), rem)
  IN  Cleared(ForEach(m, d, off .. (lim - 1), LAMBDA k : moved[k]), d, 0, off)

\* The short cut does mask.
bitmap_shift_left(m, d, s, shift, n) ==
  IF small_const_nbits(n)
  THEN Word(m, d, ShiftUp(m[s][0], shift) \cap BITMAP_LAST_WORD_MASK(n))
  ELSE __bitmap_shift_left(m, d, s, shift, n)

\* The words the loop over a run of len bits from start stores to, and the
\* bits of the run in word k: whole words while the run fills them, then
\* what is left of it.
RunWords(start, len) == BIT_WORD(start) .. (BITS_TO_LONGS(start + len) - 1)

\* Mutant: the last word of the run is not masked.
RunMask_over(start, len, k) ==
  IF k = BIT_WORD(start) THEN BITMAP_FIRST_WORD_MASK(start) ELSE ones

RunMask(start, len, k) ==
  LET first == IF k = BIT_WORD(start) THEN BITMAP_FIRST_WORD_MASK(start) ELSE ones
      full  == (k + 1) * BITS_PER_LONG <= start + len
  IN  IF full THEN first ELSE first \cap BITMAP_LAST_WORD_MASK(start + len)

bitmap_set(m, d, start, len) ==
  ForEach(m, d, RunWords(start, len), LAMBDA k : m[d][k] \cup RunMask(start, len, k))

bitmap_clear(m, d, start, len) ==
  ForEach(m, d, RunWords(start, len), LAMBDA k : m[d][k] \ RunMask(start, len, k))

\* The word the bit i of d is in is replaced.
StoreAt(m, d, i, w) == Store(m, d, BIT_WORD(i), w)

set_bit(m, d, i)    == StoreAt(m, d, i, m[d][BIT_WORD(i)] \cup BIT_MASK(i))
clear_bit(m, d, i)  == StoreAt(m, d, i, m[d][BIT_WORD(i)] \ BIT_MASK(i))
change_bit(m, d, i) == StoreAt(m, d, i, Xor(m[d][BIT_WORD(i)], BIT_MASK(i)))
test_bit(a, i)      == a[BIT_WORD(i)] \cap BIT_MASK(i) # {}

\* The word as the test_and_ operations hold it, in an unsigned int: what
\* they store, and what they return, comes from its low bits only.
AsInt(w) == w \cap (0 .. (BITS_PER_INT - 1))

test_and_set_bit(m, d, i) ==
  StoreAt(m, d, i, AsInt(m[d][BIT_WORD(i)]) \cup BIT_MASK(i))
test_and_clear_bit(m, d, i) ==
  StoreAt(m, d, i, AsInt(m[d][BIT_WORD(i)]) \ BIT_MASK(i))
test_and_change_bit(m, d, i) ==
  StoreAt(m, d, i, Xor(AsInt(m[d][BIT_WORD(i)]), BIT_MASK(i)))
test_and_result(a, i) == AsInt(a[BIT_WORD(i)]) \cap BIT_MASK(i) # {}
-----------------------------------------------------------------------------
(* Searches.                                                               *)

Least(a, b) == IF a < b THEN a ELSE b

\* Halve the word until one bit is left: when the low half is empty the bit
\* is in the high one.
ffsWord(word) ==
  LET search[half \in 0 .. BITS_PER_LONG] ==
        [w \in SUBSET ones |->
           IF half = 0 THEN 0
           ELSE IF w \cap (0 .. (half - 1)) = {}
                THEN half + search[half \div 2][ShiftDown(w, half)]
                ELSE search[half \div 2][w]]
  IN  search[BITS_PER_LONG \div 2][word]

flsWord(word) ==
  LET search[half \in 0 .. BITS_PER_LONG] ==
        [w \in SUBSET ones |->
           IF half = 0 THEN BITS_PER_LONG - 1
           ELSE IF w \cap ((BITS_PER_LONG - half) .. (BITS_PER_LONG - 1)) = {}
                THEN search[half \div 2][ShiftUp(w, half)] - half
                ELSE search[half \div 2][w]]
  IN  search[BITS_PER_LONG \div 2][word]

\* Mutant: a hit behind the end counts.
find_next_beyond(a, n, start, invert) ==
  LET tmp(k) == Xor(a[k], invert) \cap
                  (IF k = BIT_WORD(start) THEN BITMAP_FIRST_WORD_MASK(start) ELSE ones)
      hits   == {k \in BIT_WORD(start) .. (BITS_TO_LONGS(n) - 1) : tmp(k) # {}}
  IN  IF start >= n \/ hits = {} THEN n
      ELSE Min(hits) * BITS_PER_LONG + ffsWord(tmp(Min(hits)))

\* The first word, from that of start on, with a bit in it; invert is xored
\* with each word before.
find_next(a, n, start, invert) ==
  LET tmp(k) == Xor(a[k], invert) \cap
                  (IF k = BIT_WORD(start) THEN BITMAP_FIRST_WORD_MASK(start) ELSE ones)
      hits   == {k \in BIT_WORD(start) .. (BITS_TO_LONGS(n) - 1) : tmp(k) # {}}
  IN  IF start >= n \/ hits = {} THEN n
      ELSE Least(Min(hits) * BITS_PER_LONG + ffsWord(tmp(Min(hits))), n)

find_next_bit(a, n, offset)      == find_next(a, n, offset, {})
find_next_zero_bit(a, n, offset) == find_next(a, n, offset, ones)

find_first_bit(a, n) ==
  LET hits == {k \in WordsOf(n) : a[k] # {}}
  IN  IF hits = {} THEN n
      ELSE Least(Min(hits) * BITS_PER_LONG + ffsWord(a[Min(hits)]), n)

find_first_zero_bit(a, n) ==
  LET hits == {k \in WordsOf(n) : a[k] # ones}
  IN  IF hits = {} THEN n
      ELSE Least(Min(hits) * BITS_PER_LONG + ffsWord(ones \ a[Min(hits)]), n)

\* Only the last word is masked, and only the first time round.
find_last_bit(a, n) ==
  LET last   == (n - 1) \div BITS_PER_LONG
      val(k) == IF k = last THEN a[k] \cap BITMAP_LAST_WORD_MASK(n) ELSE a[k]
      hits   == {k \in 0 .. last : val(k) # {}}
  IN  IF hits = {} THEN n
      ELSE Max(hits) * BITS_PER_LONG + flsWord(val(Max(hits)))

\* The bits the loops visit, in their order.
for_each_set_bit_from(a, n, bit) ==
  LET from[i \in 0 .. n] ==
        IF i = n THEN <<>> ELSE <<i>> \o from[find_next_bit(a, n, i + 1)]
  IN  from[find_next_bit(a, n, bit)]

for_each_set_bit(a, n) ==
  LET first == find_first_bit(a, n)
  IN  IF first >= n THEN <<>>
      ELSE <<first>> \o for_each_set_bit_from(a, n, first + 1)

for_each_clear_bit_from(a, n, bit) ==
  LET from[i \in 0 .. n] ==
        IF i = n THEN <<>> ELSE <<i>> \o from[find_next_zero_bit(a, n, i + 1)]
  IN  from[find_next_zero_bit(a, n, bit)]

for_each_clear_bit(a, n) ==
  LET first == find_first_zero_bit(a, n)
  IN  IF first >= n THEN <<>>
      ELSE <<first>> \o for_each_clear_bit_from(a, n, first + 1)

\* With the short cuts, whose answer is that of the masked word.
Masked(a, n) == a[0] \cap BITMAP_LAST_WORD_MASK(n)

__bitmap_equal(a, b, n) ==
  \A k \in WordsOf(n) : Xor(a[k], b[k]) \cap Valid(n, k) = {}

bitmap_equal(a, b, n) ==
  IF small_const_nbits(n) THEN Xor(a[0], b[0]) \cap BITMAP_LAST_WORD_MASK(n) = {}
  ELSE __bitmap_equal(a, b, n)

__bitmap_intersects(a, b, n) ==
  \E k \in WordsOf(n) : a[k] \cap b[k] \cap Valid(n, k) # {}

bitmap_intersects(a, b, n) ==
  IF small_const_nbits(n) THEN Masked(a, n) \cap b[0] # {}
  ELSE __bitmap_intersects(a, b, n)

__bitmap_subset(a, b, n) ==
  \A k \in WordsOf(n) : (a[k] \ b[k]) \cap Valid(n, k) = {}

bitmap_subset(a, b, n) ==
  IF small_const_nbits(n) THEN Masked(a, n) \ b[0] = {}
  ELSE __bitmap_subset(a, b, n)

bitmap_empty(a, n) ==
  IF small_const_nbits(n) THEN Masked(a, n) = {} ELSE find_first_bit(a, n) = n

bitmap_full(a, n) ==
  IF small_const_nbits(n) THEN (ones \ a[0]) \cap BITMAP_LAST_WORD_MASK(n) = {}
  ELSE find_first_zero_bit(a, n) = n

\* Half by half down to bytes, whose bits are counted one by one.
hweight_long(word) ==
  LET weigh[width \in 0 .. BITS_PER_LONG] ==
        [w \in SUBSET ones |->
           IF width <= BITS_PER_BYTE THEN Cardinality(w \cap (0 .. (width - 1)))
           ELSE weigh[width \div 2][w] + weigh[width \div 2][ShiftDown(w, width \div 2)]]
  IN  weigh[BITS_PER_LONG][word]

__bitmap_weight(a, n) ==
  LET w[k \in 0 .. BITS_TO_LONGS(n)] ==
        IF k = 0 THEN 0 ELSE w[k - 1] + hweight_long(a[k - 1] \cap Valid(n, k - 1))
  IN  w[BITS_TO_LONGS(n)]

bitmap_weight(a, n) ==
  IF small_const_nbits(n) THEN hweight_long(Masked(a, n)) ELSE __bitmap_weight(a, n)

\* Round x up to a multiple of a power of 2, given that power less 1.
ALIGN_MASK(x, mask) == ((x + mask) \div (mask + 1)) * (mask + 1)

\* The first nr clear bits at or after start, at an aligned position; more
\* than size when there are none.  A set bit inside starts the search again
\* behind it.
bitmap_find_next_zero_area_off(a, size, start, nr, align_mask, align_offset) ==
  LET again[from \in 0 .. size] ==
        LET index == ALIGN_MASK(find_next_zero_bit(a, size, from) + align_offset,
                                align_mask) - align_offset
            end   == index + nr
            i     == find_next_bit(a, end, index)
        IN  IF end > size THEN end
            ELSE IF i < end THEN again[i + 1]
            ELSE index
  IN  again[start]

\* The ordinal of the set bit pos, or -1.
bitmap_pos_to_ord(a, pos, n) ==
  IF pos >= n \/ ~test_bit(a, pos) THEN -1 ELSE __bitmap_weight(a, pos)

\* The position of the set bit with that ordinal, or n.
bitmap_ord_to_pos(a, ord, n) ==
  LET from[o \in 0 .. ord] ==
        [pos \in 0 .. n |->
           IF pos < n /\ o > 0 THEN from[o - 1][find_next_bit(a, n, pos + 1)] ELSE pos]
  IN  from[ord][find_first_bit(a, n)]

\* The bitmap is cleared, then bit i of orig sets bit i modulo sz.  Nothing
\* happens in place.
bitmap_fold(m, d, orig, sz, n) ==
  LET visited == ToSet(for_each_set_bit(m[orig], n))
  IN  IF d = orig THEN m
      ELSE ForEach(m, d, WordsOf(n) \cup {BIT_WORD(old % sz) : old \in visited},
             LAMBDA k : {b \in ones : \E old \in visited : old % sz = k * BITS_PER_LONG + b})
-----------------------------------------------------------------------------
(* The program: any sequence of operations on its bitmaps, clear at first. *)

Init ==
  /\ BITS_PER_LONG \in LongSizes
  /\ nbits \in Sizes
  /\ constant \in {FALSE, nbits <= BITS_PER_LONG}
  /\ \E used \in (SUBSET Bitmaps) \ {{}} :
       /\ Cardinality(used) * BITS_TO_LONGS(nbits) * BITS_PER_LONG <= MaxBits
       /\ maps = [d \in used |-> [k \in WordsOf(nbits) |-> {}]]

Whole(d) ==
  \/ maps' = bitmap_zero(maps, d, nbits)
  \/ maps' = bitmap_fill(maps, d, nbits)

Unary(d, s) ==
  \/ maps' = bitmap_copy(maps, d, s, nbits)
  \/ maps' = bitmap_complement(maps, d, s, nbits)

Binary(d, s1, s2) ==
  \/ maps' = bitmap_and(maps, d, s1, s2, nbits)
  \/ maps' = bitmap_or(maps, d, s1, s2, nbits)
  \/ maps' = bitmap_xor(maps, d, s1, s2, nbits)
  \/ maps' = bitmap_andnot(maps, d, s1, s2, nbits)

\* A shift by more than the size would clear words that are not there; the
\* short cut cannot shift by a whole word, which C leaves undefined.
Shifts == {k \in 0 .. nbits : small_const_nbits(nbits) => k < BITS_PER_LONG}

Shift(d, s) ==
  \E shift \in Shifts :
    \/ maps' = bitmap_shift_right(maps, d, s, shift, nbits)
    \/ maps' = bitmap_shift_left(maps, d, s, shift, nbits)

Fold(d, s) == \E sz \in 1 .. nbits : maps' = bitmap_fold(maps, d, s, sz, nbits)

Run(d) ==
  \E start \in 0 .. (nbits - 1) : \E len \in 0 .. (nbits - start) :
    \/ maps' = bitmap_set(maps, d, start, len)
    \/ maps' = bitmap_clear(maps, d, start, len)

Single(d) ==
  \E i \in 0 .. (nbits - 1) :
    \/ maps' = set_bit(maps, d, i)
    \/ maps' = clear_bit(maps, d, i)
    \/ maps' = change_bit(maps, d, i)
    \/ maps' = test_and_set_bit(maps, d, i)
    \/ maps' = test_and_clear_bit(maps, d, i)
    \/ maps' = test_and_change_bit(maps, d, i)

Next ==
  /\ \E d, s \in DOMAIN maps :
       \/ Whole(d)
       \/ Unary(d, s)
       \/ \E s2 \in DOMAIN maps : Binary(d, s, s2)
       \/ Shift(d, s)
       \/ Fold(d, s)
       \/ Run(d)
       \/ Single(d)
  /\ UNCHANGED buildVars

Spec == Init /\ [][Next]_bitmapVars
-----------------------------------------------------------------------------
(* Properties: what every operation does to, or says of, the bits, in      *)
(* every state a program can bring its bitmaps to.                         *)

\* No operation leaves the words of its bitmap, or gives a word more bits
\* than it has.
TypeOK ==
  /\ BITS_PER_LONG \in LongSizes
  /\ nbits \in Sizes
  /\ constant \in BOOLEAN
  /\ DOMAIN maps \subseteq Bitmaps
  /\ maps \in [DOMAIN maps -> [WordsOf(nbits) -> SUBSET ones]]

Sets == INSTANCE BitArray

Everything == 0 .. (nbits - 1)
Of(m, d)   == Bits(m[d], nbits)

\* Shifting carries the bits across words whole, in place too, feeds in
\* zeros, and a right shift clears the unused bits: the bit array operation
\* the TSN map is modelled with.
ShiftsMoveBits ==
  \A d, s \in DOMAIN maps : \A shift \in Shifts :
    /\ AllBits(bitmap_shift_right(maps, d, s, shift, nbits)[d], nbits)
         = Sets!bitmap_shift_right(Of(maps, s), shift, nbits)
    /\ Of(bitmap_shift_left(maps, d, s, shift, nbits), d)
         = {i + shift : i \in Of(maps, s)} \cap Everything

\* The results have exactly the bits the operation stands for, in place too.
ResultsAreBitwise ==
  \A d, s1, s2 \in DOMAIN maps :
    LET a == Of(maps, s1)
        b == Of(maps, s2)
        conj == bitmap_and(maps, d, s1, s2, nbits)
        less == bitmap_andnot(maps, d, s1, s2, nbits)
    IN  /\ Of(conj, d) = a \cap b
        /\ AnyWord(conj, d, nbits) <=> a \cap b # {}
        /\ Of(less, d) = a \ b
        /\ AnyWord(less, d, nbits) <=> a \ b # {}
        /\ Of(bitmap_or(maps, d, s1, s2, nbits), d) = a \cup b
        /\ Of(bitmap_xor(maps, d, s1, s2, nbits), d) = Xor(a, b)
        /\ Of(bitmap_complement(maps, d, s1, nbits), d) = Everything \ a
        /\ Of(bitmap_copy(maps, d, s1, nbits), d) = a
        /\ AllBits(bitmap_fill(maps, d, nbits)[d], nbits) = Everything

\* The combinations set no unused bit when their operands have none.
CleanStaysClean ==
  \A d, s1, s2 \in DOMAIN maps :
    LET Clean(m, x) == AllBits(m[x], nbits) = Of(m, x)
    IN  Clean(maps, s1) /\ Clean(maps, s2) =>
          /\ Clean(bitmap_and(maps, d, s1, s2, nbits), d)
          /\ Clean(bitmap_or(maps, d, s1, s2, nbits), d)
          /\ Clean(bitmap_xor(maps, d, s1, s2, nbits), d)
          /\ Clean(bitmap_andnot(maps, d, s1, s2, nbits), d)

\* Comparisons do not see the unused bits.
ComparisonsAreExact ==
  \A s1, s2 \in DOMAIN maps :
    LET a == Of(maps, s1)
        b == Of(maps, s2)
    IN  /\ bitmap_equal(maps[s1], maps[s2], nbits) <=> a = b
        /\ bitmap_intersects(maps[s1], maps[s2], nbits) <=> a \cap b # {}
        /\ bitmap_subset(maps[s1], maps[s2], nbits) <=> a \subseteq b

\* Whatever an earlier complement or shift left in the unused bits, results
\* and comparisons depend on the valid ones only, whether the words are
\* walked or the header takes its short cut.
CombinationsAreBitwise ==
  /\ ResultsAreBitwise
  /\ CleanStaysClean
  /\ ComparisonsAreExact

\* A run that ends inside a word, or starts and ends in the same one, sets
\* and clears exactly its own bits; setting, clearing and changing one bit
\* leaves its neighbours in the word alone, and a test tells the bit.
ChangesAreExact ==
  \A d \in DOMAIN maps, start \in Everything :
    LET all == AllBits(maps[d], nbits)
    IN  /\ \A len \in 0 .. (nbits - start) :
             LET run == start .. (start + len - 1)
             IN  /\ AllBits(bitmap_set(maps, d, start, len)[d], nbits) = all \cup run
                 /\ AllBits(bitmap_clear(maps, d, start, len)[d], nbits) = all \ run
        /\ AllBits(set_bit(maps, d, start)[d], nbits) = all \cup {start}
        /\ AllBits(clear_bit(maps, d, start)[d], nbits) = all \ {start}
        /\ AllBits(change_bit(maps, d, start)[d], nbits) = Xor(all, {start})
        /\ test_bit(maps[d], start) <=> start \in all

\* Testing and changing one bit leaves its neighbours in the word alone and
\* tells what the bit was.  The code does so only where an unsigned int
\* holds an unsigned long.
TestAndIsExact ==
  \A d \in DOMAIN maps, i \in Everything :
    LET all == AllBits(maps[d], nbits)
    IN  /\ AllBits(test_and_set_bit(maps, d, i)[d], nbits) = all \cup {i}
        /\ AllBits(test_and_clear_bit(maps, d, i)[d], nbits) = all \ {i}
        /\ AllBits(test_and_change_bit(maps, d, i)[d], nbits) = Xor(all, {i})
        /\ test_and_result(maps[d], i) <=> i \in all

\* The loop visits these bits, once and in their order.
Visits(loop, bits) ==
  /\ ToSet(loop) = bits
  /\ \A j, k \in DOMAIN loop : j < k => loop[j] < loop[k]

\* Halving finds the lowest and the highest bit of every word.
WordSearchesAreExact ==
  \A w \in (SUBSET ones) \ {{}} : ffsWord(w) = Min(w) /\ flsWord(w) = Max(w)

\* The searches return the first or last bit of its kind, or the size, from
\* any start and for any part of the bitmap: what the TSN map's bit array
\* operations say.
SearchesFindTheBit ==
  \A d \in DOMAIN maps, n \in 0 .. nbits :
    LET a    == maps[d]
        bits == Bits(a, n)
    IN  /\ find_first_bit(a, n) = Sets!find_next_bit(bits, n, 0)
        /\ find_first_zero_bit(a, n) = Sets!find_first_zero_bit(bits, n)
        /\ find_last_bit(a, n) = IF bits = {} THEN n ELSE Max(bits)
        /\ \A i \in 0 .. nbits :
             /\ find_next_bit(a, n, i) = Sets!find_next_bit(bits, n, i)
             /\ find_next_zero_bit(a, n, i) = Sets!find_next_zero_bit(bits, n, i)

\* The loops over set or clear bits visit each once, in order, and as many
\* are counted.
LoopsVisitTheBits ==
  \A d \in DOMAIN maps, n \in 0 .. nbits :
    LET a    == maps[d]
        bits == Bits(a, n)
    IN  /\ n > 0 => bitmap_weight(a, n) = Sets!bitmap_weight(bits, n)
        /\ Visits(for_each_set_bit(a, n), bits)
        /\ Visits(for_each_clear_bit(a, n), (0 .. (n - 1)) \ bits)
        /\ \A i \in 0 .. nbits :
             /\ Visits(for_each_set_bit_from(a, n, i), {b \in bits : b >= i})
             /\ Visits(for_each_clear_bit_from(a, n, i), (i .. (n - 1)) \ bits)

\* Ordinals and positions of set bits are inverse to each other.
OrdinalsAndPositionsAgree ==
  \A d \in DOMAIN maps :
    LET a == maps[d]
    IN  /\ \A i \in Everything :
             bitmap_pos_to_ord(a, i, nbits) =
               IF i \in Of(maps, d) THEN Cardinality({j \in Of(maps, d) : j < i}) ELSE -1
        /\ \A i \in Of(maps, d) :
             bitmap_ord_to_pos(a, bitmap_pos_to_ord(a, i, nbits), nbits) = i
        /\ bitmap_ord_to_pos(a, bitmap_weight(a, nbits), nbits) = nbits

\* The zero area found is free, inside the map, aligned, and the first such
\* one; none is missed although the search starts again behind every set
\* bit it meets.
ZeroAreaIsFirstFit ==
  \A d \in DOMAIN maps, start \in Everything, nr \in 1 .. nbits :
    \A mask \in {0, 1}, off \in {0, 1} :
      LET free  == Everything \ Of(maps, d)
          fits  == {p \in start .. (nbits - nr) :
                     /\ p .. (p + nr - 1) \subseteq free
                     /\ (p + off) % (mask + 1) = 0}
          found == bitmap_find_next_zero_area_off(maps[d], nbits, start, nr, mask, off)
      IN  IF fits = {} THEN found > nbits ELSE found = Min(fits)

\* Answers about a bitmap do not see the unused bits.
AnswersIgnoreUnusedBits ==
  \A d \in DOMAIN maps :
    /\ bitmap_empty(maps[d], nbits) <=> Of(maps, d) = {}
    /\ bitmap_full(maps[d], nbits) <=> Of(maps, d) = Everything
    /\ bitmap_weight(maps[d], nbits) = Cardinality(Of(maps, d))

\* Folding visits the set bits and keeps every one, modulo the size.
FoldKeepsBits ==
  \A d, s \in DOMAIN maps : \A sz \in 1 .. nbits :
    d # s => AllBits(bitmap_fold(maps, d, s, sz, nbits)[d], nbits)
               = {i % sz : i \in Of(maps, s)}

\* Every way to find a bit or a place finds the right one: by kind, by
\* ordinal, and the first free area that fits; and what is computed from the
\* bits found or counted, the answers about whole bitmaps and the fold, does
\* not see the unused ones.
LookupsAreExact ==
  /\ WordSearchesAreExact
  /\ SearchesFindTheBit
  /\ LoopsVisitTheBits
  /\ OrdinalsAndPositionsAgree
  /\ ZeroAreaIsFirstFit
  /\ AnswersIgnoreUnusedBits
  /\ FoldKeepsBits
=============================================================================
