---------------------------- MODULE BitmapProofs ----------------------------
(***************************************************************************)
(* What the operations on bitmaps do to the bits, for every word width,    *)
(* every size and every number of bitmaps.                                 *)
(***************************************************************************)
EXTENDS Bitmap, FiniteSetTheorems, FunctionTheorems, WellFoundedInduction, TLAPS

-----------------------------------------------------------------------------
(* Words and places.  The only products are those of a word's number and   *)
(* the width; the lemmas of this part are the only ones that see them.     *)

LEMMA DivMod ==
  ASSUME NEW B \in Nat \ {0}, NEW i \in Int
  PROVE  /\ i \div B \in Int /\ i % B \in 0 .. (B - 1)
         /\ i = (i \div B) * B + (i % B)
OBVIOUS

\* Multiples of the width are at least the width apart.
LEMMA Apart ==
  ASSUME NEW B \in Nat \ {0}, NEW i \in Int, NEW j \in Int, i < j
  PROVE  i * B + B <= j * B
<1>1. j = (i + 1) + (j - i - 1) /\ j - i - 1 \in Nat
  OBVIOUS
<1>2. j * B = (i + 1) * B + (j - i - 1) * B
  BY <1>1
<1>3. (i + 1) * B = i * B + B /\ (j - i - 1) * B \in Nat
  BY <1>1
<1>. QED
  BY <1>2, <1>3

LEMMA OneAddress ==
  ASSUME NEW B \in Nat \ {0}, NEW k \in Int, NEW b \in 0 .. (B - 1)
  PROVE  (k * B + b) \div B = k /\ (k * B + b) % B = b
<1>1. PICK i : i = k * B + b
  OBVIOUS
<1>2. i \in Int /\ k * B \in Int
  BY <1>1
<1>3. PICK q, r : q = i \div B /\ r = i % B
  OBVIOUS
<1>4. q \in Int /\ r \in 0 .. (B - 1) /\ i = q * B + r /\ q * B \in Int
  BY <1>2, <1>3, DivMod
<1>5. ~(q < k)
  <2>1. q < k => q * B + B <= k * B
    BY <1>4, Apart
  <2>. QED
    BY <1>1, <1>2, <1>4, <2>1
<1>6. ~(k < q)
  <2>1. k < q => k * B + B <= q * B
    BY <1>4, Apart
  <2>. QED
    BY <1>1, <1>2, <1>4, <2>1
<1>7. q = k
  BY <1>4, <1>5, <1>6
<1>8. r = b
  BY <1>1, <1>2, <1>4, <1>7
<1>. QED
  BY <1>1, <1>3, <1>7, <1>8

Width == BITS_PER_LONG \in Nat \ {0}

\* The number of bit b of word k.
At(k, b) == k * BITS_PER_LONG + b

LEMMA PlaceOf ==
  ASSUME Width, NEW i \in Nat
  PROVE  /\ BIT_WORD(i) \in Nat /\ i % BITS_PER_LONG \in ones
         /\ At(BIT_WORD(i), i % BITS_PER_LONG) = i
<1>1. PICK B : B = BITS_PER_LONG
  OBVIOUS
<1>2. B \in Nat \ {0}
  BY <1>1 DEF Width
<1>3. /\ i \div B \in Int /\ i % B \in 0 .. (B - 1)
      /\ i = (i \div B) * B + (i % B)
  BY <1>2, DivMod
<1>4. i \div B >= 0
  <2>1. i \div B < 0 => (i \div B) * B + B <= 0 * B
    BY <1>2, <1>3, Apart
  <2>2. 0 * B = 0 /\ (i \div B) * B \in Int
    BY <1>2, <1>3
  <2>. QED
    BY <1>2, <1>3, <2>1, <2>2
<1>. QED
  BY <1>1, <1>3, <1>4 DEF BIT_WORD, ones, At

LEMMA AtIs ==
  ASSUME Width, NEW k \in Nat, NEW b \in ones
  PROVE  At(k, b) \in Nat /\ BIT_WORD(At(k, b)) = k /\ At(k, b) % BITS_PER_LONG = b
<1>1. PICK B : B = BITS_PER_LONG
  OBVIOUS
<1>2. B \in Nat \ {0} /\ b \in 0 .. (B - 1)
  BY <1>1 DEF Width, ones
<1>3. k * B + b \in Nat
  <2>1. k * B \in Nat
    BY <1>2
  <2>. QED
    BY <1>2, <2>1
<1>. QED
  BY <1>1, <1>2, <1>3, OneAddress DEF At, BIT_WORD

\* The words that hold n bits are those with a number below n in them.
LEMMA WordsAre ==
  ASSUME Width, NEW n \in Nat \ {0}
  PROVE  /\ BITS_TO_LONGS(n) \in Nat \ {0}
         /\ \A k \in Nat : k \in WordsOf(n) <=> k * BITS_PER_LONG < n
<1>1. PICK B : B = BITS_PER_LONG
  OBVIOUS
<1>2. B \in Nat \ {0}
  BY <1>1 DEF Width
<1>3. PICK q, r : q = (n + B - 1) \div B /\ r = (n + B - 1) % B
  OBVIOUS
<1>4. q \in Int /\ r \in 0 .. (B - 1) /\ n + B - 1 = q * B + r /\ q * B \in Int
  <2>1. PICK m : m = n + B - 1
    OBVIOUS
  <2>2. m \in Int /\ q = m \div B /\ r = m % B
    BY <1>2, <1>3, <2>1
  <2>3. q \in Int /\ r \in 0 .. (B - 1) /\ m = q * B + r
    BY ONLY <1>2, <2>2, DivMod
  <2>. QED
    BY <1>2, <2>1, <2>3
<1>5. q >= 1
  <2>1. q < 1 => q * B + B <= 1 * B
    BY <1>2, <1>4, Apart
  <2>2. 1 * B = B
    BY <1>2
  <2>. QED
    BY <1>2, <1>4, <2>1, <2>2
<1>6. ASSUME NEW k \in Nat
      PROVE  k < q <=> k * B < n
  <2>0. k * B \in Int
    BY <1>2
  <2>1. k < q => k * B + B <= q * B
    BY <1>2, <1>4, Apart
  <2>2. q < k => q * B + B <= k * B
    BY <1>2, <1>4, Apart
  <2>3. q = k => q * B = k * B
    OBVIOUS
  <2>. QED
    BY <1>2, <1>4, <2>0, <2>1, <2>2, <2>3
<1>7. \A k \in Nat : k \in 0 .. (q - 1) <=> k < q
  BY <1>4
<1>8. BITS_TO_LONGS(n) = q /\ WordsOf(n) = 0 .. (q - 1)
  BY <1>1, <1>3 DEF BITS_TO_LONGS, WordsOf
<1>. QED
  BY <1>1, <1>4, <1>5, <1>6, <1>7, <1>8

\* The bits of word k below n.
Below(n, k) == {b \in ones : At(k, b) < n}

\* The mask of the last word, when n lies in word k or at its end.
LEMMA LastMask ==
  ASSUME Width, NEW n \in Nat, NEW k \in Nat, k * BITS_PER_LONG < n,
         n <= (k + 1) * BITS_PER_LONG
  PROVE  BITMAP_LAST_WORD_MASK(n) = Below(n, k)
<1>1. PICK B : B = BITS_PER_LONG
  OBVIOUS
<1>2. /\ B \in Nat \ {0} /\ k * B \in Nat /\ (k + 1) * B = k * B + B
      /\ k * B < n /\ n <= k * B + B
  BY <1>1 DEF Width
<1>3. PICK m, q, r : m = -n /\ q = m \div B /\ r = m % B
  OBVIOUS
<1>4. q \in Int /\ r \in 0 .. (B - 1) /\ m = q * B + r /\ q * B \in Int
  <2>1. m \in Int
    BY <1>3
  <2>2. q \in Int /\ r \in 0 .. (B - 1) /\ m = q * B + r
    BY ONLY <1>2, <1>3, <2>1, DivMod
  <2>. QED
    BY <1>2, <2>2
<1>5. q = -(k + 1)
  <2>1. PICK p : p = -(k + 1)
    OBVIOUS
  <2>2. p \in Int /\ p * B = -(k * B + B)
    BY <1>2, <2>1
  <2>3. q < p => q * B + B <= p * B
    BY <1>2, <1>4, <2>2, Apart
  <2>4. p < q => p * B + B <= q * B
    BY <1>2, <1>4, <2>2, Apart
  <2>5. ~(q < p)
    BY <1>2, <1>3, <1>4, <2>2, <2>3
  <2>6. ~(p < q)
    BY <1>2, <1>3, <1>4, <2>2, <2>4
  <2>. QED
    BY <1>4, <2>1, <2>2, <2>5, <2>6
<1>6. B - 1 - r = n - k * B - 1
  <2>1. q * B = -(k * B + B)
    BY <1>2, <1>5
  <2>. QED
    BY <1>2, <1>3, <1>4, <2>1
<1>7. \A b : b \in 0 .. (B - 1 - r) <=> b \in 0 .. (B - 1) /\ k * B + b < n
  BY <1>2, <1>4, <1>6
<1>8. /\ BITMAP_LAST_WORD_MASK(n) = 0 .. (B - 1 - r)
      /\ Below(n, k) = {b \in 0 .. (B - 1) : k * B + b < n}
  BY <1>1, <1>3 DEF BITMAP_LAST_WORD_MASK, Below, ones, At
<1>. QED
  BY <1>7, <1>8

\* What the loops look at is what is below the size.
LEMMA MasksAre ==
  ASSUME Width, NEW n \in Nat \ {0}, NEW k \in WordsOf(n)
  PROVE  Valid(n, k) = Below(n, k) /\ Used(n, k) = Below(n, k)
<1>1. PICK B, l : B = BITS_PER_LONG /\ l = BITS_TO_LONGS(n)
  OBVIOUS
<1>2. /\ B \in Nat \ {0} /\ l \in Nat \ {0} /\ k \in 0 .. (l - 1) /\ k \in Nat
      /\ \A j \in Nat : j \in 0 .. (l - 1) <=> j * B < n
  BY <1>1, WordsAre DEF Width, WordsOf
<1>3. k * B < n /\ k * B \in Nat /\ (k + 1) * B = k * B + B
  BY <1>2
<1>4. CASE (k + 1) * B <= n
  <2>1. Below(n, k) = ones
    BY <1>1, <1>2, <1>3, <1>4 DEF Below, ones, At
  <2>2. k < n \div B
    <3>1. PICK q, r : q = n \div B /\ r = n % B
      OBVIOUS
    <3>2. q \in Int /\ r \in 0 .. (B - 1) /\ n = q * B + r /\ q * B \in Int
      BY <1>2, <3>1, DivMod
    <3>3. q < k + 1 => q * B + B <= (k + 1) * B
      BY <1>2, <3>2, Apart
    <3>4. ~(q < k + 1)
      BY <1>2, <1>3, <1>4, <3>2, <3>3
    <3>. QED
      BY <1>2, <3>1, <3>2, <3>4
  <2>3. k = l - 1 => BITMAP_LAST_WORD_MASK(n) = Below(n, k)
    <3>1. k = l - 1 => n <= (k + 1) * B
      BY <1>2, <1>3
    <3>. QED
      BY <1>1, <1>2, <1>3, <3>1, LastMask
  <2>. QED
    BY <1>1, <2>1, <2>2, <2>3 DEF Valid, Used
<1>5. CASE ~((k + 1) * B <= n)
  <2>1. BITMAP_LAST_WORD_MASK(n) = Below(n, k)
    <3>1. n <= (k + 1) * B
      BY <1>2, <1>3, <1>5
    <3>. QED
      BY <1>1, <1>2, <1>3, <3>1, LastMask
  <2>2. ~(k < n \div B)
    <3>1. PICK q, r : q = n \div B /\ r = n % B
      OBVIOUS
    <3>2. q \in Int /\ r \in 0 .. (B - 1) /\ n = q * B + r /\ q * B \in Int
      BY <1>2, <3>1, DivMod
    <3>3. k < q => k * B + B <= q * B
      BY <1>2, <3>2, Apart
    <3>. QED
      BY <1>2, <1>3, <1>5, <3>1, <3>2, <3>3
  <2>3. k = l - 1
    <3>1. PICK j : j = k + 1
      OBVIOUS
    <3>2. j \in Nat
      BY <1>2, <3>1
    <3>3. j \in 0 .. (l - 1) <=> j * B < n
      BY <1>2, <3>2
    <3>4. j * B \in Int /\ ~(j * B < n)
      BY <1>2, <1>3, <1>5, <3>1
    <3>. QED
      BY <1>2, <3>1, <3>3, <3>4
  <2>. QED
    BY <1>1, <2>1, <2>2, <2>3 DEF Valid, Used
<1>. QED
  BY <1>4, <1>5

-----------------------------------------------------------------------------
(* Bits, by word and place.                                                *)

\* The words of bitmaps of n bits, and the bitmaps with the names in D.
Words(n)   == [WordsOf(n) -> SUBSET ones]
Maps(D, n) == [D -> Words(n)]

\* What is below the size is in a word, and the words hold no more.
LEMMA BitsAre ==
  ASSUME Width, NEW n \in Nat \ {0}, NEW a
  PROVE  /\ \A i \in Bits(a, n) : i \in Nat
         /\ \A i \in AllBits(a, n) : i \in Nat
         /\ \A k \in WordsOf(n), b \in ones :
              /\ At(k, b) \in Bits(a, n) <=> b \in a[k] /\ b \in Below(n, k)
              /\ At(k, b) \in AllBits(a, n) <=> b \in a[k]
<1>1. BITS_TO_LONGS(n) \in Nat \ {0} /\ \A k \in WordsOf(n) : k \in Nat
  BY WordsAre DEF WordsOf
<1>2. PICK all : all = BITS_TO_LONGS(n) * BITS_PER_LONG
  OBVIOUS
<1>3. all \in Nat
  BY <1>1, <1>2 DEF Width
<1>4. ASSUME NEW k \in WordsOf(n), NEW b \in ones
      PROVE  At(k, b) \in 0 .. (all - 1)
  <2>1. At(k, b) \in Nat
    BY <1>1, AtIs
  <2>2. k * BITS_PER_LONG + BITS_PER_LONG <= all
    <3>1. PICK B, l : B = BITS_PER_LONG /\ l = BITS_TO_LONGS(n)
      OBVIOUS
    <3>2. B \in Nat \ {0} /\ k \in Int /\ l \in Int /\ k < l
      BY <1>1, <3>1 DEF Width, WordsOf
    <3>3. k * B + B <= l * B
      BY ONLY <3>2, Apart
    <3>. QED
      BY <1>2, <3>1, <3>3
  <2>3. b \in 0 .. (BITS_PER_LONG - 1) /\ k * BITS_PER_LONG \in Int /\ BITS_PER_LONG \in Nat
    BY <1>1 DEF ones, Width
  <2>4. At(k, b) < all
    BY <1>3, <2>2, <2>3 DEF At
  <2>. QED
    BY <1>3, <2>1, <2>4
<1>5. ASSUME NEW k \in WordsOf(n), NEW b \in ones
      PROVE  /\ At(k, b) \in Bits(a, n) <=> b \in a[k] /\ b \in Below(n, k)
             /\ At(k, b) \in AllBits(a, n) <=> b \in a[k]
  <2>1. At(k, b) \in Nat /\ BIT_WORD(At(k, b)) = k /\ At(k, b) % BITS_PER_LONG = b
    BY <1>1, AtIs
  <2>2. At(k, b) \in 0 .. (n - 1) <=> b \in Below(n, k)
    BY <2>1 DEF Below
  <2>3. At(k, b) \in 0 .. (all - 1)
    BY <1>4
  <2>. QED
    BY <1>2, <2>1, <2>2, <2>3 DEF Bits, AllBits
<1>. QED
  BY <1>2, <1>3, <1>5 DEF Bits, AllBits

\* Every number in the storage is that of a place.
LEMMA EveryPlace ==
  ASSUME Width, NEW n \in Nat \ {0}, NEW i \in 0 .. (BITS_TO_LONGS(n) * BITS_PER_LONG - 1)
  PROVE  \E k \in WordsOf(n), b \in ones : i = At(k, b)
<1>1. BITS_TO_LONGS(n) \in Nat \ {0}
  BY WordsAre
<1>2. BITS_TO_LONGS(n) * BITS_PER_LONG \in Nat
  BY <1>1 DEF Width
<1>3. i \in Nat
  BY <1>2
<1>4. PICK k, b : k = BIT_WORD(i) /\ b = i % BITS_PER_LONG
  OBVIOUS
<1>5. k \in Nat /\ b \in ones /\ At(k, b) = i
  BY <1>3, <1>4, PlaceOf
<1>6. k < BITS_TO_LONGS(n)
  <2>1. PICK B, l : B = BITS_PER_LONG /\ l = BITS_TO_LONGS(n)
    OBVIOUS
  <2>2. B \in Nat \ {0} /\ k \in Int /\ l \in Int
    BY <1>1, <1>5, <2>1 DEF Width
  <2>3. l < k => l * B + B <= k * B
    BY ONLY <2>2, Apart
  <2>4. k = l => k * B = l * B
    OBVIOUS
  <2>5. k * B \in Int /\ l * B \in Int /\ i \in Int /\ i < l * B /\ k * B <= i
    BY <1>2, <1>5, <2>1, <2>2 DEF At, ones
  <2>. QED
    BY <2>1, <2>2, <2>3, <2>4, <2>5
<1>7. k \in WordsOf(n)
  BY <1>1, <1>5, <1>6 DEF WordsOf
<1>. QED
  BY <1>5, <1>7

\* Sets of numbers in the storage are the same when they agree on every place.
InStorage(S, n) == S \subseteq 0 .. (BITS_TO_LONGS(n) * BITS_PER_LONG - 1)

AgreeAt(S, T, n) == \A k \in WordsOf(n), b \in ones : At(k, b) \in S <=> At(k, b) \in T

LEMMA SameBits ==
  ASSUME Width, NEW n \in Nat \ {0}, NEW S, NEW T, InStorage(S, n), InStorage(T, n),
         AgreeAt(S, T, n)
  PROVE  S = T
<1>1. \A i \in S : i \in T
  <2>. SUFFICES ASSUME NEW i \in S PROVE i \in T
    OBVIOUS
  <2>1. PICK k \in WordsOf(n), b \in ones : i = At(k, b)
    BY EveryPlace DEF InStorage
  <2>. QED
    BY <2>1 DEF AgreeAt
<1>2. \A i \in T : i \in S
  <2>. SUFFICES ASSUME NEW i \in T PROVE i \in S
    OBVIOUS
  <2>1. PICK k \in WordsOf(n), b \in ones : i = At(k, b)
    BY EveryPlace DEF InStorage
  <2>. QED
    BY <2>1 DEF AgreeAt
<1>. QED
  BY <1>1, <1>2

\* Numbers below the size are in the storage.
LEMMA StorageHoldsSize ==
  ASSUME Width, NEW n \in Nat \ {0}
  PROVE  /\ InStorage(0 .. (n - 1), n)
         /\ \A a : InStorage(Bits(a, n), n) /\ InStorage(AllBits(a, n), n)
         /\ \A k \in WordsOf(n), b \in ones : At(k, b) \in 0 .. (n - 1) <=> b \in Below(n, k)
<1>1. BITS_TO_LONGS(n) \in Nat \ {0}
      /\ \A k \in Nat : k \in WordsOf(n) <=> k * BITS_PER_LONG < n
  BY WordsAre
<1>2. n <= BITS_TO_LONGS(n) * BITS_PER_LONG
  <2>1. PICK l : l = BITS_TO_LONGS(n)
    OBVIOUS
  <2>2. l \in Nat /\ ~(l \in WordsOf(n)) /\ (l \in WordsOf(n) <=> l * BITS_PER_LONG < n)
    BY <1>1, <2>1 DEF WordsOf
  <2>3. l * BITS_PER_LONG \in Int
    BY <2>2 DEF Width
  <2>. QED
    BY <2>1, <2>2, <2>3
<1>3. BITS_TO_LONGS(n) * BITS_PER_LONG \in Nat
  BY <1>1 DEF Width
<1>4. InStorage(0 .. (n - 1), n)
  BY <1>2, <1>3 DEF InStorage
<1>5. \A a : InStorage(Bits(a, n), n) /\ InStorage(AllBits(a, n), n)
  BY <1>4 DEF InStorage, Bits, AllBits
<1>6. ASSUME NEW k \in WordsOf(n), NEW b \in ones
      PROVE  At(k, b) \in 0 .. (n - 1) <=> b \in Below(n, k)
  <2>1. At(k, b) \in Nat
    BY AtIs DEF WordsOf
  <2>. QED
    BY <2>1 DEF Below
<1>. QED
  BY <1>4, <1>5, <1>6

-----------------------------------------------------------------------------
(* What every operation stores, word by word.                              *)

\* r is m with words w in place of those of d.
Stores(r, m, D, n, d, w) == r \in Maps(D, n) /\ r[d] = w /\ w \in Words(n)

LEMMA Replaced ==
  ASSUME NEW D, NEW n, NEW m, m \in Maps(D, n), NEW d \in D, NEW w, w \in Words(n)
  PROVE  Stores([m EXCEPT ![d] = w], m, D, n, d, w)
BY DEF Stores, Maps

\* A loop over all words, when v is what it stores.
LEMMA StoredLoop ==
  ASSUME NEW D, NEW n, NEW m, m \in Maps(D, n), NEW d \in D, NEW w, w \in Words(n),
         NEW v, v = w, NEW r, r = [m EXCEPT ![d] = v]
  PROVE  Stores(r, m, D, n, d, w)
BY Replaced

\* A store to a word of the bitmap.
LEMMA WordReplaced ==
  ASSUME NEW D, NEW n, NEW m, m \in Maps(D, n), NEW d \in D, NEW k \in WordsOf(n),
         NEW w, w \in SUBSET ones
  PROVE  Stores(Store(m, d, k, w), m, D, n, d, [m[d] EXCEPT ![k] = w])
<1>1. PICK v : v = [m[d] EXCEPT ![k] = w]
  OBVIOUS
<1>2. m[d] \in Words(n)
  BY DEF Maps
<1>3. v \in Words(n)
  BY <1>1, <1>2 DEF Words
<1>4. [j \in DOMAIN m[d] \cup {k} |-> IF j = k THEN w ELSE m[d][j]] = v
  BY <1>1, <1>2 DEF Words
<1>5. PICK r : r = Store(m, d, k, w)
  OBVIOUS
<1>6. r = [m EXCEPT ![d] = v]
  BY <1>4, <1>5 DEF Store
<1>7. Stores(r, m, D, n, d, v)
  BY ONLY <1>3, <1>6, m \in Maps(D, n), d \in D, StoredLoop
<1>. QED
  BY <1>1, <1>5, <1>7

\* The words of the bitmap the operation reads.
LEMMA WordsAreBits ==
  ASSUME NEW D, NEW n, NEW m, m \in Maps(D, n), NEW d \in D
  PROVE  /\ m[d] \in Words(n) /\ DOMAIN m[d] = WordsOf(n) /\ DOMAIN m = D
         /\ \A k \in WordsOf(n) : m[d][k] \subseteq ones
BY DEF Maps, Words

\* Where the header takes its short cut there is one word, and the mask of
\* the last one is that of the first.
LEMMA ShortCut ==
  ASSUME Width, NEW n \in Nat \ {0}, n <= BITS_PER_LONG
  PROVE  WordsOf(n) = {0} /\ BITS_TO_LONGS(n) = 1 /\ BITMAP_LAST_WORD_MASK(n) = Below(n, 0)
<1>1. /\ BITS_TO_LONGS(n) \in Nat \ {0}
      /\ \A k \in Nat : k \in WordsOf(n) <=> k * BITS_PER_LONG < n
  BY WordsAre
<1>2. 1 * BITS_PER_LONG = BITS_PER_LONG /\ 0 * BITS_PER_LONG = 0 /\ (0 + 1) * BITS_PER_LONG = BITS_PER_LONG
  BY DEF Width
<1>3. 1 \notin WordsOf(n)
  BY <1>1, <1>2 DEF Width
<1>4. BITS_TO_LONGS(n) = 1
  BY <1>1, <1>3 DEF WordsOf
<1>5. WordsOf(n) = {0}
  BY <1>4 DEF WordsOf
<1>6. BITMAP_LAST_WORD_MASK(n) = Below(n, 0)
  BY <1>2, LastMask
<1>. QED
  BY <1>4, <1>5, <1>6

\* A store of the only word there is.
LEMMA StoredShort ==
  ASSUME Width, NEW n \in Nat \ {0}, n <= BITS_PER_LONG,
         NEW D, NEW m, m \in Maps(D, n), NEW d \in D, NEW w, w \in Words(n),
         NEW v, v = w[0]
  PROVE  Stores(Word(m, d, v), m, D, n, d, w)
<1>1. WordsOf(n) = {0} /\ m[d] \in Words(n)
  BY ShortCut, WordsAreBits
<1>2. [j \in DOMAIN m[d] \cup {0} |-> IF j = 0 THEN v ELSE m[d][j]] = w
  BY <1>1 DEF Words
<1>3. Word(m, d, v) = [m EXCEPT ![d] = w]
  BY <1>2 DEF Word, Store
<1>. QED
  BY <1>3, Replaced

\* The words of the operations.
CopyWords(m, s, n)        == [k \in WordsOf(n) |-> m[s][k]]
ComplementWords(m, s, n)  == [k \in WordsOf(n) |-> ones \ m[s][k]]
AndWords(m, s1, s2, n)    == [k \in WordsOf(n) |-> m[s1][k] \cap m[s2][k] \cap Below(n, k)]
OrWords(m, s1, s2, n)     == [k \in WordsOf(n) |-> m[s1][k] \cup m[s2][k]]
XorWords(m, s1, s2, n)    == [k \in WordsOf(n) |-> Xor(m[s1][k], m[s2][k])]
AndnotWords(m, s1, s2, n) == [k \in WordsOf(n) |-> (m[s1][k] \ m[s2][k]) \cap Below(n, k)]
ZeroWords(n)              == [k \in WordsOf(n) |-> {}]
FillWords(n)              == [k \in WordsOf(n) |-> Below(n, k)]

LEMMA CopyStores ==
  ASSUME Width, NEW n \in Nat \ {0}, NEW D, NEW m, m \in Maps(D, n),
         NEW d \in D, NEW s \in D
  PROVE  Stores(bitmap_copy(m, d, s, n), m, D, n, d, CopyWords(m, s, n))
<1>1. PICK w : w = CopyWords(m, s, n)
  OBVIOUS
<1>2. w \in Words(n) /\ \A k \in WordsOf(n) : w[k] = m[s][k]
  BY <1>1, WordsAreBits DEF CopyWords, Words
<1>3. CASE small_const_nbits(n)
  <2>1. /\ n <= BITS_PER_LONG /\ 0 \in WordsOf(n)
    BY <1>3, ShortCut DEF small_const_nbits
  <2>2. PICK v : v = m[s][0]
    OBVIOUS
  <2>3. v = w[0]
    BY <1>2, <2>1, <2>2
  <2>4. Stores(Word(m, d, v), m, D, n, d, w)
    BY ONLY Width, n \in Nat \ {0}, <1>2, <2>1, <2>3, m \in Maps(D, n), d \in D, StoredShort
  <2>5. bitmap_copy(m, d, s, n) = Word(m, d, v)
    BY <1>3, <2>2 DEF bitmap_copy
  <2>. QED
    BY <1>1, <2>4, <2>5
<1>4. CASE ~small_const_nbits(n)
  <2>1. PICK v : v = [k \in DOMAIN m[d] \cup WordsOf(n) |-> IF k \in WordsOf(n) THEN m[s][k] ELSE m[d][k]]
    OBVIOUS
  <2>2. v = w
    BY <1>1, <2>1, WordsAreBits DEF CopyWords
  <2>3. PICK r : r = bitmap_copy(m, d, s, n)
    OBVIOUS
  <2>4. r = [m EXCEPT ![d] = v]
    BY <1>4, <2>1, <2>3 DEF bitmap_copy, ForEach
  <2>5. Stores(r, m, D, n, d, w)
    BY ONLY <1>2, <2>2, <2>4, m \in Maps(D, n), d \in D, StoredLoop
  <2>. QED
    BY <1>1, <2>3, <2>5
<1>. QED
  BY <1>3, <1>4

LEMMA ComplementStores ==
  ASSUME Width, NEW n \in Nat \ {0}, NEW D, NEW m, m \in Maps(D, n),
         NEW d \in D, NEW s \in D
  PROVE  Stores(bitmap_complement(m, d, s, n), m, D, n, d, ComplementWords(m, s, n))
<1>1. PICK w : w = ComplementWords(m, s, n)
  OBVIOUS
<1>2. w \in Words(n) /\ \A k \in WordsOf(n) : w[k] = ones \ m[s][k]
  BY <1>1, WordsAreBits DEF ComplementWords, Words
<1>3. CASE small_const_nbits(n)
  <2>1. /\ n <= BITS_PER_LONG /\ 0 \in WordsOf(n)
    BY <1>3, ShortCut DEF small_const_nbits
  <2>2. PICK v : v = ones \ m[s][0]
    OBVIOUS
  <2>3. v = w[0]
    BY <1>2, <2>1, <2>2
  <2>4. Stores(Word(m, d, v), m, D, n, d, w)
    BY ONLY Width, n \in Nat \ {0}, <1>2, <2>1, <2>3, m \in Maps(D, n), d \in D, StoredShort
  <2>5. bitmap_complement(m, d, s, n) = Word(m, d, v)
    BY <1>3, <2>2 DEF bitmap_complement
  <2>. QED
    BY <1>1, <2>4, <2>5
<1>4. CASE ~small_const_nbits(n)
  <2>1. PICK v : v = [k \in DOMAIN m[d] \cup WordsOf(n) |-> IF k \in WordsOf(n) THEN ones \ m[s][k] ELSE m[d][k]]
    OBVIOUS
  <2>2. v = w
    BY <1>1, <2>1, WordsAreBits DEF ComplementWords
  <2>3. PICK r : r = bitmap_complement(m, d, s, n)
    OBVIOUS
  <2>4. r = [m EXCEPT ![d] = v]
    BY <1>4, <2>1, <2>3 DEF bitmap_complement, __bitmap_complement, ForEach
  <2>5. Stores(r, m, D, n, d, w)
    BY ONLY <1>2, <2>2, <2>4, m \in Maps(D, n), d \in D, StoredLoop
  <2>. QED
    BY <1>1, <2>3, <2>5
<1>. QED
  BY <1>3, <1>4

LEMMA AndStores ==
  ASSUME Width, NEW n \in Nat \ {0}, NEW D, NEW m, m \in Maps(D, n),
         NEW d \in D, NEW s1 \in D, NEW s2 \in D
  PROVE  Stores(bitmap_and(m, d, s1, s2, n), m, D, n, d, AndWords(m, s1, s2, n))
<1>1. PICK w : w = AndWords(m, s1, s2, n)
  OBVIOUS
<1>2. w \in Words(n) /\ \A k \in WordsOf(n) : w[k] = m[s1][k] \cap m[s2][k] \cap Below(n, k)
  BY <1>1, WordsAreBits DEF AndWords, Words, Below
<1>3. CASE small_const_nbits(n)
  <2>1. /\ n <= BITS_PER_LONG /\ 0 \in WordsOf(n) /\ BITMAP_LAST_WORD_MASK(n) = Below(n, 0)
    BY <1>3, ShortCut DEF small_const_nbits
  <2>2. PICK v : v = m[s1][0] \cap m[s2][0] \cap BITMAP_LAST_WORD_MASK(n)
    OBVIOUS
  <2>3. v = w[0]
    BY <1>2, <2>1, <2>2
  <2>4. Stores(Word(m, d, v), m, D, n, d, w)
    BY ONLY Width, n \in Nat \ {0}, <1>2, <2>1, <2>3, m \in Maps(D, n), d \in D, StoredShort
  <2>5. bitmap_and(m, d, s1, s2, n) = Word(m, d, v)
    BY <1>3, <2>2 DEF bitmap_and
  <2>. QED
    BY <1>1, <2>4, <2>5
<1>4. CASE ~small_const_nbits(n)
  <2>1. PICK v : v = [k \in DOMAIN m[d] \cup WordsOf(n) |-> IF k \in WordsOf(n) THEN m[s1][k] \cap m[s2][k] \cap Valid(n, k) ELSE m[d][k]]
    OBVIOUS
  <2>2. v = w
    BY <1>1, <2>1, WordsAreBits, MasksAre DEF AndWords
  <2>3. PICK r : r = bitmap_and(m, d, s1, s2, n)
    OBVIOUS
  <2>4. r = [m EXCEPT ![d] = v]
    BY <1>4, <2>1, <2>3 DEF bitmap_and, __bitmap_and, ForEach
  <2>5. Stores(r, m, D, n, d, w)
    BY ONLY <1>2, <2>2, <2>4, m \in Maps(D, n), d \in D, StoredLoop
  <2>. QED
    BY <1>1, <2>3, <2>5
<1>. QED
  BY <1>3, <1>4

LEMMA OrStores ==
  ASSUME Width, NEW n \in Nat \ {0}, NEW D, NEW m, m \in Maps(D, n),
         NEW d \in D, NEW s1 \in D, NEW s2 \in D
  PROVE  Stores(bitmap_or(m, d, s1, s2, n), m, D, n, d, OrWords(m, s1, s2, n))
<1>1. PICK w : w = OrWords(m, s1, s2, n)
  OBVIOUS
<1>2. w \in Words(n) /\ \A k \in WordsOf(n) : w[k] = m[s1][k] \cup m[s2][k]
  BY <1>1, WordsAreBits DEF OrWords, Words
<1>3. CASE small_const_nbits(n)
  <2>1. /\ n <= BITS_PER_LONG /\ 0 \in WordsOf(n)
    BY <1>3, ShortCut DEF small_const_nbits
  <2>2. PICK v : v = m[s1][0] \cup m[s2][0]
    OBVIOUS
  <2>3. v = w[0]
    BY <1>2, <2>1, <2>2
  <2>4. Stores(Word(m, d, v), m, D, n, d, w)
    BY ONLY Width, n \in Nat \ {0}, <1>2, <2>1, <2>3, m \in Maps(D, n), d \in D, StoredShort
  <2>5. bitmap_or(m, d, s1, s2, n) = Word(m, d, v)
    BY <1>3, <2>2 DEF bitmap_or
  <2>. QED
    BY <1>1, <2>4, <2>5
<1>4. CASE ~small_const_nbits(n)
  <2>1. PICK v : v = [k \in DOMAIN m[d] \cup WordsOf(n) |-> IF k \in WordsOf(n) THEN m[s1][k] \cup m[s2][k] ELSE m[d][k]]
    OBVIOUS
  <2>2. v = w
    BY <1>1, <2>1, WordsAreBits DEF OrWords
  <2>3. PICK r : r = bitmap_or(m, d, s1, s2, n)
    OBVIOUS
  <2>4. r = [m EXCEPT ![d] = v]
    BY <1>4, <2>1, <2>3 DEF bitmap_or, __bitmap_or, ForEach
  <2>5. Stores(r, m, D, n, d, w)
    BY ONLY <1>2, <2>2, <2>4, m \in Maps(D, n), d \in D, StoredLoop
  <2>. QED
    BY <1>1, <2>3, <2>5
<1>. QED
  BY <1>3, <1>4

LEMMA XorStores ==
  ASSUME Width, NEW n \in Nat \ {0}, NEW D, NEW m, m \in Maps(D, n),
         NEW d \in D, NEW s1 \in D, NEW s2 \in D
  PROVE  Stores(bitmap_xor(m, d, s1, s2, n), m, D, n, d, XorWords(m, s1, s2, n))
<1>1. PICK w : w = XorWords(m, s1, s2, n)
  OBVIOUS
<1>2. w \in Words(n) /\ \A k \in WordsOf(n) : w[k] = Xor(m[s1][k], m[s2][k])
  BY <1>1, WordsAreBits DEF XorWords, Words, Xor, SymDiff
<1>3. CASE small_const_nbits(n)
  <2>1. /\ n <= BITS_PER_LONG /\ 0 \in WordsOf(n)
    BY <1>3, ShortCut DEF small_const_nbits
  <2>2. PICK v : v = Xor(m[s1][0], m[s2][0])
    OBVIOUS
  <2>3. v = w[0]
    BY <1>2, <2>1, <2>2
  <2>4. Stores(Word(m, d, v), m, D, n, d, w)
    BY ONLY Width, n \in Nat \ {0}, <1>2, <2>1, <2>3, m \in Maps(D, n), d \in D, StoredShort
  <2>5. bitmap_xor(m, d, s1, s2, n) = Word(m, d, v)
    BY <1>3, <2>2 DEF bitmap_xor
  <2>. QED
    BY <1>1, <2>4, <2>5
<1>4. CASE ~small_const_nbits(n)
  <2>1. PICK v : v = [k \in DOMAIN m[d] \cup WordsOf(n) |-> IF k \in WordsOf(n) THEN Xor(m[s1][k], m[s2][k]) ELSE m[d][k]]
    OBVIOUS
  <2>2. v = w
    BY <1>1, <2>1, WordsAreBits DEF XorWords
  <2>3. PICK r : r = bitmap_xor(m, d, s1, s2, n)
    OBVIOUS
  <2>4. r = [m EXCEPT ![d] = v]
    BY <1>4, <2>1, <2>3 DEF bitmap_xor, __bitmap_xor, ForEach
  <2>5. Stores(r, m, D, n, d, w)
    BY ONLY <1>2, <2>2, <2>4, m \in Maps(D, n), d \in D, StoredLoop
  <2>. QED
    BY <1>1, <2>3, <2>5
<1>. QED
  BY <1>3, <1>4

LEMMA AndnotStores ==
  ASSUME Width, NEW n \in Nat \ {0}, NEW D, NEW m, m \in Maps(D, n),
         NEW d \in D, NEW s1 \in D, NEW s2 \in D
  PROVE  Stores(bitmap_andnot(m, d, s1, s2, n), m, D, n, d, AndnotWords(m, s1, s2, n))
<1>1. PICK w : w = AndnotWords(m, s1, s2, n)
  OBVIOUS
<1>2. w \in Words(n) /\ \A k \in WordsOf(n) : w[k] = (m[s1][k] \ m[s2][k]) \cap Below(n, k)
  BY <1>1, WordsAreBits DEF AndnotWords, Words, Below
<1>3. CASE small_const_nbits(n)
  <2>1. /\ n <= BITS_PER_LONG /\ 0 \in WordsOf(n) /\ BITMAP_LAST_WORD_MASK(n) = Below(n, 0)
    BY <1>3, ShortCut DEF small_const_nbits
  <2>2. PICK v : v = (m[s1][0] \ m[s2][0]) \cap BITMAP_LAST_WORD_MASK(n)
    OBVIOUS
  <2>3. v = w[0]
    BY <1>2, <2>1, <2>2
  <2>4. Stores(Word(m, d, v), m, D, n, d, w)
    BY ONLY Width, n \in Nat \ {0}, <1>2, <2>1, <2>3, m \in Maps(D, n), d \in D, StoredShort
  <2>5. bitmap_andnot(m, d, s1, s2, n) = Word(m, d, v)
    BY <1>3, <2>2 DEF bitmap_andnot
  <2>. QED
    BY <1>1, <2>4, <2>5
<1>4. CASE ~small_const_nbits(n)
  <2>1. PICK v : v = [k \in DOMAIN m[d] \cup WordsOf(n) |-> IF k \in WordsOf(n) THEN (m[s1][k] \ m[s2][k]) \cap Valid(n, k) ELSE m[d][k]]
    OBVIOUS
  <2>2. v = w
    BY <1>1, <2>1, WordsAreBits, MasksAre DEF AndnotWords
  <2>3. PICK r : r = bitmap_andnot(m, d, s1, s2, n)
    OBVIOUS
  <2>4. r = [m EXCEPT ![d] = v]
    BY <1>4, <2>1, <2>3 DEF bitmap_andnot, __bitmap_andnot, ForEach
  <2>5. Stores(r, m, D, n, d, w)
    BY ONLY <1>2, <2>2, <2>4, m \in Maps(D, n), d \in D, StoredLoop
  <2>. QED
    BY <1>1, <2>3, <2>5
<1>. QED
  BY <1>3, <1>4

LEMMA ZeroStores ==
  ASSUME Width, NEW n \in Nat \ {0}, NEW D, NEW m, m \in Maps(D, n), NEW d \in D
  PROVE  Stores(bitmap_zero(m, d, n), m, D, n, d, ZeroWords(n))
<1>1. PICK w : w = ZeroWords(n)
  OBVIOUS
<1>2. w \in Words(n) /\ \A k \in WordsOf(n) : w[k] = {}
  BY <1>1 DEF ZeroWords, Words
<1>3. CASE small_const_nbits(n)
  <2>1. n <= BITS_PER_LONG /\ 0 \in WordsOf(n)
    BY <1>3, ShortCut DEF small_const_nbits
  <2>2. PICK v : v = {}
    OBVIOUS
  <2>3. v = w[0]
    BY <1>2, <2>1, <2>2
  <2>4. Stores(Word(m, d, v), m, D, n, d, w)
    BY ONLY Width, n \in Nat \ {0}, <1>2, <2>1, <2>3, m \in Maps(D, n), d \in D, StoredShort
  <2>5. bitmap_zero(m, d, n) = Word(m, d, v)
    BY <1>3, <2>2 DEF bitmap_zero
  <2>. QED
    BY <1>1, <2>4, <2>5
<1>4. CASE ~small_const_nbits(n)
  <2>1. PICK v : v = [k \in DOMAIN m[d] \cup (0 .. (0 + BITS_TO_LONGS(n) - 1)) |->
                       IF k \in 0 .. (0 + BITS_TO_LONGS(n) - 1) THEN {} ELSE m[d][k]]
    OBVIOUS
  <2>2. v = w
    <3>1. 0 .. (0 + BITS_TO_LONGS(n) - 1) = WordsOf(n)
      BY WordsAre DEF WordsOf
    <3>2. v = [k \in DOMAIN m[d] \cup WordsOf(n) |-> IF k \in WordsOf(n) THEN {} ELSE m[d][k]]
      BY <2>1, <3>1
    <3>3. DOMAIN m[d] = WordsOf(n)
      BY WordsAreBits
    <3>. QED
      BY <1>1, <3>2, <3>3 DEF ZeroWords
  <2>3. PICK r : r = bitmap_zero(m, d, n)
    OBVIOUS
  <2>4. r = [m EXCEPT ![d] = v]
    BY <1>4, <2>1, <2>3 DEF bitmap_zero, Cleared, ForEach
  <2>5. Stores(r, m, D, n, d, w)
    BY ONLY <1>2, <2>2, <2>4, m \in Maps(D, n), d \in D, StoredLoop
  <2>. QED
    BY <1>1, <2>3, <2>5
<1>. QED
  BY <1>3, <1>4

LEMMA FillStores ==
  ASSUME Width, NEW n \in Nat \ {0}, NEW D, NEW m, m \in Maps(D, n), NEW d \in D
  PROVE  Stores(bitmap_fill(m, d, n), m, D, n, d, FillWords(n))
<1>1. PICK w : w = FillWords(n)
  OBVIOUS
<1>2. w \in Words(n) /\ \A k \in WordsOf(n) : w[k] = Below(n, k)
  BY <1>1 DEF FillWords, Words, Below
<1>3. PICK last : last = BITS_TO_LONGS(n) - 1
  OBVIOUS
<1>4. last \in WordsOf(n) /\ WordsOf(n) = 0 .. last /\ last \in Nat
  BY <1>3, WordsAre DEF WordsOf
<1>5. BITMAP_LAST_WORD_MASK(n) = Below(n, last)
  BY <1>3, <1>4, MasksAre DEF Used
<1>6. PICK filled : filled = IF small_const_nbits(n) THEN m
                             ELSE ForEach(m, d, 0 .. (last - 1), LAMBDA k : ones)
  OBVIOUS
<1>7. bitmap_fill(m, d, n) = Store(filled, d, last, BITMAP_LAST_WORD_MASK(n))
  BY <1>3, <1>6 DEF bitmap_fill
<1>8. /\ filled \in Maps(D, n)
      /\ \A k \in WordsOf(n) : k # last => filled[d][k] = Below(n, k)
  <2>1. CASE small_const_nbits(n)
    <3>1. WordsOf(n) = {0}
      BY <2>1, ShortCut DEF small_const_nbits
    <3>. QED
      BY <1>4, <1>6, <2>1, <3>1
  <2>2. CASE ~small_const_nbits(n)
    <3>1. PICK v : v = [k \in DOMAIN m[d] \cup (0 .. (last - 1)) |->
                          IF k \in 0 .. (last - 1) THEN ones ELSE m[d][k]]
      OBVIOUS
    <3>2. filled = [m EXCEPT ![d] = v]
      BY <1>6, <2>2, <3>1 DEF ForEach
    <3>3. v \in Words(n)
      <4>1. DOMAIN m[d] = WordsOf(n) /\ 0 .. (last - 1) \subseteq WordsOf(n)
        BY <1>4, WordsAreBits
      <4>2. DOMAIN m[d] \cup (0 .. (last - 1)) = WordsOf(n)
        BY <4>1
      <4>. QED
        BY <3>1, <4>2, WordsAreBits DEF Words
    <3>4. Stores(filled, m, D, n, d, v)
      BY ONLY <3>2, <3>3, m \in Maps(D, n), d \in D, StoredLoop
    <3>5. ASSUME NEW k \in WordsOf(n), k # last PROVE v[k] = Below(n, k)
      <4>1. k \in 0 .. (last - 1)
        BY <1>4, <3>5
      <4>2. v[k] = ones
        BY <3>1, <4>1
      <4>3. Used(n, k) = ones
        BY <1>3, <3>5 DEF Used
      <4>. QED
        BY <4>2, <4>3, MasksAre
    <3>. QED
      BY <3>4, <3>5 DEF Stores
  <2>. QED
    BY <2>1, <2>2
<1>9. PICK v : v = [filled[d] EXCEPT ![last] = Below(n, last)]
  OBVIOUS
<1>10. v = w
  <2>1. filled[d] \in Words(n)
    BY <1>8, WordsAreBits
  <2>2. v \in Words(n) /\ \A k \in WordsOf(n) : v[k] = Below(n, k)
    BY <1>4, <1>8, <1>9, <2>1 DEF Words, Below
  <2>. QED
    BY <1>2, <2>2 DEF Words
<1>11. PICK r : r = bitmap_fill(m, d, n)
  OBVIOUS
<1>12. Stores(Store(filled, d, last, Below(n, last)), filled, D, n, d, v)
  <2>1. filled \in Maps(D, n) /\ Below(n, last) \in SUBSET ones
    BY <1>8 DEF Below
  <2>. QED
    BY ONLY <1>4, <1>9, <2>1, d \in D, WordReplaced
<1>13. Stores(r, filled, D, n, d, w)
  BY <1>5, <1>7, <1>10, <1>11, <1>12
<1>. QED
  BY <1>1, <1>11, <1>13 DEF Stores

-----------------------------------------------------------------------------
(* What the words say of the bits.                                         *)

\* The valid bits of the words w, or all of them, are the numbers in S.
ValidSpell(w, S, n) ==
  \A k \in WordsOf(n), b \in ones : b \in w[k] /\ b \in Below(n, k) <=> At(k, b) \in S

WordsSpell(w, S, n) == \A k \in WordsOf(n), b \in ones : b \in w[k] <=> At(k, b) \in S

LEMMA ValidBits ==
  ASSUME Width, NEW n \in Nat \ {0}, NEW w, NEW S, InStorage(S, n), ValidSpell(w, S, n)
  PROVE  Bits(w, n) = S
<1>1. AgreeAt(Bits(w, n), S, n)
  BY BitsAre DEF AgreeAt, ValidSpell
<1>2. InStorage(Bits(w, n), n)
  BY StorageHoldsSize
<1>. QED
  BY <1>1, <1>2, SameBits

LEMMA StoredBits ==
  ASSUME Width, NEW n \in Nat \ {0}, NEW w, NEW S, InStorage(S, n), WordsSpell(w, S, n)
  PROVE  AllBits(w, n) = S
<1>1. AgreeAt(AllBits(w, n), S, n)
  BY BitsAre DEF AgreeAt, WordsSpell
<1>2. InStorage(AllBits(w, n), n)
  BY StorageHoldsSize
<1>. QED
  BY <1>1, <1>2, SameBits

\* Some bit is left in the words, when they have no unused ones.
LEMMA SomeBit ==
  ASSUME Width, NEW n \in Nat \ {0}, NEW w, w \in Words(n), AllBits(w, n) = Bits(w, n)
  PROVE  (\E k \in WordsOf(n) : w[k] # {}) <=> Bits(w, n) # {}
<1>1. ASSUME NEW k \in WordsOf(n), w[k] # {}
      PROVE  Bits(w, n) # {}
  <2>1. PICK b \in ones : b \in w[k]
    BY <1>1 DEF Words
  <2>. QED
    BY <2>1, BitsAre
<1>2. ASSUME NEW i \in Bits(w, n)
      PROVE  \E k \in WordsOf(n) : w[k] # {}
  <2>1. i \in 0 .. (BITS_TO_LONGS(n) * BITS_PER_LONG - 1)
    BY StorageHoldsSize DEF InStorage
  <2>2. PICK k \in WordsOf(n), b \in ones : i = At(k, b)
    BY <2>1, EveryPlace
  <2>. QED
    BY <2>2, BitsAre
<1>. QED
  BY <1>1, <1>2

LEMMA AndWordsBits ==
  ASSUME Width, NEW n \in Nat \ {0}, NEW m, NEW s1, NEW s2,
         NEW a, a = Bits(m[s1], n), NEW c, c = Bits(m[s2], n)
  PROVE  Bits(AndWords(m, s1, s2, n), n) = a \cap c
<1>1. PICK w : w = AndWords(m, s1, s2, n)
  OBVIOUS
<1>2. PICK S : S = a \cap c
  OBVIOUS
<1>3. InStorage(S, n)
  BY <1>2, StorageHoldsSize DEF InStorage
<1>4. ASSUME NEW k \in WordsOf(n), NEW b \in ones
      PROVE  b \in w[k] /\ b \in Below(n, k) <=> At(k, b) \in S
  <2>1. /\ At(k, b) \in a <=> b \in m[s1][k] /\ b \in Below(n, k)
        /\ At(k, b) \in c <=> b \in m[s2][k] /\ b \in Below(n, k)
    BY BitsAre
  <2>2. w[k] = m[s1][k] \cap m[s2][k] \cap Below(n, k)
    BY <1>1 DEF AndWords
  <2>. QED
    BY <1>2, <2>1, <2>2
<1>5. ValidSpell(w, S, n)
  BY <1>4 DEF ValidSpell
<1>. QED
  BY <1>1, <1>2, <1>3, <1>5, ValidBits

LEMMA AndnotWordsBits ==
  ASSUME Width, NEW n \in Nat \ {0}, NEW m, NEW s1, NEW s2,
         NEW a, a = Bits(m[s1], n), NEW c, c = Bits(m[s2], n)
  PROVE  Bits(AndnotWords(m, s1, s2, n), n) = a \ c
<1>1. PICK w : w = AndnotWords(m, s1, s2, n)
  OBVIOUS
<1>2. PICK S : S = a \ c
  OBVIOUS
<1>3. InStorage(S, n)
  BY <1>2, StorageHoldsSize DEF InStorage
<1>4. ASSUME NEW k \in WordsOf(n), NEW b \in ones
      PROVE  b \in w[k] /\ b \in Below(n, k) <=> At(k, b) \in S
  <2>1. /\ At(k, b) \in a <=> b \in m[s1][k] /\ b \in Below(n, k)
        /\ At(k, b) \in c <=> b \in m[s2][k] /\ b \in Below(n, k)
    BY BitsAre
  <2>2. w[k] = (m[s1][k] \ m[s2][k]) \cap Below(n, k)
    BY <1>1 DEF AndnotWords
  <2>. QED
    BY <1>2, <2>1, <2>2
<1>5. ValidSpell(w, S, n)
  BY <1>4 DEF ValidSpell
<1>. QED
  BY <1>1, <1>2, <1>3, <1>5, ValidBits

LEMMA OrWordsBits ==
  ASSUME Width, NEW n \in Nat \ {0}, NEW m, NEW s1, NEW s2,
         NEW a, a = Bits(m[s1], n), NEW c, c = Bits(m[s2], n)
  PROVE  Bits(OrWords(m, s1, s2, n), n) = a \cup c
<1>1. PICK w : w = OrWords(m, s1, s2, n)
  OBVIOUS
<1>2. PICK S : S = a \cup c
  OBVIOUS
<1>3. InStorage(S, n)
  BY <1>2, StorageHoldsSize DEF InStorage
<1>4. ASSUME NEW k \in WordsOf(n), NEW b \in ones
      PROVE  b \in w[k] /\ b \in Below(n, k) <=> At(k, b) \in S
  <2>1. /\ At(k, b) \in a <=> b \in m[s1][k] /\ b \in Below(n, k)
        /\ At(k, b) \in c <=> b \in m[s2][k] /\ b \in Below(n, k)
    BY BitsAre
  <2>2. w[k] = m[s1][k] \cup m[s2][k]
    BY <1>1 DEF OrWords
  <2>. QED
    BY <1>2, <2>1, <2>2
<1>5. ValidSpell(w, S, n)
  BY <1>4 DEF ValidSpell
<1>. QED
  BY <1>1, <1>2, <1>3, <1>5, ValidBits

LEMMA XorWordsBits ==
  ASSUME Width, NEW n \in Nat \ {0}, NEW m, NEW s1, NEW s2,
         NEW a, a = Bits(m[s1], n), NEW c, c = Bits(m[s2], n)
  PROVE  Bits(XorWords(m, s1, s2, n), n) = Xor(a, c)
<1>1. PICK w : w = XorWords(m, s1, s2, n)
  OBVIOUS
<1>2. PICK S : S = Xor(a, c)
  OBVIOUS
<1>3. InStorage(S, n)
  BY <1>2, StorageHoldsSize DEF InStorage, Xor, SymDiff
<1>4. ASSUME NEW k \in WordsOf(n), NEW b \in ones
      PROVE  b \in w[k] /\ b \in Below(n, k) <=> At(k, b) \in S
  <2>1. /\ At(k, b) \in a <=> b \in m[s1][k] /\ b \in Below(n, k)
        /\ At(k, b) \in c <=> b \in m[s2][k] /\ b \in Below(n, k)
    BY BitsAre
  <2>2. w[k] = Xor(m[s1][k], m[s2][k])
    BY <1>1 DEF XorWords
  <2>. QED
    BY <1>2, <2>1, <2>2 DEF Xor, SymDiff
<1>5. ValidSpell(w, S, n)
  BY <1>4 DEF ValidSpell
<1>. QED
  BY <1>1, <1>2, <1>3, <1>5, ValidBits

LEMMA OneMapBits ==
  ASSUME Width, NEW n \in Nat \ {0}, NEW m, NEW s, NEW a, a = Bits(m[s], n)
  PROVE  /\ Bits(CopyWords(m, s, n), n) = a
         /\ Bits(ComplementWords(m, s, n), n) = (0 .. (n - 1)) \ a
         /\ AllBits(FillWords(n), n) = 0 .. (n - 1)
<1>1. ASSUME NEW k \in WordsOf(n), NEW b \in ones
      PROVE  /\ At(k, b) \in a <=> b \in m[s][k] /\ b \in Below(n, k)
             /\ At(k, b) \in 0 .. (n - 1) <=> b \in Below(n, k)
  BY BitsAre, StorageHoldsSize
<1>2. InStorage(a, n) /\ InStorage(0 .. (n - 1), n)
  BY StorageHoldsSize
<1>3. PICK w, c : w = CopyWords(m, s, n) /\ c = ComplementWords(m, s, n)
  OBVIOUS
<1>4. \A k \in WordsOf(n) : w[k] = m[s][k] /\ c[k] = ones \ m[s][k]
  BY <1>3 DEF CopyWords, ComplementWords
<1>5. ValidSpell(w, a, n)
  BY <1>1, <1>4 DEF ValidSpell
<1>6. PICK rest : rest = (0 .. (n - 1)) \ a
  OBVIOUS
<1>7. InStorage(rest, n)
  BY <1>2, <1>6 DEF InStorage
<1>8. ValidSpell(c, rest, n)
  BY <1>1, <1>4, <1>6 DEF ValidSpell
<1>9. PICK f, all : f = FillWords(n) /\ all = 0 .. (n - 1)
  OBVIOUS
<1>10. WordsSpell(f, all, n)
  BY <1>1, <1>9 DEF WordsSpell, FillWords
<1>11. Bits(w, n) = a
  BY <1>2, <1>5, ValidBits
<1>12. Bits(c, n) = rest
  BY <1>7, <1>8, ValidBits
<1>13. AllBits(f, n) = all
  BY <1>2, <1>9, <1>10, StoredBits
<1>. QED
  BY <1>3, <1>6, <1>9, <1>11, <1>12, <1>13

\* A bitmap has no bits set but valid ones.
CleanWords(w, n) == AllBits(w, n) = Bits(w, n)

LEMMA CleanIs ==
  ASSUME Width, NEW n \in Nat \ {0}, NEW w
  PROVE  CleanWords(w, n) <=>
           \A k \in WordsOf(n), b \in ones : b \in w[k] => b \in Below(n, k)
<1>1. ASSUME CleanWords(w, n)
      PROVE  \A k \in WordsOf(n), b \in ones : b \in w[k] => b \in Below(n, k)
  BY <1>1, BitsAre DEF CleanWords
<1>2. ASSUME \A k \in WordsOf(n), b \in ones : b \in w[k] => b \in Below(n, k)
      PROVE  CleanWords(w, n)
  <2>1. PICK S : S = Bits(w, n)
    OBVIOUS
  <2>2. WordsSpell(w, S, n)
    BY <1>2, <2>1, BitsAre DEF WordsSpell
  <2>3. InStorage(S, n)
    BY <2>1, StorageHoldsSize
  <2>. QED
    BY <2>1, <2>2, <2>3, StoredBits DEF CleanWords
<1>. QED
  BY <1>1, <1>2

LEMMA CombinationsAreClean ==
  ASSUME Width, NEW n \in Nat \ {0}, NEW m, NEW s1, NEW s2
  PROVE  /\ CleanWords(AndWords(m, s1, s2, n), n)
         /\ CleanWords(AndnotWords(m, s1, s2, n), n)
         /\ CleanWords(m[s1], n) /\ CleanWords(m[s2], n) =>
              /\ CleanWords(OrWords(m, s1, s2, n), n)
              /\ CleanWords(XorWords(m, s1, s2, n), n)
<1>1. CleanWords(AndWords(m, s1, s2, n), n)
  BY CleanIs DEF AndWords
<1>2. CleanWords(AndnotWords(m, s1, s2, n), n)
  BY CleanIs DEF AndnotWords
<1>3. ASSUME CleanWords(m[s1], n), CleanWords(m[s2], n)
      PROVE  /\ CleanWords(OrWords(m, s1, s2, n), n)
             /\ CleanWords(XorWords(m, s1, s2, n), n)
  <2>1. \A k \in WordsOf(n), b \in ones :
          b \in m[s1][k] \/ b \in m[s2][k] => b \in Below(n, k)
    BY <1>3, CleanIs
  <2>2. CleanWords(OrWords(m, s1, s2, n), n)
    BY <2>1, CleanIs DEF OrWords
  <2>3. CleanWords(XorWords(m, s1, s2, n), n)
    BY <2>1, CleanIs DEF XorWords, Xor, SymDiff
  <2>. QED
    BY <2>2, <2>3
<1>. QED
  BY <1>1, <1>2, <1>3

-----------------------------------------------------------------------------
(* The combinations.                                                       *)

LEMMA Typed ==
  ASSUME TypeOK
  PROVE  Width /\ nbits \in Nat \ {0} /\ maps \in Maps(DOMAIN maps, nbits)
BY BitmapAssumption DEF TypeOK, Width, Maps, Words

LEMMA Results ==
  ASSUME TypeOK
  PROVE  ResultsAreBitwise
<1>. SUFFICES ASSUME NEW d \in DOMAIN maps, NEW s1 \in DOMAIN maps, NEW s2 \in DOMAIN maps,
                     NEW a, a = Of(maps, s1), NEW b, b = Of(maps, s2)
              PROVE  /\ Of(bitmap_and(maps, d, s1, s2, nbits), d) = a \cap b
                     /\ AnyWord(bitmap_and(maps, d, s1, s2, nbits), d, nbits) <=> a \cap b # {}
                     /\ Of(bitmap_andnot(maps, d, s1, s2, nbits), d) = a \ b
                     /\ AnyWord(bitmap_andnot(maps, d, s1, s2, nbits), d, nbits) <=> a \ b # {}
                     /\ Of(bitmap_or(maps, d, s1, s2, nbits), d) = a \cup b
                     /\ Of(bitmap_xor(maps, d, s1, s2, nbits), d) = Xor(a, b)
                     /\ Of(bitmap_complement(maps, d, s1, nbits), d) = Everything \ a
                     /\ Of(bitmap_copy(maps, d, s1, nbits), d) = a
                     /\ AllBits(bitmap_fill(maps, d, nbits)[d], nbits) = Everything
  BY DEF ResultsAreBitwise
<1>1. PICK n, m, D : n = nbits /\ m = maps /\ D = DOMAIN maps
  OBVIOUS
<1>2. Width /\ n \in Nat \ {0} /\ m \in Maps(D, n) /\ d \in D /\ s1 \in D /\ s2 \in D
  BY <1>1, Typed
<1>3. a = Bits(m[s1], n) /\ b = Bits(m[s2], n)
  BY <1>1 DEF Of
<1>4. /\ Bits(AndWords(m, s1, s2, n), n) = a \cap b
      /\ Bits(AndnotWords(m, s1, s2, n), n) = a \ b
      /\ Bits(OrWords(m, s1, s2, n), n) = a \cup b
      /\ Bits(XorWords(m, s1, s2, n), n) = Xor(a, b)
  BY ONLY <1>2, <1>3, AndWordsBits, AndnotWordsBits, OrWordsBits, XorWordsBits
<1>5. /\ Bits(CopyWords(m, s1, n), n) = a
      /\ Bits(ComplementWords(m, s1, n), n) = (0 .. (n - 1)) \ a
      /\ AllBits(FillWords(n), n) = 0 .. (n - 1)
  BY ONLY <1>2, <1>3, OneMapBits
<1>6. /\ Stores(bitmap_and(m, d, s1, s2, n), m, D, n, d, AndWords(m, s1, s2, n))
      /\ Stores(bitmap_andnot(m, d, s1, s2, n), m, D, n, d, AndnotWords(m, s1, s2, n))
      /\ Stores(bitmap_or(m, d, s1, s2, n), m, D, n, d, OrWords(m, s1, s2, n))
      /\ Stores(bitmap_xor(m, d, s1, s2, n), m, D, n, d, XorWords(m, s1, s2, n))
  BY ONLY <1>2, AndStores, AndnotStores, OrStores, XorStores
<1>7. /\ Stores(bitmap_copy(m, d, s1, n), m, D, n, d, CopyWords(m, s1, n))
      /\ Stores(bitmap_complement(m, d, s1, n), m, D, n, d, ComplementWords(m, s1, n))
      /\ Stores(bitmap_fill(m, d, n), m, D, n, d, FillWords(n))
  BY ONLY <1>2, CopyStores, ComplementStores, FillStores
<1>8. ASSUME NEW r, NEW w, Stores(r, m, D, n, d, w), CleanWords(w, n)
      PROVE  AnyWord(r, d, n) <=> Bits(w, n) # {}
  BY ONLY <1>2, <1>8, SomeBit DEF Stores, AnyWord, CleanWords
<1>9. /\ CleanWords(AndWords(m, s1, s2, n), n)
      /\ CleanWords(AndnotWords(m, s1, s2, n), n)
  BY <1>2, CombinationsAreClean
<1>10. /\ AnyWord(bitmap_and(m, d, s1, s2, n), d, n) <=> a \cap b # {}
       /\ AnyWord(bitmap_andnot(m, d, s1, s2, n), d, n) <=> a \ b # {}
  BY ONLY <1>4, <1>6, <1>8, <1>9
<1>11. Everything = 0 .. (n - 1)
  BY <1>1 DEF Everything
<1>. QED
  BY <1>1, <1>4, <1>5, <1>6, <1>7, <1>10, <1>11 DEF Of, Stores

LEMMA StaysClean ==
  ASSUME TypeOK
  PROVE  CleanStaysClean
<1>. SUFFICES ASSUME NEW d \in DOMAIN maps, NEW s1 \in DOMAIN maps, NEW s2 \in DOMAIN maps,
                     CleanWords(maps[s1], nbits), CleanWords(maps[s2], nbits)
              PROVE  /\ CleanWords(bitmap_and(maps, d, s1, s2, nbits)[d], nbits)
                     /\ CleanWords(bitmap_or(maps, d, s1, s2, nbits)[d], nbits)
                     /\ CleanWords(bitmap_xor(maps, d, s1, s2, nbits)[d], nbits)
                     /\ CleanWords(bitmap_andnot(maps, d, s1, s2, nbits)[d], nbits)
  BY DEF CleanStaysClean, CleanWords, Of
<1>1. PICK n, m, D : n = nbits /\ m = maps /\ D = DOMAIN maps
  OBVIOUS
<1>2. /\ Width /\ n \in Nat \ {0} /\ m \in Maps(D, n) /\ d \in D /\ s1 \in D /\ s2 \in D
      /\ CleanWords(m[s1], n) /\ CleanWords(m[s2], n)
  BY <1>1, Typed
<1>3. /\ Stores(bitmap_and(m, d, s1, s2, n), m, D, n, d, AndWords(m, s1, s2, n))
      /\ Stores(bitmap_andnot(m, d, s1, s2, n), m, D, n, d, AndnotWords(m, s1, s2, n))
      /\ Stores(bitmap_or(m, d, s1, s2, n), m, D, n, d, OrWords(m, s1, s2, n))
      /\ Stores(bitmap_xor(m, d, s1, s2, n), m, D, n, d, XorWords(m, s1, s2, n))
  BY ONLY <1>2, AndStores, AndnotStores, OrStores, XorStores
<1>4. /\ CleanWords(AndWords(m, s1, s2, n), n)
      /\ CleanWords(AndnotWords(m, s1, s2, n), n)
      /\ CleanWords(OrWords(m, s1, s2, n), n)
      /\ CleanWords(XorWords(m, s1, s2, n), n)
  BY ONLY <1>2, CombinationsAreClean
<1>. QED
  BY <1>1, <1>3, <1>4 DEF Stores

-----------------------------------------------------------------------------
(* The shifts.  A shift is by off words and rem bits.                      *)

Off(shift) == shift \div BITS_PER_LONG
Rem(shift) == shift % BITS_PER_LONG

\* A place beyond the words is beyond the size.
LEMMA PlaceInBits ==
  ASSUME Width, NEW n \in Nat \ {0}, NEW a, NEW k \in Nat, NEW b \in ones
  PROVE  At(k, b) \in Bits(a, n) <=> k \in WordsOf(n) /\ b \in a[k] /\ b \in Below(n, k)
<1>1. CASE k \in WordsOf(n)
  BY <1>1, BitsAre
<1>2. CASE k \notin WordsOf(n)
  <2>1. k * BITS_PER_LONG \in Nat /\ ~(k * BITS_PER_LONG < n)
    BY <1>2, WordsAre DEF Width
  <2>2. At(k, b) \notin 0 .. (n - 1)
    BY <2>1 DEF At, ones, Width
  <2>. QED
    BY <1>2, <2>2 DEF Bits
<1>. QED
  BY <1>1, <1>2

\* Where a shift takes a place: to a bit of the word off further on, or, when
\* that word is used up, of the one after it.
LEMMA PlaceShifted ==
  ASSUME Width, NEW shift \in Nat, NEW off, off = Off(shift), NEW rem, rem = Rem(shift),
         NEW k \in Nat, NEW b \in ones
  PROVE  /\ off \in Nat /\ rem \in ones
         /\ b + rem \in ones => At(k, b) + shift = At(k + off, b + rem)
         /\ b + rem \notin ones => /\ b + rem - BITS_PER_LONG \in ones
                                   /\ At(k, b) + shift = At(k + off + 1, b + rem - BITS_PER_LONG)
<1>1. PICK B : B = BITS_PER_LONG
  OBVIOUS
<1>2. B \in Nat \ {0} /\ b \in 0 .. (B - 1) /\ ones = 0 .. (B - 1)
  BY <1>1 DEF Width, ones
<1>3. off \in Nat /\ rem \in 0 .. (B - 1) /\ off * B + rem = shift
  BY <1>1, <1>2, PlaceOf DEF Off, Rem, At, BIT_WORD, ones
<1>4. PICK x, y : x = k * B /\ y = off * B
  OBVIOUS
<1>5. /\ (k + off) * B = x + y /\ (k + off + 1) * B = x + y + B
      /\ x \in Nat /\ y \in Nat
  <2>1. /\ (k + off) * B = k * B + off * B
        /\ (k + off + 1) * B = k * B + off * B + B
        /\ k * B \in Nat /\ off * B \in Nat
    <3>1. ASSUME NEW i \in Nat, NEW j \in Nat
          PROVE  (i + j) * B = i * B + j * B /\ i * B \in Nat
      BY ONLY <1>2, <3>1
    <3>2. 1 * B = B
      BY ONLY <1>2
    <3>3. k \in Nat /\ off \in Nat /\ k + off \in Nat /\ 1 \in Nat
      BY <1>3
    <3>4. (k + off) * B = k * B + off * B /\ k * B \in Nat /\ off * B \in Nat
      BY ONLY <3>1, <3>3
    <3>5. (k + off + 1) * B = (k + off) * B + 1 * B
      BY ONLY <3>1, <3>3
    <3>. QED
      BY ONLY <3>2, <3>4, <3>5
  <2>. QED
    BY <1>4, <2>1
<1>6. B \in Int /\ b \in Int /\ rem \in Int /\ shift = y + rem
      /\ 0 <= b /\ b < B /\ 0 <= rem /\ rem < B
  BY <1>2, <1>3, <1>4
<1>7. /\ b + rem \in 0 .. (B - 1) => x + b + shift = (x + y) + (b + rem)
      /\ b + rem \notin 0 .. (B - 1) =>
           /\ b + rem - B \in 0 .. (B - 1)
           /\ x + b + shift = (x + y + B) + (b + rem - B)
  BY ONLY <1>5, <1>6
<1>8. /\ At(k, b) = x + b /\ At(k + off, b + rem) = (x + y) + (b + rem)
      /\ At(k + off + 1, b + rem - B) = (x + y + B) + (b + rem - B)
  BY <1>1, <1>4, <1>5 DEF At
<1>. QED
  BY <1>1, <1>2, <1>3, <1>7, <1>8

\* A shift by no more than the size does not leave the words.
LEMMA OffFits ==
  ASSUME Width, NEW n \in Nat \ {0}, NEW shift \in 0 .. n
  PROVE  Off(shift) \in 0 .. BITS_TO_LONGS(n) /\ Rem(shift) \in ones
<1>1. PICK B, l, off : B = BITS_PER_LONG /\ l = BITS_TO_LONGS(n) /\ off = Off(shift)
  OBVIOUS
<1>2. B \in Nat \ {0} /\ l \in Nat \ {0}
  BY <1>1, WordsAre DEF Width
<1>3. n <= l * B /\ l * B \in Nat
  <2>1. 0 .. (n - 1) \subseteq 0 .. (l * B - 1)
    BY <1>1, StorageHoldsSize DEF InStorage
  <2>2. n - 1 \in 0 .. (l * B - 1)
    BY <2>1
  <2>. QED
    BY <1>2, <2>2
<1>4. off \in Nat /\ off * B <= shift /\ off * B \in Nat /\ Rem(shift) \in ones
  <2>1. 0 \in Nat /\ 0 \in ones /\ shift \in Nat
    BY DEF ones, Width
  <2>2. off \in Nat /\ Rem(shift) \in ones
    BY <1>1, <2>1, PlaceShifted
  <2>3. At(off, Rem(shift)) = shift
    BY <1>1, <2>1, PlaceOf DEF Off, Rem, BIT_WORD
  <2>. QED
    BY <1>1, <1>2, <2>2, <2>3 DEF At, ones
<1>5. l < off => l * B + B <= off * B
  BY <1>2, <1>4, Apart
<1>. QED
  BY <1>1, <1>2, <1>3, <1>4, <1>5

\* The words a right shift leaves, each made of the one off words further on
\* and the one after it.
Source(m, s, n, j) == m[s][j] \cap Below(n, j)

RightWord(m, s, off, rem, n, k) ==
  IF k + off \notin WordsOf(n) THEN {}
  ELSE ShiftDown(Source(m, s, n, k + off), rem) \cup
         (IF k + off + 1 \notin WordsOf(n) THEN {}
          ELSE ShiftUp(Source(m, s, n, k + off + 1), BITS_PER_LONG - rem))

RightWords(m, s, off, rem, n) == [k \in WordsOf(n) |-> RightWord(m, s, off, rem, n, k)]

\* The turns of the loop, given what the turns before have written.
RightTurns(m, d, s, n, lim, off, rem, moved) ==
  [k \in 0 .. (lim - off - 1) |->
     LET src(j) == (IF d = s /\ j < k THEN moved[j] ELSE m[s][j]) \cap Used(n, j)
         upper  == IF rem = 0 \/ off + k + 1 >= lim THEN {}
                   ELSE ShiftUp(src(off + k + 1), BITS_PER_LONG - rem)
     IN  ShiftDown(src(off + k), rem) \cup upper]

\* In place, no turn reads what an earlier one has written.
LEMMA RightTurnsAre ==
  ASSUME Width, NEW n \in Nat \ {0}, NEW m, NEW d, NEW s, NEW off \in Nat, NEW rem \in ones,
         NEW lim, lim = BITS_TO_LONGS(n), NEW g
  PROVE  RightTurns(m, d, s, n, lim, off, rem, g)
           = [k \in 0 .. (lim - off - 1) |-> RightWord(m, s, off, rem, n, k)]
<1>1. lim \in Nat /\ WordsOf(n) = 0 .. (lim - 1)
  BY WordsAre DEF WordsOf
<1>2. ASSUME NEW k \in 0 .. (lim - off - 1)
      PROVE  (LET src(j) == (IF d = s /\ j < k THEN g[j] ELSE m[s][j]) \cap Used(n, j)
                  upper  == IF rem = 0 \/ off + k + 1 >= lim THEN {}
                            ELSE ShiftUp(src(off + k + 1), BITS_PER_LONG - rem)
              IN  ShiftDown(src(off + k), rem) \cup upper) = RightWord(m, s, off, rem, n, k)
  <2>1. PICK i, j : i = off + k /\ j = off + k + 1
    OBVIOUS
  <2>2. /\ i = k + off /\ j = k + off + 1 /\ ~(i < k) /\ ~(j < k)
        /\ i \in WordsOf(n) /\ (j \in WordsOf(n) <=> ~(j >= lim))
    BY <1>1, <2>1
  <2>3. PICK x, y : /\ x = (IF d = s /\ i < k THEN g[i] ELSE m[s][i]) \cap Used(n, i)
                    /\ y = (IF d = s /\ j < k THEN g[j] ELSE m[s][j]) \cap Used(n, j)
    OBVIOUS
  <2>4. x = Source(m, s, n, i)
    BY <2>2, <2>3, MasksAre DEF Source
  <2>5. j \in WordsOf(n) => y = Source(m, s, n, j)
    BY <2>2, <2>3, MasksAre DEF Source
  <2>6. rem = 0 => ShiftUp(Source(m, s, n, j), BITS_PER_LONG - rem) = {}
    BY DEF ShiftUp, Source, Below, ones, Width
  <2>7. (LET src(l) == (IF d = s /\ l < k THEN g[l] ELSE m[s][l]) \cap Used(n, l)
             upper  == IF rem = 0 \/ off + k + 1 >= lim THEN {}
                       ELSE ShiftUp(src(off + k + 1), BITS_PER_LONG - rem)
         IN  ShiftDown(src(off + k), rem) \cup upper)
          = ShiftDown(x, rem) \cup (IF rem = 0 \/ j >= lim THEN {}
                                    ELSE ShiftUp(y, BITS_PER_LONG - rem))
    BY ONLY <2>1, <2>3
  <2>8. ShiftDown(x, rem) \cup (IF rem = 0 \/ j >= lim THEN {}
                                ELSE ShiftUp(y, BITS_PER_LONG - rem))
          = RightWord(m, s, off, rem, n, k)
    BY <2>2, <2>4, <2>5, <2>6 DEF RightWord
  <2>. QED
    BY <2>7, <2>8
<1>. QED
  BY <1>2 DEF RightTurns

LEMMA ShiftRightStores ==
  ASSUME Width, NEW n \in Nat \ {0}, NEW D, NEW m, m \in Maps(D, n),
         NEW d \in D, NEW s \in D, NEW shift \in 0 .. n,
         small_const_nbits(n) => shift < BITS_PER_LONG
  PROVE  Stores(bitmap_shift_right(m, d, s, shift, n), m, D, n, d,
                RightWords(m, s, Off(shift), Rem(shift), n))
<1>1. PICK off, rem, lim : off = Off(shift) /\ rem = Rem(shift) /\ lim = BITS_TO_LONGS(n)
  OBVIOUS
<1>2. /\ off \in 0 .. lim /\ off \in Nat /\ rem \in ones /\ lim \in Nat
      /\ WordsOf(n) = 0 .. (lim - 1)
  BY <1>1, OffFits, WordsAre DEF WordsOf
<1>3. PICK w : w = RightWords(m, s, off, rem, n)
  OBVIOUS
<1>4. w \in Words(n) /\ \A k \in WordsOf(n) : w[k] = RightWord(m, s, off, rem, n, k)
  BY <1>3 DEF RightWords, RightWord, ShiftDown, ShiftUp, Words
<1>5. CASE small_const_nbits(n)
  <2>1. /\ n <= BITS_PER_LONG /\ WordsOf(n) = {0} /\ BITMAP_LAST_WORD_MASK(n) = Below(n, 0)
    BY <1>5, ShortCut DEF small_const_nbits
  <2>2. off = 0 /\ rem = shift
    <3>1. shift \in ones /\ 0 * BITS_PER_LONG = 0
      BY <1>5 DEF ones, Width
    <3>2. At(0, shift) = shift
      BY <3>1 DEF At, ones, Width
    <3>. QED
      BY <1>1, <3>1, <3>2, AtIs DEF Off, Rem, BIT_WORD
  <2>3. PICK v : v = ShiftDown(m[s][0] \cap BITMAP_LAST_WORD_MASK(n), shift)
    OBVIOUS
  <2>4. v = w[0]
    BY <1>4, <2>1, <2>2, <2>3 DEF RightWord, Source
  <2>5. Stores(Word(m, d, v), m, D, n, d, w)
    BY ONLY Width, n \in Nat \ {0}, <1>4, <2>1, <2>4, m \in Maps(D, n), d \in D, StoredShort
  <2>6. bitmap_shift_right(m, d, s, shift, n) = Word(m, d, v)
    BY <1>5, <2>3 DEF bitmap_shift_right
  <2>. QED
    BY <1>1, <1>3, <2>5, <2>6
<1>6. CASE ~small_const_nbits(n)
  <2>1. PICK f : f = CHOOSE moved : moved = RightTurns(m, d, s, n, lim, off, rem, moved)
    OBVIOUS
  <2>2. f = [k \in 0 .. (lim - off - 1) |-> RightWord(m, s, off, rem, n, k)]
    <3>1. \A g : RightTurns(m, d, s, n, lim, off, rem, g)
                   = [k \in 0 .. (lim - off - 1) |-> RightWord(m, s, off, rem, n, k)]
      BY <1>1, <1>2, RightTurnsAre
    <3>2. \E g : g = RightTurns(m, d, s, n, lim, off, rem, g)
      BY <3>1
    <3>3. f = RightTurns(m, d, s, n, lim, off, rem, f)
      BY <2>1, <3>2
    <3>. QED
      BY <3>1, <3>3
  <2>3. PICK r : r = bitmap_shift_right(m, d, s, shift, n)
    OBVIOUS
  <2>4. r = Cleared(ForEach(m, d, 0 .. (lim - off - 1), LAMBDA k : f[k]), d, lim - off, off)
    BY <1>1, <1>6, <2>1, <2>3
    DEF bitmap_shift_right, __bitmap_shift_right, RightTurns, Off, Rem
  <2>5. PICK v : v = [k \in DOMAIN m[d] \cup (0 .. (lim - off - 1)) |->
                       IF k \in 0 .. (lim - off - 1) THEN f[k] ELSE m[d][k]]
    OBVIOUS
  <2>6. PICK q : q = ForEach(m, d, 0 .. (lim - off - 1), LAMBDA k : f[k])
    OBVIOUS
  <2>7. q = [m EXCEPT ![d] = v]
    BY <2>5, <2>6 DEF ForEach
  <2>8. v \in Words(n) /\ \A k \in 0 .. (lim - off - 1) : v[k] = w[k]
    <3>0. DOMAIN m[d] \cup (0 .. (lim - off - 1)) = WordsOf(n)
      BY <1>2, WordsAreBits
    <3>1. \A k \in 0 .. (lim - off - 1) : k \in WordsOf(n) /\ v[k] = w[k]
      BY <1>2, <1>4, <2>2, <2>5, <3>0
    <3>. QED
      <4>1. DOMAIN m[d] = WordsOf(n) /\ \A k \in WordsOf(n) : m[d][k] \in SUBSET ones
        BY WordsAreBits
      <4>2. \A k \in WordsOf(n) : w[k] \in SUBSET ones
        BY <1>4 DEF Words
      <4>3. \A k \in WordsOf(n) : v[k] = w[k] \/ v[k] = m[d][k]
        BY <2>5, <3>0, <3>1
      <4>4. \A k \in WordsOf(n) : v[k] \in SUBSET ones
        BY <4>1, <4>2, <4>3
      <4>. QED
        BY <2>5, <3>0, <3>1, <4>4 DEF Words
  <2>9. Stores(q, m, D, n, d, v)
    BY ONLY <2>7, <2>8, m \in Maps(D, n), d \in D, StoredLoop
  <2>10. PICK u : u = [k \in DOMAIN q[d] \cup ((lim - off) .. (lim - off + off - 1)) |->
                        IF k \in (lim - off) .. (lim - off + off - 1) THEN {} ELSE q[d][k]]
    OBVIOUS
  <2>11. r = [q EXCEPT ![d] = u]
    BY <2>4, <2>6, <2>10 DEF Cleared, ForEach
  <2>12. u = w
    <3>1. q[d] = v /\ DOMAIN q[d] \cup ((lim - off) .. (lim - off + off - 1)) = WordsOf(n)
      <4>1. q[d] = v /\ DOMAIN q[d] = WordsOf(n)
        BY <2>8, <2>9 DEF Stores, Words
      <4>. QED
        BY <1>2, <4>1
    <3>2. ASSUME NEW k \in WordsOf(n) PROVE u[k] = w[k]
      <4>1. CASE k \in 0 .. (lim - off - 1)
        <5>1. k \notin (lim - off) .. (lim - off + off - 1)
          BY <1>2, <4>1
        <5>. QED
          BY <2>8, <2>10, <3>1, <4>1, <5>1
      <4>2. CASE k \notin 0 .. (lim - off - 1)
        <5>1. k \in (lim - off) .. (lim - off + off - 1) /\ k + off \notin WordsOf(n)
          BY <1>2, <4>2
        <5>. QED
          BY <1>4, <2>10, <3>1, <5>1 DEF RightWord
      <4>. QED
        BY <4>1, <4>2
    <3>. QED
      BY <1>4, <2>10, <3>1, <3>2 DEF Words
  <2>13. q \in Maps(D, n)
    BY <2>9 DEF Stores
  <2>14. Stores(r, q, D, n, d, w)
    BY ONLY <1>4, <2>11, <2>12, <2>13, d \in D, StoredLoop
  <2>. QED
    BY <1>1, <1>3, <2>3, <2>14 DEF Stores
<1>. QED
  BY <1>5, <1>6

LEMMA RightWordBits ==
  ASSUME Width, NEW n \in Nat \ {0}, NEW m, NEW s, NEW shift \in Nat,
         NEW off, off = Off(shift), NEW rem, rem = Rem(shift),
         NEW k \in WordsOf(n), NEW b \in ones
  PROVE  b \in RightWord(m, s, off, rem, n, k) <=> At(k, b) + shift \in Bits(m[s], n)
<1>1. PICK B, c, e, i, j : /\ B = BITS_PER_LONG /\ c = b + rem /\ e = b + rem - B
                           /\ i = k + off /\ j = k + off + 1
  OBVIOUS
<1>2. B \in Nat \ {0} /\ ones = 0 .. (B - 1) /\ k \in Nat
  BY <1>1, WordsAre DEF Width, ones, WordsOf
<1>3. /\ off \in Nat /\ rem \in ones
      /\ c \in ones => At(k, b) + shift = At(i, c)
      /\ c \notin ones => e \in ones /\ At(k, b) + shift = At(j, e)
  <2>1. /\ off \in Nat /\ rem \in ones
        /\ b + rem \in ones => At(k, b) + shift = At(k + off, b + rem)
        /\ b + rem \notin ones =>
             /\ b + rem - BITS_PER_LONG \in ones
             /\ At(k, b) + shift = At(k + off + 1, b + rem - BITS_PER_LONG)
    <3>1. /\ Width /\ shift \in Nat /\ off = Off(shift) /\ rem = Rem(shift)
          /\ k \in Nat /\ b \in ones
      BY <1>2
    <3>. QED
      BY ONLY <3>1, PlaceShifted
  <2>. QED
    BY <1>1, <2>1
<1>4. /\ i \in Nat /\ j \in Nat /\ (j \in WordsOf(n) => i \in WordsOf(n))
      /\ b + rem = c /\ b - (B - rem) = e
      /\ (c \in ones => e \notin ones)
  <2>1. i \in Nat /\ j \in Nat /\ (j \in WordsOf(n) => i \in WordsOf(n))
    <3>1. PICK lim : lim = BITS_TO_LONGS(n)
      OBVIOUS
    <3>2. lim \in Nat /\ WordsOf(n) = 0 .. (lim - 1)
      BY <3>1, WordsAre DEF WordsOf
    <3>. QED
      BY ONLY <1>1, <1>2, <1>3, <3>2
  <2>2. b \in 0 .. (B - 1) /\ rem \in 0 .. (B - 1)
    BY <1>2, <1>3
  <2>3. b + rem = c /\ b - (B - rem) = e
    BY ONLY <1>1, <1>2, <2>2
  <2>4. c \in 0 .. (B - 1) => e \notin 0 .. (B - 1)
    BY ONLY <1>1, <1>2, <2>2
  <2>. QED
    BY <1>2, <2>1, <2>3, <2>4
<1>5. PICK x, y : x = Source(m, s, n, i) /\ y = Source(m, s, n, j)
  OBVIOUS
<1>6. b \in RightWord(m, s, off, rem, n, k)
        <=> i \in WordsOf(n) /\ (c \in x \/ (j \in WordsOf(n) /\ e \in y))
  <2>1. b \in ShiftDown(x, rem) <=> c \in x
    BY <1>4 DEF ShiftDown
  <2>2. b \in ShiftUp(y, B - rem) <=> e \in y
    BY <1>4 DEF ShiftUp
  <2>. QED
    BY <1>1, <1>5, <2>1, <2>2 DEF RightWord
<1>7. CASE c \in ones
  <2>1. At(k, b) + shift \in Bits(m[s], n) <=> i \in WordsOf(n) /\ c \in x
    <3>1. At(i, c) \in Bits(m[s], n) <=> i \in WordsOf(n) /\ c \in m[s][i] /\ c \in Below(n, i)
      BY <1>4, <1>7, PlaceInBits
    <3>. QED
      BY <1>3, <1>5, <1>7, <3>1 DEF Source
  <2>2. e \notin y
    BY <1>4, <1>5, <1>7 DEF Source, Below
  <2>. QED
    BY <1>6, <2>1, <2>2
<1>8. CASE c \notin ones
  <2>1. At(k, b) + shift \in Bits(m[s], n) <=> j \in WordsOf(n) /\ e \in y
    <3>1. At(j, e) \in Bits(m[s], n) <=> j \in WordsOf(n) /\ e \in m[s][j] /\ e \in Below(n, j)
      BY <1>3, <1>4, <1>8, PlaceInBits
    <3>. QED
      BY <1>3, <1>5, <1>8, <3>1 DEF Source
  <2>2. c \notin x
    BY <1>5, <1>8 DEF Source, Below
  <2>. QED
    BY <1>4, <1>6, <2>1, <2>2
<1>. QED
  BY <1>7, <1>8

LEMMA RightWordsBits ==
  ASSUME Width, NEW n \in Nat \ {0}, NEW m, NEW s, NEW shift \in Nat,
         NEW S, S = Bits(m[s], n)
  PROVE  AllBits(RightWords(m, s, Off(shift), Rem(shift), n), n)
           = Sets!bitmap_shift_right(S, shift, n)
<1>1. PICK w, T : /\ w = RightWords(m, s, Off(shift), Rem(shift), n)
                  /\ T = Sets!bitmap_shift_right(S, shift, n)
  OBVIOUS
<1>2. T = {i \in 0 .. (n - 1) : i + shift < n /\ i + shift \in S}
  BY <1>1 DEF Sets!bitmap_shift_right
<1>3. InStorage(T, n)
  BY <1>2, StorageHoldsSize DEF InStorage
<1>4. ASSUME NEW k \in WordsOf(n), NEW b \in ones
      PROVE  b \in w[k] <=> At(k, b) \in T
  <2>1. b \in w[k] <=> At(k, b) + shift \in S
    BY <1>1, RightWordBits DEF RightWords
  <2>2. At(k, b) \in Nat
    BY AtIs, WordsAre DEF WordsOf
  <2>3. PICK i : i = At(k, b)
    OBVIOUS
  <2>4. i + shift \in S => i + shift \in 0 .. (n - 1)
    BY DEF Bits
  <2>5. i + shift \in S <=> i \in T
    BY <1>2, <2>2, <2>3, <2>4
  <2>. QED
    BY <2>1, <2>3, <2>5
<1>5. WordsSpell(w, T, n)
  BY <1>4 DEF WordsSpell
<1>. QED
  BY <1>1, <1>3, <1>5, StoredBits

\* The words a left shift leaves, each made of the one off words before and
\* the one before that.
LeftWord(m, s, off, rem, k) ==
  IF k < off THEN {}
  ELSE (IF k = off THEN {} ELSE ShiftDown(m[s][k - off - 1], BITS_PER_LONG - rem))
         \cup ShiftUp(m[s][k - off], rem)

LeftWords(m, s, off, rem, n) ==
  [k \in WordsOf(n) |-> IF small_const_nbits(n) THEN LeftWord(m, s, off, rem, k) \cap Below(n, k)
                        ELSE LeftWord(m, s, off, rem, k)]

LeftTurns(m, d, s, lim, off, rem, moved) ==
  [k \in off .. (lim - 1) |->
     LET src(j) == IF d = s /\ j > k THEN moved[j] ELSE m[s][j]
         lower  == IF rem = 0 \/ k = off THEN {}
                   ELSE ShiftDown(src(k - off - 1), BITS_PER_LONG - rem)
     IN  lower \cup ShiftUp(src(k - off), rem)]

\* In place, no turn reads what an earlier one has written.
LEMMA LeftTurnsAre ==
  ASSUME Width, NEW n \in Nat \ {0}, NEW D, NEW m, m \in Maps(D, n), NEW d, NEW s \in D,
         NEW off \in Nat, NEW rem \in ones,
         NEW lim, lim = BITS_TO_LONGS(n), NEW g
  PROVE  LeftTurns(m, d, s, lim, off, rem, g)
           = [k \in off .. (lim - 1) |-> LeftWord(m, s, off, rem, k)]
<1>1. lim \in Nat /\ WordsOf(n) = 0 .. (lim - 1)
  BY WordsAre DEF WordsOf
<1>2. ASSUME NEW k \in off .. (lim - 1)
      PROVE  (LET src(j) == IF d = s /\ j > k THEN g[j] ELSE m[s][j]
                  lower  == IF rem = 0 \/ k = off THEN {}
                            ELSE ShiftDown(src(k - off - 1), BITS_PER_LONG - rem)
              IN  lower \cup ShiftUp(src(k - off), rem)) = LeftWord(m, s, off, rem, k)
  <2>1. PICK i, j : i = k - off /\ j = k - off - 1
    OBVIOUS
  <2>2. /\ ~(i > k) /\ ~(j > k) /\ ~(k < off)
        /\ k # off => j \in WordsOf(n)
    BY <1>1, <2>1
  <2>3. PICK x, y : /\ x = IF d = s /\ i > k THEN g[i] ELSE m[s][i]
                    /\ y = IF d = s /\ j > k THEN g[j] ELSE m[s][j]
    OBVIOUS
  <2>4. x = m[s][i] /\ y = m[s][j]
    BY <2>2, <2>3
  <2>5. rem = 0 /\ k # off => ShiftDown(m[s][j], BITS_PER_LONG - rem) = {}
    <3>1. k # off => m[s][j] \subseteq ones
      BY <2>2, WordsAreBits
    <3>. QED
      BY <3>1 DEF ShiftDown, ones, Width
  <2>6. (LET src(l) == IF d = s /\ l > k THEN g[l] ELSE m[s][l]
             lower  == IF rem = 0 \/ k = off THEN {}
                       ELSE ShiftDown(src(k - off - 1), BITS_PER_LONG - rem)
         IN  lower \cup ShiftUp(src(k - off), rem))
          = (IF rem = 0 \/ k = off THEN {} ELSE ShiftDown(y, BITS_PER_LONG - rem))
              \cup ShiftUp(x, rem)
    BY ONLY <2>1, <2>3
  <2>7. (IF rem = 0 \/ k = off THEN {} ELSE ShiftDown(y, BITS_PER_LONG - rem))
              \cup ShiftUp(x, rem)
          = LeftWord(m, s, off, rem, k)
    BY <2>1, <2>2, <2>4, <2>5 DEF LeftWord
  <2>. QED
    BY <2>6, <2>7
<1>. QED
  BY <1>2 DEF LeftTurns

LEMMA ShiftLeftStores ==
  ASSUME Width, NEW n \in Nat \ {0}, NEW D, NEW m, m \in Maps(D, n),
         NEW d \in D, NEW s \in D, NEW shift \in 0 .. n,
         small_const_nbits(n) => shift < BITS_PER_LONG
  PROVE  Stores(bitmap_shift_left(m, d, s, shift, n), m, D, n, d,
                LeftWords(m, s, Off(shift), Rem(shift), n))
<1>1. PICK off, rem, lim : off = Off(shift) /\ rem = Rem(shift) /\ lim = BITS_TO_LONGS(n)
  OBVIOUS
<1>2. /\ off \in 0 .. lim /\ off \in Nat /\ rem \in ones /\ lim \in Nat
      /\ WordsOf(n) = 0 .. (lim - 1)
  BY <1>1, OffFits, WordsAre DEF WordsOf
<1>3. PICK w : w = LeftWords(m, s, off, rem, n)
  OBVIOUS
<1>4. w \in Words(n)
  <2>1. \A k \in WordsOf(n) : LeftWord(m, s, off, rem, k) \subseteq ones
    BY DEF LeftWord, ShiftDown, ShiftUp
  <2>. QED
    BY <1>3, <2>1 DEF LeftWords, Words
<1>5. CASE small_const_nbits(n)
  <2>1. /\ n <= BITS_PER_LONG /\ WordsOf(n) = {0} /\ BITMAP_LAST_WORD_MASK(n) = Below(n, 0)
    BY <1>5, ShortCut DEF small_const_nbits
  <2>2. off = 0 /\ rem = shift
    <3>1. shift \in ones /\ 0 * BITS_PER_LONG = 0
      BY <1>5 DEF ones, Width
    <3>2. At(0, shift) = shift
      BY <3>1 DEF At, ones, Width
    <3>. QED
      BY <1>1, <3>1, <3>2, AtIs DEF Off, Rem, BIT_WORD
  <2>3. PICK v : v = ShiftUp(m[s][0], shift) \cap BITMAP_LAST_WORD_MASK(n)
    OBVIOUS
  <2>4. v = w[0]
    <3>1. w[0] = LeftWord(m, s, off, rem, 0) \cap Below(n, 0)
      BY <1>3, <1>5, <2>1 DEF LeftWords
    <3>2. LeftWord(m, s, off, rem, 0) = ShiftUp(m[s][0], shift)
      BY <2>2 DEF LeftWord
    <3>. QED
      BY <2>1, <2>3, <3>1, <3>2
  <2>5. Stores(Word(m, d, v), m, D, n, d, w)
    BY ONLY Width, n \in Nat \ {0}, <1>4, <2>1, <2>4, m \in Maps(D, n), d \in D, StoredShort
  <2>6. bitmap_shift_left(m, d, s, shift, n) = Word(m, d, v)
    BY <1>5, <2>3 DEF bitmap_shift_left
  <2>. QED
    BY <1>1, <1>3, <2>5, <2>6
<1>6. CASE ~small_const_nbits(n)
  <2>0. \A k \in WordsOf(n) : w[k] = LeftWord(m, s, off, rem, k)
    BY <1>3, <1>6 DEF LeftWords
  <2>1. PICK f : f = CHOOSE moved : moved = LeftTurns(m, d, s, lim, off, rem, moved)
    OBVIOUS
  <2>2. f = [k \in off .. (lim - 1) |-> LeftWord(m, s, off, rem, k)]
    <3>1. \A g : LeftTurns(m, d, s, lim, off, rem, g)
                   = [k \in off .. (lim - 1) |-> LeftWord(m, s, off, rem, k)]
      BY <1>1, <1>2, LeftTurnsAre
    <3>2. \E g : g = LeftTurns(m, d, s, lim, off, rem, g)
      BY <3>1
    <3>3. f = LeftTurns(m, d, s, lim, off, rem, f)
      BY <2>1, <3>2
    <3>. QED
      BY <3>1, <3>3
  <2>3. PICK r : r = bitmap_shift_left(m, d, s, shift, n)
    OBVIOUS
  <2>4. r = Cleared(ForEach(m, d, off .. (lim - 1), LAMBDA k : f[k]), d, 0, off)
    BY <1>1, <1>6, <2>1, <2>3
    DEF bitmap_shift_left, __bitmap_shift_left, LeftTurns, Off, Rem
  <2>5. PICK v : v = [k \in DOMAIN m[d] \cup (off .. (lim - 1)) |->
                       IF k \in off .. (lim - 1) THEN f[k] ELSE m[d][k]]
    OBVIOUS
  <2>6. PICK q : q = ForEach(m, d, off .. (lim - 1), LAMBDA k : f[k])
    OBVIOUS
  <2>7. q = [m EXCEPT ![d] = v]
    BY <2>5, <2>6 DEF ForEach
  <2>8. v \in Words(n) /\ \A k \in off .. (lim - 1) : v[k] = w[k]
    <3>0. DOMAIN m[d] \cup (off .. (lim - 1)) = WordsOf(n)
      BY <1>2, WordsAreBits
    <3>1. \A k \in off .. (lim - 1) : k \in WordsOf(n) /\ v[k] = w[k]
      BY <1>2, <2>0, <2>2, <2>5, <3>0
    <3>. QED
      <4>1. DOMAIN m[d] = WordsOf(n) /\ \A k \in WordsOf(n) : m[d][k] \in SUBSET ones
        BY WordsAreBits
      <4>2. \A k \in WordsOf(n) : w[k] \in SUBSET ones
        BY <1>4 DEF Words
      <4>3. \A k \in WordsOf(n) : v[k] = w[k] \/ v[k] = m[d][k]
        BY <2>5, <3>0, <3>1
      <4>4. \A k \in WordsOf(n) : v[k] \in SUBSET ones
        BY <4>1, <4>2, <4>3
      <4>. QED
        BY <2>5, <3>0, <3>1, <4>4 DEF Words
  <2>9. Stores(q, m, D, n, d, v)
    BY ONLY <2>7, <2>8, m \in Maps(D, n), d \in D, StoredLoop
  <2>10. PICK u : u = [k \in DOMAIN q[d] \cup (0 .. (0 + off - 1)) |->
                        IF k \in 0 .. (0 + off - 1) THEN {} ELSE q[d][k]]
    OBVIOUS
  <2>11. r = [q EXCEPT ![d] = u]
    BY <2>4, <2>6, <2>10 DEF Cleared, ForEach
  <2>12. u = w
    <3>1. q[d] = v /\ DOMAIN q[d] \cup (0 .. (0 + off - 1)) = WordsOf(n)
      <4>1. q[d] = v /\ DOMAIN q[d] = WordsOf(n)
        BY <2>8, <2>9 DEF Stores, Words
      <4>. QED
        BY <1>2, <4>1
    <3>2. ASSUME NEW k \in WordsOf(n) PROVE u[k] = w[k]
      <4>1. CASE k \in off .. (lim - 1)
        <5>1. k \notin 0 .. (0 + off - 1)
          BY <1>2, <4>1
        <5>. QED
          BY <2>8, <2>10, <3>1, <4>1, <5>1
      <4>2. CASE k \notin off .. (lim - 1)
        <5>1. k \in 0 .. (0 + off - 1) /\ k < off
          BY <1>2, <4>2
        <5>. QED
          BY <2>0, <2>10, <3>1, <5>1 DEF LeftWord
      <4>. QED
        BY <4>1, <4>2
    <3>. QED
      BY <1>4, <2>10, <3>1, <3>2 DEF Words
  <2>13. q \in Maps(D, n)
    BY <2>9 DEF Stores
  <2>14. Stores(r, q, D, n, d, w)
    BY ONLY <1>4, <2>11, <2>12, <2>13, d \in D, StoredLoop
  <2>. QED
    BY <1>1, <1>3, <2>3, <2>14 DEF Stores
<1>. QED
  BY <1>5, <1>6

\* A bit comes from exactly the place that the shift takes to its own.
LEMMA LeftWordBits ==
  ASSUME Width, NEW n \in Nat \ {0}, NEW D, NEW m, m \in Maps(D, n), NEW s \in D,
         NEW shift \in Nat, NEW off, off = Off(shift), NEW rem, rem = Rem(shift),
         NEW k \in WordsOf(n), NEW b \in ones, b \in Below(n, k)
  PROVE  b \in LeftWord(m, s, off, rem, k) <=> \E i \in Bits(m[s], n) : At(k, b) = i + shift
<1>1. PICK B : B = BITS_PER_LONG
  OBVIOUS
<1>2. B \in Nat \ {0} /\ ones = 0 .. (B - 1) /\ k \in Nat /\ b \in Int
  BY <1>1, WordsAre DEF Width, ones, WordsOf
<1>3. ASSUME NEW j \in Nat, NEW c \in ones
      PROVE  /\ off \in Nat /\ rem \in ones
             /\ c + rem \in ones => At(j, c) + shift = At(j + off, c + rem)
             /\ c + rem \notin ones =>
                  /\ c + rem - BITS_PER_LONG \in ones
                  /\ At(j, c) + shift = At(j + off + 1, c + rem - BITS_PER_LONG)
  <2>1. /\ Width /\ shift \in Nat /\ off = Off(shift) /\ rem = Rem(shift)
        /\ j \in Nat /\ c \in ones
    OBVIOUS
  <2>. QED
    BY ONLY <2>1, PlaceShifted
<1>4. off \in Nat /\ rem \in 0 .. (B - 1)
  BY <1>2, <1>3
<1>5. At(k, b) \in Nat /\ At(k, b) < n
  BY <1>2, AtIs DEF Below
<1>6. \A j : j \in WordsOf(n) => j \in Nat /\ m[s][j] \subseteq ones
  BY WordsAreBits, WordsAre DEF WordsOf
<1>7. ASSUME NEW j \in WordsOf(n), NEW c \in m[s][j], At(j, c) + shift = At(k, b)
      PROVE  \E i \in Bits(m[s], n) : At(k, b) = i + shift
  <2>1. c \in ones /\ At(j, c) \in Nat
    BY <1>6, AtIs
  <2>2. At(j, c) < n
    BY <1>5, <1>7, <2>1
  <2>3. At(j, c) \in Bits(m[s], n)
    BY <2>1, <2>2, BitsAre DEF Below
  <2>. QED
    BY <1>7, <2>3
<1>8. ASSUME b \in LeftWord(m, s, off, rem, k)
      PROVE  \E i \in Bits(m[s], n) : At(k, b) = i + shift
  <2>1. CASE ~(k < off) /\ b \in ShiftUp(m[s][k - off], rem)
    <3>1. PICK j, c : j = k - off /\ c = b - rem
      OBVIOUS
    <3>2. j \in WordsOf(n) /\ j + off = k /\ c + rem = b
      <4>1. PICK lim : lim = BITS_TO_LONGS(n)
        OBVIOUS
      <4>2. lim \in Nat /\ WordsOf(n) = 0 .. (lim - 1)
        BY <4>1, WordsAre DEF WordsOf
      <4>. QED
        BY <1>2, <1>4, <2>1, <3>1, <4>2
    <3>3. c \in m[s][j]
      BY <2>1, <3>1 DEF ShiftUp
    <3>4. j \in Nat /\ c \in ones
      BY <1>6, <3>2, <3>3
    <3>5. At(j, c) + shift = At(k, b)
      BY <1>3, <3>2, <3>4
    <3>. QED
      BY <1>7, <3>2, <3>3, <3>5
  <2>2. CASE /\ ~(k < off) /\ k # off
             /\ b \in ShiftDown(m[s][k - off - 1], BITS_PER_LONG - rem)
    <3>1. PICK j, c : j = k - off - 1 /\ c = b + (B - rem)
      OBVIOUS
    <3>2. j \in WordsOf(n) /\ j + off + 1 = k /\ c + rem - B = b /\ c + rem \notin 0 .. (B - 1)
      <4>1. PICK lim : lim = BITS_TO_LONGS(n)
        OBVIOUS
      <4>2. lim \in Nat /\ WordsOf(n) = 0 .. (lim - 1)
        BY <4>1, WordsAre DEF WordsOf
      <4>3. /\ b \in Int /\ 0 <= b /\ b < B /\ B \in Int
            /\ rem \in Int /\ 0 <= rem /\ rem < B /\ off \in Nat
        BY <1>2, <1>4
      <4>4. j + off + 1 = k /\ c + rem - B = b /\ c + rem \notin 0 .. (B - 1)
        BY ONLY <1>2, <3>1, <4>3
      <4>5. k \in 0 .. (lim - 1) /\ k >= off /\ k # off
        BY <1>4, <2>2, <4>2
      <4>6. j \in 0 .. (lim - 1)
        BY ONLY <1>2, <3>1, <4>2, <4>3, <4>5
      <4>. QED
        BY ONLY <4>2, <4>4, <4>6
    <3>3. c \in m[s][j]
      BY <1>1, <2>2, <3>1 DEF ShiftDown
    <3>4. j \in Nat /\ c \in ones
      BY <1>6, <3>2, <3>3
    <3>5. At(j, c) + shift = At(k, b)
      BY <1>1, <1>2, <1>3, <3>2, <3>4
    <3>. QED
      BY <1>7, <3>2, <3>3, <3>5
  <2>. QED
    BY <1>8, <2>1, <2>2 DEF LeftWord
<1>9. ASSUME NEW i \in Bits(m[s], n), At(k, b) = i + shift
      PROVE  b \in LeftWord(m, s, off, rem, k)
  <2>1. i \in 0 .. (BITS_TO_LONGS(n) * BITS_PER_LONG - 1)
    BY StorageHoldsSize DEF InStorage
  <2>2. PICK j \in WordsOf(n), c \in ones : i = At(j, c)
    BY <2>1, EveryPlace
  <2>3. c \in m[s][j] /\ j \in Nat /\ c \in 0 .. (B - 1)
    BY <1>2, <1>6, <2>2, BitsAre
  <2>4. ASSUME NEW p \in Nat, NEW q \in ones, At(k, b) = At(p, q)
        PROVE  k = p /\ b = q
    BY <1>2, <2>4, AtIs
  <2>5. CASE c + rem \in ones
    <3>1. At(k, b) = At(j + off, c + rem) /\ j + off \in Nat
      BY <1>3, <1>4, <1>9, <2>2, <2>3, <2>5
    <3>2. k = j + off /\ b = c + rem
      BY <2>4, <2>5, <3>1
    <3>3. k - off = j /\ b - rem = c /\ ~(k < off)
      BY <1>4, <2>3, <3>2
    <3>4. b \in ShiftUp(m[s][k - off], rem)
      BY <2>3, <3>3 DEF ShiftUp
    <3>. QED
      BY <3>3, <3>4 DEF LeftWord
  <2>6. CASE c + rem \notin ones
    <3>1. /\ At(k, b) = At(j + off + 1, c + rem - B) /\ j + off + 1 \in Nat
          /\ c + rem - B \in ones
      BY <1>1, <1>3, <1>4, <1>9, <2>2, <2>3, <2>6
    <3>2. k = j + off + 1 /\ b = c + rem - B
      BY <2>4, <3>1
    <3>3. k - off - 1 = j /\ b + (B - rem) = c /\ ~(k < off) /\ k # off
      <4>1. B \in Int /\ rem \in Int /\ c \in Int /\ j \in Nat /\ off \in Nat
        BY <1>2, <1>4, <2>3
      <4>. QED
        BY ONLY <3>2, <4>1
    <3>4. b \in ShiftDown(m[s][k - off - 1], BITS_PER_LONG - rem)
      BY <1>1, <2>3, <3>3 DEF ShiftDown
    <3>. QED
      BY <3>3, <3>4 DEF LeftWord
  <2>. QED
    BY <2>5, <2>6
<1>. QED
  BY <1>8, <1>9

LEMMA LeftWordsBits ==
  ASSUME Width, NEW n \in Nat \ {0}, NEW D, NEW m, m \in Maps(D, n), NEW s \in D,
         NEW shift \in Nat, NEW S, S = Bits(m[s], n)
  PROVE  Bits(LeftWords(m, s, Off(shift), Rem(shift), n), n)
           = {i + shift : i \in S} \cap (0 .. (n - 1))
<1>1. PICK w, T : /\ w = LeftWords(m, s, Off(shift), Rem(shift), n)
                  /\ T = {i + shift : i \in S} \cap (0 .. (n - 1))
  OBVIOUS
<1>2. InStorage(T, n)
  BY <1>1, StorageHoldsSize DEF InStorage
<1>3. ASSUME NEW k \in WordsOf(n), NEW b \in ones
      PROVE  b \in w[k] /\ b \in Below(n, k) <=> At(k, b) \in T
  <2>1. At(k, b) \in 0 .. (n - 1) <=> b \in Below(n, k)
    BY StorageHoldsSize
  <2>2. b \in Below(n, k) => (b \in w[k] <=> b \in LeftWord(m, s, Off(shift), Rem(shift), k))
    BY <1>1 DEF LeftWords
  <2>3. b \in Below(n, k) =>
          (b \in LeftWord(m, s, Off(shift), Rem(shift), k) <=> \E i \in S : At(k, b) = i + shift)
    BY LeftWordBits
  <2>. QED
    BY <1>1, <2>1, <2>2, <2>3
<1>4. ValidSpell(w, T, n)
  BY <1>3 DEF ValidSpell
<1>. QED
  BY <1>1, <1>2, <1>4, ValidBits

LEMMA ShiftsMoveBit ==
  ASSUME TypeOK
  PROVE  ShiftsMoveBits
<1>. SUFFICES ASSUME NEW d \in DOMAIN maps, NEW s \in DOMAIN maps, NEW shift \in Shifts
              PROVE  /\ AllBits(bitmap_shift_right(maps, d, s, shift, nbits)[d], nbits)
                          = Sets!bitmap_shift_right(Of(maps, s), shift, nbits)
                     /\ Of(bitmap_shift_left(maps, d, s, shift, nbits), d)
                          = {i + shift : i \in Of(maps, s)} \cap Everything
  BY DEF ShiftsMoveBits
<1>1. PICK n, m, D, S : n = nbits /\ m = maps /\ D = DOMAIN maps /\ S = Of(maps, s)
  OBVIOUS
<1>2. /\ Width /\ n \in Nat \ {0} /\ m \in Maps(D, n) /\ d \in D /\ s \in D
      /\ shift \in 0 .. n /\ (small_const_nbits(n) => shift < BITS_PER_LONG)
      /\ shift \in Nat /\ S = Bits(m[s], n)
  BY <1>1, Typed DEF Shifts, Of
<1>3. AllBits(RightWords(m, s, Off(shift), Rem(shift), n), n) = Sets!bitmap_shift_right(S, shift, n)
  BY ONLY <1>2, RightWordsBits
<1>4. Bits(LeftWords(m, s, Off(shift), Rem(shift), n), n) = {i + shift : i \in S} \cap (0 .. (n - 1))
  BY ONLY <1>2, LeftWordsBits
<1>5. /\ Stores(bitmap_shift_right(m, d, s, shift, n), m, D, n, d,
                RightWords(m, s, Off(shift), Rem(shift), n))
      /\ Stores(bitmap_shift_left(m, d, s, shift, n), m, D, n, d,
                LeftWords(m, s, Off(shift), Rem(shift), n))
  BY ONLY <1>2, ShiftRightStores, ShiftLeftStores
<1>6. Everything = 0 .. (n - 1)
  BY <1>1 DEF Everything
<1>7. /\ bitmap_shift_right(m, d, s, shift, n)[d] = RightWords(m, s, Off(shift), Rem(shift), n)
      /\ bitmap_shift_left(m, d, s, shift, n)[d] = LeftWords(m, s, Off(shift), Rem(shift), n)
  BY <1>5 DEF Stores
<1>. QED
  BY <1>1, <1>3, <1>4, <1>6, <1>7 DEF Of

-----------------------------------------------------------------------------
(* Runs and single bits.                                                   *)

\* The numbers from start on are in its word, behind it, or in later words.
FirstMask(start, k) == IF k = BIT_WORD(start) THEN BITMAP_FIRST_WORD_MASK(start) ELSE ones

LEMMA FromStart ==
  ASSUME Width, NEW start \in Nat, NEW k \in Nat, NEW b \in ones
  PROVE  /\ start <= At(k, b) <=> ~(k < BIT_WORD(start)) /\ b \in FirstMask(start, k)
         /\ BIT_WORD(start) \in Nat /\ FirstMask(start, k) \subseteq ones
<1>1. PICK B, x, first, r, y : /\ B = BITS_PER_LONG /\ x = k * B /\ first = BIT_WORD(start)
                               /\ r = start % B /\ y = first * B
  OBVIOUS
<1>2. /\ B \in Nat \ {0} /\ b \in 0 .. (B - 1) /\ x \in Nat /\ ones = 0 .. (B - 1)
      /\ At(k, b) = x + b
  BY <1>1 DEF Width, ones, At
<1>3. first \in Nat /\ r \in 0 .. (B - 1) /\ start = y + r /\ y \in Nat
  <2>1. /\ BIT_WORD(start) \in Nat /\ start % BITS_PER_LONG \in ones
        /\ At(BIT_WORD(start), start % BITS_PER_LONG) = start
    BY PlaceOf
  <2>2. first * B + r = start
    BY <1>1, <2>1 DEF At
  <2>3. first \in Nat /\ r \in 0 .. (B - 1)
    BY <1>1, <1>2, <2>1
  <2>4. first * B \in Nat
    BY <1>2, <2>3
  <2>. QED
    BY <1>1, <2>2, <2>3, <2>4
<1>4. /\ k < first => x + B <= y
      /\ first < k => y + B <= x
      /\ first = k => x = y
  <2>1. B \in Nat \ {0} /\ k \in Int /\ first \in Int
    BY <1>2, <1>3
  <2>2. k < first => k * B + B <= first * B
    BY ONLY <2>1, Apart
  <2>3. first < k => first * B + B <= k * B
    BY ONLY <2>1, Apart
  <2>. QED
    BY <1>1, <2>2, <2>3
<1>5. PICK mask : mask = FirstMask(start, k)
  OBVIOUS
<1>6. k = first => mask = r .. (B - 1)
  BY <1>1, <1>5 DEF FirstMask, BITMAP_FIRST_WORD_MASK
<1>7. k # first => mask = 0 .. (B - 1)
  BY <1>1, <1>2, <1>5 DEF FirstMask
<1>8. start <= x + b <=> ~(k < first) /\ b \in mask
  <2>1. k \in Nat /\ B \in Nat /\ first \in Nat /\ r \in 0 .. (B - 1) /\ b \in 0 .. (B - 1)
        /\ x \in Nat /\ y \in Nat /\ start = y + r
    BY <1>2, <1>3
  <2>2. CASE k < first
    BY ONLY <1>4, <2>1, <2>2
  <2>3. CASE k = first
    BY ONLY <1>4, <1>6, <2>1, <2>3
  <2>4. CASE first < k
    BY ONLY <1>4, <1>7, <2>1, <2>4
  <2>. QED
    BY <2>1, <2>2, <2>3, <2>4
<1>9. mask \subseteq 0 .. (B - 1)
  <2>1. B \in Nat /\ r \in 0 .. (B - 1)
    BY <1>2, <1>3
  <2>2. r .. (B - 1) \subseteq 0 .. (B - 1)
    BY ONLY <2>1
  <2>. QED
    BY ONLY <1>6, <1>7, <2>2
<1>. QED
  BY <1>1, <1>2, <1>3, <1>5, <1>8, <1>9

\* What a loop over a run takes of word k.
RunBitsOf(start, len, k) == IF k \in RunWords(start, len) THEN RunMask(start, len, k) ELSE {}

\* A run takes the words from that of its start to that of its end.
LEMMA RunWordsAre ==
  ASSUME Width, NEW start \in Nat, NEW len \in Nat, NEW k \in Nat
  PROVE  k \in RunWords(start, len) <=> ~(k < BIT_WORD(start)) /\ k * BITS_PER_LONG < start + len
<1>1. PICK e, first, l : e = start + len /\ first = BIT_WORD(start) /\ l = BITS_TO_LONGS(e)
  OBVIOUS
<1>2. e \in Nat /\ first \in Nat
  BY <1>1, PlaceOf
<1>3. l \in Nat /\ (k < l <=> k * BITS_PER_LONG < e)
  <2>1. CASE e = 0
    <3>1. PICK B, b : B = BITS_PER_LONG /\ b = B - 1
      OBVIOUS
    <3>2. B \in Nat \ {0} /\ b \in 0 .. (B - 1) /\ 0 \in Int
      BY <3>1 DEF Width
    <3>3. (0 * B + b) \div B = 0
      BY ONLY <3>2, OneAddress
    <3>4. 0 * B + b = e + B - 1
      BY <2>1, <3>1, <3>2
    <3>5. l = 0
      BY <1>1, <3>1, <3>3, <3>4 DEF BITS_TO_LONGS
    <3>6. k * B \in Nat
      BY <3>2
    <3>. QED
      BY <2>1, <3>1, <3>5, <3>6
  <2>2. CASE e # 0
    <3>1. e \in Nat \ {0}
      BY <1>2, <2>2
    <3>2. BITS_TO_LONGS(e) \in Nat \ {0} /\ (k \in WordsOf(e) <=> k * BITS_PER_LONG < e)
      BY ONLY Width, <3>1, k \in Nat, WordsAre
    <3>3. WordsOf(e) = 0 .. (l - 1)
      BY <1>1 DEF WordsOf
    <3>. QED
      BY <1>1, <3>2, <3>3
  <2>. QED
    BY <2>1, <2>2
<1>4. RunWords(start, len) = first .. (l - 1)
  BY <1>1 DEF RunWords
<1>. QED
  BY <1>1, <1>2, <1>3, <1>4

\* The bits a loop over a run takes of a word are those of the run.
LEMMA RunMaskIs ==
  ASSUME Width, NEW start \in Nat, NEW len \in Nat, NEW k \in Nat, NEW b \in ones
  PROVE  b \in RunBitsOf(start, len, k) <=> At(k, b) \in start .. (start + len - 1)
<1>1. PICK B, x, e, first, mask :
        /\ B = BITS_PER_LONG /\ x = k * B /\ e = start + len /\ first = BIT_WORD(start)
        /\ mask = FirstMask(start, k)
  OBVIOUS
<1>2. /\ B \in Nat \ {0} /\ b \in 0 .. (B - 1) /\ x \in Nat /\ ones = 0 .. (B - 1)
      /\ e \in Nat /\ At(k, b) = x + b
  BY <1>1 DEF Width, ones, At
<1>3. (k + 1) * B = x + B
  BY <1>1, <1>2
<1>4. ~(k < first) /\ b \in mask <=> start <= x + b
  BY <1>1, <1>2, FromStart
<1>5. ASSUME x < e, ~(x + B <= e) PROVE BITMAP_LAST_WORD_MASK(e) = Below(e, k)
  <2>1. /\ e \in Nat /\ k * BITS_PER_LONG < e /\ e <= (k + 1) * BITS_PER_LONG
    BY <1>1, <1>2, <1>3, <1>5
  <2>. QED
    BY <2>1, LastMask
<1>6. b \in RunBitsOf(start, len, k)
        <=> /\ ~(k < first) /\ ~(x >= e) /\ b \in mask
            /\ x + B <= e \/ b \in BITMAP_LAST_WORD_MASK(e)
  <2>1. k \in RunWords(start, len) <=> ~(k < first) /\ ~(x >= e)
    BY <1>1, <1>2, RunWordsAre
  <2>. QED
    BY <1>1, <1>3, <2>1 DEF RunBitsOf, RunMask, FirstMask
<1>7. At(k, b) \in start .. (start + len - 1) <=> start <= x + b /\ x + b < e
  BY <1>1, <1>2
<1>8. b \in Below(e, k) <=> x + b < e
  BY <1>2 DEF Below
<1>9. CASE x >= e
  BY <1>2, <1>6, <1>7, <1>9
<1>10. CASE ~(x >= e) /\ x + B <= e
  BY <1>2, <1>4, <1>6, <1>7, <1>10
<1>11. CASE ~(x >= e) /\ ~(x + B <= e)
  BY <1>2, <1>4, <1>5, <1>6, <1>7, <1>8, <1>11
<1>. QED
  BY <1>9, <1>10, <1>11

SetWords(w, start, len, n)   == [k \in WordsOf(n) |-> w[k] \cup RunBitsOf(start, len, k)]
ClearWords(w, start, len, n) == [k \in WordsOf(n) |-> w[k] \ RunBitsOf(start, len, k)]

LEMMA RunStores ==
  ASSUME Width, NEW n \in Nat \ {0}, NEW D, NEW m, m \in Maps(D, n), NEW d \in D,
         NEW start \in 0 .. (n - 1), NEW len \in 0 .. (n - start)
  PROVE  /\ Stores(bitmap_set(m, d, start, len), m, D, n, d, SetWords(m[d], start, len, n))
         /\ Stores(bitmap_clear(m, d, start, len), m, D, n, d, ClearWords(m[d], start, len, n))
<1>1. PICK v, w : v = SetWords(m[d], start, len, n) /\ w = ClearWords(m[d], start, len, n)
  OBVIOUS
<1>2. \A k \in WordsOf(n) : RunBitsOf(start, len, k) \subseteq ones /\ m[d][k] \subseteq ones
  <2>1. BITMAP_FIRST_WORD_MASK(start) \subseteq ones
    <3>1. start % BITS_PER_LONG \in ones
      BY PlaceOf
    <3>. QED
      BY <3>1 DEF BITMAP_FIRST_WORD_MASK, ones, Width
  <2>. QED
    BY <2>1, WordsAreBits DEF RunBitsOf, RunMask
<1>3. v \in Words(n) /\ w \in Words(n)
  <2>1. \A k \in WordsOf(n) : /\ m[d][k] \cup RunBitsOf(start, len, k) \in SUBSET ones
                              /\ m[d][k] \ RunBitsOf(start, len, k) \in SUBSET ones
    BY <1>2
  <2>. QED
    BY ONLY <1>1, <2>1 DEF SetWords, ClearWords, Words
<1>4. DOMAIN m[d] \cup RunWords(start, len) = WordsOf(n) /\ RunWords(start, len) \subseteq WordsOf(n)
  <2>1. ASSUME NEW k \in RunWords(start, len) PROVE k \in WordsOf(n)
    <3>1. start \in Nat /\ len \in Nat /\ start + len <= n
      OBVIOUS
    <3>2. k \in Nat
      <4>1. BIT_WORD(start) \in Nat
        BY <3>1, PlaceOf
      <4>. QED
        BY <4>1 DEF RunWords
    <3>3. k * BITS_PER_LONG < start + len /\ k * BITS_PER_LONG \in Int
      BY <3>1, <3>2, RunWordsAre DEF Width
    <3>4. k * BITS_PER_LONG < n
      BY <3>1, <3>3
    <3>. QED
      BY <3>2, <3>4, WordsAre
  <2>. QED
    BY <2>1, WordsAreBits
<1>5. bitmap_set(m, d, start, len) = [m EXCEPT ![d] = v]
  <2>1. bitmap_set(m, d, start, len)
          = [m EXCEPT ![d] = [k \in WordsOf(n) |-> IF k \in RunWords(start, len)
                                                   THEN m[d][k] \cup RunMask(start, len, k)
                                                   ELSE m[d][k]]]
    BY ONLY <1>4 DEF bitmap_set, ForEach
  <2>2. [k \in WordsOf(n) |-> IF k \in RunWords(start, len)
                              THEN m[d][k] \cup RunMask(start, len, k) ELSE m[d][k]] = v
    BY ONLY <1>1 DEF SetWords, RunBitsOf
  <2>. QED
    BY ONLY <2>1, <2>2
<1>6. bitmap_clear(m, d, start, len) = [m EXCEPT ![d] = w]
  <2>1. bitmap_clear(m, d, start, len)
          = [m EXCEPT ![d] = [k \in WordsOf(n) |-> IF k \in RunWords(start, len)
                                                   THEN m[d][k] \ RunMask(start, len, k)
                                                   ELSE m[d][k]]]
    BY ONLY <1>4 DEF bitmap_clear, ForEach
  <2>2. [k \in WordsOf(n) |-> IF k \in RunWords(start, len)
                              THEN m[d][k] \ RunMask(start, len, k) ELSE m[d][k]] = w
    BY ONLY <1>1 DEF ClearWords, RunBitsOf
  <2>. QED
    BY ONLY <2>1, <2>2
<1>7. /\ Stores([m EXCEPT ![d] = v], m, D, n, d, v)
      /\ Stores([m EXCEPT ![d] = w], m, D, n, d, w)
  BY ONLY <1>3, m \in Maps(D, n), d \in D, Replaced
<1>. QED
  BY ONLY <1>1, <1>5, <1>6, <1>7

LEMMA RunBits ==
  ASSUME Width, NEW n \in Nat \ {0}, NEW w,
         NEW start \in 0 .. (n - 1), NEW len \in 0 .. (n - start),
         NEW all, all = AllBits(w, n), NEW run, run = start .. (start + len - 1)
  PROVE  /\ AllBits(SetWords(w, start, len, n), n) = all \cup run
         /\ AllBits(ClearWords(w, start, len, n), n) = all \ run
<1>1. PICK u, v, S, T : /\ u = SetWords(w, start, len, n) /\ v = ClearWords(w, start, len, n)
                        /\ S = all \cup run /\ T = all \ run
  OBVIOUS
<1>2. run \subseteq 0 .. (n - 1)
  OBVIOUS
<1>3. InStorage(S, n) /\ InStorage(T, n)
  BY <1>1, <1>2, StorageHoldsSize DEF InStorage
<1>4. ASSUME NEW k \in WordsOf(n), NEW b \in ones
      PROVE  (b \in u[k] <=> At(k, b) \in S) /\ (b \in v[k] <=> At(k, b) \in T)
  <2>1. b \in RunBitsOf(start, len, k) <=> At(k, b) \in run
    <3>1. start \in Nat /\ len \in Nat /\ k \in Nat
      BY WordsAre DEF WordsOf
    <3>. QED
      BY <3>1, RunMaskIs
  <2>2. At(k, b) \in all <=> b \in w[k]
    BY BitsAre
  <2>3. u[k] = w[k] \cup RunBitsOf(start, len, k) /\ v[k] = w[k] \ RunBitsOf(start, len, k)
    BY <1>1 DEF SetWords, ClearWords
  <2>. QED
    BY <1>1, <2>1, <2>2, <2>3
<1>5. WordsSpell(u, S, n) /\ WordsSpell(v, T, n)
  BY <1>4 DEF WordsSpell
<1>. QED
  BY <1>1, <1>3, <1>5, StoredBits

\* One word is written, and its bits are those of S.
LEMMA OneWordBits ==
  ASSUME Width, NEW n \in Nat \ {0}, NEW w, w \in Words(n), NEW all, all = AllBits(w, n),
         NEW i \in 0 .. (n - 1), NEW S, InStorage(S, n), NEW v,
         \A j \in 0 .. (BITS_TO_LONGS(n) * BITS_PER_LONG - 1) : j # i => (j \in S <=> j \in all),
         \A b \in ones : b \in v <=> IF b = i % BITS_PER_LONG THEN i \in S ELSE b \in w[BIT_WORD(i)]
  PROVE  AllBits([w EXCEPT ![BIT_WORD(i)] = v], n) = S
<1>1. PICK u, c, p : u = [w EXCEPT ![c] = v] /\ c = BIT_WORD(i) /\ p = i % BITS_PER_LONG
  OBVIOUS
<1>2. i \in Nat
  OBVIOUS
<1>3. c \in Nat /\ p \in ones /\ At(c, p) = i
  BY <1>1, <1>2, PlaceOf
<1>4. ASSUME NEW k \in WordsOf(n), NEW b \in ones
      PROVE  b \in u[k] <=> At(k, b) \in S
  <2>1. k \in Nat /\ BIT_WORD(At(k, b)) = k /\ At(k, b) % BITS_PER_LONG = b
    <3>1. k \in Nat
      BY WordsAre DEF WordsOf
    <3>. QED
      BY <3>1, AtIs
  <2>2. At(k, b) = i <=> k = c /\ b = p
    BY <1>1, <1>3, <2>1
  <2>3. u[k] = IF k = c THEN v ELSE w[k]
    BY <1>1 DEF Words
  <2>4. At(k, b) \in all <=> b \in w[k]
    BY BitsAre
  <2>5. At(k, b) \in 0 .. (BITS_TO_LONGS(n) * BITS_PER_LONG - 1)
    <3>1. PICK a : a = [j \in WordsOf(n) |-> ones]
      OBVIOUS
    <3>2. At(k, b) \in AllBits(a, n)
      BY <3>1, BitsAre
    <3>. QED
      BY <3>2, StorageHoldsSize DEF InStorage
  <2>. QED
    BY <1>1, <2>2, <2>3, <2>4, <2>5
<1>5. WordsSpell(u, S, n)
  BY <1>4 DEF WordsSpell
<1>. QED
  BY <1>1, <1>5, StoredBits

\* The word a single-bit operation writes, its value read from the bitmap.
OneWord(w, i, v) == [w EXCEPT ![BIT_WORD(i)] = v]

LEMMA BitStores ==
  ASSUME Width, NEW n \in Nat \ {0}, NEW D, NEW m, m \in Maps(D, n), NEW d \in D,
         NEW i \in 0 .. (n - 1), NEW x, x = m[d][BIT_WORD(i)]
  PROVE  /\ Stores(set_bit(m, d, i), m, D, n, d, OneWord(m[d], i, x \cup BIT_MASK(i)))
         /\ Stores(clear_bit(m, d, i), m, D, n, d, OneWord(m[d], i, x \ BIT_MASK(i)))
         /\ Stores(change_bit(m, d, i), m, D, n, d, OneWord(m[d], i, Xor(x, BIT_MASK(i))))
         /\ Stores(test_and_set_bit(m, d, i), m, D, n, d,
                   OneWord(m[d], i, AsInt(x) \cup BIT_MASK(i)))
         /\ Stores(test_and_clear_bit(m, d, i), m, D, n, d,
                   OneWord(m[d], i, AsInt(x) \ BIT_MASK(i)))
         /\ Stores(test_and_change_bit(m, d, i), m, D, n, d,
                   OneWord(m[d], i, Xor(AsInt(x), BIT_MASK(i))))
<1>1. PICK c : c = BIT_WORD(i)
  OBVIOUS
<1>2. i \in Nat
  OBVIOUS
<1>3. c \in WordsOf(n) /\ BIT_MASK(i) \subseteq ones
  <2>1. c \in Nat /\ i % BITS_PER_LONG \in ones /\ At(c, i % BITS_PER_LONG) = i
    BY <1>1, <1>2, PlaceOf
  <2>2. c * BITS_PER_LONG < n
    <3>1. c * BITS_PER_LONG \in Int /\ i % BITS_PER_LONG \in Nat
      BY <2>1 DEF ones, Width
    <3>. QED
      BY <2>1, <3>1 DEF At
  <2>. QED
    BY <2>1, <2>2, WordsAre DEF BIT_MASK
<1>4. x \subseteq ones
  BY <1>1, <1>3, WordsAreBits
<1>5. ASSUME NEW v, v \subseteq ones
      PROVE  Stores(StoreAt(m, d, i, v), m, D, n, d, OneWord(m[d], i, v))
  <2>1. Stores(Store(m, d, c, v), m, D, n, d, [m[d] EXCEPT ![c] = v])
    BY ONLY <1>3, <1>5, m \in Maps(D, n), d \in D, WordReplaced
  <2>. QED
    BY <1>1, <2>1 DEF OneWord, StoreAt
<1>6. /\ set_bit(m, d, i) = StoreAt(m, d, i, x \cup BIT_MASK(i))
      /\ clear_bit(m, d, i) = StoreAt(m, d, i, x \ BIT_MASK(i))
      /\ change_bit(m, d, i) = StoreAt(m, d, i, Xor(x, BIT_MASK(i)))
  BY DEF set_bit, clear_bit, change_bit
<1>7. /\ test_and_set_bit(m, d, i) = StoreAt(m, d, i, AsInt(x) \cup BIT_MASK(i))
      /\ test_and_clear_bit(m, d, i) = StoreAt(m, d, i, AsInt(x) \ BIT_MASK(i))
      /\ test_and_change_bit(m, d, i) = StoreAt(m, d, i, Xor(AsInt(x), BIT_MASK(i)))
  BY DEF test_and_set_bit, test_and_clear_bit, test_and_change_bit
<1>8. /\ x \cup BIT_MASK(i) \subseteq ones /\ x \ BIT_MASK(i) \subseteq ones
      /\ Xor(x, BIT_MASK(i)) \subseteq ones
      /\ AsInt(x) \cup BIT_MASK(i) \subseteq ones /\ AsInt(x) \ BIT_MASK(i) \subseteq ones
      /\ Xor(AsInt(x), BIT_MASK(i)) \subseteq ones
  BY <1>3, <1>4 DEF Xor, SymDiff, AsInt
<1>. QED
  BY ONLY <1>5, <1>6, <1>7, <1>8

\* What setting, clearing and changing the bit i makes of the bits all.
BitChanges(w, i, x, all, n) ==
  /\ AllBits(OneWord(w, i, x \cup BIT_MASK(i)), n) = all \cup {i}
  /\ AllBits(OneWord(w, i, x \ BIT_MASK(i)), n) = all \ {i}
  /\ AllBits(OneWord(w, i, Xor(x, BIT_MASK(i))), n) = Xor(all, {i})
  /\ test_bit(w, i) <=> i \in all

LEMMA BitBits ==
  ASSUME Width, NEW n \in Nat \ {0}, NEW w, w \in Words(n),
         NEW i \in 0 .. (n - 1), NEW x, x = w[BIT_WORD(i)], NEW all, all = AllBits(w, n)
  PROVE  BitChanges(w, i, x, all, n)
<1>1. PICK c, p, mask : c = BIT_WORD(i) /\ p = i % BITS_PER_LONG /\ mask = BIT_MASK(i)
  OBVIOUS
<1>2. i \in Nat
  OBVIOUS
<1>3. c \in WordsOf(n) /\ p \in ones /\ mask = {p} /\ At(c, p) = i
  <2>1. c \in Nat /\ p \in ones /\ At(c, p) = i
    BY <1>1, <1>2, PlaceOf
  <2>2. c * BITS_PER_LONG < n
    <3>1. c * BITS_PER_LONG \in Int /\ p \in Nat
      BY <2>1 DEF ones, Width
    <3>. QED
      BY <2>1, <3>1 DEF At
  <2>. QED
    BY <1>1, <2>1, <2>2, WordsAre DEF BIT_MASK
<1>6. i \in all <=> p \in x
  BY <1>1, <1>3, BitsAre
<1>7. PICK S, T, U : S = all \cup {i} /\ T = all \ {i} /\ U = Xor(all, {i})
  OBVIOUS
<1>8. InStorage(S, n) /\ InStorage(T, n) /\ InStorage(U, n)
  BY <1>7, StorageHoldsSize DEF InStorage, Xor, SymDiff
<1>9. PICK e, f, g : e = x \cup mask /\ f = x \ mask /\ g = Xor(x, mask)
  OBVIOUS
<1>10. \A b : /\ b \in e <=> IF b = p THEN i \in S ELSE b \in x
              /\ b \in f <=> IF b = p THEN i \in T ELSE b \in x
              /\ b \in g <=> IF b = p THEN i \in U ELSE b \in x
  BY <1>3, <1>6, <1>7, <1>9 DEF Xor, SymDiff
<1>11. \A j : j # i => (j \in S <=> j \in all) /\ (j \in T <=> j \in all) /\ (j \in U <=> j \in all)
  BY <1>7 DEF Xor, SymDiff
<1>12. ASSUME NEW Z, NEW v, InStorage(Z, n), \A j : j # i => (j \in Z <=> j \in all),
              \A b : b \in v <=> IF b = p THEN i \in Z ELSE b \in x
       PROVE  AllBits(OneWord(w, i, v), n) = Z
  <2>1. /\ Width /\ n \in Nat \ {0} /\ w \in Words(n) /\ all = AllBits(w, n)
        /\ i \in 0 .. (n - 1) /\ InStorage(Z, n)
        /\ \A j \in 0 .. (BITS_TO_LONGS(n) * BITS_PER_LONG - 1) : j # i => (j \in Z <=> j \in all)
        /\ \A b \in ones : b \in v <=> IF b = i % BITS_PER_LONG THEN i \in Z
                                       ELSE b \in w[BIT_WORD(i)]
    BY <1>1, <1>12
  <2>. QED
    BY ONLY <2>1, OneWordBits DEF OneWord
<1>13. /\ AllBits(OneWord(w, i, e), n) = S
       /\ AllBits(OneWord(w, i, f), n) = T
       /\ AllBits(OneWord(w, i, g), n) = U
  BY ONLY <1>8, <1>10, <1>11, <1>12
<1>14. test_bit(w, i) <=> i \in all
  BY <1>1, <1>3, <1>6 DEF test_bit
<1>. QED
  BY <1>1, <1>7, <1>9, <1>13, <1>14 DEF BitChanges

LEMMA ChangesExact ==
  ASSUME TypeOK
  PROVE  ChangesAreExact
<1>. SUFFICES ASSUME NEW d \in DOMAIN maps, NEW start \in Everything,
                     NEW all, all = AllBits(maps[d], nbits)
     PROVE  /\ \A len \in 0 .. (nbits - start) :
                 LET run == start .. (start + len - 1)
                 IN  /\ AllBits(bitmap_set(maps, d, start, len)[d], nbits) = all \cup run
                     /\ AllBits(bitmap_clear(maps, d, start, len)[d], nbits) = all \ run
            /\ AllBits(set_bit(maps, d, start)[d], nbits) = all \cup {start}
            /\ AllBits(clear_bit(maps, d, start)[d], nbits) = all \ {start}
            /\ AllBits(change_bit(maps, d, start)[d], nbits) = Xor(all, {start})
            /\ test_bit(maps[d], start) <=> start \in all
  BY DEF ChangesAreExact
<1>1. PICK n, m, D, w, x : /\ n = nbits /\ m = maps /\ D = DOMAIN maps
                           /\ w = m[d] /\ x = w[BIT_WORD(start)]
  OBVIOUS
<1>2. /\ Width /\ n \in Nat \ {0} /\ m \in Maps(D, n) /\ d \in D
      /\ start \in 0 .. (n - 1) /\ all = AllBits(w, n) /\ w \in Words(n)
      /\ w = m[d] /\ x = w[BIT_WORD(start)] /\ x = m[d][BIT_WORD(start)]
  BY <1>1, Typed, WordsAreBits DEF Everything
<1>3. ASSUME NEW len \in 0 .. (n - start), NEW run, run = start .. (start + len - 1)
      PROVE  /\ AllBits(bitmap_set(m, d, start, len)[d], n) = all \cup run
             /\ AllBits(bitmap_clear(m, d, start, len)[d], n) = all \ run
  <2>1. /\ Stores(bitmap_set(m, d, start, len), m, D, n, d, SetWords(w, start, len, n))
        /\ Stores(bitmap_clear(m, d, start, len), m, D, n, d, ClearWords(w, start, len, n))
    BY ONLY <1>2, <1>3, RunStores
  <2>2. /\ AllBits(SetWords(w, start, len, n), n) = all \cup run
        /\ AllBits(ClearWords(w, start, len, n), n) = all \ run
    BY ONLY <1>2, <1>3, RunBits
  <2>. QED
    BY <2>1, <2>2 DEF Stores
<1>4. /\ Stores(set_bit(m, d, start), m, D, n, d,
                OneWord(w, start, x \cup BIT_MASK(start)))
      /\ Stores(clear_bit(m, d, start), m, D, n, d,
                OneWord(w, start, x \ BIT_MASK(start)))
      /\ Stores(change_bit(m, d, start), m, D, n, d,
                OneWord(w, start, Xor(x, BIT_MASK(start))))
  BY ONLY <1>2, BitStores
<1>5. /\ AllBits(OneWord(w, start, x \cup BIT_MASK(start)), n) = all \cup {start}
      /\ AllBits(OneWord(w, start, x \ BIT_MASK(start)), n) = all \ {start}
      /\ AllBits(OneWord(w, start, Xor(x, BIT_MASK(start))), n) = Xor(all, {start})
      /\ test_bit(w, start) <=> start \in all
  <2>1. /\ Width /\ n \in Nat \ {0} /\ w \in Words(n)
        /\ start \in 0 .. (n - 1) /\ x = w[BIT_WORD(start)] /\ all = AllBits(w, n)
    BY ONLY <1>2
  <2>2. BitChanges(w, start, x, all, n)
    BY ONLY <2>1, BitBits
  <2>. QED
    BY ONLY <2>2 DEF BitChanges
<1>6. /\ AllBits(set_bit(m, d, start)[d], n) = all \cup {start}
      /\ AllBits(clear_bit(m, d, start)[d], n) = all \ {start}
      /\ AllBits(change_bit(m, d, start)[d], n) = Xor(all, {start})
      /\ test_bit(m[d], start) <=> start \in all
  <2>1. /\ set_bit(m, d, start)[d] = OneWord(w, start, x \cup BIT_MASK(start))
        /\ clear_bit(m, d, start)[d] = OneWord(w, start, x \ BIT_MASK(start))
        /\ change_bit(m, d, start)[d]
             = OneWord(w, start, Xor(x, BIT_MASK(start)))
    BY ONLY <1>4 DEF Stores
  <2>. QED
    BY ONLY <1>1, <1>5, <2>1
<1>7. \A len \in 0 .. (n - start) :
        /\ AllBits(bitmap_set(m, d, start, len)[d], n) = all \cup (start .. (start + len - 1))
        /\ AllBits(bitmap_clear(m, d, start, len)[d], n) = all \ (start .. (start + len - 1))
  BY ONLY <1>3
<1>. QED
  BY ONLY <1>1, <1>6, <1>7

-----------------------------------------------------------------------------
(* Least and greatest numbers, for Min and Max are choices.                *)

LEMMA LeastNat ==
  ASSUME NEW S \in SUBSET Nat, S # {}
  PROVE  Min(S) \in S /\ \A y \in S : Min(S) <= y
<1>1. PICK x \in S : \A y \in S : ~(<<y, x>> \in OpToRel(<, Nat))
  BY WFMin, NatLessThanWellFounded
<1>2. \A y \in S : x <= y
  <2> TAKE y \in S
  <2>1. ~(<<y, x>> \in OpToRel(<, Nat))
    BY <1>1
  <2>2. ~(y < x)
    BY <2>1 DEF OpToRel
  <2> QED
    BY <2>2
<1> QED
  BY <1>2 DEF Min

LEMMA GreatestNat ==
  ASSUME NEW N \in Nat, NEW S \in SUBSET (0 .. N), S # {}
  PROVE  Max(S) \in S /\ \A y \in S : y <= Max(S)
<1>1. PICK T : T = {N - y : y \in S}
  OBVIOUS
<1>2. T \in SUBSET Nat
  <2>1. \A y \in S : y \in 0 .. N /\ N - y \in Nat
    OBVIOUS
  <2>2. \A t \in T : t \in Nat
    BY <1>1, <2>1
  <2>. QED
    BY <2>2
<1>3. T # {}
  <2>1. PICK y : y \in S
    OBVIOUS
  <2>. QED
    BY <1>1, <2>1
<1>4. PICK z : z = Min(T)
  OBVIOUS
<1>5. z \in T /\ \A t \in T : z <= t
  BY ONLY <1>2, <1>3, <1>4, LeastNat
<1>6. PICK x \in S : z = N - x
  BY <1>1, <1>5
<1>7. \A y \in S : y <= x
  <2>. SUFFICES ASSUME NEW y \in S PROVE y <= x
    OBVIOUS
  <2>1. z <= N - y
    BY <1>1, <1>5
  <2>2. x \in 0 .. N /\ y \in 0 .. N
    OBVIOUS
  <2>. QED
    BY <1>6, <2>1, <2>2
<1>8. \A y \in S : x >= y
  <2>1. \A y \in S : x \in Int /\ y \in Int
    OBVIOUS
  <2>. QED
    BY <1>7, <2>1
<1>9. Max(S) \in S /\ \A y \in S : Max(S) >= y
  BY ONLY x \in S, <1>8 DEF Max
<1>10. PICK w : w = Max(S)
  OBVIOUS
<1>11. w \in S /\ \A y \in S : w >= y
  BY ONLY <1>9, <1>10
<1>12. \A y \in S : w \in Int /\ y \in Int /\ w >= y
  <2>1. \A y \in S : y \in Int
    OBVIOUS
  <2>. QED
    BY <1>11, <2>1
<1>. QED
  BY <1>10, <1>11, <1>12

LEMMA MinIs ==
  ASSUME NEW S \in SUBSET Nat, NEW x \in S, \A y \in S : x <= y
  PROVE  Min(S) = x
<1>1. PICK z : z = Min(S)
  OBVIOUS
<1>2. z \in S /\ \A y \in S : z <= y
  BY <1>1, LeastNat
<1>3. z <= x /\ x <= z /\ x \in Nat /\ z \in Nat
  BY <1>2
<1>. QED
  BY ONLY <1>1, <1>3

LEMMA MaxIs ==
  ASSUME NEW N \in Nat, NEW S \in SUBSET (0 .. N), NEW x \in S, \A y \in S : y <= x
  PROVE  Max(S) = x
<1>1. PICK z : z = Max(S)
  OBVIOUS
<1>2. z \in S /\ \A y \in S : y <= z
  BY <1>1, GreatestNat
<1>3. z <= x /\ x <= z /\ x \in 0 .. N /\ z \in 0 .. N
  BY <1>2
<1>. QED
  BY ONLY <1>1, <1>3

-----------------------------------------------------------------------------
(* The searches, given that those within a word are right.                 *)

\* What a search over the words t returns: where the first one with a bit in
\* it has its lowest, unless this is behind the end.
Hits(t, n) == {k \in WordsOf(n) : t[k] # {}}

FirstOf(t, n) ==
  IF Hits(t, n) = {} THEN n
  ELSE Least(Min(Hits(t, n)) * BITS_PER_LONG + ffsWord(t[Min(Hits(t, n))]), n)

LastOf(t, n) ==
  IF Hits(t, n) = {} THEN n
  ELSE Max(Hits(t, n)) * BITS_PER_LONG + flsWord(t[Max(Hits(t, n))])

\* Places are in the order of their words, then of the bits in them.
LEMMA PlaceOrder ==
  ASSUME Width, NEW j \in Nat, NEW k \in Nat, NEW b \in ones, NEW c \in ones,
         j < k \/ (j = k /\ b <= c)
  PROVE  At(j, b) <= At(k, c)
<1>1. PICK B, x, y : B = BITS_PER_LONG /\ x = j * B /\ y = k * B
  OBVIOUS
<1>2. /\ B \in Nat \ {0} /\ x \in Nat /\ y \in Nat /\ b \in 0 .. (B - 1) /\ c \in 0 .. (B - 1)
      /\ At(j, b) = x + b /\ At(k, c) = y + c
  BY <1>1 DEF Width, ones, At
<1>3. j < k => x + B <= y
  <2>1. B \in Nat \ {0} /\ j \in Int /\ k \in Int
    BY <1>2
  <2>2. j < k => j * B + B <= k * B
    BY ONLY <2>1, Apart
  <2>. QED
    BY <1>1, <2>2
<1>4. j = k => x = y
  BY <1>1
<1>. QED
  BY <1>2, <1>3, <1>4

\* A bit below the size is in a word that hits.
LEMMA BitHits ==
  ASSUME Width, NEW n \in Nat \ {0}, NEW t, NEW i \in Bits(t, n)
  PROVE  \E k \in Hits(t, n), b \in ones : i = At(k, b) /\ b \in t[k] /\ b \in Below(n, k)
<1>1. i \in 0 .. (BITS_TO_LONGS(n) * BITS_PER_LONG - 1)
  BY StorageHoldsSize DEF InStorage
<1>2. PICK k \in WordsOf(n), b \in ones : i = At(k, b)
  BY <1>1, EveryPlace
<1>3. b \in t[k] /\ b \in Below(n, k)
  BY <1>2, BitsAre
<1>. QED
  BY <1>2, <1>3 DEF Hits

LEMMA FirstIs ==
  ASSUME Width, WordSearchesAreExact, NEW n \in Nat \ {0}, NEW t,
         \A k \in WordsOf(n) : t[k] \subseteq ones
  PROVE  FirstOf(t, n) = IF Bits(t, n) = {} THEN n ELSE Min(Bits(t, n))
<1>1. \A k \in Hits(t, n) : k \in Nat /\ k \in WordsOf(n) /\ t[k] # {} /\ t[k] \subseteq ones
  BY WordsAre DEF Hits, WordsOf
<1>2. CASE Hits(t, n) = {}
  <2>1. Bits(t, n) = {}
    BY <1>2, BitHits
  <2>. QED
    BY <1>2, <2>1 DEF FirstOf
<1>3. CASE Hits(t, n) # {}
  <2>1. PICK H, c, w, p : H = Hits(t, n) /\ c = Min(H) /\ w = t[c] /\ p = ffsWord(w)
    OBVIOUS
  <2>2. c \in H /\ \A k \in H : c <= k
    <3>1. H \in SUBSET Nat /\ H # {}
      BY <1>1, <1>3, <2>1
    <3>. QED
      BY <2>1, <3>1, LeastNat
  <2>3. p \in w /\ p \in ones /\ \A b \in w : p <= b
    <3>1. w \in SUBSET ones /\ w # {} /\ ones \subseteq Nat
      BY <1>1, <2>1, <2>2 DEF ones, Width
    <3>2. p = Min(w)
      BY <2>1, <3>1 DEF WordSearchesAreExact
    <3>. QED
      BY <3>1, <3>2, LeastNat
  <2>4. PICK r : r = At(c, p)
    OBVIOUS
  <2>5. r \in Nat /\ FirstOf(t, n) = Least(r, n) /\ c \in WordsOf(n) /\ c \in Nat
    <3>1. c \in Nat /\ c \in WordsOf(n)
      BY <1>1, <2>1, <2>2
    <3>2. r \in Nat
      BY <2>3, <2>4, <3>1, AtIs
    <3>3. FirstOf(t, n) = Least(r, n)
      BY <1>3, <2>1, <2>4 DEF FirstOf, At
    <3>. QED
      BY <3>1, <3>2, <3>3
  <2>6. \A i \in Bits(t, n) : r <= i
    <3>. SUFFICES ASSUME NEW i \in Bits(t, n) PROVE r <= i
      OBVIOUS
    <3>1. PICK k \in H, b \in ones : i = At(k, b) /\ b \in t[k]
      BY <2>1, BitHits
    <3>2. c <= k /\ k \in Nat
      BY <1>1, <2>1, <2>2
    <3>3. c = k => p <= b
      BY <2>1, <2>3, <3>1
    <3>4. c < k \/ (c = k /\ p <= b)
      BY <2>5, <3>2, <3>3
    <3>. QED
      BY <2>3, <2>4, <2>5, <3>1, <3>2, <3>4, PlaceOrder
  <2>7. Bits(t, n) \subseteq 0 .. (n - 1)
    BY DEF Bits
  <2>8. CASE r < n
    <3>1. p \in Below(n, c)
      BY <2>3, <2>4, <2>8 DEF Below
    <3>2. r \in Bits(t, n)
      BY <2>1, <2>3, <2>4, <2>5, <3>1, BitsAre
    <3>3. Min(Bits(t, n)) = r
      BY <2>6, <2>7, <3>2, MinIs
    <3>. QED
      BY <2>5, <2>8, <3>2, <3>3 DEF Least
  <2>9. CASE ~(r < n)
    <3>1. Bits(t, n) = {}
      BY <2>5, <2>6, <2>7, <2>9
    <3>. QED
      BY <2>5, <2>9, <3>1 DEF Least
  <2>. QED
    BY <2>8, <2>9
<1>. QED
  BY <1>2, <1>3

\* The last one, among words without unused bits.
LEMMA LastIs ==
  ASSUME Width, WordSearchesAreExact, NEW n \in Nat \ {0}, NEW t,
         \A k \in WordsOf(n) : t[k] \subseteq Below(n, k)
  PROVE  LastOf(t, n) = IF Bits(t, n) = {} THEN n ELSE Max(Bits(t, n))
<1>1. \A k \in Hits(t, n) : /\ k \in Nat /\ k \in WordsOf(n) /\ t[k] # {}
                            /\ t[k] \subseteq Below(n, k) /\ t[k] \subseteq ones
  BY WordsAre DEF Hits, WordsOf, Below
<1>2. CASE Hits(t, n) = {}
  <2>1. Bits(t, n) = {}
    BY <1>2, BitHits
  <2>. QED
    BY <1>2, <2>1 DEF LastOf
<1>3. CASE Hits(t, n) # {}
  <2>1. PICK H, c, w, p : H = Hits(t, n) /\ c = Max(H) /\ w = t[c] /\ p = flsWord(w)
    OBVIOUS
  <2>2. c \in H /\ \A k \in H : k <= c
    <3>1. PICK N : N = BITS_TO_LONGS(n) - 1
      OBVIOUS
    <3>2. N \in Nat /\ H \in SUBSET (0 .. N) /\ H # {}
      BY <1>1, <1>3, <2>1, <3>1, WordsAre DEF WordsOf
    <3>. QED
      BY <2>1, <3>2, GreatestNat
  <2>3. p \in w /\ p \in ones /\ \A b \in w : b <= p
    <3>1. PICK N : N = BITS_PER_LONG - 1
      OBVIOUS
    <3>2. w \in SUBSET ones /\ w # {} /\ N \in Nat /\ ones = 0 .. N
      BY <1>1, <2>1, <2>2, <3>1 DEF ones, Width
    <3>3. p = Max(w)
      BY <2>1, <3>2 DEF WordSearchesAreExact
    <3>. QED
      BY <3>2, <3>3, GreatestNat
  <2>4. PICK r : r = At(c, p)
    OBVIOUS
  <2>5. r \in Nat /\ LastOf(t, n) = r /\ c \in WordsOf(n) /\ c \in Nat
    <3>1. c \in Nat /\ c \in WordsOf(n)
      BY <1>1, <2>1, <2>2
    <3>2. r \in Nat
      BY <2>3, <2>4, <3>1, AtIs
    <3>3. LastOf(t, n) = r
      BY <1>3, <2>1, <2>4 DEF LastOf, At
    <3>. QED
      BY <3>1, <3>2, <3>3
  <2>6. \A i \in Bits(t, n) : i <= r
    <3>. SUFFICES ASSUME NEW i \in Bits(t, n) PROVE i <= r
      OBVIOUS
    <3>1. PICK k \in H, b \in ones : i = At(k, b) /\ b \in t[k]
      BY <2>1, BitHits
    <3>2. k <= c /\ k \in Nat
      BY <1>1, <2>1, <2>2
    <3>3. c = k => b <= p
      BY <2>1, <2>3, <3>1
    <3>4. k < c \/ (k = c /\ b <= p)
      BY <2>5, <3>2, <3>3
    <3>. QED
      BY <2>3, <2>4, <2>5, <3>1, <3>2, <3>4, PlaceOrder
  <2>7. r \in Bits(t, n)
    <3>1. p \in Below(n, c)
      BY <1>1, <2>1, <2>2, <2>3
    <3>. QED
      BY <2>1, <2>3, <2>4, <2>5, <3>1, BitsAre
  <2>8. PICK N : N = n - 1
    OBVIOUS
  <2>9. N \in Nat /\ Bits(t, n) \in SUBSET (0 .. N)
    BY <2>8 DEF Bits
  <2>10. Max(Bits(t, n)) = r
    BY <2>6, <2>7, <2>9, MaxIs
  <2>. QED
    BY <2>5, <2>7, <2>10
<1>. QED
  BY <1>2, <1>3

\* A search looks at the words that hold its n bits, of which there may be
\* fewer than the bitmap has.
Readable(a, n) == \A k \in WordsOf(n) : a[k] \subseteq ones

LEMMA FirstBit ==
  ASSUME Width, WordSearchesAreExact, NEW n \in Nat \ {0}, NEW a, Readable(a, n)
  PROVE  find_first_bit(a, n) = Sets!find_next_bit(Bits(a, n), n, 0)
<1>1. find_first_bit(a, n) = FirstOf(a, n)
  BY DEF find_first_bit, FirstOf, Hits
<1>2. FirstOf(a, n) = IF Bits(a, n) = {} THEN n ELSE Min(Bits(a, n))
  BY FirstIs DEF Readable
<1>3. PICK S : S = Bits(a, n)
  OBVIOUS
<1>4. Sets!find_next_bit(S, n, 0) = IF S = {} THEN n ELSE Min(S)
  <2>1. PICK R : R = S \cap (0 .. (n - 1))
    OBVIOUS
  <2>2. R = S
    BY <1>3, <2>1 DEF Bits
  <2>3. Sets!find_next_bit(S, n, 0) = IF R = {} THEN n ELSE Min(R)
    BY <2>1 DEF Sets!find_next_bit, Sets!Min, Min
  <2>. QED
    BY <2>2, <2>3
<1>. QED
  BY <1>1, <1>2, <1>3, <1>4

\* Searching for a clear bit is searching the complement.
Complement(a, n) == [k \in WordsOf(n) |-> ones \ a[k]]

LEMMA ComplementBits ==
  ASSUME Width, NEW n \in Nat \ {0}, NEW a, Readable(a, n)
  PROVE  Bits(Complement(a, n), n) = (0 .. (n - 1)) \ Bits(a, n)
<1>1. PICK w, S : w = Complement(a, n) /\ S = (0 .. (n - 1)) \ Bits(a, n)
  OBVIOUS
<1>2. InStorage(S, n)
  BY <1>1, StorageHoldsSize DEF InStorage
<1>3. ASSUME NEW k \in WordsOf(n), NEW b \in ones
      PROVE  b \in w[k] /\ b \in Below(n, k) <=> At(k, b) \in S
  <2>1. At(k, b) \in 0 .. (n - 1) <=> b \in Below(n, k)
    BY StorageHoldsSize
  <2>2. At(k, b) \in Bits(a, n) <=> b \in a[k] /\ b \in Below(n, k)
    BY BitsAre
  <2>3. b \in w[k] <=> b \notin a[k]
    BY <1>1 DEF Complement
  <2>. QED
    BY <1>1, <2>1, <2>2, <2>3
<1>4. ValidSpell(w, S, n)
  BY <1>3 DEF ValidSpell
<1>. QED
  BY <1>1, <1>2, <1>4, ValidBits

LEMMA FirstZeroBit ==
  ASSUME Width, WordSearchesAreExact, NEW n \in Nat \ {0}, NEW a, Readable(a, n)
  PROVE  find_first_zero_bit(a, n) = Sets!find_first_zero_bit(Bits(a, n), n)
<1>1. PICK t : t = Complement(a, n)
  OBVIOUS
<1>2. \A k \in WordsOf(n) : t[k] = ones \ a[k]
  BY <1>1 DEF Complement
<1>3. \A k \in WordsOf(n) : a[k] # ones <=> t[k] # {}
  BY <1>2 DEF Readable
<1>4. PICK H : H = Hits(t, n)
  OBVIOUS
<1>5. {k \in WordsOf(n) : a[k] # ones} = H
  BY <1>3, <1>4 DEF Hits
<1>6. H \subseteq WordsOf(n) /\ \A k \in H : k \in Nat
  BY <1>4 DEF Hits, WordsOf
<1>7. find_first_zero_bit(a, n) = FirstOf(t, n)
  <2>1. CASE H = {}
    BY <1>4, <1>5, <2>1 DEF find_first_zero_bit, FirstOf
  <2>2. CASE H # {}
    <3>1. PICK c : c = Min(H)
      OBVIOUS
    <3>2. c \in H
      <4>1. H \in SUBSET Nat /\ H # {}
        BY <1>6, <2>2
      <4>. QED
        BY <3>1, <4>1, LeastNat
    <3>3. ones \ a[c] = t[c]
      BY <1>2, <1>6, <3>2
    <3>4. find_first_zero_bit(a, n) = Least(c * BITS_PER_LONG + ffsWord(ones \ a[c]), n)
      BY <1>5, <2>2, <3>1 DEF find_first_zero_bit
    <3>5. FirstOf(t, n) = Least(c * BITS_PER_LONG + ffsWord(t[c]), n)
      BY <1>4, <2>2, <3>1 DEF FirstOf
    <3>. QED
      BY <3>3, <3>4, <3>5
  <2>. QED
    BY <2>1, <2>2
<1>8. FirstOf(t, n) = IF Bits(t, n) = {} THEN n ELSE Min(Bits(t, n))
  <2>1. \A k \in WordsOf(n) : t[k] \subseteq ones
    BY <1>2
  <2>. QED
    BY <2>1, FirstIs
<1>9. Bits(t, n) = (0 .. (n - 1)) \ Bits(a, n)
  BY <1>1, ComplementBits
<1>. QED
  BY <1>7, <1>8, <1>9 DEF Sets!find_first_zero_bit, Sets!Min, Min

\* What is left of the words a, each xored with inv, from bit start on.
Rest(a, n, start, inv) ==
  [k \in WordsOf(n) |-> IF k < BIT_WORD(start) THEN {} ELSE Xor(a[k], inv) \cap FirstMask(start, k)]

LEMMA RestBits ==
  ASSUME Width, NEW n \in Nat \ {0}, NEW a, Readable(a, n), NEW start \in Nat
  PROVE  /\ Bits(Rest(a, n, start, {}), n) = Bits(a, n) \cap (start .. (n - 1))
         /\ Bits(Rest(a, n, start, ones), n) = (start .. (n - 1)) \ Bits(a, n)
<1>1. PICK S, T : S = Bits(a, n) \cap (start .. (n - 1)) /\ T = (start .. (n - 1)) \ Bits(a, n)
  OBVIOUS
<1>2. InStorage(S, n) /\ InStorage(T, n)
  <2>1. start .. (n - 1) \subseteq 0 .. (n - 1)
    OBVIOUS
  <2>. QED
    BY <1>1, <2>1, StorageHoldsSize DEF InStorage
<1>3. ASSUME NEW k \in WordsOf(n), NEW b \in ones
      PROVE  /\ b \in Rest(a, n, start, {})[k] /\ b \in Below(n, k) <=> At(k, b) \in S
             /\ b \in Rest(a, n, start, ones)[k] /\ b \in Below(n, k) <=> At(k, b) \in T
  <2>0. k \in Nat /\ n \in Nat
    BY DEF WordsOf
  <2>1. At(k, b) \in Nat /\ (At(k, b) \in 0 .. (n - 1) <=> b \in Below(n, k))
    BY <2>0, StorageHoldsSize, AtIs
  <2>2. At(k, b) \in Bits(a, n) <=> b \in a[k] /\ b \in Below(n, k)
    BY BitsAre
  <2>3. start <= At(k, b) <=> ~(k < BIT_WORD(start)) /\ b \in FirstMask(start, k)
    BY <2>0, FromStart
  <2>4. At(k, b) \in start .. (n - 1) <=> At(k, b) \in 0 .. (n - 1) /\ start <= At(k, b)
    BY <2>0, <2>1
  <2>5. /\ b \in Xor(a[k], {}) <=> b \in a[k]
        /\ b \in Xor(a[k], ones) <=> b \notin a[k]
    BY DEF Xor, SymDiff
  <2>6. /\ b \in Rest(a, n, start, {})[k]
             <=> ~(k < BIT_WORD(start)) /\ b \in Xor(a[k], {}) /\ b \in FirstMask(start, k)
        /\ b \in Rest(a, n, start, ones)[k]
             <=> ~(k < BIT_WORD(start)) /\ b \in Xor(a[k], ones) /\ b \in FirstMask(start, k)
    BY DEF Rest
  <2>7. /\ At(k, b) \in S <=> At(k, b) \in Bits(a, n) /\ At(k, b) \in start .. (n - 1)
        /\ At(k, b) \in T <=> At(k, b) \notin Bits(a, n) /\ At(k, b) \in start .. (n - 1)
    BY <1>1
  <2>. QED
    BY ONLY <2>1, <2>2, <2>3, <2>4, <2>5, <2>6, <2>7
<1>4. ValidSpell(Rest(a, n, start, {}), S, n) /\ ValidSpell(Rest(a, n, start, ones), T, n)
  BY <1>3 DEF ValidSpell
<1>. QED
  BY <1>1, <1>2, <1>4, ValidBits

LEMMA NextBit ==
  ASSUME Width, WordSearchesAreExact, NEW n \in Nat \ {0}, NEW a, Readable(a, n),
         NEW start \in Nat, start < n, NEW inv \in {{}, ones},
         NEW bits, bits = Bits(Rest(a, n, start, inv), n)
  PROVE  find_next(a, n, start, inv) = IF bits = {} THEN n ELSE Min(bits)
<1>1. PICK t, H, first : t = Rest(a, n, start, inv) /\ H = Hits(t, n) /\ first = BIT_WORD(start)
  OBVIOUS
<1>2. first \in Nat /\ BITS_TO_LONGS(n) \in Nat
  BY <1>1, PlaceOf, WordsAre
<1>3. \A k \in WordsOf(n) : k \in Nat
  BY DEF WordsOf
<1>4. \A k \in WordsOf(n) :
        /\ t[k] \subseteq ones
        /\ ~(k < first) => t[k] = Xor(a[k], inv) \cap
             (IF k = BIT_WORD(start) THEN BITMAP_FIRST_WORD_MASK(start) ELSE ones)
        /\ k < first => t[k] = {}
  <2>1. \A k \in WordsOf(n) : Xor(a[k], inv) \subseteq ones
    BY DEF Readable, Xor, SymDiff
  <2>. QED
    BY <1>1, <2>1 DEF Rest, FirstMask
<1>5. PICK K : K = BIT_WORD(start) .. (BITS_TO_LONGS(n) - 1)
  OBVIOUS
<1>6. \A k : k \in K <=> k \in WordsOf(n) /\ ~(k < first)
  BY <1>1, <1>2, <1>5 DEF WordsOf
<1>7. {k \in K : Xor(a[k], inv) \cap
         (IF k = BIT_WORD(start) THEN BITMAP_FIRST_WORD_MASK(start) ELSE ones) # {}} = H
  BY <1>1, <1>4, <1>6 DEF Hits
<1>8. find_next(a, n, start, inv) = FirstOf(t, n)
  <2>1. ~(start >= n)
    OBVIOUS
  <2>2. CASE H = {}
    <3>1. find_next(a, n, start, inv) = n
      BY ONLY <1>5, <1>7, <2>2 DEF find_next
    <3>. QED
      BY <1>1, <2>2, <3>1 DEF FirstOf
  <2>3. CASE H # {}
    <3>1. PICK c, v : /\ c = Min(H)
                      /\ v = Xor(a[c], inv) \cap
                              (IF c = BIT_WORD(start) THEN BITMAP_FIRST_WORD_MASK(start) ELSE ones)
      OBVIOUS
    <3>2. H \subseteq WordsOf(n) /\ H \in SUBSET Nat /\ \A k \in H : t[k] # {}
      BY <1>1, <1>3 DEF Hits
    <3>3. c \in H
      BY <2>3, <3>1, <3>2, LeastNat
    <3>4. v = t[c]
      <4>1. c \in WordsOf(n) /\ t[c] # {}
        BY <3>2, <3>3
      <4>. QED
        BY <1>4, <3>1, <4>1
    <3>5. find_next(a, n, start, inv) = Least(c * BITS_PER_LONG + ffsWord(v), n)
      BY ONLY <1>5, <1>7, <2>1, <2>3, <3>1 DEF find_next
    <3>6. FirstOf(t, n) = Least(c * BITS_PER_LONG + ffsWord(t[c]), n)
      BY <1>1, <2>3, <3>1 DEF FirstOf
    <3>. QED
      BY <3>4, <3>5, <3>6
  <2>. QED
    BY <2>2, <2>3
<1>9. FirstOf(t, n) = IF bits = {} THEN n ELSE Min(bits)
  <2>1. \A k \in WordsOf(n) : t[k] \subseteq ones
    BY <1>4
  <2>. QED
    BY <1>1, <2>1, FirstIs
<1>. QED
  BY <1>8, <1>9

LEMMA NextSetBit ==
  ASSUME Width, WordSearchesAreExact, NEW n \in Nat, NEW a, Readable(a, n), NEW start \in Nat
  PROVE  find_next_bit(a, n, start) = Sets!find_next_bit(Bits(a, n), n, start)
<1>1. PICK S, R : S = Bits(a, n) /\ R = S \cap (start .. (n - 1))
  OBVIOUS
<1>2. Sets!find_next_bit(S, n, start) = IF R = {} THEN n ELSE Min(R)
  BY <1>1 DEF Sets!find_next_bit, Sets!Min, Min
<1>3. CASE start >= n
  <2>1. R = {}
    BY <1>1, <1>3
  <2>2. find_next_bit(a, n, start) = n
    BY <1>3 DEF find_next_bit, find_next
  <2>. QED
    BY <1>1, <1>2, <2>1, <2>2
<1>4. CASE ~(start >= n)
  <2>1. n \in Nat \ {0} /\ start < n
    BY <1>4
  <2>2. R = Bits(Rest(a, n, start, {}), n)
    BY <1>1, <2>1, RestBits
  <2>3. find_next(a, n, start, {}) = IF R = {} THEN n ELSE Min(R)
    BY <2>1, <2>2, NextBit
  <2>. QED
    BY <1>1, <1>2, <2>3 DEF find_next_bit
<1>. QED
  BY <1>3, <1>4

LEMMA NextClearBit ==
  ASSUME Width, WordSearchesAreExact, NEW n \in Nat, NEW a, Readable(a, n), NEW start \in Nat
  PROVE  find_next_zero_bit(a, n, start) = Sets!find_next_zero_bit(Bits(a, n), n, start)
<1>1. PICK S, R : S = Bits(a, n) /\ R = (start .. (n - 1)) \ S
  OBVIOUS
<1>2. Sets!find_next_zero_bit(S, n, start) = IF R = {} THEN n ELSE Min(R)
  BY <1>1 DEF Sets!find_next_zero_bit, Sets!Min, Min
<1>3. CASE start >= n
  <2>1. R = {}
    BY <1>1, <1>3
  <2>2. find_next_zero_bit(a, n, start) = n
    BY <1>3 DEF find_next_zero_bit, find_next
  <2>. QED
    BY <1>1, <1>2, <2>1, <2>2
<1>4. CASE ~(start >= n)
  <2>1. n \in Nat \ {0} /\ start < n
    BY <1>4
  <2>2. R = Bits(Rest(a, n, start, ones), n)
    BY <1>1, <2>1, RestBits
  <2>3. find_next(a, n, start, ones) = IF R = {} THEN n ELSE Min(R)
    BY <2>1, <2>2, NextBit
  <2>. QED
    BY <1>1, <1>2, <2>3 DEF find_next_zero_bit
<1>. QED
  BY <1>3, <1>4

\* From the end the unused bits of the last word are in the way, and masked.
LEMMA LastWord ==
  ASSUME Width, NEW n \in Nat \ {0}, NEW last, last = (n - 1) \div BITS_PER_LONG
  PROVE  /\ last \in Nat /\ WordsOf(n) = 0 .. last
         /\ BITMAP_LAST_WORD_MASK(n) = Below(n, last)
         /\ \A k \in WordsOf(n) : k # last => Below(n, k) = ones
<1>1. PICK B, l, q, r, m : /\ B = BITS_PER_LONG /\ l = BITS_TO_LONGS(n) /\ m = n - 1
                           /\ q = m \div B /\ r = m % B
  OBVIOUS
<1>2. B \in Nat \ {0} /\ m \in Nat /\ m = n - 1 /\ last = q
  BY <1>1 DEF Width
<1>3. q \in Nat /\ r \in 0 .. (B - 1) /\ q * B \in Nat /\ m = q * B + r
  <2>1. BIT_WORD(m) \in Nat /\ m % BITS_PER_LONG \in ones /\ At(BIT_WORD(m), m % BITS_PER_LONG) = m
    BY <1>2, PlaceOf
  <2>2. BIT_WORD(m) = q /\ m % BITS_PER_LONG = r /\ ones = 0 .. (B - 1) /\ At(q, r) = q * B + r
    BY <1>1 DEF BIT_WORD, ones, At
  <2>3. q * B \in Nat
    BY <1>2, <2>1, <2>2
  <2>. QED
    BY <2>1, <2>2, <2>3
<1>4. \A k \in Nat : k \in WordsOf(n) <=> k * B < n
  BY <1>1, WordsAre
<1>5. \A k \in WordsOf(n) : k \in Nat
  BY DEF WordsOf
<1>6. ASSUME NEW k \in Nat
      PROVE  /\ k * B < n <=> k <= q
             /\ k < q => k * B + B < n
  <2>1. k < q => k * B + B <= q * B
    BY <1>2, <1>3, Apart
  <2>2. q < k => q * B + B <= k * B
    BY <1>2, <1>3, Apart
  <2>3. q = k => q * B = k * B
    OBVIOUS
  <2>4. k * B \in Int
    BY <1>2
  <2>. QED
    BY <1>2, <1>3, <2>1, <2>2, <2>3, <2>4
<1>7. WordsOf(n) = 0 .. q
  <2>1. \A k : k \in 0 .. q <=> k \in Nat /\ k <= q
    BY <1>3
  <2>2. \A k : k \in WordsOf(n) <=> k \in 0 .. q
    BY <1>4, <1>5, <1>6, <2>1
  <2>. QED
    BY <2>2
<1>8. BITMAP_LAST_WORD_MASK(n) = Below(n, q)
  <2>1. (q + 1) * B = q * B + B
    BY <1>2, <1>3
  <2>2. q * B < n /\ n <= (q + 1) * B
    BY <1>2, <1>3, <2>1
  <2>. QED
    BY <1>1, <1>3, <2>2, LastMask
<1>9. ASSUME NEW k \in WordsOf(n), k # q
      PROVE  Below(n, k) = ones
  <2>1. k \in Nat /\ k < q
    BY <1>3, <1>5, <1>7, <1>9
  <2>2. k * B + B < n /\ k * B \in Int
    BY <1>2, <1>6, <2>1
  <2>3. \A b \in ones : At(k, b) < n
    BY <1>1, <1>2, <2>2 DEF ones, At
  <2>. QED
    BY <2>3 DEF Below
<1>. QED
  BY <1>2, <1>3, <1>7, <1>8, <1>9

LEMMA LastBit ==
  ASSUME Width, WordSearchesAreExact, NEW n \in Nat \ {0}, NEW a, Readable(a, n)
  PROVE  find_last_bit(a, n) = IF Bits(a, n) = {} THEN n ELSE Max(Bits(a, n))
<1>1. PICK last, t : /\ last = (n - 1) \div BITS_PER_LONG
                     /\ t = [k \in WordsOf(n) |-> a[k] \cap Below(n, k)]
  OBVIOUS
<1>2. /\ last \in Nat /\ WordsOf(n) = 0 .. last /\ BITMAP_LAST_WORD_MASK(n) = Below(n, last)
      /\ \A k \in WordsOf(n) : k # last => Below(n, k) = ones
  BY <1>1, LastWord
<1>3. \A k \in 0 .. last :
        (IF k = last THEN a[k] \cap BITMAP_LAST_WORD_MASK(n) ELSE a[k]) = t[k]
  <2>1. \A k \in WordsOf(n) : a[k] \cap ones = a[k]
    BY DEF Readable
  <2>. QED
    BY <1>1, <1>2, <2>1
<1>4. PICK H : H = Hits(t, n)
  OBVIOUS
<1>5. {k \in 0 .. last :
         (IF k = last THEN a[k] \cap BITMAP_LAST_WORD_MASK(n) ELSE a[k]) # {}} = H
  BY <1>2, <1>3, <1>4 DEF Hits
<1>6. find_last_bit(a, n) = LastOf(t, n)
  <2>1. CASE H = {}
    <3>1. find_last_bit(a, n) = n
      BY ONLY <1>1, <1>5, <2>1 DEF find_last_bit
    <3>. QED
      BY <1>4, <2>1, <3>1 DEF LastOf
  <2>2. CASE H # {}
    <3>1. PICK c, v : /\ c = Max(H)
                      /\ v = (IF c = last THEN a[c] \cap BITMAP_LAST_WORD_MASK(n) ELSE a[c])
      OBVIOUS
    <3>2. H \in SUBSET (0 .. last)
      BY <1>2, <1>4 DEF Hits
    <3>3. c \in H
      BY <1>2, <2>2, <3>1, <3>2, GreatestNat
    <3>4. v = t[c]
      BY <1>3, <3>1, <3>2, <3>3
    <3>5. find_last_bit(a, n) = c * BITS_PER_LONG + flsWord(v)
      BY ONLY <1>1, <1>5, <2>2, <3>1 DEF find_last_bit
    <3>6. LastOf(t, n) = c * BITS_PER_LONG + flsWord(t[c])
      BY <1>4, <2>2, <3>1 DEF LastOf
    <3>. QED
      BY <3>4, <3>5, <3>6
  <2>. QED
    BY <2>1, <2>2
<1>7. LastOf(t, n) = IF Bits(t, n) = {} THEN n ELSE Max(Bits(t, n))
  <2>1. \A k \in WordsOf(n) : t[k] \subseteq Below(n, k)
    BY <1>1
  <2>. QED
    BY <2>1, LastIs
<1>8. Bits(t, n) = Bits(a, n)
  <2>1. PICK S : S = Bits(a, n)
    OBVIOUS
  <2>2. ASSUME NEW k \in WordsOf(n), NEW b \in ones
        PROVE  b \in t[k] /\ b \in Below(n, k) <=> At(k, b) \in S
    <3>1. At(k, b) \in S <=> b \in a[k] /\ b \in Below(n, k)
      BY <2>1, BitsAre
    <3>2. b \in t[k] <=> b \in a[k] /\ b \in Below(n, k)
      BY <1>1
    <3>. QED
      BY <3>1, <3>2
  <2>3. ValidSpell(t, S, n) /\ InStorage(S, n)
    BY <2>1, <2>2, StorageHoldsSize DEF ValidSpell
  <2>. QED
    BY <2>1, <2>3, ValidBits
<1>. QED
  BY <1>6, <1>7, <1>8

-----------------------------------------------------------------------------
(* The searches within a word.                                             *)

\* What is chosen at each half of a word depends on smaller ones.
LEMMA Halved ==
  ASSUME NEW h \in Nat \ {0}
  PROVE  h \div 2 \in Nat /\ h \div 2 < h
OBVIOUS

FfsTurn(g, h, w) ==
  IF h = 0 THEN 0
  ELSE IF w \cap (0 .. (h - 1)) = {}
       THEN h + g[h \div 2][ShiftDown(w, h)]
       ELSE g[h \div 2][w]

FfsTurns(g, N) == [half \in 0 .. N |-> [w \in SUBSET ones |-> FfsTurn(g, half, w)]]

FlsTurn(g, h, w) ==
  IF h = 0 THEN BITS_PER_LONG - 1
  ELSE IF w \cap ((BITS_PER_LONG - h) .. (BITS_PER_LONG - 1)) = {}
       THEN g[h \div 2][ShiftUp(w, h)] - h
       ELSE g[h \div 2][w]

FlsTurns(g, N) == [half \in 0 .. N |-> [w \in SUBSET ones |-> FlsTurn(g, half, w)]]

\* There are functions that satisfy the recursions.
LEMMA FfsTurnsExist ==
  ASSUME NEW N \in Nat
  PROVE  \E g : g = FfsTurns(g, N)
<1>1. PICK S : S = {k \in Nat : ~\E g : g = FfsTurns(g, k)}
  OBVIOUS
<1>2. CASE S = {}
  BY <1>1, <1>2
<1>3. CASE S # {}
  <2>1. PICK k \in S : \A j \in S : k <= j
    <3>1. S \in SUBSET Nat
      BY <1>1
    <3>. QED
      BY <1>3, <3>1, LeastNat
  <2>2. k \in Nat /\ ~\E g : g = FfsTurns(g, k)
    BY <1>1
  <2>3. k # 0
    <3>1. SUFFICES ASSUME k = 0 PROVE FALSE
      OBVIOUS
    <3>2. PICK g : g = [half \in 0 .. 0 |-> [w \in SUBSET ones |-> 0]]
      OBVIOUS
    <3>3. \A half \in 0 .. 0 : \A w : FfsTurn(g, half, w) = 0
      BY DEF FfsTurn
    <3>4. g = FfsTurns(g, 0)
      BY <3>2, <3>3 DEF FfsTurns
    <3>. QED
      BY <2>2, <3>1, <3>4
  <2>4. PICK f : f = FfsTurns(f, k - 1)
    <3>1. k - 1 \in Nat /\ ~(k <= k - 1)
      BY <2>2, <2>3
    <3>. QED
      BY <1>1, <2>1, <3>1
  <2>5. PICK g : g = [half \in 0 .. k |-> [w \in SUBSET ones |-> FfsTurn(f, half, w)]]
    OBVIOUS
  <2>6. ASSUME NEW half \in 0 .. (k - 1)
        PROVE  g[half] = f[half]
    <3>1. half \in 0 .. k
      BY <2>2
    <3>2. g[half] = [w \in SUBSET ones |-> FfsTurn(f, half, w)]
      BY <2>5, <3>1
    <3>3. PICK e : e = FfsTurns(f, k - 1)
      OBVIOUS
    <3>4. e[half] = [w \in SUBSET ones |-> FfsTurn(f, half, w)]
      BY <3>3 DEF FfsTurns
    <3>. QED
      BY <2>4, <3>2, <3>3, <3>4
  <2>7. ASSUME NEW half \in 0 .. k, NEW w
        PROVE  FfsTurn(g, half, w) = FfsTurn(f, half, w)
    <3>1. half # 0 => half \div 2 \in 0 .. (k - 1)
      <4>1. half # 0 => half \div 2 \in Nat /\ half \div 2 < half
        BY <2>2, Halved
      <4>. QED
        BY <2>2, <4>1
    <3>2. half # 0 => g[half \div 2] = f[half \div 2]
      BY <2>6, <3>1
    <3>. QED
      BY <3>2 DEF FfsTurn
  <2>8. g = FfsTurns(g, k)
    BY <2>5, <2>7 DEF FfsTurns
  <2>. QED
    BY <2>2, <2>8
<1>. QED
  BY <1>2, <1>3

LEMMA FlsTurnsExist ==
  ASSUME NEW N \in Nat
  PROVE  \E g : g = FlsTurns(g, N)
<1>1. PICK S : S = {k \in Nat : ~\E g : g = FlsTurns(g, k)}
  OBVIOUS
<1>2. CASE S = {}
  BY <1>1, <1>2
<1>3. CASE S # {}
  <2>1. PICK k \in S : \A j \in S : k <= j
    <3>1. S \in SUBSET Nat
      BY <1>1
    <3>. QED
      BY <1>3, <3>1, LeastNat
  <2>2. k \in Nat /\ ~\E g : g = FlsTurns(g, k)
    BY <1>1
  <2>3. k # 0
    <3>1. SUFFICES ASSUME k = 0 PROVE FALSE
      OBVIOUS
    <3>2. PICK g : g = [half \in 0 .. 0 |-> [w \in SUBSET ones |-> BITS_PER_LONG - 1]]
      OBVIOUS
    <3>3. \A half \in 0 .. 0 : \A w : FlsTurn(g, half, w) = BITS_PER_LONG - 1
      BY DEF FlsTurn
    <3>4. g = FlsTurns(g, 0)
      BY <3>2, <3>3 DEF FlsTurns
    <3>. QED
      BY <2>2, <3>1, <3>4
  <2>4. PICK f : f = FlsTurns(f, k - 1)
    <3>1. k - 1 \in Nat /\ ~(k <= k - 1)
      BY <2>2, <2>3
    <3>. QED
      BY <1>1, <2>1, <3>1
  <2>5. PICK g : g = [half \in 0 .. k |-> [w \in SUBSET ones |-> FlsTurn(f, half, w)]]
    OBVIOUS
  <2>6. ASSUME NEW half \in 0 .. (k - 1)
        PROVE  g[half] = f[half]
    <3>1. half \in 0 .. k
      BY <2>2
    <3>2. g[half] = [w \in SUBSET ones |-> FlsTurn(f, half, w)]
      BY <2>5, <3>1
    <3>3. PICK e : e = FlsTurns(f, k - 1)
      OBVIOUS
    <3>4. e[half] = [w \in SUBSET ones |-> FlsTurn(f, half, w)]
      BY <3>3 DEF FlsTurns
    <3>. QED
      BY <2>4, <3>2, <3>3, <3>4
  <2>7. ASSUME NEW half \in 0 .. k, NEW w
        PROVE  FlsTurn(g, half, w) = FlsTurn(f, half, w)
    <3>1. half # 0 => half \div 2 \in 0 .. (k - 1)
      <4>1. half # 0 => half \div 2 \in Nat /\ half \div 2 < half
        BY <2>2, Halved
      <4>. QED
        BY <2>2, <4>1
    <3>2. half # 0 => g[half \div 2] = f[half \div 2]
      BY <2>6, <3>1
    <3>. QED
      BY <3>2 DEF FlsTurn
  <2>8. g = FlsTurns(g, k)
    BY <2>5, <2>7 DEF FlsTurns
  <2>. QED
    BY <2>2, <2>8
<1>. QED
  BY <1>2, <1>3

\* The recursions of the model are these.
LEMMA FfsIs ==
  ASSUME Width
  PROVE  \E g : /\ g = FfsTurns(g, BITS_PER_LONG)
                /\ \A word : ffsWord(word) = g[BITS_PER_LONG \div 2][word]
<1>1. PICK g : g = CHOOSE h : h = FfsTurns(h, BITS_PER_LONG)
  OBVIOUS
<1>2. g = FfsTurns(g, BITS_PER_LONG)
  BY <1>1, FfsTurnsExist DEF Width
<1>3. \A word : ffsWord(word) = g[BITS_PER_LONG \div 2][word]
  <2>. TAKE word
  <2>. QED
    BY <1>1 DEF ffsWord, FfsTurns, FfsTurn
<1>. QED
  BY <1>2, <1>3

LEMMA FlsIs ==
  ASSUME Width
  PROVE  \E g : /\ g = FlsTurns(g, BITS_PER_LONG)
                /\ \A word : flsWord(word) = g[BITS_PER_LONG \div 2][word]
<1>1. PICK g : g = CHOOSE h : h = FlsTurns(h, BITS_PER_LONG)
  OBVIOUS
<1>2. g = FlsTurns(g, BITS_PER_LONG)
  BY <1>1, FlsTurnsExist DEF Width
<1>3. \A word : flsWord(word) = g[BITS_PER_LONG \div 2][word]
  <2>. TAKE word
  <2>. QED
    BY <1>1 DEF flsWord, FlsTurns, FlsTurn
<1>. QED
  BY <1>2, <1>3

\* In a word with a bit among the lowest 2h, h a power of 2, the search by
\* halves finds the lowest.
LEMMA FfsFinds ==
  ASSUME Width, NEW g, g = FfsTurns(g, BITS_PER_LONG),
         NEW halves \in SUBSET (1 .. BITS_PER_LONG),
         \A x \in halves \ {1} : x % 2 = 0 /\ x \div 2 \in halves,
         NEW h \in halves
  PROVE  \A w \in SUBSET ones :
           w \cap (0 .. (2 * h - 1)) # {} => g[h][w] \in w /\ \A y \in w : g[h][w] <= y
<1>1. PICK B : B = BITS_PER_LONG
  OBVIOUS
<1>2. B \in Nat \ {0} /\ ones = 0 .. (B - 1) /\ halves \in SUBSET (1 .. B) /\ g = FfsTurns(g, B)
  BY <1>1 DEF Width, ones
<1>3. \A k \in 0 .. B, w \in SUBSET ones : g[k][w] = FfsTurn(g, k, w)
  <2>1. PICK e : e = FfsTurns(g, B)
    OBVIOUS
  <2>2. \A k \in 0 .. B, w \in SUBSET ones : e[k][w] = FfsTurn(g, k, w)
    BY <2>1 DEF FfsTurns
  <2>. QED
    BY <1>2, <2>1, <2>2
<1>4. PICK S : S = {k \in halves : ~\A w \in SUBSET ones :
                      w \cap (0 .. (2 * k - 1)) # {} => g[k][w] \in w /\ \A y \in w : g[k][w] <= y}
  OBVIOUS
<1>5. S = {}
  <2>1. SUFFICES ASSUME S # {} PROVE FALSE
    OBVIOUS
  <2>2. S \in SUBSET Nat
    <3>1. \A k \in S : k \in 1 .. B
      BY <1>2, <1>4
    <3>. QED
      BY <1>2, <3>1
  <2>3. PICK k \in S : \A j \in S : k <= j
    BY <2>1, <2>2, LeastNat
  <2>4. k \in halves /\ k \in 1 .. B /\ k \in Nat
    BY <1>2, <1>4
  <2>5. PICK w \in SUBSET ones : /\ w \cap (0 .. (2 * k - 1)) # {}
                                 /\ ~(g[k][w] \in w /\ \A y \in w : g[k][w] <= y)
    BY <1>4
  <2>6. PICK v : v = ShiftDown(w, k)
    OBVIOUS
  <2>7. v \in SUBSET ones /\ \A b : b \in v <=> b \in ones /\ b + k \in w
    BY <2>6 DEF ShiftDown
  <2>8. /\ w \cap (0 .. (k - 1)) = {} => g[k][w] = k + g[k \div 2][v]
        /\ w \cap (0 .. (k - 1)) # {} => g[k][w] = g[k \div 2][w]
    BY <1>3, <2>4, <2>6 DEF FfsTurn
  <2>9. \A y \in w : y \in 0 .. (B - 1)
    BY <1>2
  <2>10. PICK x \in w : x \in 0 .. (2 * k - 1)
    BY <2>5
  <2>11. CASE k = 1
    <3>1. 0 \in 0 .. B /\ k \div 2 = 0
      BY <1>2, <2>11
    <3>2. g[k \div 2][v] = 0 /\ g[k \div 2][w] = 0
      BY <1>3, <2>7, <3>1 DEF FfsTurn
    <3>3. x = 0 \/ x = 1
      BY <2>10, <2>11
    <3>4. CASE 0 \in w
      <4>1. g[k][w] = 0
        BY <2>8, <2>11, <3>2, <3>4
      <4>. QED
        BY <2>5, <2>9, <3>4, <4>1
    <3>5. CASE 0 \notin w
      <4>1. w \cap (0 .. (k - 1)) = {}
        BY <2>9, <2>11, <3>5
      <4>2. g[k][w] = 1
        BY <2>8, <2>11, <3>2, <4>1
      <4>3. 1 \in w /\ \A y \in w : 1 <= y
        BY <2>9, <3>3, <3>5
      <4>. QED
        BY <2>5, <4>2, <4>3
    <3>. QED
      BY <3>4, <3>5
  <2>12. CASE k # 1
    <3>1. PICK c : c = k \div 2
      OBVIOUS
    <3>2. c \in halves /\ k = 2 * c /\ c \in Nat /\ c < k
      BY <2>4, <2>12, <3>1
    <3>3. c \notin S
      BY <2>3, <2>4, <3>2
    <3>4. \A u \in SUBSET ones : u \cap (0 .. (k - 1)) # {} => g[c][u] \in u /\ \A y \in u : g[c][u] <= y
      BY <1>4, <3>2, <3>3
    <3>5. CASE w \cap (0 .. (k - 1)) = {}
      <4>1. \A y \in w : y \in k .. (B - 1) /\ y - k \in v
        <5>1. \A y \in w : y \in k .. (B - 1)
          BY <2>4, <2>9, <3>5
        <5>2. \A y \in w : y - k \in ones /\ (y - k) + k = y
          BY <1>2, <2>4, <5>1
        <5>. QED
          BY <2>7, <5>1, <5>2
      <4>2. x - k \in v /\ x - k \in 0 .. (k - 1)
        BY <2>4, <2>10, <4>1
      <4>3. g[c][v] \in v /\ \A y \in v : g[c][v] <= y
        BY <2>7, <3>4, <4>2
      <4>4. PICK m : m = g[c][v]
        OBVIOUS
      <4>5. m \in Nat /\ m + k \in w /\ g[k][w] = k + m
        BY <1>2, <2>7, <2>8, <3>1, <3>5, <4>3, <4>4
      <4>6. \A y \in w : m <= y - k
        BY <4>1, <4>3, <4>4
      <4>7. \A y \in w : m + k <= y
        BY <2>4, <4>1, <4>5, <4>6
      <4>8. g[k][w] = m + k
        BY <2>4, <4>5
      <4>. QED
        BY <2>5, <4>5, <4>7, <4>8
    <3>6. CASE w \cap (0 .. (k - 1)) # {}
      <4>1. g[k][w] = g[c][w]
        BY <2>8, <3>1, <3>6
      <4>. QED
        BY <2>5, <3>4, <3>6, <4>1
    <3>. QED
      BY <3>5, <3>6
  <2>. QED
    BY <2>11, <2>12
<1>. QED
  BY <1>4, <1>5

\* In a word with a bit among the highest 2h, the highest.
LEMMA FlsFinds ==
  ASSUME Width, NEW g, g = FlsTurns(g, BITS_PER_LONG),
         NEW halves \in SUBSET (1 .. BITS_PER_LONG),
         \A x \in halves \ {1} : x % 2 = 0 /\ x \div 2 \in halves,
         NEW h \in halves
  PROVE  \A w \in SUBSET ones :
           w \cap ((BITS_PER_LONG - 2 * h) .. (BITS_PER_LONG - 1)) # {}
             => g[h][w] \in w /\ \A y \in w : y <= g[h][w]
<1>1. PICK B : B = BITS_PER_LONG
  OBVIOUS
<1>2. B \in Nat \ {0} /\ ones = 0 .. (B - 1) /\ halves \in SUBSET (1 .. B) /\ g = FlsTurns(g, B)
  BY <1>1 DEF Width, ones
<1>3. \A k \in 0 .. B, w \in SUBSET ones : g[k][w] = FlsTurn(g, k, w)
  <2>1. PICK e : e = FlsTurns(g, B)
    OBVIOUS
  <2>2. \A k \in 0 .. B, w \in SUBSET ones : e[k][w] = FlsTurn(g, k, w)
    BY <2>1 DEF FlsTurns
  <2>. QED
    BY <1>2, <2>1, <2>2
<1>4. PICK S : S = {k \in halves : ~\A w \in SUBSET ones :
                      w \cap ((B - 2 * k) .. (B - 1)) # {}
                        => g[k][w] \in w /\ \A y \in w : y <= g[k][w]}
  OBVIOUS
<1>5. S = {}
  <2>1. SUFFICES ASSUME S # {} PROVE FALSE
    OBVIOUS
  <2>2. S \in SUBSET Nat
    <3>1. \A k \in S : k \in 1 .. B
      BY <1>2, <1>4
    <3>. QED
      BY <1>2, <3>1
  <2>3. PICK k \in S : \A j \in S : k <= j
    BY <2>1, <2>2, LeastNat
  <2>4. k \in halves /\ k \in 1 .. B /\ k \in Nat
    BY <1>2, <1>4
  <2>5. PICK w \in SUBSET ones : /\ w \cap ((B - 2 * k) .. (B - 1)) # {}
                                 /\ ~(g[k][w] \in w /\ \A y \in w : y <= g[k][w])
    BY <1>4
  <2>6. PICK v : v = ShiftUp(w, k)
    OBVIOUS
  <2>7. v \in SUBSET ones /\ \A b : b \in v <=> b \in ones /\ b - k \in w
    BY <2>6 DEF ShiftUp
  <2>8. /\ w \cap ((B - k) .. (B - 1)) = {} => g[k][w] = g[k \div 2][v] - k
        /\ w \cap ((B - k) .. (B - 1)) # {} => g[k][w] = g[k \div 2][w]
    BY <1>1, <1>3, <2>4, <2>6 DEF FlsTurn
  <2>9. \A y \in w : y \in 0 .. (B - 1)
    BY <1>2
  <2>10. PICK x \in w : x \in (B - 2 * k) .. (B - 1)
    BY <2>5
  <2>11. CASE k = 1
    <3>1. 0 \in 0 .. B /\ k \div 2 = 0
      BY <1>2, <2>11
    <3>2. g[k \div 2][v] = B - 1 /\ g[k \div 2][w] = B - 1
      BY <1>1, <1>3, <2>7, <3>1 DEF FlsTurn
    <3>3. x = B - 2 \/ x = B - 1
      BY <1>2, <2>10, <2>11
    <3>4. CASE B - 1 \in w
      <4>1. g[k][w] = B - 1
        <5>1. B - 1 \in (B - k) .. (B - 1)
          BY <1>2, <2>11
        <5>. QED
          BY <2>8, <3>2, <3>4, <5>1
      <4>2. \A y \in w : y <= B - 1
        BY <1>2, <2>9
      <4>. QED
        BY <2>5, <3>4, <4>1, <4>2
    <3>5. CASE B - 1 \notin w
      <4>1. w \cap ((B - k) .. (B - 1)) = {}
        BY <1>2, <2>9, <2>11, <3>5
      <4>2. g[k][w] = B - 2
        BY <1>2, <2>8, <2>11, <3>2, <4>1
      <4>3. B - 2 \in w /\ \A y \in w : y <= B - 2
        BY <1>2, <2>9, <3>3, <3>5
      <4>. QED
        BY <2>5, <4>2, <4>3
    <3>. QED
      BY <3>4, <3>5
  <2>12. CASE k # 1
    <3>1. PICK c : c = k \div 2
      OBVIOUS
    <3>2. c \in halves /\ k = 2 * c /\ c \in Nat /\ c < k
      BY <2>4, <2>12, <3>1
    <3>3. c \notin S
      BY <2>3, <2>4, <3>2
    <3>4. \A u \in SUBSET ones : u \cap ((B - k) .. (B - 1)) # {}
                                   => g[c][u] \in u /\ \A y \in u : y <= g[c][u]
      BY <1>4, <3>2, <3>3
    <3>5. CASE w \cap ((B - k) .. (B - 1)) = {}
      <4>1. \A y \in w : y \in 0 .. (B - 1) /\ y + k \in v
        <5>1. \A y \in w : y \in 0 .. (B - k - 1)
          BY <1>2, <2>4, <2>9, <3>5
        <5>2. \A y \in w : y + k \in ones /\ (y + k) - k = y
          BY <1>2, <2>4, <5>1
        <5>. QED
          BY <2>7, <2>9, <5>2
      <4>2. x + k \in v /\ x + k \in (B - k) .. (B - 1)
        <5>1. x + k \in v /\ x + k \in 0 .. (B - 1) /\ x \in 0 .. (B - 1)
          BY <1>2, <2>7, <4>1
        <5>. QED
          BY <1>2, <2>4, <2>10, <5>1
      <4>3. g[c][v] \in v /\ \A y \in v : y <= g[c][v]
        BY <2>7, <3>4, <4>2
      <4>4. PICK m : m = g[c][v]
        OBVIOUS
      <4>5. m \in Nat /\ m - k \in w /\ g[k][w] = m - k
        BY <1>2, <2>7, <2>8, <3>1, <3>5, <4>3, <4>4
      <4>6. \A y \in w : y + k <= m
        BY <4>1, <4>3, <4>4
      <4>7. \A y \in w : y <= m - k
        BY <2>4, <4>1, <4>5, <4>6
      <4>. QED
        BY <2>5, <4>5, <4>7
    <3>6. CASE w \cap ((B - k) .. (B - 1)) # {}
      <4>1. g[k][w] = g[c][w]
        BY <2>8, <3>1, <3>6
      <4>. QED
        BY <2>5, <3>4, <3>6, <4>1
    <3>. QED
      BY <3>5, <3>6
  <2>. QED
    BY <2>11, <2>12
<1>. QED
  BY <1>1, <1>4, <1>5

\* A word whose width is a power of 2 is searched whole.
LEMMA WordSearches ==
  ASSUME Width, PowerOf2(BITS_PER_LONG)
  PROVE  WordSearchesAreExact
<1>1. PICK B : B = BITS_PER_LONG
  OBVIOUS
<1>2. B \in Nat \ {0} /\ ones = 0 .. (B - 1)
  BY <1>1 DEF Width, ones
<1>3. PICK halves \in SUBSET (1 .. B) : /\ B \in halves
                                        /\ \A x \in halves \ {1} : x % 2 = 0 /\ x \div 2 \in halves
  BY <1>1 DEF PowerOf2
<1>4. PICK f : f = FfsTurns(f, B) /\ \A word : ffsWord(word) = f[B \div 2][word]
  BY <1>1, FfsIs
<1>5. PICK g : g = FlsTurns(g, B) /\ \A word : flsWord(word) = g[B \div 2][word]
  BY <1>1, FlsIs
<1>6. ASSUME NEW w \in SUBSET ones, w # {}
      PROVE  ffsWord(w) \in w /\ (\A y \in w : ffsWord(w) <= y)
             /\ flsWord(w) \in w /\ (\A y \in w : y <= flsWord(w))
  <2>1. PICK x : x \in w
    BY <1>6
  <2>2. \A y \in w : y \in 0 .. (B - 1)
    BY <1>2
  <2>3. CASE B = 1
    <3>1. 0 \in 0 .. B /\ B \div 2 = 0
      BY <2>3
    <3>2. f[0][w] = 0 /\ g[0][w] = B - 1
      BY <1>1, <1>4, <1>5, <3>1 DEF FfsTurns, FlsTurns, FfsTurn, FlsTurn
    <3>3. ffsWord(w) = 0 /\ flsWord(w) = 0
      BY <1>4, <1>5, <2>3, <3>1, <3>2
    <3>4. \A y \in w : y = 0
      BY <2>2, <2>3
    <3>. QED
      BY <2>1, <3>3, <3>4
  <2>4. CASE B # 1
    <3>1. PICK c : c = B \div 2
      OBVIOUS
    <3>2. c \in halves /\ B = 2 * c /\ c \in Nat
      BY <1>2, <1>3, <2>4, <3>1
    <3>3. x \in 0 .. (2 * c - 1) /\ x \in (B - 2 * c) .. (B - 1)
      BY <1>2, <2>1, <2>2, <3>2
    <3>4. f[c][w] \in w /\ \A y \in w : f[c][w] <= y
      BY <1>1, <1>3, <1>4, <2>1, <3>2, <3>3, FfsFinds
    <3>5. g[c][w] \in w /\ \A y \in w : y <= g[c][w]
      BY <1>1, <1>3, <1>5, <2>1, <3>2, <3>3, FlsFinds
    <3>. QED
      BY <1>4, <1>5, <3>1, <3>4, <3>5
  <2>. QED
    BY <2>3, <2>4
<1>7. ASSUME NEW w \in SUBSET ones, w # {}
      PROVE  ffsWord(w) = Min(w) /\ flsWord(w) = Max(w)
  <2>1. PICK N : N = B - 1
    OBVIOUS
  <2>2. N \in Nat /\ w \in SUBSET (0 .. N) /\ w \in SUBSET Nat
    BY <1>2, <2>1
  <2>3. /\ ffsWord(w) \in w /\ \A y \in w : ffsWord(w) <= y
        /\ flsWord(w) \in w /\ \A y \in w : y <= flsWord(w)
    BY <1>6, <1>7
  <2>4. ffsWord(w) = Min(w)
    BY <2>2, <2>3, MinIs
  <2>5. flsWord(w) = Max(w)
    BY <2>2, <2>3, MaxIs
  <2>. QED
    BY <2>4, <2>5
<1>. QED
  BY <1>7 DEF WordSearchesAreExact

-----------------------------------------------------------------------------
(* The searches in every bitmap of a program.                              *)

LEMMA ReadableParts ==
  ASSUME Width, NEW N \in Nat \ {0}, NEW a, a \in Words(N), NEW n \in 0 .. N
  PROVE  Readable(a, n)
<1>1. CASE n = 0
  <2>1. BITS_TO_LONGS(0) = 0
    BY DEF BITS_TO_LONGS, Width
  <2>. QED
    BY <1>1, <2>1 DEF Readable, WordsOf
<1>2. CASE n # 0
  <2>1. n \in Nat \ {0} /\ n <= N
    BY <1>2
  <2>2. ASSUME NEW k \in WordsOf(n)
        PROVE  k \in WordsOf(N)
    <3>1. k \in Nat
      BY DEF WordsOf
    <3>2. k * BITS_PER_LONG < n
      BY <2>1, <3>1, WordsAre
    <3>3. k * BITS_PER_LONG \in Int
      BY <3>1 DEF Width
    <3>4. k * BITS_PER_LONG < N
      BY <2>1, <3>2, <3>3
    <3>. QED
      BY <3>1, <3>4, WordsAre
  <2>. QED
    BY <2>2 DEF Readable, Words
<1>. QED
  BY <1>1, <1>2

LEMMA NothingToSearch ==
  ASSUME Width, NEW a
  PROVE  /\ find_first_bit(a, 0) = 0 /\ find_first_zero_bit(a, 0) = 0 /\ find_last_bit(a, 0) = 0
         /\ Bits(a, 0) = {}
<1>1. WordsOf(0) = {}
  <2>1. BITS_TO_LONGS(0) = 0
    BY DEF BITS_TO_LONGS, Width
  <2>. QED
    BY <2>1 DEF WordsOf
<1>2. (0 - 1) \div BITS_PER_LONG = -1
  <2>1. PICK B, q, r : B = BITS_PER_LONG /\ q = (0 - 1) \div B /\ r = (0 - 1) % B
    OBVIOUS
  <2>2. B \in Nat \ {0}
    BY <2>1 DEF Width
  <2>3. q \in Int /\ r \in 0 .. (B - 1) /\ 0 - 1 = q * B + r /\ q * B \in Int
    BY <2>1, <2>2, DivMod
  <2>4. q < -1 => q * B + B <= (-1) * B
    BY <2>2, <2>3, Apart
  <2>5. -1 < q => (-1) * B + B <= q * B
    BY <2>2, <2>3, Apart
  <2>6. (-1) * B = -B
    BY <2>2
  <2>. QED
    BY <2>1, <2>2, <2>3, <2>4, <2>5, <2>6
<1>3. PICK last : last = (0 - 1) \div BITS_PER_LONG
  OBVIOUS
<1>4. 0 .. last = {}
  BY <1>2, <1>3
<1>5. find_last_bit(a, 0) = 0
  BY <1>3, <1>4 DEF find_last_bit
<1>6. find_first_bit(a, 0) = 0 /\ find_first_zero_bit(a, 0) = 0
  BY <1>1 DEF find_first_bit, find_first_zero_bit
<1>7. Bits(a, 0) = {}
  BY DEF Bits
<1>. QED
  BY <1>5, <1>6, <1>7

LEMMA Searches ==
  ASSUME TypeOK
  PROVE  WordSearchesAreExact /\ SearchesFindTheBit
<1>1. WordSearchesAreExact
  <2>1. Width /\ PowerOf2(BITS_PER_LONG)
    BY Typed, WidthAssumption DEF TypeOK
  <2>. QED
    BY <2>1, WordSearches
<1>2. ASSUME NEW d \in DOMAIN maps, NEW n \in 0 .. nbits, NEW a, a = maps[d],
             NEW bits, bits = Bits(a, n)
      PROVE  /\ find_first_bit(a, n) = Sets!find_next_bit(bits, n, 0)
             /\ find_first_zero_bit(a, n) = Sets!find_first_zero_bit(bits, n)
             /\ find_last_bit(a, n) = IF bits = {} THEN n ELSE Max(bits)
             /\ \A i \in 0 .. nbits :
                  /\ find_next_bit(a, n, i) = Sets!find_next_bit(bits, n, i)
                  /\ find_next_zero_bit(a, n, i) = Sets!find_next_zero_bit(bits, n, i)
  <2>1. /\ Width /\ nbits \in Nat \ {0} /\ a \in Words(nbits) /\ n \in Nat
    BY <1>2, Typed, WordsAreBits
  <2>2. Readable(a, n)
    BY <2>1, ReadableParts
  <2>3. ASSUME NEW i \in 0 .. nbits
        PROVE  /\ find_next_bit(a, n, i) = Sets!find_next_bit(bits, n, i)
               /\ find_next_zero_bit(a, n, i) = Sets!find_next_zero_bit(bits, n, i)
    <3>1. i \in Nat
      BY <2>1
    <3>. QED
      BY <1>1, <1>2, <2>1, <2>2, <3>1, NextSetBit, NextClearBit
  <2>4. CASE n = 0
    <3>1. /\ find_first_bit(a, n) = 0 /\ find_first_zero_bit(a, n) = 0
          /\ find_last_bit(a, n) = 0 /\ bits = {}
      BY <1>2, <2>1, <2>4, NothingToSearch
    <3>2. Sets!find_next_bit(bits, n, 0) = 0
      BY <2>4, <3>1 DEF Sets!find_next_bit
    <3>3. Sets!find_first_zero_bit(bits, n) = 0
      <4>1. (0 .. (n - 1)) \ bits = {}
        BY <2>4
      <4>. QED
        BY <2>4, <4>1 DEF Sets!find_first_zero_bit
    <3>. QED
      BY <2>3, <2>4, <3>1, <3>2, <3>3
  <2>5. CASE n # 0
    <3>1. n \in Nat \ {0}
      BY <2>1, <2>5
    <3>2. find_first_bit(a, n) = Sets!find_next_bit(bits, n, 0)
      BY <1>1, <1>2, <2>1, <2>2, <3>1, FirstBit
    <3>3. find_first_zero_bit(a, n) = Sets!find_first_zero_bit(bits, n)
      BY <1>1, <1>2, <2>1, <2>2, <3>1, FirstZeroBit
    <3>4. find_last_bit(a, n) = IF bits = {} THEN n ELSE Max(bits)
      BY <1>1, <1>2, <2>1, <2>2, <3>1, LastBit
    <3>. QED
      BY <2>3, <3>2, <3>3, <3>4
  <2>. QED
    BY <2>4, <2>5
<1>3. SearchesFindTheBit
  BY <1>2 DEF SearchesFindTheBit
<1>. QED
  BY <1>1, <1>3

\* The comparisons look at every valid bit, by word or by place.
LEMMA ComparisonWords ==
  ASSUME Width, NEW n \in Nat \ {0}, NEW v, v \in Words(n), NEW w, w \in Words(n)
  PROVE  /\ Bits(v, n) = Bits(w, n) <=> \A k \in WordsOf(n) : Xor(v[k], w[k]) \cap Below(n, k) = {}
         /\ Bits(v, n) \cap Bits(w, n) # {} <=> \E k \in WordsOf(n) : v[k] \cap w[k] \cap Below(n, k) # {}
         /\ Bits(v, n) \subseteq Bits(w, n) <=> \A k \in WordsOf(n) : (v[k] \ w[k]) \cap Below(n, k) = {}
<1>1. PICK S, T : S = Bits(v, n) /\ T = Bits(w, n)
  OBVIOUS
<1>2. \A k \in WordsOf(n), b \in ones :
        /\ At(k, b) \in S <=> b \in v[k] /\ b \in Below(n, k)
        /\ At(k, b) \in T <=> b \in w[k] /\ b \in Below(n, k)
  BY <1>1, BitsAre
<1>3. \A k \in WordsOf(n) : v[k] \subseteq ones /\ w[k] \subseteq ones /\ Below(n, k) \subseteq ones
  BY DEF Words, Below
<1>4. InStorage(S, n) /\ InStorage(T, n)
  BY <1>1, StorageHoldsSize
<1>5. \A i : i \in S \/ i \in T => \E k \in WordsOf(n), b \in ones : i = At(k, b)
  BY <1>4, EveryPlace DEF InStorage
<1>6. S = T <=> \A k \in WordsOf(n) : Xor(v[k], w[k]) \cap Below(n, k) = {}
  <2>1. ASSUME S = T, NEW k \in WordsOf(n), NEW b \in Xor(v[k], w[k]) \cap Below(n, k)
        PROVE  FALSE
    <3>1. b \in ones /\ b \in Below(n, k) /\ ~(b \in v[k] <=> b \in w[k])
      BY <1>3, <2>1 DEF Xor, SymDiff
    <3>. QED
      BY <1>2, <2>1, <3>1
  <2>2. ASSUME \A k \in WordsOf(n) : Xor(v[k], w[k]) \cap Below(n, k) = {}
        PROVE  S = T
    <3>1. \A k \in WordsOf(n), b \in ones : b \in Below(n, k) => (b \in v[k] <=> b \in w[k])
      BY <2>2 DEF Xor, SymDiff
    <3>2. AgreeAt(S, T, n)
      BY <1>2, <3>1 DEF AgreeAt
    <3>. QED
      BY <1>4, <3>2, SameBits
  <2>. QED
    BY <2>1, <2>2
<1>7. S \cap T # {} <=> \E k \in WordsOf(n) : v[k] \cap w[k] \cap Below(n, k) # {}
  <2>1. ASSUME NEW i \in S \cap T
        PROVE  \E k \in WordsOf(n) : v[k] \cap w[k] \cap Below(n, k) # {}
    <3>1. PICK k \in WordsOf(n), b \in ones : i = At(k, b)
      BY <1>5
    <3>. QED
      BY <1>2, <3>1
  <2>2. ASSUME NEW k \in WordsOf(n), v[k] \cap w[k] \cap Below(n, k) # {}
        PROVE  S \cap T # {}
    <3>1. PICK b \in ones : b \in v[k] \cap w[k] \cap Below(n, k)
      BY <1>3, <2>2
    <3>2. At(k, b) \in S /\ At(k, b) \in T
      BY <1>2, <3>1
    <3>. QED
      BY <3>2
  <2>. QED
    BY <2>1, <2>2
<1>8. S \subseteq T <=> \A k \in WordsOf(n) : (v[k] \ w[k]) \cap Below(n, k) = {}
  <2>1. ASSUME S \subseteq T, NEW k \in WordsOf(n), NEW b \in (v[k] \ w[k]) \cap Below(n, k)
        PROVE  FALSE
    <3>1. b \in ones
      BY <1>3, <2>1
    <3>. QED
      BY <1>2, <2>1, <3>1
  <2>2. ASSUME \A k \in WordsOf(n) : (v[k] \ w[k]) \cap Below(n, k) = {}, NEW i \in S
        PROVE  i \in T
    <3>1. PICK k \in WordsOf(n), b \in ones : i = At(k, b)
      BY <1>5
    <3>. QED
      BY <1>2, <2>2, <3>1
  <2>. QED
    BY <2>1, <2>2
<1>. QED
  BY <1>1, <1>6, <1>7, <1>8

LEMMA Comparisons ==
  ASSUME TypeOK
  PROVE  ComparisonsAreExact
<1>. SUFFICES ASSUME NEW s1 \in DOMAIN maps, NEW s2 \in DOMAIN maps,
                     NEW v, v = maps[s1], NEW w, w = maps[s2], NEW n, n = nbits
     PROVE  /\ bitmap_equal(v, w, n) <=> Bits(v, n) = Bits(w, n)
            /\ bitmap_intersects(v, w, n) <=> Bits(v, n) \cap Bits(w, n) # {}
            /\ bitmap_subset(v, w, n) <=> Bits(v, n) \subseteq Bits(w, n)
  BY DEF ComparisonsAreExact, Of
<1>1. Width /\ n \in Nat \ {0} /\ v \in Words(n) /\ w \in Words(n)
  BY Typed, WordsAreBits
<1>2. \A k \in WordsOf(n) : Valid(n, k) = Below(n, k)
  BY <1>1, MasksAre
<1>3. small_const_nbits(n) => WordsOf(n) = {0} /\ BITMAP_LAST_WORD_MASK(n) = Below(n, 0)
  <2>1. small_const_nbits(n) => n <= BITS_PER_LONG
    BY DEF small_const_nbits
  <2>. QED
    BY <1>1, <2>1, ShortCut
<1>4. bitmap_equal(v, w, n) <=> \A k \in WordsOf(n) : Xor(v[k], w[k]) \cap Below(n, k) = {}
  <2>1. CASE small_const_nbits(n)
    BY <1>3, <2>1 DEF bitmap_equal
  <2>2. CASE ~small_const_nbits(n)
    BY <1>2, <2>2 DEF bitmap_equal, __bitmap_equal
  <2>. QED
    BY <2>1, <2>2
<1>5. bitmap_intersects(v, w, n) <=> \E k \in WordsOf(n) : v[k] \cap w[k] \cap Below(n, k) # {}
  <2>1. CASE small_const_nbits(n)
    <3>1. (v[0] \cap Below(n, 0)) \cap w[0] = v[0] \cap w[0] \cap Below(n, 0)
      OBVIOUS
    <3>. QED
      BY <1>3, <2>1, <3>1 DEF bitmap_intersects, Masked
  <2>2. CASE ~small_const_nbits(n)
    BY <1>2, <2>2 DEF bitmap_intersects, __bitmap_intersects
  <2>. QED
    BY <2>1, <2>2
<1>6. bitmap_subset(v, w, n) <=> \A k \in WordsOf(n) : (v[k] \ w[k]) \cap Below(n, k) = {}
  <2>1. CASE small_const_nbits(n)
    <3>1. (v[0] \cap Below(n, 0)) \ w[0] = (v[0] \ w[0]) \cap Below(n, 0)
      OBVIOUS
    <3>. QED
      BY <1>3, <2>1, <3>1 DEF bitmap_subset, Masked
  <2>2. CASE ~small_const_nbits(n)
    BY <1>2, <2>2 DEF bitmap_subset, __bitmap_subset
  <2>. QED
    BY <2>1, <2>2
<1>. QED
  BY ONLY <1>1, <1>4, <1>5, <1>6, ComparisonWords

-----------------------------------------------------------------------------
(* The loops over the bits.                                                *)

\* A loop that goes on, from bit i below n, with next[i].
Forward(next, n) == next \in [0 .. (n - 1) -> 0 .. n] /\ \A i \in 0 .. (n - 1) : i < next[i]

LoopTurn(g, n, next, i) == IF i = n THEN <<>> ELSE <<i>> \o g[next[i]]

LoopTurns(g, low, n, next) == [i \in low .. n |-> LoopTurn(g, n, next, i)]

LEMMA LoopTurnsExist ==
  ASSUME NEW n \in Nat, NEW next, Forward(next, n)
  PROVE  \E g : g = LoopTurns(g, 0, n, next)
<1>1. PICK S : S = {m \in 0 .. n : ~\E g : g = LoopTurns(g, n - m, n, next)}
  OBVIOUS
<1>2. CASE S = {}
  <2>1. n \in 0 .. n /\ n - n = 0
    OBVIOUS
  <2>2. \E g : g = LoopTurns(g, n - n, n, next)
    BY <1>1, <1>2, <2>1
  <2>. QED
    BY <2>1, <2>2
<1>3. CASE S # {}
  <2>1. PICK m \in S : \A j \in S : m <= j
    <3>1. S \in SUBSET Nat
      BY <1>1
    <3>. QED
      BY <1>3, <3>1, LeastNat
  <2>2. PICK k : k = n - m
    OBVIOUS
  <2>3. m \in 0 .. n /\ k \in 0 .. n /\ m = n - k /\ ~\E g : g = LoopTurns(g, k, n, next)
    BY <1>1, <2>2
  <2>4. k # n
    <3>1. SUFFICES ASSUME k = n PROVE FALSE
      OBVIOUS
    <3>2. PICK g : g = [i \in n .. n |-> <<>>]
      OBVIOUS
    <3>3. \A i \in n .. n : LoopTurn(g, n, next, i) = <<>>
      BY DEF LoopTurn
    <3>4. g = LoopTurns(g, n, n, next)
      BY <3>2, <3>3 DEF LoopTurns
    <3>. QED
      BY <2>3, <3>1, <3>4
  <2>5. PICK f : f = LoopTurns(f, k + 1, n, next)
    <3>1. m - 1 \in 0 .. n /\ ~(m <= m - 1) /\ n - (m - 1) = k + 1
      BY <2>3, <2>4
    <3>2. \E f : f = LoopTurns(f, n - (m - 1), n, next)
      BY <1>1, <2>1, <3>1
    <3>. QED
      BY <3>1, <3>2
  <2>6. PICK g : g = [i \in k .. n |-> LoopTurn(f, n, next, i)]
    OBVIOUS
  <2>7. ASSUME NEW i \in (k + 1) .. n
        PROVE  g[i] = f[i]
    <3>1. i \in k .. n
      BY <2>3
    <3>2. g[i] = LoopTurn(f, n, next, i)
      BY <2>6, <3>1
    <3>3. PICK e : e = LoopTurns(f, k + 1, n, next)
      OBVIOUS
    <3>4. e[i] = LoopTurn(f, n, next, i)
      BY <3>3 DEF LoopTurns
    <3>. QED
      BY <2>5, <3>2, <3>3, <3>4
  <2>8. ASSUME NEW i \in k .. n
        PROVE  LoopTurn(g, n, next, i) = LoopTurn(f, n, next, i)
    <3>1. i # n => next[i] \in (k + 1) .. n
      <4>1. i # n => i \in 0 .. (n - 1)
        BY <2>3
      <4>2. i # n => next[i] \in 0 .. n /\ i < next[i]
        BY <4>1 DEF Forward
      <4>. QED
        BY <2>3, <4>2
    <3>2. i # n => g[next[i]] = f[next[i]]
      BY <2>7, <3>1
    <3>. QED
      BY <3>2 DEF LoopTurn
  <2>9. g = LoopTurns(g, k, n, next)
    BY <2>6, <2>8 DEF LoopTurns
  <2>. QED
    BY <2>3, <2>9
<1>. QED
  BY <1>2, <1>3

\* One more bit in front.
LEMMA VisitsMore ==
  ASSUME NEW i \in Nat, NEW q \in Seq(Nat), NEW T, Visits(q, T), \A x \in T : i < x
  PROVE  <<i>> \o q \in Seq(Nat) /\ Visits(<<i>> \o q, T \cup {i})
<1>1. PICK r : r = <<i>> \o q
  OBVIOUS
<1>2. PICK l : l = Len(q)
  OBVIOUS
<1>3. /\ l \in Nat /\ DOMAIN q = 1 .. l /\ \A j \in 1 .. l : q[j] \in Nat
  BY <1>2
<1>4. /\ r \in Seq(Nat) /\ DOMAIN r = 1 .. (l + 1) /\ r[1] = i
      /\ \A j \in 2 .. (l + 1) : r[j] = q[j - 1]
  BY <1>1, <1>2, <1>3
<1>5. /\ \A x \in T : \E j \in 1 .. l : q[j] = x
      /\ \A j \in 1 .. l : q[j] \in T
      /\ \A j, k \in 1 .. l : j < k => q[j] < q[k]
  BY <1>3 DEF Visits, ToSet
<1>6. ToSet(r) = T \cup {i}
  <2>1. ASSUME NEW x \in T
        PROVE  x \in ToSet(r)
    <3>1. PICK j \in 1 .. l : q[j] = x
      BY <1>5
    <3>2. j + 1 \in 2 .. (l + 1) /\ (j + 1) - 1 = j
      BY <1>3
    <3>3. r[j + 1] = x /\ j + 1 \in DOMAIN r
      BY <1>3, <1>4, <3>1, <3>2
    <3>. QED
      BY <3>3 DEF ToSet
  <2>2. i \in ToSet(r)
    <3>1. 1 \in DOMAIN r
      BY <1>3, <1>4
    <3>. QED
      BY <1>4, <3>1 DEF ToSet
  <2>3. ASSUME NEW j \in DOMAIN r
        PROVE  r[j] \in T \cup {i}
    <3>1. j = 1 \/ (j \in 2 .. (l + 1) /\ j - 1 \in 1 .. l)
      BY <1>3, <1>4
    <3>. QED
      BY <1>4, <1>5, <3>1
  <2>. QED
    BY <2>1, <2>2, <2>3 DEF ToSet
<1>7. ASSUME NEW j \in DOMAIN r, NEW k \in DOMAIN r, j < k
      PROVE  r[j] < r[k]
  <2>1. k \in 2 .. (l + 1) /\ k - 1 \in 1 .. l
    BY <1>3, <1>4, <1>7
  <2>2. CASE j = 1
    BY <1>4, <1>5, <2>1, <2>2
  <2>3. CASE j # 1
    <3>0. j \in 1 .. (l + 1) /\ k \in 1 .. (l + 1) /\ l \in Nat
      BY <1>3, <1>4
    <3>1. j \in 2 .. (l + 1) /\ j - 1 \in 1 .. l /\ j - 1 < k - 1
      BY <1>7, <2>3, <3>0
    <3>. QED
      BY <1>4, <1>5, <2>1, <3>1
  <2>. QED
    BY <2>2, <2>3
<1>. QED
  BY <1>1, <1>4, <1>6, <1>7 DEF Visits

LEMMA VisitsNone ==
  /\ <<>> \in Seq(Nat)
  /\ Visits(<<>>, {})
<1>1. DOMAIN <<>> = {}
  OBVIOUS
<1>. QED
  BY <1>1 DEF Visits, ToSet

\* next[i] is the first number of S behind i, or n.
Follows(next, S, n) ==
  /\ Forward(next, n)
  /\ \A i \in 0 .. (n - 1) : /\ next[i] = n \/ next[i] \in S
                             /\ \A x \in S : i < x => next[i] <= x

LEMMA LoopVisits ==
  ASSUME NEW n \in Nat, NEW S \in SUBSET (0 .. (n - 1)), NEW next, Follows(next, S, n),
         NEW g, g = LoopTurns(g, 0, n, next), NEW r \in S \cup {n}
  PROVE  g[r] \in Seq(Nat) /\ Visits(g[r], {x \in S : r <= x})
<1>1. PICK F : F = {i \in S \cup {n} : ~(g[i] \in Seq(Nat) /\ Visits(g[i], {x \in S : i <= x}))}
  OBVIOUS
<1>2. S \cup {n} \subseteq 0 .. n
  <2>1. \A x \in S : x \in 0 .. (n - 1)
    OBVIOUS
  <2>. QED
    BY <2>1
<1>3. ASSUME NEW i \in 0 .. n
      PROVE  g[i] = LoopTurn(g, n, next, i)
  <2>1. PICK e : e = LoopTurns(g, 0, n, next)
    OBVIOUS
  <2>2. e[i] = LoopTurn(g, n, next, i)
    BY <2>1 DEF LoopTurns
  <2>. QED
    BY <2>1, <2>2
<1>4. CASE F = {}
  BY <1>1, <1>4
<1>5. CASE F # {}
  <2>1. PICK k \in F : \A i \in F : i <= k
    <3>1. F \in SUBSET (0 .. n)
      BY <1>1, <1>2
    <3>. QED
      BY <1>5, <3>1, GreatestNat
  <2>2. /\ k \in S \cup {n} /\ k \in 0 .. n
        /\ ~(g[k] \in Seq(Nat) /\ Visits(g[k], {x \in S : k <= x}))
    BY <1>1, <1>2
  <2>3. CASE k = n
    <3>1. g[k] = <<>>
      BY <1>3, <2>2, <2>3 DEF LoopTurn
    <3>2. {x \in S : k <= x} = {}
      <4>1. \A x \in S : x \in 0 .. (n - 1)
        OBVIOUS
      <4>2. \A x \in S : ~(k <= x)
        BY <2>3, <4>1
      <4>. QED
        BY <4>2
    <3>. QED
      BY <2>2, <3>1, <3>2, VisitsNone
  <2>4. CASE k # n
    <3>1. PICK j : j = next[k]
      OBVIOUS
    <3>2. k \in S /\ k \in 0 .. (n - 1) /\ k \in Nat
      BY <2>2, <2>4
    <3>3. /\ j \in 0 .. n /\ k < j /\ j \in S \cup {n}
          /\ \A x \in S : k < x => j <= x
      BY <3>1, <3>2 DEF Follows, Forward
    <3>4. j \notin F
      BY <2>1, <3>2, <3>3
    <3>5. PICK T, q : T = {x \in S : j <= x} /\ q = g[j]
      OBVIOUS
    <3>6. q \in Seq(Nat) /\ Visits(q, T)
      BY <1>1, <3>3, <3>4, <3>5
    <3>7. \A x \in S : x \in Nat
      OBVIOUS
    <3>8. {x \in S : k <= x} = T \cup {k} /\ \A x \in T : k < x
      <4>1. \A x \in S : j <= x => k < x
        BY <3>2, <3>3, <3>7
      <4>2. \A x \in S : k <= x <=> x = k \/ k < x
        BY <3>2, <3>7
      <4>. QED
        BY <3>2, <3>3, <3>5, <4>1, <4>2
    <3>9. g[k] = <<k>> \o q
      BY <1>3, <2>2, <2>4, <3>1, <3>5 DEF LoopTurn
    <3>10. <<k>> \o q \in Seq(Nat) /\ Visits(<<k>> \o q, T \cup {k})
      BY ONLY <3>2, <3>6, <3>8, VisitsMore
    <3>. QED
      BY <2>2, <3>8, <3>9, <3>10
  <2>. QED
    BY <2>3, <2>4
<1>. QED
  BY <1>4, <1>5

\* The first number of S from i on, or n.
NextIn(S, n, i) == IF S \cap (i .. (n - 1)) = {} THEN n ELSE Min(S \cap (i .. (n - 1)))

LEMMA NextInIs ==
  ASSUME NEW n \in Nat, NEW S \in SUBSET (0 .. (n - 1)), NEW i \in Nat,
         NEW r, r = NextIn(S, n, i)
  PROVE  /\ r \in 0 .. n /\ (r = n \/ (r \in S /\ i <= r)) /\ (i <= n => i <= r)
         /\ \A x \in S : i <= x => r <= x
<1>1. PICK T : T = S \cap (i .. (n - 1))
  OBVIOUS
<1>2. \A x \in S : x \in 0 .. (n - 1)
  OBVIOUS
<1>3. \A x \in S : i <= x <=> x \in T
  BY <1>1, <1>2
<1>4. CASE T = {}
  <2>1. r = n
    BY <1>1, <1>4 DEF NextIn
  <2>. QED
    BY <1>3, <1>4, <2>1
<1>5. CASE T # {}
  <2>1. T \in SUBSET Nat
    BY <1>1, <1>2
  <2>2. r = Min(T)
    BY <1>1, <1>5 DEF NextIn
  <2>3. r \in T /\ \A x \in T : r <= x
    BY <1>5, <2>1, <2>2, LeastNat
  <2>4. r \in S /\ i <= r /\ r \in 0 .. (n - 1)
    BY <1>1, <1>2, <2>3
  <2>. QED
    BY <1>3, <2>3, <2>4
<1>. QED
  BY <1>4, <1>5

LEMMA NextFollows ==
  ASSUME NEW n \in Nat, NEW S \in SUBSET (0 .. (n - 1))
  PROVE  Follows([i \in 0 .. (n - 1) |-> NextIn(S, n, i + 1)], S, n)
<1>1. PICK next : next = [i \in 0 .. (n - 1) |-> NextIn(S, n, i + 1)]
  OBVIOUS
<1>2. ASSUME NEW i \in 0 .. (n - 1)
      PROVE  /\ next[i] \in 0 .. n /\ i < next[i] /\ (next[i] = n \/ next[i] \in S)
             /\ \A x \in S : i < x => next[i] <= x
  <2>1. PICK r : r = NextIn(S, n, i + 1)
    OBVIOUS
  <2>2. i + 1 \in Nat /\ i + 1 <= n
    OBVIOUS
  <2>3. /\ r \in 0 .. n /\ (r = n \/ r \in S) /\ i + 1 <= r
        /\ \A x \in S : i + 1 <= x => r <= x
    BY <2>1, <2>2, NextInIs
  <2>4. next[i] = r
    BY <1>1, <2>1
  <2>5. \A x \in S : x \in Nat
    OBVIOUS
  <2>. QED
    BY <2>3, <2>4, <2>5
<1>3. next \in [0 .. (n - 1) -> 0 .. n]
  BY <1>1, <1>2
<1>. QED
  BY <1>1, <1>2, <1>3 DEF Follows, Forward

\* A loop that starts with the first number of S from i on.
LEMMA LoopFrom ==
  ASSUME NEW n \in Nat, NEW S \in SUBSET (0 .. (n - 1)), NEW i \in Nat,
         NEW next, next = [j \in 0 .. (n - 1) |-> NextIn(S, n, j + 1)],
         NEW g, g = LoopTurns(g, 0, n, next), NEW r, r = NextIn(S, n, i)
  PROVE  g[r] \in Seq(Nat) /\ Visits(g[r], {x \in S : i <= x})
<1>1. /\ r \in 0 .. n /\ (r = n \/ (r \in S /\ i <= r)) /\ (i <= n => i <= r)
      /\ \A x \in S : i <= x => r <= x
  BY NextInIs
<1>2. Follows(next, S, n)
  BY NextFollows
<1>3. g[r] \in Seq(Nat) /\ Visits(g[r], {x \in S : r <= x})
  BY <1>1, <1>2, LoopVisits
<1>4. {x \in S : r <= x} = {x \in S : i <= x}
  <2>1. \A x \in S : x \in 0 .. (n - 1)
    OBVIOUS
  <2>2. \A x \in S : r <= x => i <= x
    BY <1>1, <2>1
  <2>. QED
    BY <1>1, <2>2
<1>. QED
  BY <1>3, <1>4

\* The searches for the next bit, in these words.
LEMMA NextBitsAre ==
  ASSUME Width, WordSearchesAreExact, NEW n \in Nat, NEW a, Readable(a, n), NEW i \in Nat
  PROVE  /\ find_next_bit(a, n, i) = NextIn(Bits(a, n), n, i)
         /\ find_next_zero_bit(a, n, i) = NextIn((0 .. (n - 1)) \ Bits(a, n), n, i)
<1>1. PICK S : S = Bits(a, n)
  OBVIOUS
<1>2. find_next_bit(a, n, i) = Sets!find_next_bit(S, n, i)
  BY <1>1, NextSetBit
<1>3. find_next_zero_bit(a, n, i) = Sets!find_next_zero_bit(S, n, i)
  BY <1>1, NextClearBit
<1>4. Sets!find_next_bit(S, n, i) = NextIn(S, n, i)
  BY DEF Sets!find_next_bit, Sets!Min, NextIn, Min
<1>5. PICK R : R = (i .. (n - 1)) \ S
  OBVIOUS
<1>6. ((0 .. (n - 1)) \ S) \cap (i .. (n - 1)) = R
  BY <1>5
<1>7. Sets!find_next_zero_bit(S, n, i) = IF R = {} THEN n ELSE Min(R)
  BY <1>5 DEF Sets!find_next_zero_bit, Sets!Min, Min
<1>8. NextIn((0 .. (n - 1)) \ S, n, i) = IF R = {} THEN n ELSE Min(R)
  BY <1>6 DEF NextIn
<1>. QED
  BY <1>1, <1>2, <1>3, <1>4, <1>7, <1>8

\* The loops over the set bits and over the clear ones are such loops.
SetTurns(g, a, n) ==
  [i \in 0 .. n |-> IF i = n THEN <<>> ELSE <<i>> \o g[find_next_bit(a, n, i + 1)]]

LEMMA SetLoopFrom ==
  ASSUME Width, WordSearchesAreExact, NEW n \in Nat, NEW a, Readable(a, n), NEW bit \in Nat,
         NEW S, S = Bits(a, n), NEW loop, loop = for_each_set_bit_from(a, n, bit)
  PROVE  loop \in Seq(Nat) /\ Visits(loop, {x \in S : bit <= x})
<1>1. S \in SUBSET (0 .. (n - 1))
  BY DEF Bits
<1>2. PICK next : next = [i \in 0 .. (n - 1) |-> NextIn(S, n, i + 1)]
  OBVIOUS
<1>3. \A i \in Nat : find_next_bit(a, n, i) = NextIn(S, n, i)
  BY NextBitsAre
<1>4. ASSUME NEW g
      PROVE  SetTurns(g, a, n) = LoopTurns(g, 0, n, next)
  <2>1. ASSUME NEW i \in 0 .. n
        PROVE  (IF i = n THEN <<>> ELSE <<i>> \o g[find_next_bit(a, n, i + 1)])
                 = LoopTurn(g, n, next, i)
    <3>1. i # n => i \in 0 .. (n - 1) /\ i + 1 \in Nat
      OBVIOUS
    <3>2. i # n => find_next_bit(a, n, i + 1) = next[i]
      BY <1>2, <1>3, <3>1
    <3>. QED
      BY <3>2 DEF LoopTurn
  <2>. QED
    BY <2>1 DEF SetTurns, LoopTurns
<1>5. \E g : g = SetTurns(g, a, n)
  <2>1. Forward(next, n)
    BY <1>1, <1>2, NextFollows DEF Follows
  <2>2. \E g : g = LoopTurns(g, 0, n, next)
    BY <2>1, LoopTurnsExist
  <2>. QED
    BY <1>4, <2>2
<1>6. PICK g : g = CHOOSE h : h = SetTurns(h, a, n)
  OBVIOUS
<1>7. g = SetTurns(g, a, n)
  BY <1>5, <1>6
<1>8. g = LoopTurns(g, 0, n, next)
  BY <1>4, <1>7
<1>9. PICK r : r = NextIn(S, n, bit)
  OBVIOUS
<1>10. loop = g[find_next_bit(a, n, bit)]
  BY <1>6 DEF for_each_set_bit_from, SetTurns
<1>11. loop = g[r]
  BY <1>3, <1>9, <1>10
<1>12. g[r] \in Seq(Nat) /\ Visits(g[r], {x \in S : bit <= x})
  BY <1>1, <1>2, <1>8, <1>9, LoopFrom
<1>. QED
  BY <1>11, <1>12

LEMMA SetLoop ==
  ASSUME Width, WordSearchesAreExact, NEW n \in Nat, NEW a, Readable(a, n),
         NEW S, S = Bits(a, n), NEW first, first = find_first_bit(a, n), first = NextIn(S, n, 0)
  PROVE  Visits(for_each_set_bit(a, n), S)
<1>1. S \in SUBSET (0 .. (n - 1)) /\ \A x \in S : x \in 0 .. (n - 1)
  BY DEF Bits
<1>2. /\ first \in 0 .. n /\ (first = n \/ first \in S)
      /\ \A x \in S : 0 <= x => first <= x
  BY <1>1, NextInIs
<1>3. CASE first >= n
  <2>1. \A x \in S : FALSE
    BY <1>1, <1>2, <1>3
  <2>2. for_each_set_bit(a, n) = <<>>
    BY <1>3 DEF for_each_set_bit
  <2>3. S = {}
    BY <2>1
  <2>. QED
    BY <2>2, <2>3, VisitsNone
<1>4. CASE ~(first >= n)
  <2>1. first \in S /\ first \in Nat /\ first + 1 \in Nat
    BY <1>2, <1>4
  <2>2. PICK q, T : /\ q = for_each_set_bit_from(a, n, first + 1)
                    /\ T = {x \in S : first + 1 <= x}
    OBVIOUS
  <2>3. q \in Seq(Nat) /\ Visits(q, T)
    BY <2>1, <2>2, SetLoopFrom
  <2>4. \A x \in T : first < x
    BY <1>1, <2>1, <2>2
  <2>5. T \cup {first} = S
    <3>1. \A x \in S : x = first \/ first + 1 <= x
      BY <1>1, <1>2, <2>1
    <3>. QED
      BY <2>1, <2>2, <3>1
  <2>6. Visits(<<first>> \o q, T \cup {first})
    BY ONLY <2>1, <2>3, <2>4, VisitsMore
  <2>7. for_each_set_bit(a, n) = <<first>> \o q
    BY <1>4, <2>2 DEF for_each_set_bit
  <2>. QED
    BY <2>5, <2>6, <2>7
<1>. QED
  BY <1>3, <1>4

ClearTurns(g, a, n) ==
  [i \in 0 .. n |-> IF i = n THEN <<>> ELSE <<i>> \o g[find_next_zero_bit(a, n, i + 1)]]

LEMMA ClearLoopFrom ==
  ASSUME Width, WordSearchesAreExact, NEW n \in Nat, NEW a, Readable(a, n), NEW bit \in Nat,
         NEW S, S = (0 .. (n - 1)) \ Bits(a, n), NEW loop, loop = for_each_clear_bit_from(a, n, bit)
  PROVE  loop \in Seq(Nat) /\ Visits(loop, {x \in S : bit <= x})
<1>1. S \in SUBSET (0 .. (n - 1))
  BY DEF Bits
<1>2. PICK next : next = [i \in 0 .. (n - 1) |-> NextIn(S, n, i + 1)]
  OBVIOUS
<1>3. \A i \in Nat : find_next_zero_bit(a, n, i) = NextIn(S, n, i)
  BY NextBitsAre
<1>4. ASSUME NEW g
      PROVE  ClearTurns(g, a, n) = LoopTurns(g, 0, n, next)
  <2>1. ASSUME NEW i \in 0 .. n
        PROVE  (IF i = n THEN <<>> ELSE <<i>> \o g[find_next_zero_bit(a, n, i + 1)])
                 = LoopTurn(g, n, next, i)
    <3>1. i # n => i \in 0 .. (n - 1) /\ i + 1 \in Nat
      OBVIOUS
    <3>2. i # n => find_next_zero_bit(a, n, i + 1) = next[i]
      BY <1>2, <1>3, <3>1
    <3>. QED
      BY <3>2 DEF LoopTurn
  <2>. QED
    BY <2>1 DEF ClearTurns, LoopTurns
<1>5. \E g : g = ClearTurns(g, a, n)
  <2>1. Forward(next, n)
    BY <1>1, <1>2, NextFollows DEF Follows
  <2>2. \E g : g = LoopTurns(g, 0, n, next)
    BY <2>1, LoopTurnsExist
  <2>. QED
    BY <1>4, <2>2
<1>6. PICK g : g = CHOOSE h : h = ClearTurns(h, a, n)
  OBVIOUS
<1>7. g = ClearTurns(g, a, n)
  BY <1>5, <1>6
<1>8. g = LoopTurns(g, 0, n, next)
  BY <1>4, <1>7
<1>9. PICK r : r = NextIn(S, n, bit)
  OBVIOUS
<1>10. loop = g[find_next_zero_bit(a, n, bit)]
  BY <1>6 DEF for_each_clear_bit_from, ClearTurns
<1>11. loop = g[r]
  BY <1>3, <1>9, <1>10
<1>12. g[r] \in Seq(Nat) /\ Visits(g[r], {x \in S : bit <= x})
  BY <1>1, <1>2, <1>8, <1>9, LoopFrom
<1>. QED
  BY <1>11, <1>12

LEMMA ClearLoop ==
  ASSUME Width, WordSearchesAreExact, NEW n \in Nat, NEW a, Readable(a, n),
         NEW S, S = (0 .. (n - 1)) \ Bits(a, n), NEW first, first = find_first_zero_bit(a, n), first = NextIn(S, n, 0)
  PROVE  Visits(for_each_clear_bit(a, n), S)
<1>1. S \in SUBSET (0 .. (n - 1)) /\ \A x \in S : x \in 0 .. (n - 1)
  BY DEF Bits
<1>2. /\ first \in 0 .. n /\ (first = n \/ first \in S)
      /\ \A x \in S : 0 <= x => first <= x
  BY <1>1, NextInIs
<1>3. CASE first >= n
  <2>1. \A x \in S : FALSE
    BY <1>1, <1>2, <1>3
  <2>2. for_each_clear_bit(a, n) = <<>>
    BY <1>3 DEF for_each_clear_bit
  <2>3. S = {}
    BY <2>1
  <2>. QED
    BY <2>2, <2>3, VisitsNone
<1>4. CASE ~(first >= n)
  <2>1. first \in S /\ first \in Nat /\ first + 1 \in Nat
    BY <1>2, <1>4
  <2>2. PICK q, T : /\ q = for_each_clear_bit_from(a, n, first + 1)
                    /\ T = {x \in S : first + 1 <= x}
    OBVIOUS
  <2>3. q \in Seq(Nat) /\ Visits(q, T)
    BY <2>1, <2>2, ClearLoopFrom
  <2>4. \A x \in T : first < x
    BY <1>1, <2>1, <2>2
  <2>5. T \cup {first} = S
    <3>1. \A x \in S : x = first \/ first + 1 <= x
      BY <1>1, <1>2, <2>1
    <3>. QED
      BY <2>1, <2>2, <3>1
  <2>6. Visits(<<first>> \o q, T \cup {first})
    BY ONLY <2>1, <2>3, <2>4, VisitsMore
  <2>7. for_each_clear_bit(a, n) = <<first>> \o q
    BY <1>4, <2>2 DEF for_each_clear_bit
  <2>. QED
    BY <2>5, <2>6, <2>7
<1>. QED
  BY <1>3, <1>4

\* The first bit is the next one from the start on.
LEMMA FirstBitsAre ==
  ASSUME Width, WordSearchesAreExact, NEW n \in Nat, NEW a, Readable(a, n)
  PROVE  /\ find_first_bit(a, n) = NextIn(Bits(a, n), n, 0)
         /\ find_first_zero_bit(a, n) = NextIn((0 .. (n - 1)) \ Bits(a, n), n, 0)
<1>1. PICK S, T : S = Bits(a, n) /\ T = (0 .. (n - 1)) \ S
  OBVIOUS
<1>2. S \cap (0 .. (n - 1)) = S /\ T \cap (0 .. (n - 1)) = T
  BY <1>1 DEF Bits
<1>3. /\ NextIn(S, n, 0) = IF S = {} THEN n ELSE Min(S)
      /\ NextIn(T, n, 0) = IF T = {} THEN n ELSE Min(T)
  BY <1>2 DEF NextIn
<1>4. CASE n = 0
  <2>1. S = {} /\ T = {}
    BY <1>1, <1>4 DEF Bits
  <2>. QED
    BY <1>1, <1>3, <1>4, <2>1, NothingToSearch
<1>5. CASE n # 0
  <2>1. n \in Nat \ {0}
    BY <1>5
  <2>2. find_first_bit(a, n) = Sets!find_next_bit(S, n, 0)
    BY <1>1, <2>1, FirstBit
  <2>3. find_first_zero_bit(a, n) = Sets!find_first_zero_bit(S, n)
    BY <1>1, <2>1, FirstZeroBit
  <2>4. Sets!find_next_bit(S, n, 0) = NextIn(S, n, 0)
    BY DEF Sets!find_next_bit, Sets!Min, NextIn, Min
  <2>5. Sets!find_first_zero_bit(S, n) = IF T = {} THEN n ELSE Min(T)
    BY <1>1 DEF Sets!find_first_zero_bit, Sets!Min, Min
  <2>. QED
    BY <1>1, <1>3, <2>2, <2>3, <2>4, <2>5
<1>. QED
  BY <1>4, <1>5

AllVisit(a, n, bits) ==
  /\ Visits(for_each_set_bit(a, n), bits)
  /\ Visits(for_each_clear_bit(a, n), (0 .. (n - 1)) \ bits)
  /\ \A i \in Nat :
       /\ Visits(for_each_set_bit_from(a, n, i), {b \in bits : b >= i})
       /\ Visits(for_each_clear_bit_from(a, n, i), (i .. (n - 1)) \ bits)

LEMMA AllLoops ==
  ASSUME Width, WordSearchesAreExact, NEW n \in Nat, NEW a, Readable(a, n),
         NEW bits, bits = Bits(a, n)
  PROVE  AllVisit(a, n, bits)
<1>1. Visits(for_each_set_bit(a, n), bits)
  <2>1. PICK first : first = find_first_bit(a, n)
    OBVIOUS
  <2>2. first = NextIn(bits, n, 0)
    BY <2>1, FirstBitsAre
  <2>. QED
    BY <2>1, <2>2, SetLoop
<1>2. Visits(for_each_clear_bit(a, n), (0 .. (n - 1)) \ bits)
  <2>1. PICK first, S : first = find_first_zero_bit(a, n) /\ S = (0 .. (n - 1)) \ bits
    OBVIOUS
  <2>2. first = NextIn(S, n, 0)
    BY <2>1, FirstBitsAre
  <2>. QED
    BY <2>1, <2>2, ClearLoop
<1>3. ASSUME NEW i \in Nat
      PROVE  /\ Visits(for_each_set_bit_from(a, n, i), {b \in bits : b >= i})
             /\ Visits(for_each_clear_bit_from(a, n, i), (i .. (n - 1)) \ bits)
  <2>1. PICK S, T : S = bits /\ T = (0 .. (n - 1)) \ bits
    OBVIOUS
  <2>2. Visits(for_each_set_bit_from(a, n, i), {x \in S : i <= x})
    BY <2>1, SetLoopFrom
  <2>3. Visits(for_each_clear_bit_from(a, n, i), {x \in T : i <= x})
    BY <2>1, ClearLoopFrom
  <2>4. {x \in S : i <= x} = {b \in bits : b >= i}
    <3>1. \A x \in S : x \in 0 .. (n - 1)
      BY <2>1 DEF Bits
    <3>2. \A x \in S : i <= x <=> x >= i
      BY <3>1
    <3>. QED
      BY <2>1, <3>2
  <2>5. {x \in T : i <= x} = (i .. (n - 1)) \ bits
    BY <2>1
  <2>. QED
    BY <2>2, <2>3, <2>4, <2>5
<1>. QED
  BY <1>1, <1>2, <1>3 DEF AllVisit

\* The bits the loop over the set bits visits are those bits.
LEMMA FoldVisits ==
  ASSUME Width, WordSearchesAreExact, NEW N \in Nat \ {0}, NEW D, NEW m, m \in Maps(D, N),
         NEW s \in D
  PROVE  ToSet(for_each_set_bit(m[s], N)) = Bits(m[s], N)
<1>1. m[s] \in Words(N) /\ N \in Nat /\ N \in 0 .. N
  BY WordsAreBits
<1>2. Readable(m[s], N)
  BY <1>1, ReadableParts
<1>. QED
  BY <1>1, <1>2, AllLoops DEF AllVisit, Visits

FoldedWords(visited, sz, N) ==
  [k \in WordsOf(N) |-> {b \in ones : \E old \in visited : old % sz = k * BITS_PER_LONG + b}]

\* Folded bits are below the size they are folded to, so in a word of the
\* bitmap.
LEMMA FoldStores ==
  ASSUME Width, WordSearchesAreExact, NEW N \in Nat \ {0}, NEW D, NEW m, m \in Maps(D, N),
         NEW d \in D, NEW s \in D, d # s, NEW sz \in 1 .. N,
         NEW visited, visited = ToSet(for_each_set_bit(m[s], N))
  PROVE  Stores(bitmap_fold(m, d, s, sz, N), m, D, N, d, FoldedWords(visited, sz, N))
<1>1. PICK v, ks : /\ v = FoldedWords(visited, sz, N)
                   /\ ks = WordsOf(N) \cup {BIT_WORD(old % sz) : old \in visited}
  OBVIOUS
<1>2. ks = WordsOf(N)
  <2>. SUFFICES ASSUME NEW old \in visited PROVE BIT_WORD(old % sz) \in WordsOf(N)
    BY <1>1
  <2>1. old \in Nat
    BY FoldVisits, BitsAre
  <2>2. PICK r : r = old % sz
    OBVIOUS
  <2>3. r \in Nat /\ r < N
    <3>1. sz \in Nat \ {0} /\ old \in Int
      BY <2>1
    <3>2. r \in 0 .. (sz - 1)
      BY <2>2, <3>1, DivMod
    <3>. QED
      BY <3>2
  <2>4. PICK c, p : c = BIT_WORD(r) /\ p = r % BITS_PER_LONG
    OBVIOUS
  <2>5. c \in Nat /\ p \in ones /\ At(c, p) = r
    BY <2>3, <2>4, PlaceOf
  <2>6. c * BITS_PER_LONG < N
    <3>1. c * BITS_PER_LONG \in Int /\ p \in Nat
      BY <2>5 DEF ones, Width
    <3>. QED
      BY <2>3, <2>5, <3>1 DEF At
  <2>. QED
    BY <2>2, <2>4, <2>5, <2>6, WordsAre
<1>3. DOMAIN m[d] = WordsOf(N)
  BY WordsAreBits
<1>4. v \in Words(N)
  BY <1>1 DEF FoldedWords, Words
<1>5. [k \in DOMAIN m[d] \cup ks |->
         IF k \in ks THEN {b \in ones : \E old \in visited : old % sz = k * BITS_PER_LONG + b}
         ELSE m[d][k]] = v
  <2>1. DOMAIN m[d] \cup ks = ks
    BY <1>2, <1>3
  <2>. QED
    BY ONLY <1>1, <1>2, <2>1 DEF FoldedWords
<1>6. PICK r : r = bitmap_fold(m, d, s, sz, N)
  OBVIOUS
<1>7. r = [m EXCEPT ![d] = v]
  <2>1. r = [m EXCEPT ![d] = [k \in DOMAIN m[d] \cup ks |->
               IF k \in ks
               THEN {b \in ones : \E old \in visited : old % sz = k * BITS_PER_LONG + b}
               ELSE m[d][k]]]
    BY <1>1, <1>6 DEF bitmap_fold, ForEach
  <2>. QED
    BY ONLY <1>5, <2>1
<1>8. Stores(r, m, D, N, d, v)
  BY ONLY <1>4, <1>7, m \in Maps(D, N), d \in D, StoredLoop
<1>. QED
  BY <1>1, <1>6, <1>8

\* Folding takes the bits the loop visits.
LEMMA FoldBits ==
  ASSUME Width, WordSearchesAreExact, NEW N \in Nat \ {0}, NEW D, NEW m, m \in Maps(D, N),
         NEW d \in D, NEW s \in D, d # s, NEW sz \in 1 .. N
  PROVE  AllBits(bitmap_fold(m, d, s, sz, N)[d], N) = {i % sz : i \in Bits(m[s], N)}
<1>1. PICK visited, v, S : /\ visited = ToSet(for_each_set_bit(m[s], N))
                           /\ v = FoldedWords(visited, sz, N)
                           /\ S = {i % sz : i \in Bits(m[s], N)}
  OBVIOUS
<1>2. visited = Bits(m[s], N)
  BY <1>1, FoldVisits
<1>3. bitmap_fold(m, d, s, sz, N)[d] = v
  BY <1>1, FoldStores DEF Stores
<1>5. InStorage(S, N)
  <2>1. \A i \in Bits(m[s], N) : i \in Nat
    BY BitsAre
  <2>2. ASSUME NEW i \in Nat
        PROVE  i % sz \in 0 .. (N - 1)
    <3>1. sz \in Nat \ {0} /\ i \in Int
      OBVIOUS
    <3>2. PICK r : r = i % sz
      OBVIOUS
    <3>3. r \in 0 .. (sz - 1)
      BY <3>1, <3>2, DivMod
    <3>. QED
      BY <3>2, <3>3
  <2>3. S \subseteq 0 .. (N - 1)
    BY <1>1, <2>1, <2>2
  <2>. QED
    BY <2>3, StorageHoldsSize DEF InStorage
<1>6. WordsSpell(v, S, N)
  <2>. SUFFICES ASSUME NEW k \in WordsOf(N), NEW b \in ones
       PROVE  b \in v[k] <=> At(k, b) \in S
    BY DEF WordsSpell
  <2>1. b \in v[k] <=> \E old \in visited : old % sz = k * BITS_PER_LONG + b
    BY <1>1 DEF FoldedWords
  <2>2. At(k, b) \in S <=> \E i \in visited : i % sz = At(k, b)
    BY <1>1, <1>2
  <2>. QED
    BY <2>1, <2>2 DEF At
<1>. QED
  BY <1>1, <1>3, <1>5, <1>6, StoredBits

-----------------------------------------------------------------------------
(* The search for a free area.                                             *)

\* From a start it stops at val[start], or goes on behind what is in the way.
AreaTurn(g, stop, val, next, i) == IF stop[i] THEN val[i] ELSE g[next[i]]

AreaTurns(g, low, n, stop, val, next) == [i \in low .. n |-> AreaTurn(g, stop, val, next, i)]

LEMMA AreaTurnsExist ==
  ASSUME NEW n \in Nat, NEW stop, NEW val, NEW next,
         \A i \in 0 .. n : ~stop[i] => next[i] \in (i + 1) .. n
  PROVE  \E g : g = AreaTurns(g, 0, n, stop, val, next)
<1>1. PICK S : S = {m \in 0 .. n : ~\E g : g = AreaTurns(g, n - m, n, stop, val, next)}
  OBVIOUS
<1>2. CASE S = {}
  <2>1. n \in 0 .. n /\ n - n = 0
    OBVIOUS
  <2>2. \E g : g = AreaTurns(g, n - n, n, stop, val, next)
    BY <1>1, <1>2, <2>1
  <2>. QED
    BY <2>1, <2>2
<1>3. CASE S # {}
  <2>1. PICK m \in S : \A j \in S : m <= j
    <3>1. S \in SUBSET Nat
      BY <1>1
    <3>. QED
      BY <1>3, <3>1, LeastNat
  <2>2. PICK k : k = n - m
    OBVIOUS
  <2>3. /\ m \in 0 .. n /\ k \in 0 .. n /\ m = n - k
        /\ ~\E g : g = AreaTurns(g, k, n, stop, val, next)
    BY <1>1, <2>2
  <2>4. \E f : k # n => f = AreaTurns(f, k + 1, n, stop, val, next)
    <3>1. CASE k = n
      BY <3>1
    <3>2. CASE k # n
      <4>1. m - 1 \in 0 .. n /\ ~(m <= m - 1) /\ n - (m - 1) = k + 1
        BY <2>3, <3>2
      <4>2. \E f : f = AreaTurns(f, n - (m - 1), n, stop, val, next)
        BY <1>1, <2>1, <4>1
      <4>. QED
        BY <4>1, <4>2
    <3>. QED
      BY <3>1, <3>2
  <2>5. PICK f : k # n => f = AreaTurns(f, k + 1, n, stop, val, next)
    BY <2>4
  <2>6. PICK g : g = [i \in k .. n |-> AreaTurn(f, stop, val, next, i)]
    OBVIOUS
  <2>7. ASSUME NEW i \in (k + 1) .. n
        PROVE  g[i] = f[i]
    <3>1. i \in k .. n /\ k # n
      BY <2>3
    <3>2. g[i] = AreaTurn(f, stop, val, next, i)
      BY <2>6, <3>1
    <3>3. PICK e : e = AreaTurns(f, k + 1, n, stop, val, next)
      OBVIOUS
    <3>4. e[i] = AreaTurn(f, stop, val, next, i)
      BY <3>3 DEF AreaTurns
    <3>. QED
      BY <2>5, <3>1, <3>2, <3>3, <3>4
  <2>8. ASSUME NEW i \in k .. n
        PROVE  AreaTurn(g, stop, val, next, i) = AreaTurn(f, stop, val, next, i)
    <3>1. ~stop[i] => next[i] \in (k + 1) .. n
      <4>1. i \in 0 .. n
        BY <2>3
      <4>2. ~stop[i] => next[i] \in (i + 1) .. n
        BY <4>1
      <4>. QED
        BY <2>3, <4>1, <4>2
    <3>2. ~stop[i] => g[next[i]] = f[next[i]]
      BY <2>7, <3>1
    <3>. QED
      BY <3>2 DEF AreaTurn
  <2>9. g = AreaTurns(g, k, n, stop, val, next)
    BY <2>6, <2>8 DEF AreaTurns
  <2>. QED
    BY <2>3, <2>9
<1>. QED
  BY <1>2, <1>3

IsAligned(p, mask, off) == (p + off) % (mask + 1) = 0

\* Where an area of nr bits at or after position from can begin.
Fits(free, n, from, nr, mask, off) ==
  {p \in from .. (n - nr) : p .. (p + nr - 1) \subseteq free /\ IsAligned(p, mask, off)}

\* The answer of a search from i is right.
Fitting(x, F, n) == IF F = {} THEN x > n ELSE x = Min(F)

\* index, the first aligned position from the first free bit on.
FirstAligned(index, z, mask, off) ==
  /\ index \in Nat /\ z <= index /\ IsAligned(index, mask, off)
  /\ \A p \in Nat : z <= p /\ IsAligned(p, mask, off) => index <= p

LEMMA AlignedIs ==
  ASSUME NEW mask \in {0, 1}, NEW off \in {0, 1}, NEW z \in Nat,
         NEW index, index = ALIGN_MASK(z + off, mask) - off
  PROVE  FirstAligned(index, z, mask, off)
<1>1. CASE mask = 0
  <2>1. index = z
    BY <1>1 DEF ALIGN_MASK
  <2>2. \A p \in Nat : (p + off) % 1 = 0
    OBVIOUS
  <2>. QED
    BY <1>1, <2>1, <2>2 DEF IsAligned, FirstAligned
<1>2. CASE mask = 1
  <2>1. PICK x, q : x = z + off /\ q = (x + 1) \div 2
    OBVIOUS
  <2>2. x \in Nat /\ q \in Nat /\ (x + 1 = 2 * q \/ x + 1 = 2 * q + 1)
    BY <2>1
  <2>3. index = 2 * q - off
    BY <1>2, <2>1, <2>2 DEF ALIGN_MASK
  <2>4. index \in Nat /\ z <= index
    BY <2>1, <2>2, <2>3
  <2>5. (index + off) % 2 = 0
    <3>1. index + off = 2 * q
      BY <2>2, <2>3
    <3>. QED
      BY <2>2, <3>1
  <2>6. ASSUME NEW p \in Nat, z <= p, (p + off) % 2 = 0
        PROVE  index <= p
    <3>1. PICK y : y = (p + off) \div 2
      OBVIOUS
    <3>2. y \in Nat /\ p + off = 2 * y
      BY <2>6, <3>1
    <3>. QED
      BY <2>1, <2>2, <2>3, <2>6, <3>2
  <2>. QED
    BY <1>2, <2>4, <2>5, <2>6 DEF IsAligned, FirstAligned
<1>. QED
  BY <1>1, <1>2

\* The area at index either ends too late, or is hit by a set bit, or fits.
AreaAt(free, n, nr, mask, off, i, index, end, hit) ==
  /\ index \in Nat /\ i <= index /\ end \in Nat
  /\ end > n => Fits(free, n, i, nr, mask, off) = {}
  /\ end <= n /\ hit < end =>
       /\ hit + 1 \in (i + 1) .. n
       /\ Fits(free, n, i, nr, mask, off) = Fits(free, n, hit + 1, nr, mask, off)
  /\ end <= n /\ ~(hit < end) =>
       /\ index \in Fits(free, n, i, nr, mask, off)
       /\ index = Min(Fits(free, n, i, nr, mask, off))

\* One turn: z is the first free bit from i on, index the aligned position,
\* hit the first set bit of the area there, if it has one.
LEMMA AreaTurnIs ==
  ASSUME NEW n \in Nat \ {0}, NEW bits \in SUBSET (0 .. (n - 1)),
         NEW free, free = (0 .. (n - 1)) \ bits,
         NEW nr \in 1 .. n, NEW mask \in {0, 1}, NEW off \in {0, 1}, NEW i \in 0 .. n,
         NEW z, z = NextIn(free, n, i),
         NEW index, index = ALIGN_MASK(z + off, mask) - off,
         NEW end, end = index + nr,
         NEW hit, hit = NextIn(bits \cap (0 .. (end - 1)), end, index)
  PROVE  AreaAt(free, n, nr, mask, off, i, index, end, hit)
<1>1. /\ free \in SUBSET (0 .. (n - 1)) /\ n \in Nat /\ i \in Nat /\ nr \in Nat /\ nr >= 1
      /\ off \in Nat
  OBVIOUS
<1>2. /\ z \in Nat /\ i <= z /\ \A x \in free : i <= x => z <= x
  BY <1>1, NextInIs
<1>3. /\ index \in Nat /\ z <= index /\ IsAligned(index, mask, off)
      /\ \A p \in Nat : z <= p /\ IsAligned(p, mask, off) => index <= p
  <2>1. /\ mask \in {0, 1} /\ off \in {0, 1} /\ z \in Nat
        /\ index = ALIGN_MASK(z + off, mask) - off
    BY <1>2
  <2>2. FirstAligned(index, z, mask, off)
    BY ONLY <2>1, AlignedIs
  <2>. QED
    BY <2>2 DEF FirstAligned
<1>4. PICK F : F = Fits(free, n, i, nr, mask, off)
  OBVIOUS
<1>5. ASSUME NEW p \in F
      PROVE  /\ p \in i .. (n - nr) /\ p .. (p + nr - 1) \subseteq free
             /\ IsAligned(p, mask, off) /\ p \in Nat /\ index <= p
  <2>1. /\ p \in i .. (n - nr) /\ p .. (p + nr - 1) \subseteq free
        /\ IsAligned(p, mask, off)
    BY <1>4 DEF Fits
  <2>2. p \in Nat /\ i <= p /\ p \in p .. (p + nr - 1)
    BY <1>1, <2>1
  <2>3. z <= p
    BY <1>2, <2>1, <2>2
  <2>. QED
    BY <1>3, <2>1, <2>2, <2>3
<1>6. i <= index /\ end \in Nat
  BY <1>1, <1>2, <1>3
<1>7. end > n => F = {}
  <2>. SUFFICES ASSUME end > n, NEW p \in F PROVE FALSE
    OBVIOUS
  <2>1. p \in i .. (n - nr) /\ p \in Nat /\ index <= p
    BY <1>5
  <2>. QED
    BY <1>1, <1>3, <2>1
<1>8. ASSUME end <= n
      PROVE  /\ hit < end => hit + 1 \in (i + 1) .. n /\ F = Fits(free, n, hit + 1, nr, mask, off)
             /\ ~(hit < end) => index \in F /\ index = Min(F)
  <2>1. PICK S : S = bits \cap (0 .. (end - 1))
    OBVIOUS
  <2>2. S \in SUBSET (0 .. (end - 1))
    BY <2>1
  <2>3. /\ hit \in 0 .. end /\ (hit = end \/ (hit \in S /\ index <= hit))
        /\ \A x \in S : index <= x => hit <= x
    <3>1. end \in Nat /\ index \in Nat /\ hit = NextIn(S, end, index)
      BY <1>3, <1>6, <1>8, <2>1
    <3>. QED
      BY ONLY <2>2, <3>1, NextInIs
  <2>4. CASE hit < end
    <3>1. hit \in bits /\ index <= hit /\ hit \in Nat
      BY <1>6, <2>1, <2>3, <2>4
    <3>2. hit + 1 \in (i + 1) .. n
      BY <1>1, <1>3, <1>6, <1>8, <2>4, <3>1
    <3>3. ASSUME NEW p \in F
          PROVE  p \in (hit + 1) .. (n - nr)
      <4>1. /\ p \in i .. (n - nr) /\ p .. (p + nr - 1) \subseteq free /\ p \in Nat /\ index <= p
        BY <1>5
      <4>2. hit \notin free
        BY <3>1
      <4>3. hit \notin p .. (p + nr - 1)
        BY <4>1, <4>2
      <4>4. hit <= p + nr - 1
        BY <1>1, <1>3, <2>4, <3>1, <4>1
      <4>5. hit < p
        BY <1>1, <3>1, <4>1, <4>3, <4>4
      <4>. QED
        BY <3>1, <4>1, <4>5
    <3>4. \A p \in (hit + 1) .. (n - nr) : p \in i .. (n - nr)
      BY <1>1, <3>1, <3>2
    <3>5. F = Fits(free, n, hit + 1, nr, mask, off)
      BY <1>4, <3>3, <3>4 DEF Fits
    <3>. QED
      BY <2>4, <3>2, <3>5
  <2>5. CASE ~(hit < end)
    <3>1. ASSUME NEW x \in index .. (index + nr - 1)
          PROVE  x \in free
      <4>1. x \in Nat /\ index <= x /\ x < end
        BY <1>1, <1>3
      <4>2. x \in 0 .. (end - 1) /\ x \in 0 .. (n - 1)
        BY <1>1, <1>6, <1>8, <4>1
      <4>3. hit = end
        BY <1>6, <2>3, <2>5
      <4>4. x \notin S
        <5>1. \A y \in S : index <= y => end <= y
          BY <2>3, <4>3
        <5>2. ~(end <= x)
          BY <1>6, <4>1
        <5>. QED
          BY <4>1, <5>1, <5>2
      <4>. QED
        BY <2>1, <4>2, <4>4
    <3>2. index \in i .. (n - nr)
      BY <1>1, <1>3, <1>6, <1>8
    <3>3. index \in F
      BY <1>3, <1>4, <3>1, <3>2 DEF Fits
    <3>4. F \in SUBSET Nat /\ \A p \in F : index <= p
      BY <1>5
    <3>5. Min(F) = index
      BY <3>3, <3>4, MinIs
    <3>. QED
      BY <2>5, <3>3, <3>5
  <2>. QED
    BY <2>4, <2>5
<1>. QED
  BY <1>3, <1>4, <1>6, <1>7, <1>8 DEF AreaAt

\* The turns of the model.
AreaIndex(a, n, mask, off, i) == ALIGN_MASK(find_next_zero_bit(a, n, i) + off, mask) - off

SearchTurns(g, a, n, nr, mask, off) ==
  [from \in 0 .. n |->
     LET index == ALIGN_MASK(find_next_zero_bit(a, n, from) + off, mask) - off
         end   == index + nr
         i     == find_next_bit(a, end, index)
     IN  IF end > n THEN end
         ELSE IF i < end THEN g[i + 1]
         ELSE index]

\* The bits of a part of the bitmap are those below its end.
LEMMA PartBits ==
  ASSUME NEW n \in Nat, NEW e \in Nat, e <= n, NEW a
  PROVE  Bits(a, e) = Bits(a, n) \cap (0 .. (e - 1))
BY DEF Bits

LEMMA AreaFound ==
  ASSUME Width, WordSearchesAreExact, NEW n \in Nat \ {0}, NEW a, a \in Words(n),
         NEW bits, bits = Bits(a, n), NEW free, free = (0 .. (n - 1)) \ bits,
         NEW start \in 0 .. n, NEW nr \in 1 .. n, NEW mask \in {0, 1}, NEW off \in {0, 1}
  PROVE  Fitting(bitmap_find_next_zero_area_off(a, n, start, nr, mask, off),
                 Fits(free, n, start, nr, mask, off), n)
<1>1. bits \in SUBSET (0 .. (n - 1)) /\ n \in Nat /\ nr \in Nat /\ n \in 0 .. n
  BY DEF Bits
<1>2. PICK z, index, end, hit :
        /\ z = [i \in 0 .. n |-> NextIn(free, n, i)]
        /\ index = [i \in 0 .. n |-> ALIGN_MASK(z[i] + off, mask) - off]
        /\ end = [i \in 0 .. n |-> index[i] + nr]
        /\ hit = [i \in 0 .. n |-> NextIn(bits \cap (0 .. (end[i] - 1)), end[i], index[i])]
  OBVIOUS
<1>3. ASSUME NEW i \in 0 .. n
      PROVE  /\ z[i] = NextIn(free, n, i) /\ index[i] = ALIGN_MASK(z[i] + off, mask) - off
             /\ end[i] = index[i] + nr
             /\ hit[i] = NextIn(bits \cap (0 .. (end[i] - 1)), end[i], index[i])
  BY <1>2
<1>4. ASSUME NEW i \in 0 .. n
      PROVE  AreaAt(free, n, nr, mask, off, i, index[i], end[i], hit[i])
  <2>1. PICK zi, xi, ei, hi : zi = z[i] /\ xi = index[i] /\ ei = end[i] /\ hi = hit[i]
    OBVIOUS
  <2>2. /\ zi = NextIn(free, n, i) /\ xi = ALIGN_MASK(zi + off, mask) - off /\ ei = xi + nr
        /\ hi = NextIn(bits \cap (0 .. (ei - 1)), ei, xi)
    BY <1>3, <2>1
  <2>3. AreaAt(free, n, nr, mask, off, i, xi, ei, hi)
    <3>1. /\ n \in Nat \ {0} /\ bits \in SUBSET (0 .. (n - 1)) /\ free = (0 .. (n - 1)) \ bits
          /\ nr \in 1 .. n /\ mask \in {0, 1} /\ off \in {0, 1} /\ i \in 0 .. n
      BY <1>1
    <3>. QED
      BY ONLY <2>2, <3>1, AreaTurnIs
  <2>. QED
    BY ONLY <2>1, <2>2, <2>3
<1>5. PICK stop, val, next :
        /\ stop = [i \in 0 .. n |-> end[i] > n \/ ~(hit[i] < end[i])]
        /\ val = [i \in 0 .. n |-> IF end[i] > n THEN end[i] ELSE index[i]]
        /\ next = [i \in 0 .. n |-> hit[i] + 1]
  OBVIOUS
<1>6. ASSUME NEW i \in 0 .. n
      PROVE  /\ stop[i] <=> end[i] > n \/ ~(hit[i] < end[i])
             /\ val[i] = IF end[i] > n THEN end[i] ELSE index[i]
             /\ next[i] = hit[i] + 1
  BY <1>5
<1>7. ASSUME NEW i \in 0 .. n, ~stop[i]
      PROVE  /\ end[i] <= n /\ hit[i] < end[i] /\ next[i] \in (i + 1) .. n
             /\ Fits(free, n, i, nr, mask, off) = Fits(free, n, next[i], nr, mask, off)
  <2>1. end[i] <= n /\ hit[i] < end[i]
    BY <1>1, <1>4, <1>6, <1>7 DEF AreaAt
  <2>2. next[i] = hit[i] + 1
    BY <1>6
  <2>. QED
    BY <1>4, <2>1, <2>2 DEF AreaAt
<1>8. ASSUME NEW i \in 0 .. n, stop[i]
      PROVE  Fitting(val[i], Fits(free, n, i, nr, mask, off), n)
  <2>1. CASE end[i] > n
    <3>1. val[i] = end[i] /\ Fits(free, n, i, nr, mask, off) = {}
      BY <1>4, <1>6, <2>1 DEF AreaAt
    <3>. QED
      BY <2>1, <3>1 DEF Fitting
  <2>2. CASE ~(end[i] > n)
    <3>1. end[i] <= n /\ ~(hit[i] < end[i]) /\ val[i] = index[i]
      BY <1>1, <1>4, <1>6, <1>8, <2>2 DEF AreaAt
    <3>2. /\ index[i] \in Fits(free, n, i, nr, mask, off)
          /\ index[i] = Min(Fits(free, n, i, nr, mask, off))
      BY <1>4, <3>1 DEF AreaAt
    <3>. QED
      BY <3>1, <3>2 DEF Fitting
  <2>. QED
    BY <2>1, <2>2
<1>9. ASSUME NEW g
      PROVE  SearchTurns(g, a, n, nr, mask, off) = AreaTurns(g, 0, n, stop, val, next)
  <2>1. ASSUME NEW from \in 0 .. n
        PROVE  (LET index_ == ALIGN_MASK(find_next_zero_bit(a, n, from) + off, mask) - off
                    end_   == index_ + nr
                    i      == find_next_bit(a, end_, index_)
                IN  IF end_ > n THEN end_ ELSE IF i < end_ THEN g[i + 1] ELSE index_)
                 = AreaTurn(g, stop, val, next, from)
    <3>1. PICK x, e, h : /\ x = ALIGN_MASK(find_next_zero_bit(a, n, from) + off, mask) - off
                         /\ e = x + nr /\ h = find_next_bit(a, e, x)
      OBVIOUS
    <3>2. find_next_zero_bit(a, n, from) = z[from]
      <4>1. Readable(a, n) /\ from \in Nat
        BY <1>1, ReadableParts
      <4>2. find_next_zero_bit(a, n, from) = NextIn(free, n, from)
        BY <1>1, <4>1, NextBitsAre
      <4>. QED
        BY <1>3, <4>2
    <3>3. x = index[from] /\ e = end[from]
      BY <1>3, <3>1, <3>2
    <3>4. x \in Nat /\ e \in Nat
      BY <1>4, <3>3 DEF AreaAt
    <3>5. e <= n => h = hit[from]
      <4>1. SUFFICES ASSUME e <= n PROVE h = hit[from]
        OBVIOUS
      <4>2. e \in 0 .. n
        BY <3>4, <4>1
      <4>3. Readable(a, e)
        BY <4>2, ReadableParts
      <4>4. h = NextIn(Bits(a, e), e, x)
        <5>1. find_next_bit(a, e, x) = NextIn(Bits(a, e), e, x)
          BY ONLY Width, WordSearchesAreExact, <3>4, <4>3, NextBitsAre
        <5>. QED
          BY <3>1, <5>1
      <4>5. Bits(a, e) = bits \cap (0 .. (e - 1))
        BY <1>1, <3>4, <4>1, PartBits
      <4>. QED
        BY <1>3, <3>3, <4>4, <4>5
    <3>6. (LET index_ == ALIGN_MASK(find_next_zero_bit(a, n, from) + off, mask) - off
               end_   == index_ + nr
               i      == find_next_bit(a, end_, index_)
           IN  IF end_ > n THEN end_ ELSE IF i < end_ THEN g[i + 1] ELSE index_)
            = IF e > n THEN e ELSE IF h < e THEN g[h + 1] ELSE x
      BY ONLY <3>1
    <3>7. CASE e > n
      <4>1. stop[from] /\ val[from] = e
        BY <1>6, <3>3, <3>7
      <4>. QED
        BY <3>6, <3>7, <4>1 DEF AreaTurn
    <3>8. CASE ~(e > n)
      <4>1. h = hit[from]
        BY <1>1, <3>4, <3>5, <3>8
      <4>2. /\ stop[from] <=> ~(h < e)
            /\ val[from] = x /\ next[from] = h + 1
        BY <1>6, <3>3, <3>8, <4>1
      <4>. QED
        BY <3>6, <3>8, <4>2 DEF AreaTurn
    <3>. QED
      BY <3>7, <3>8
  <2>. QED
    BY <2>1 DEF SearchTurns, AreaTurns
<1>10. \E g : g = SearchTurns(g, a, n, nr, mask, off)
  <2>1. \E g : g = AreaTurns(g, 0, n, stop, val, next)
    BY <1>1, <1>7, AreaTurnsExist
  <2>. QED
    BY <1>9, <2>1
<1>11. PICK g : g = CHOOSE h : h = SearchTurns(h, a, n, nr, mask, off)
  OBVIOUS
<1>12. g = AreaTurns(g, 0, n, stop, val, next)
  <2>1. g = SearchTurns(g, a, n, nr, mask, off)
    BY <1>10, <1>11
  <2>. QED
    BY <1>9, <2>1
<1>13. bitmap_find_next_zero_area_off(a, n, start, nr, mask, off) = g[start]
  BY <1>11 DEF bitmap_find_next_zero_area_off, SearchTurns
<1>14. \A i \in 0 .. n : g[i] = AreaTurn(g, stop, val, next, i)
  <2>1. PICK e : e = AreaTurns(g, 0, n, stop, val, next)
    OBVIOUS
  <2>2. \A i \in 0 .. n : e[i] = AreaTurn(g, stop, val, next, i)
    BY <2>1 DEF AreaTurns
  <2>. QED
    BY <1>12, <2>1, <2>2
<1>15. PICK F : F = {i \in 0 .. n : ~Fitting(g[i], Fits(free, n, i, nr, mask, off), n)}
  OBVIOUS
<1>16. F = {}
  <2>1. SUFFICES ASSUME F # {} PROVE FALSE
    OBVIOUS
  <2>2. PICK k \in F : \A i \in F : i <= k
    <3>1. F \in SUBSET (0 .. n)
      BY <1>15
    <3>. QED
      BY <1>1, <2>1, <3>1, GreatestNat
  <2>3. k \in 0 .. n /\ ~Fitting(g[k], Fits(free, n, k, nr, mask, off), n)
    BY <1>15
  <2>4. CASE stop[k]
    BY <1>8, <1>14, <2>3, <2>4 DEF AreaTurn
  <2>5. CASE ~stop[k]
    <3>1. PICK j : j = next[k]
      OBVIOUS
    <3>2. j \in (k + 1) .. n /\ Fits(free, n, k, nr, mask, off) = Fits(free, n, j, nr, mask, off)
      BY <1>7, <2>3, <2>5, <3>1
    <3>3. j \in 0 .. n /\ j \notin F
      BY <2>2, <2>3, <3>2
    <3>4. Fitting(g[j], Fits(free, n, j, nr, mask, off), n)
      BY <1>15, <3>3
    <3>5. g[k] = g[j]
      BY <1>14, <2>3, <2>5, <3>1 DEF AreaTurn
    <3>. QED
      BY <2>3, <3>2, <3>4, <3>5
  <2>. QED
    BY <2>4, <2>5
<1>. QED
  BY <1>13, <1>15, <1>16

-----------------------------------------------------------------------------
(* Weights: how many bits there are.                                       *)

Plus(S, c) == {x + c : x \in S}

LEMMA Moved ==
  ASSUME NEW S \in SUBSET Int, IsFiniteSet(S), NEW c \in Int, NEW T, T = Plus(S, c)
  PROVE  IsFiniteSet(T) /\ Cardinality(T) = Cardinality(S)
<1>1. PICK F : F = [x \in S |-> x + c]
  OBVIOUS
<1>2. F \in [S -> T] /\ \A y \in T : \E x \in S : F[x] = y
  BY <1>1 DEF Plus
<1>3. \A x, y \in S : F[x] = F[y] => x = y
  <2>. SUFFICES ASSUME NEW x \in S, NEW y \in S, F[x] = F[y] PROVE x = y
    OBVIOUS
  <2>1. x + c = y + c /\ x \in Int /\ y \in Int
    BY <1>1
  <2>. QED
    BY <2>1
<1>4. F \in Bijection(S, T)
  BY <1>2, <1>3, Fun_IsBij
<1>5. ExistsBijection(S, T)
  BY <1>4, Fun_ExistsBij
<1>. QED
  BY <1>5, FS_Bijection

LEMMA FewNumbers ==
  ASSUME NEW lo \in Int, NEW hi \in Int, NEW S \in SUBSET (lo .. hi)
  PROVE  IsFiniteSet(S) /\ Cardinality(S) \in Nat
<1>1. IsFiniteSet(lo .. hi)
  BY FS_Interval
<1>2. IsFiniteSet(S)
  BY <1>1, FS_Subset
<1>. QED
  BY <1>2, FS_CardinalityType

LEMMA TwoParts ==
  ASSUME NEW S, IsFiniteSet(S), NEW T, IsFiniteSet(T), S \cap T = {}
  PROVE  Cardinality(S \cup T) = Cardinality(S) + Cardinality(T)
<1>1. Cardinality(S \cap T) = 0
  BY FS_EmptySet
<1>2. Cardinality(S) \in Nat /\ Cardinality(T) \in Nat
  BY FS_CardinalityType
<1>3. Cardinality(S \cup T) = Cardinality(S) + Cardinality(T) - Cardinality(S \cap T)
  BY FS_Union
<1>. QED
  BY <1>1, <1>2, <1>3

WeighTurn(g, h, w) ==
  IF h <= BITS_PER_BYTE THEN Cardinality(w \cap (0 .. (h - 1)))
  ELSE g[h \div 2][w] + g[h \div 2][ShiftDown(w, h \div 2)]

WeighTurns(g, N) == [width \in 0 .. N |-> [w \in SUBSET ones |-> WeighTurn(g, width, w)]]

LEMMA WeighTurnsExist ==
  ASSUME NEW N \in Nat
  PROVE  \E g : g = WeighTurns(g, N)
<1>0. BITS_PER_BYTE \in Nat \ {0}
  BY BitmapAssumption
<1>1. PICK S : S = {k \in Nat : ~\E g : g = WeighTurns(g, k)}
  OBVIOUS
<1>2. CASE S = {}
  BY <1>1, <1>2
<1>3. CASE S # {}
  <2>1. PICK k \in S : \A j \in S : k <= j
    <3>1. S \in SUBSET Nat
      BY <1>1
    <3>. QED
      BY <1>3, <3>1, LeastNat
  <2>2. k \in Nat /\ ~\E g : g = WeighTurns(g, k)
    BY <1>1
  <2>3. \E f : k # 0 => f = WeighTurns(f, k - 1)
    <3>1. CASE k = 0
      BY <3>1
    <3>2. CASE k # 0
      <4>1. k - 1 \in Nat /\ ~(k <= k - 1)
        BY <2>2, <3>2
      <4>. QED
        BY <1>1, <2>1, <4>1
    <3>. QED
      BY <3>1, <3>2
  <2>4. PICK f : k # 0 => f = WeighTurns(f, k - 1)
    BY <2>3
  <2>5. PICK g : g = [width \in 0 .. k |-> [w \in SUBSET ones |-> WeighTurn(f, width, w)]]
    OBVIOUS
  <2>6. ASSUME NEW h \in 0 .. (k - 1)
        PROVE  g[h] = f[h]
    <3>1. h \in 0 .. k /\ k # 0
      BY <2>2
    <3>2. g[h] = [w \in SUBSET ones |-> WeighTurn(f, h, w)]
      BY <2>5, <3>1
    <3>3. PICK e : e = WeighTurns(f, k - 1)
      OBVIOUS
    <3>4. e[h] = [w \in SUBSET ones |-> WeighTurn(f, h, w)]
      BY <3>3 DEF WeighTurns
    <3>. QED
      BY <2>4, <3>1, <3>2, <3>3, <3>4
  <2>7. ASSUME NEW h \in 0 .. k, NEW w
        PROVE  WeighTurn(g, h, w) = WeighTurn(f, h, w)
    <3>1. ~(h <= BITS_PER_BYTE) => h \div 2 \in 0 .. (k - 1)
      <4>1. ~(h <= BITS_PER_BYTE) => h \in Nat \ {0}
        BY <1>0, <2>2
      <4>2. ~(h <= BITS_PER_BYTE) => h \div 2 \in Nat /\ h \div 2 < h
        BY <4>1, Halved
      <4>. QED
        BY <2>2, <4>2
    <3>2. ~(h <= BITS_PER_BYTE) => g[h \div 2] = f[h \div 2]
      BY <2>6, <3>1
    <3>. QED
      BY <3>2 DEF WeighTurn
  <2>8. g = WeighTurns(g, k)
    BY <2>5, <2>7 DEF WeighTurns
  <2>. QED
    BY <2>2, <2>8
<1>. QED
  BY <1>2, <1>3

\* The bits of a word of width 2 * c are those of its halves.
LEMMA HalvesWeigh ==
  ASSUME Width, NEW c \in Nat, 2 * c <= BITS_PER_LONG, NEW w \in SUBSET ones
  PROVE  Cardinality(w \cap (0 .. (2 * c - 1)))
           = Cardinality(w \cap (0 .. (c - 1))) + Cardinality(ShiftDown(w, c) \cap (0 .. (c - 1)))
<1>1. PICK B, k : B = BITS_PER_LONG /\ k = 2 * c
  OBVIOUS
<1>2. B \in Nat \ {0} /\ ones = 0 .. (B - 1) /\ k \in Nat /\ k <= B /\ k = 2 * c /\ c <= k
  BY <1>1 DEF Width, ones
<1>3. PICK L, H, T : /\ L = w \cap (0 .. (c - 1)) /\ H = w \cap (c .. (k - 1))
                     /\ T = ShiftDown(w, c) \cap (0 .. (c - 1))
  OBVIOUS
<1>4. H = Plus(T, c)
  <2>1. ASSUME NEW x \in T
        PROVE  x + c \in H
    <3>1. x \in 0 .. (c - 1) /\ x + c \in w
      BY <1>3 DEF ShiftDown
    <3>2. x + c \in c .. (k - 1)
      BY <1>2, <3>1
    <3>. QED
      BY <1>3, <3>1, <3>2
  <2>2. ASSUME NEW y \in H
        PROVE  \E x \in T : y = x + c
    <3>1. y \in w /\ y \in c .. (k - 1)
      BY <1>3
    <3>2. y - c \in 0 .. (c - 1) /\ y - c \in ones /\ (y - c) + c = y
      BY <1>2, <3>1
    <3>3. y - c \in T
      BY <1>3, <3>1, <3>2 DEF ShiftDown
    <3>. QED
      BY <3>2, <3>3
  <2>. QED
    BY <2>1, <2>2 DEF Plus
<1>5. IsFiniteSet(L) /\ IsFiniteSet(H) /\ IsFiniteSet(T) /\ T \in SUBSET Int
  <2>1. L \in SUBSET (0 .. (c - 1)) /\ H \in SUBSET (c .. (k - 1)) /\ T \in SUBSET (0 .. (c - 1))
    BY <1>3
  <2>2. c - 1 \in Int /\ k - 1 \in Int /\ 0 \in Int /\ c \in Int
    BY <1>2
  <2>3. IsFiniteSet(L)
    BY <2>1, <2>2, FewNumbers
  <2>4. IsFiniteSet(H)
    BY <2>1, <2>2, FewNumbers
  <2>5. IsFiniteSet(T)
    BY <2>1, <2>2, FewNumbers
  <2>. QED
    BY <2>1, <2>3, <2>4, <2>5
<1>6. Cardinality(H) = Cardinality(T)
  <2>1. T \in SUBSET Int /\ IsFiniteSet(T) /\ c \in Int /\ H = Plus(T, c)
    BY <1>2, <1>4, <1>5
  <2>. QED
    BY ONLY <2>1, Moved
<1>7. w \cap (0 .. (k - 1)) = L \cup H /\ L \cap H = {}
  <2>1. \A x \in 0 .. (k - 1) : x \in 0 .. (c - 1) \/ x \in c .. (k - 1)
    BY <1>2
  <2>2. \A x : x \in 0 .. (c - 1) \/ x \in c .. (k - 1) => x \in 0 .. (k - 1)
    BY <1>2
  <2>3. \A x \in 0 .. (c - 1) : x \notin c .. (k - 1)
    BY <1>2
  <2>. QED
    BY <1>3, <2>1, <2>2, <2>3
<1>8. Cardinality(L \cup H) = Cardinality(L) + Cardinality(H)
  BY <1>5, <1>7, TwoParts
<1>. QED
  BY <1>1, <1>3, <1>6, <1>7, <1>8

LEMMA HalvesWeighWord ==
  ASSUME Width, NEW g, g = WeighTurns(g, BITS_PER_LONG),
         NEW halves \in SUBSET (1 .. BITS_PER_LONG),
         \A x \in halves \ {1} : x % 2 = 0 /\ x \div 2 \in halves,
         NEW h \in halves
  PROVE  \A w \in SUBSET ones : g[h][w] = Cardinality(w \cap (0 .. (h - 1)))
<1>1. PICK B : B = BITS_PER_LONG
  OBVIOUS
<1>2. B \in Nat \ {0} /\ halves \in SUBSET (1 .. B) /\ g = WeighTurns(g, B)
      /\ BITS_PER_BYTE \in Nat \ {0}
  BY <1>1, BitmapAssumption DEF Width
<1>3. \A k \in 0 .. B, w \in SUBSET ones : g[k][w] = WeighTurn(g, k, w)
  <2>1. PICK e : e = WeighTurns(g, B)
    OBVIOUS
  <2>2. \A k \in 0 .. B, w \in SUBSET ones : e[k][w] = WeighTurn(g, k, w)
    BY <2>1 DEF WeighTurns
  <2>. QED
    BY <1>2, <2>1, <2>2
<1>4. PICK S : S = {k \in halves : ~\A w \in SUBSET ones : g[k][w] = Cardinality(w \cap (0 .. (k - 1)))}
  OBVIOUS
<1>5. S = {}
  <2>1. SUFFICES ASSUME S # {} PROVE FALSE
    OBVIOUS
  <2>2. S \in SUBSET Nat
    <3>1. \A k \in S : k \in 1 .. B
      BY <1>2, <1>4
    <3>. QED
      BY <1>2, <3>1
  <2>3. PICK k \in S : \A j \in S : k <= j
    BY <2>1, <2>2, LeastNat
  <2>4. k \in halves /\ k \in 1 .. B /\ k \in Nat /\ k \in 0 .. B
    BY <1>2, <1>4
  <2>5. PICK w \in SUBSET ones : g[k][w] # Cardinality(w \cap (0 .. (k - 1)))
    BY <1>4
  <2>6. g[k][w] = WeighTurn(g, k, w)
    BY <1>3, <2>4
  <2>7. CASE k <= BITS_PER_BYTE
    BY <2>5, <2>6, <2>7 DEF WeighTurn
  <2>8. CASE ~(k <= BITS_PER_BYTE)
    <3>1. PICK c : c = k \div 2
      OBVIOUS
    <3>2. k # 1
      BY <1>2, <2>4, <2>8
    <3>3. c \in halves /\ k = 2 * c /\ c \in Nat /\ c < k
      BY <2>4, <3>1, <3>2
    <3>4. c \notin S
      BY <2>3, <2>4, <3>3
    <3>5. \A u \in SUBSET ones : g[c][u] = Cardinality(u \cap (0 .. (c - 1)))
      BY <1>4, <3>3, <3>4
    <3>6. ShiftDown(w, c) \in SUBSET ones
      BY DEF ShiftDown
    <3>7. g[k][w] = g[c][w] + g[c][ShiftDown(w, c)]
      BY <2>6, <2>8, <3>1 DEF WeighTurn
    <3>8. Cardinality(w \cap (0 .. (2 * c - 1)))
            = Cardinality(w \cap (0 .. (c - 1))) + Cardinality(ShiftDown(w, c) \cap (0 .. (c - 1)))
      <4>1. 2 * c <= BITS_PER_LONG
        BY <1>1, <1>2, <2>4, <3>3
      <4>. QED
        BY <3>3, <4>1, HalvesWeigh
    <3>. QED
      BY <2>5, <3>3, <3>5, <3>6, <3>7, <3>8
  <2>. QED
    BY <2>7, <2>8
<1>. QED
  BY <1>4, <1>5

LEMMA WordWeight ==
  ASSUME Width, PowerOf2(BITS_PER_LONG), NEW word \in SUBSET ones
  PROVE  hweight_long(word) = Cardinality(word)
<1>1. PICK halves \in SUBSET (1 .. BITS_PER_LONG) :
        /\ BITS_PER_LONG \in halves
        /\ \A x \in halves \ {1} : x % 2 = 0 /\ x \div 2 \in halves
  BY DEF PowerOf2
<1>2. PICK g : g = CHOOSE h : h = WeighTurns(h, BITS_PER_LONG)
  OBVIOUS
<1>3. g = WeighTurns(g, BITS_PER_LONG)
  BY <1>2, WeighTurnsExist DEF Width
<1>4. hweight_long(word) = g[BITS_PER_LONG][word]
  BY <1>2 DEF hweight_long, WeighTurns, WeighTurn
<1>5. g[BITS_PER_LONG][word] = Cardinality(word \cap (0 .. (BITS_PER_LONG - 1)))
  BY <1>1, <1>3, HalvesWeighWord
<1>6. word \cap (0 .. (BITS_PER_LONG - 1)) = word
  BY DEF ones
<1>. QED
  BY <1>4, <1>5, <1>6

TotalTurn(g, a, n, k) == IF k = 0 THEN 0 ELSE g[k - 1] + hweight_long(a[k - 1] \cap Valid(n, k - 1))

TotalTurns(g, a, n, N) == [k \in 0 .. N |-> TotalTurn(g, a, n, k)]

LEMMA TotalTurnsExist ==
  ASSUME NEW a, NEW n, NEW N \in Nat
  PROVE  \E g : g = TotalTurns(g, a, n, N)
<1>1. PICK S : S = {k \in Nat : ~\E g : g = TotalTurns(g, a, n, k)}
  OBVIOUS
<1>2. CASE S = {}
  BY <1>1, <1>2
<1>3. CASE S # {}
  <2>1. PICK k \in S : \A j \in S : k <= j
    <3>1. S \in SUBSET Nat
      BY <1>1
    <3>. QED
      BY <1>3, <3>1, LeastNat
  <2>2. k \in Nat /\ ~\E g : g = TotalTurns(g, a, n, k)
    BY <1>1
  <2>3. \E f : k # 0 => f = TotalTurns(f, a, n, k - 1)
    <3>1. CASE k = 0
      BY <3>1
    <3>2. CASE k # 0
      <4>1. k - 1 \in Nat /\ ~(k <= k - 1)
        BY <2>2, <3>2
      <4>. QED
        BY <1>1, <2>1, <4>1
    <3>. QED
      BY <3>1, <3>2
  <2>4. PICK f : k # 0 => f = TotalTurns(f, a, n, k - 1)
    BY <2>3
  <2>5. PICK g : g = [j \in 0 .. k |-> TotalTurn(f, a, n, j)]
    OBVIOUS
  <2>6. ASSUME NEW h \in 0 .. (k - 1)
        PROVE  g[h] = f[h]
    <3>1. h \in 0 .. k /\ k # 0
      BY <2>2
    <3>2. g[h] = TotalTurn(f, a, n, h)
      BY <2>5, <3>1
    <3>3. PICK e : e = TotalTurns(f, a, n, k - 1)
      OBVIOUS
    <3>4. e[h] = TotalTurn(f, a, n, h)
      BY <3>3 DEF TotalTurns
    <3>. QED
      BY <2>4, <3>1, <3>2, <3>3, <3>4
  <2>7. ASSUME NEW h \in 0 .. k
        PROVE  TotalTurn(g, a, n, h) = TotalTurn(f, a, n, h)
    <3>1. h # 0 => h - 1 \in 0 .. (k - 1)
      BY <2>2
    <3>2. h # 0 => g[h - 1] = f[h - 1]
      BY <2>6, <3>1
    <3>. QED
      BY <3>2 DEF TotalTurn
  <2>8. g = TotalTurns(g, a, n, k)
    BY <2>5, <2>7 DEF TotalTurns
  <2>. QED
    BY <2>2, <2>8
<1>. QED
  BY <1>2, <1>3

LEMMA LongsNat ==
  ASSUME Width, NEW n \in Nat
  PROVE  BITS_TO_LONGS(n) \in Nat /\ (n = 0 => BITS_TO_LONGS(n) = 0)
<1>1. PICK B : B = BITS_PER_LONG
  OBVIOUS
<1>2. B \in Nat \ {0}
  BY <1>1 DEF Width
<1>3. CASE n = 0
  <2>1. (B - 1) \div B = 0
    BY <1>2
  <2>2. BITS_TO_LONGS(n) = (B - 1) \div B
    BY <1>1, <1>2, <1>3 DEF BITS_TO_LONGS
  <2>. QED
    BY <2>1, <2>2
<1>4. CASE n # 0
  BY <1>4, WordsAre
<1>. QED
  BY <1>3, <1>4

\* The bits of word k, counted in the word.
LEMMA WordPart ==
  ASSUME Width, PowerOf2(BITS_PER_LONG), NEW n \in Nat \ {0}, NEW a, Readable(a, n),
         NEW S, S = Bits(a, n), NEW k \in WordsOf(n)
  PROVE  Cardinality({i \in S : i < (k + 1) * BITS_PER_LONG})
           = Cardinality({i \in S : i < k * BITS_PER_LONG}) + hweight_long(a[k] \cap Valid(n, k))
<1>1. PICK B, c, e : B = BITS_PER_LONG /\ c = k * BITS_PER_LONG /\ e = (k + 1) * BITS_PER_LONG
  OBVIOUS
<1>2. B \in Nat \ {0} /\ k \in Nat /\ c \in Nat /\ e \in Nat /\ e = c + B /\ ones = 0 .. (B - 1)
  <2>1. B \in Nat \ {0} /\ k \in Nat /\ ones = 0 .. (B - 1)
    BY <1>1 DEF Width, WordsOf, ones
  <2>2. c = k * B /\ e = k * B + B /\ k * B \in Nat
    BY <1>1, <2>1
  <2>. QED
    BY <2>1, <2>2
<1>3. PICK W, L, H, F : /\ W = a[k] \cap Valid(n, k) /\ L = {i \in S : i < c}
                        /\ H = {i \in S : c <= i /\ i < e} /\ F = {i \in S : i < e}
  OBVIOUS
<1>4. W = a[k] \cap Below(n, k) /\ W \subseteq ones
  BY <1>3, MasksAre DEF Below
<1>5. \A i \in S : i \in 0 .. (n - 1) /\ i \in Nat
  BY DEF Bits
<1>6. H = Plus(W, c)
  <2>1. ASSUME NEW x \in W
        PROVE  x + c \in H
    <3>1. x \in ones /\ x \in Int /\ 0 <= x /\ x < B
      BY <1>2, <1>4
    <3>2. At(k, x) \in S
      BY <1>4, <3>1, BitsAre
    <3>3. At(k, x) = x + c
      BY <1>1, <1>2, <3>1 DEF At
    <3>. QED
      BY <1>2, <1>3, <3>1, <3>2, <3>3
  <2>2. ASSUME NEW y \in H
        PROVE  \E x \in W : y = x + c
    <3>1. y \in S /\ c <= y /\ y < e /\ y \in Nat
      BY <1>3, <1>5
    <3>2. PICK x : x = y - c
      OBVIOUS
    <3>3. x \in ones /\ y = x + c
      BY <1>2, <3>1, <3>2
    <3>4. At(k, x) = y
      BY <1>1, <1>2, <3>3 DEF At
    <3>5. x \in W
      BY <1>4, <3>1, <3>3, <3>4, BitsAre
    <3>. QED
      BY <3>3, <3>5
  <2>. QED
    BY <2>1, <2>2 DEF Plus
<1>7. IsFiniteSet(L) /\ IsFiniteSet(H) /\ IsFiniteSet(W) /\ W \in SUBSET Int
  <2>1. L \in SUBSET (0 .. (n - 1)) /\ H \in SUBSET (0 .. (n - 1)) /\ W \in SUBSET (0 .. (B - 1))
    BY <1>2, <1>3, <1>4, <1>5
  <2>2. n - 1 \in Int /\ B - 1 \in Int /\ 0 \in Int
    BY <1>2
  <2>3. IsFiniteSet(L)
    BY <2>1, <2>2, FewNumbers
  <2>4. IsFiniteSet(H)
    BY <2>1, <2>2, FewNumbers
  <2>5. IsFiniteSet(W)
    BY <2>1, <2>2, FewNumbers
  <2>6. \A x \in 0 .. (B - 1) : x \in Int
    OBVIOUS
  <2>. QED
    BY <2>1, <2>3, <2>4, <2>5, <2>6
<1>8. Cardinality(H) = Cardinality(W)
  <2>1. W \in SUBSET Int /\ IsFiniteSet(W) /\ c \in Int /\ H = Plus(W, c)
    BY <1>2, <1>6, <1>7
  <2>. QED
    BY ONLY <2>1, Moved
<1>9. F = L \cup H /\ L \cap H = {}
  <2>1. \A i \in S : (i < e <=> i < c \/ (c <= i /\ i < e)) /\ ~(i < c /\ c <= i)
    BY <1>2, <1>5
  <2>. QED
    BY <1>3, <2>1
<1>10. Cardinality(L \cup H) = Cardinality(L) + Cardinality(H)
  BY <1>7, <1>9, TwoParts
<1>11. hweight_long(W) = Cardinality(W)
  BY <1>4, WordWeight
<1>. QED
  BY <1>1, <1>3, <1>8, <1>9, <1>10, <1>11

LEMMA TotalIs ==
  ASSUME Width, PowerOf2(BITS_PER_LONG), NEW n \in Nat \ {0}, NEW a, Readable(a, n),
         NEW S, S = Bits(a, n), NEW N, N = BITS_TO_LONGS(n), NEW g, g = TotalTurns(g, a, n, N)
  PROVE  \A k \in 0 .. N : g[k] = Cardinality({i \in S : i < k * BITS_PER_LONG})
<1>1. PICK f : f = [k \in 0 .. N |-> Cardinality({i \in S : i < k * BITS_PER_LONG})]
  OBVIOUS
<1>2. N \in Nat /\ WordsOf(n) = 0 .. (N - 1)
  BY WordsAre DEF WordsOf
<1>3. \A k \in 0 .. N : g[k] = TotalTurn(g, a, n, k)
  <2>1. PICK e : e = TotalTurns(g, a, n, N)
    OBVIOUS
  <2>2. \A k \in 0 .. N : e[k] = TotalTurn(g, a, n, k)
    BY <2>1 DEF TotalTurns
  <2>. QED
    BY <2>1, <2>2
<1>4. 0 \in 0 .. N => f[0] = 0
  <2>1. {i \in S : i < 0 * BITS_PER_LONG} = {}
    BY DEF Bits, Width
  <2>2. Cardinality({}) = 0
    BY FS_EmptySet
  <2>. QED
    BY <1>1, <2>1, <2>2
<1>5. ASSUME NEW k \in 0 .. (N - 1)
      PROVE  f[k + 1] = f[k] + hweight_long(a[k] \cap Valid(n, k))
  <2>1. k \in WordsOf(n) /\ k \in 0 .. N /\ k + 1 \in 0 .. N
    BY <1>2
  <2>. QED
    BY <1>1, <2>1, WordPart
<1>6. PICK T : T = {k \in 0 .. N : g[k] # f[k]}
  OBVIOUS
<1>7. T = {}
  <2>1. SUFFICES ASSUME T # {} PROVE FALSE
    OBVIOUS
  <2>2. T \in SUBSET Nat
    BY <1>2, <1>6
  <2>3. PICK k \in T : \A j \in T : k <= j
    BY <2>1, <2>2, LeastNat
  <2>4. k \in 0 .. N /\ k \in Nat /\ g[k] # f[k]
    BY <1>2, <1>6
  <2>5. CASE k = 0
    BY <1>3, <1>4, <2>4, <2>5 DEF TotalTurn
  <2>6. CASE k # 0
    <3>1. PICK j : j = k - 1
      OBVIOUS
    <3>2. j \in 0 .. (N - 1) /\ j \in 0 .. N /\ k = j + 1 /\ ~(k <= j)
      BY <1>2, <2>4, <2>6, <3>1
    <3>3. g[j] = f[j]
      BY <1>6, <2>3, <3>2
    <3>4. g[k] = g[j] + hweight_long(a[j] \cap Valid(n, j))
      BY <1>3, <2>4, <2>6, <3>1 DEF TotalTurn
    <3>5. f[k] = f[j] + hweight_long(a[j] \cap Valid(n, j))
      BY <1>5, <3>2
    <3>. QED
      BY <2>4, <3>3, <3>4, <3>5
  <2>. QED
    BY <2>5, <2>6
<1>. QED
  BY <1>1, <1>6, <1>7

LEMMA AllWords ==
  ASSUME Width, PowerOf2(BITS_PER_LONG), NEW n \in Nat, NEW a, Readable(a, n)
  PROVE  __bitmap_weight(a, n) = Cardinality(Bits(a, n))
<1>1. PICK N, S : N = BITS_TO_LONGS(n) /\ S = Bits(a, n)
  OBVIOUS
<1>2. N \in Nat
  BY <1>1, LongsNat
<1>3. PICK g : g = CHOOSE h : h = TotalTurns(h, a, n, N)
  OBVIOUS
<1>4. g = TotalTurns(g, a, n, N)
  BY <1>2, <1>3, TotalTurnsExist
<1>5. __bitmap_weight(a, n) = g[N]
  BY <1>1, <1>3 DEF __bitmap_weight, TotalTurns, TotalTurn
<1>6. CASE n = 0
  <2>1. N = 0 /\ S = {}
    BY <1>1, <1>6, LongsNat, NothingToSearch
  <2>2. g[0] = 0
    <3>1. PICK e : e = TotalTurns(g, a, n, N)
      OBVIOUS
    <3>2. e[0] = 0
      BY <2>1, <3>1 DEF TotalTurns, TotalTurn
    <3>. QED
      BY <1>4, <3>1, <3>2
  <2>3. Cardinality({}) = 0
    BY FS_EmptySet
  <2>. QED
    BY <1>1, <1>5, <2>1, <2>2, <2>3
<1>7. CASE n # 0
  <2>1. n \in Nat \ {0}
    BY <1>7
  <2>2. N \in 0 .. N
    BY <1>2
  <2>3. g[N] = Cardinality({i \in S : i < N * BITS_PER_LONG})
    BY <1>1, <1>4, <2>1, <2>2, TotalIs
  <2>4. \A i \in S : i < N * BITS_PER_LONG
    <3>1. InStorage(S, n)
      BY <1>1, <2>1, StorageHoldsSize
    <3>2. N * BITS_PER_LONG \in Int
      BY <1>2 DEF Width
    <3>3. \A i \in S : i \in 0 .. (N * BITS_PER_LONG - 1)
      BY <1>1, <3>1 DEF InStorage
    <3>. QED
      BY <3>2, <3>3
  <2>5. {i \in S : i < N * BITS_PER_LONG} = S
    BY <2>4
  <2>. QED
    BY <1>1, <1>5, <2>3, <2>5
<1>. QED
  BY <1>6, <1>7

\* The word a short cut looks at.
LEMMA ShortBits ==
  ASSUME Width, NEW n \in Nat \ {0}, n <= BITS_PER_LONG, NEW a
  PROVE  Bits(a, n) = a[0] \cap BITMAP_LAST_WORD_MASK(n)
<1>1. WordsOf(n) = {0} /\ BITS_TO_LONGS(n) = 1 /\ BITMAP_LAST_WORD_MASK(n) = Below(n, 0)
  BY ShortCut
<1>2. PICK S, W : S = Bits(a, n) /\ W = a[0] \cap Below(n, 0)
  OBVIOUS
<1>3. \A b \in W : b \in ones
  BY <1>2 DEF Below
<1>4. \A b \in ones : At(0, b) = b
  BY DEF At, ones, Width
<1>5. 0 \in WordsOf(n)
  BY <1>1
<1>6. \A b \in ones : b \in S <=> b \in W
  BY <1>2, <1>4, <1>5, BitsAre
<1>7. \A i \in S : i \in ones
  <2>1. \A i \in 0 .. (n - 1) : i \in ones
    BY DEF ones, Width
  <2>. QED
    BY <1>2, <2>1 DEF Bits
<1>. QED
  BY <1>1, <1>2, <1>3, <1>6, <1>7

\* The weight of any part of a bitmap, by the short cut too.
LEMMA WeightIs ==
  ASSUME Width, PowerOf2(BITS_PER_LONG), NEW n \in Nat \ {0}, NEW a, Readable(a, n)
  PROVE  bitmap_weight(a, n) = Cardinality(Bits(a, n))
<1>1. CASE ~small_const_nbits(n)
  BY <1>1, AllWords DEF bitmap_weight
<1>2. CASE small_const_nbits(n)
  <2>1. n <= BITS_PER_LONG
    BY <1>2 DEF small_const_nbits
  <2>2. PICK W : W = Bits(a, n)
    OBVIOUS
  <2>3. W = a[0] \cap BITMAP_LAST_WORD_MASK(n)
    BY <2>1, <2>2, ShortBits
  <2>4. W \in SUBSET ones
    <3>1. 0 \in WordsOf(n)
      BY <2>1, ShortCut
    <3>. QED
      BY <2>3, <3>1 DEF Readable
  <2>5. hweight_long(W) = Cardinality(W)
    BY <2>4, WordWeight
  <2>6. bitmap_weight(a, n) = hweight_long(W)
    BY <1>2, <2>3 DEF bitmap_weight, Masked
  <2>. QED
    BY <2>2, <2>5, <2>6
<1>. QED
  BY <1>1, <1>2

\* Whether there is a bit, or a clear one.
LEMMA AnswersAre ==
  ASSUME Width, WordSearchesAreExact, NEW n \in Nat \ {0}, NEW a, Readable(a, n),
         NEW S, S = Bits(a, n)
  PROVE  /\ bitmap_empty(a, n) <=> S = {}
         /\ bitmap_full(a, n) <=> S = 0 .. (n - 1)
<1>1. PICK F : F = (0 .. (n - 1)) \ S
  OBVIOUS
<1>2. S \in SUBSET (0 .. (n - 1)) /\ F \in SUBSET (0 .. (n - 1))
  BY <1>1 DEF Bits
<1>3. F = {} <=> S = 0 .. (n - 1)
  BY <1>1, <1>2
<1>4. CASE small_const_nbits(n)
  <2>1. n <= BITS_PER_LONG
    BY <1>4 DEF small_const_nbits
  <2>2. S = Masked(a, n)
    BY <2>1, ShortBits DEF Masked
  <2>3. F = (ones \ a[0]) \cap BITMAP_LAST_WORD_MASK(n)
    <3>1. PICK c : c = Complement(a, n)
      OBVIOUS
    <3>2. Bits(c, n) = F
      BY <1>1, <3>1, ComplementBits
    <3>3. 0 \in WordsOf(n)
      BY <2>1, ShortCut
    <3>4. c[0] = ones \ a[0]
      BY <3>1, <3>3 DEF Complement
    <3>5. Bits(c, n) = c[0] \cap BITMAP_LAST_WORD_MASK(n)
      BY <2>1, ShortBits
    <3>. QED
      BY <3>2, <3>4, <3>5
  <2>. QED
    BY <1>3, <1>4, <2>2, <2>3 DEF bitmap_empty, bitmap_full
<1>5. CASE ~small_const_nbits(n)
  <2>1. \A x \in 0 .. (n - 1) : x \in Nat /\ x # n /\ 0 <= x
    OBVIOUS
  <2>2. ASSUME NEW T \in SUBSET (0 .. (n - 1)), NEW r, r = NextIn(T, n, 0)
        PROVE  r = n <=> T = {}
    <3>1. /\ r \in 0 .. n /\ (r = n \/ (r \in T /\ 0 <= r)) /\ (0 <= n => 0 <= r)
          /\ \A x \in T : 0 <= x => r <= x
      BY <2>2, NextInIs
    <3>2. ASSUME NEW x \in T PROVE r # n
      <4>1. x \in 0 .. (n - 1) /\ r <= x
        BY <2>1, <3>1
      <4>. QED
        BY <4>1
    <3>. QED
      BY <3>1, <3>2
  <2>3. find_first_bit(a, n) = NextIn(S, n, 0) /\ find_first_zero_bit(a, n) = NextIn(F, n, 0)
    BY <1>1, FirstBitsAre
  <2>4. (find_first_bit(a, n) = n <=> S = {}) /\ (find_first_zero_bit(a, n) = n <=> F = {})
    BY <1>2, <2>2, <2>3
  <2>. QED
    BY <1>3, <1>5, <2>4 DEF bitmap_empty, bitmap_full
<1>. QED
  BY <1>4, <1>5

LEMMA TypedWidth ==
  ASSUME TypeOK
  PROVE  PowerOf2(BITS_PER_LONG)
<1>. QED
  BY WidthAssumption DEF TypeOK

LEMMA Loops ==
  ASSUME TypeOK
  PROVE  LoopsVisitTheBits
<1>1. SUFFICES ASSUME NEW d \in DOMAIN maps, NEW n \in 0 .. nbits,
                      NEW a, a = maps[d], NEW bits, bits = Bits(a, n)
               PROVE  /\ n > 0 => bitmap_weight(a, n) = Sets!bitmap_weight(bits, n)
                      /\ Visits(for_each_set_bit(a, n), bits)
                      /\ Visits(for_each_clear_bit(a, n), (0 .. (n - 1)) \ bits)
                      /\ \A i \in 0 .. nbits :
                           /\ Visits(for_each_set_bit_from(a, n, i), {b \in bits : b >= i})
                           /\ Visits(for_each_clear_bit_from(a, n, i), (i .. (n - 1)) \ bits)
  BY DEF LoopsVisitTheBits
<1>2. Width /\ nbits \in Nat \ {0} /\ a \in Words(nbits) /\ n \in Nat
  <2>1. Width /\ nbits \in Nat \ {0} /\ maps \in Maps(DOMAIN maps, nbits)
    BY Typed
  <2>. QED
    BY <1>1, <2>1, WordsAreBits
<1>3. WordSearchesAreExact /\ PowerOf2(BITS_PER_LONG)
  BY Searches, TypedWidth
<1>4. Readable(a, n)
  BY <1>2, ReadableParts
<1>5. n > 0 => bitmap_weight(a, n) = Sets!bitmap_weight(bits, n)
  <2>1. n > 0 => n \in Nat \ {0}
    BY <1>2
  <2>2. n > 0 => bitmap_weight(a, n) = Cardinality(bits)
    BY <1>1, <1>2, <1>3, <1>4, <2>1, WeightIs
  <2>3. bits \cap (0 .. (n - 1)) = bits
    BY <1>1 DEF Bits
  <2>4. Sets!bitmap_weight(bits, n) = Cardinality(bits)
    BY <2>3 DEF Sets!bitmap_weight, Sets!Cardinality, Cardinality
  <2>. QED
    BY <2>2, <2>4
<1>6. AllVisit(a, n, bits)
  BY <1>1, <1>2, <1>3, <1>4, AllLoops
<1>7. \A i \in 0 .. nbits : i \in Nat
  BY <1>2
<1>. QED
  BY <1>5, <1>6, <1>7 DEF AllVisit

LEMMA Answers ==
  ASSUME TypeOK
  PROVE  AnswersIgnoreUnusedBits
<1>1. SUFFICES ASSUME NEW d \in DOMAIN maps, NEW n, n = nbits, NEW a, a = maps[d],
                      NEW S, S = Bits(a, n)
               PROVE  /\ bitmap_empty(a, n) <=> S = {}
                      /\ bitmap_full(a, n) <=> S = 0 .. (n - 1)
                      /\ bitmap_weight(a, n) = Cardinality(S)
  BY DEF AnswersIgnoreUnusedBits, Of, Everything
<1>2. Width /\ n \in Nat \ {0} /\ a \in Words(n)
  <2>1. Width /\ nbits \in Nat \ {0} /\ maps \in Maps(DOMAIN maps, nbits)
    BY Typed
  <2>. QED
    BY <1>1, <2>1, WordsAreBits
<1>3. WordSearchesAreExact /\ PowerOf2(BITS_PER_LONG)
  BY Searches, TypedWidth
<1>4. Readable(a, n)
  BY <1>2, ReadableParts
<1>. QED
  BY <1>1, <1>2, <1>3, <1>4, AnswersAre, WeightIs

LEMMA Folds ==
  ASSUME TypeOK
  PROVE  FoldKeepsBits
<1>1. PICK n, D, m : n = nbits /\ D = DOMAIN maps /\ m = maps
  OBVIOUS
<1>2. Width /\ n \in Nat \ {0} /\ m \in Maps(D, n) /\ WordSearchesAreExact
  BY <1>1, Typed, Searches
<1>3. ASSUME NEW d \in D, NEW s \in D, NEW sz \in 1 .. n, d # s
      PROVE  AllBits(bitmap_fold(m, d, s, sz, n)[d], n) = {i % sz : i \in Bits(m[s], n)}
  BY <1>2, <1>3, FoldBits
<1>. QED
  BY <1>1, <1>3 DEF FoldKeepsBits, Of

LEMMA Areas ==
  ASSUME TypeOK
  PROVE  ZeroAreaIsFirstFit
<1>1. PICK n : n = nbits
  OBVIOUS
<1>2. Width /\ n \in Nat \ {0} /\ maps \in Maps(DOMAIN maps, n) /\ WordSearchesAreExact
  BY <1>1, Typed, Searches
<1>. SUFFICES ASSUME NEW d \in DOMAIN maps, NEW start \in Everything, NEW nr \in 1 .. nbits,
                     NEW mask \in {0, 1}, NEW off \in {0, 1}
              PROVE  LET free  == Everything \ Of(maps, d)
                         fits  == {p \in start .. (nbits - nr) :
                                     /\ p .. (p + nr - 1) \subseteq free
                                     /\ (p + off) % (mask + 1) = 0}
                         found == bitmap_find_next_zero_area_off(maps[d], nbits, start, nr, mask, off)
                     IN  IF fits = {} THEN found > nbits ELSE found = Min(fits)
  BY DEF ZeroAreaIsFirstFit
<1>3. PICK a, bits, free, F :
        /\ a = maps[d] /\ bits = Bits(a, n) /\ free = (0 .. (n - 1)) \ bits
        /\ F = Fits(free, n, start, nr, mask, off)
  OBVIOUS
<1>4. start \in 0 .. n /\ nr \in 1 .. n /\ a \in Words(n)
  BY <1>1, <1>2, <1>3, WordsAreBits DEF Everything
<1>5. F = {p \in start .. (nbits - nr) :
             /\ p .. (p + nr - 1) \subseteq Everything \ Of(maps, d)
             /\ (p + off) % (mask + 1) = 0}
  BY <1>1, <1>3 DEF Fits, IsAligned, Everything, Of
<1>6. Fitting(bitmap_find_next_zero_area_off(a, n, start, nr, mask, off), F, n)
  BY <1>2, <1>3, <1>4, AreaFound
<1>7. IF F = {} THEN bitmap_find_next_zero_area_off(maps[d], nbits, start, nr, mask, off) > nbits
      ELSE bitmap_find_next_zero_area_off(maps[d], nbits, start, nr, mask, off) = Min(F)
  BY <1>1, <1>3, <1>6 DEF Fitting
<1>. QED
  BY <1>5, <1>7

-----------------------------------------------------------------------------
(* Ordinals and positions.                                                 *)

Before(S, x) == {j \in S : j < x}

\* The ordinal of a bit is how many are before it.
LEMMA OrdinalIs ==
  ASSUME Width, PowerOf2(BITS_PER_LONG), NEW n \in Nat \ {0}, NEW a, a \in Words(n),
         NEW S, S = Bits(a, n), NEW i \in 0 .. (n - 1)
  PROVE  bitmap_pos_to_ord(a, i, n) = IF i \in S THEN Cardinality(Before(S, i)) ELSE -1
<1>1. i \in Nat /\ i <= n /\ i \in 0 .. n /\ ~(i >= n)
  OBVIOUS
<1>2. test_bit(a, i) <=> i \in S
  BY DEF test_bit, BIT_MASK, Bits
<1>3. Bits(a, i) = Before(S, i)
  <2>1. Bits(a, i) = Bits(a, n) \cap (0 .. (i - 1))
    BY <1>1, PartBits
  <2>2. \A j \in S : j \in 0 .. (n - 1)
    BY DEF Bits
  <2>3. \A j \in S : j \in 0 .. (i - 1) <=> j < i
    BY <1>1, <2>2
  <2>. QED
    BY <2>1, <2>3 DEF Before
<1>4. Readable(a, i)
  BY <1>1, ReadableParts
<1>5. __bitmap_weight(a, i) = Cardinality(Before(S, i))
  BY <1>1, <1>3, <1>4, AllWords
<1>. QED
  BY <1>1, <1>2, <1>5 DEF bitmap_pos_to_ord

PosTurn(g, a, n, o, pos) ==
  IF pos < n /\ o > 0 THEN g[o - 1][find_next_bit(a, n, pos + 1)] ELSE pos

PosTurns(g, a, n, N) == [o \in 0 .. N |-> [pos \in 0 .. n |-> PosTurn(g, a, n, o, pos)]]

LEMMA PosTurnsExist ==
  ASSUME NEW a, NEW n, NEW N \in Nat
  PROVE  \E g : g = PosTurns(g, a, n, N)
<1>1. PICK S : S = {k \in Nat : ~\E g : g = PosTurns(g, a, n, k)}
  OBVIOUS
<1>2. CASE S = {}
  BY <1>1, <1>2
<1>3. CASE S # {}
  <2>1. PICK k \in S : \A j \in S : k <= j
    <3>1. S \in SUBSET Nat
      BY <1>1
    <3>. QED
      BY <1>3, <3>1, LeastNat
  <2>2. k \in Nat /\ ~\E g : g = PosTurns(g, a, n, k)
    BY <1>1
  <2>3. \E f : k # 0 => f = PosTurns(f, a, n, k - 1)
    <3>1. CASE k = 0
      BY <3>1
    <3>2. CASE k # 0
      <4>1. k - 1 \in Nat /\ ~(k <= k - 1)
        BY <2>2, <3>2
      <4>. QED
        BY <1>1, <2>1, <4>1
    <3>. QED
      BY <3>1, <3>2
  <2>4. PICK f : k # 0 => f = PosTurns(f, a, n, k - 1)
    BY <2>3
  <2>5. PICK g : g = [o \in 0 .. k |-> [pos \in 0 .. n |-> PosTurn(f, a, n, o, pos)]]
    OBVIOUS
  <2>6. ASSUME NEW h \in 0 .. (k - 1)
        PROVE  g[h] = f[h]
    <3>1. h \in 0 .. k /\ k # 0
      BY <2>2
    <3>2. g[h] = [pos \in 0 .. n |-> PosTurn(f, a, n, h, pos)]
      BY <2>5, <3>1
    <3>3. PICK e : e = PosTurns(f, a, n, k - 1)
      OBVIOUS
    <3>4. e[h] = [pos \in 0 .. n |-> PosTurn(f, a, n, h, pos)]
      BY <3>3 DEF PosTurns
    <3>. QED
      BY <2>4, <3>1, <3>2, <3>3, <3>4
  <2>7. ASSUME NEW h \in 0 .. k, NEW pos
        PROVE  PosTurn(g, a, n, h, pos) = PosTurn(f, a, n, h, pos)
    <3>1. h > 0 => h - 1 \in 0 .. (k - 1)
      BY <2>2
    <3>2. h > 0 => g[h - 1] = f[h - 1]
      BY <2>6, <3>1
    <3>. QED
      BY <3>2 DEF PosTurn
  <2>8. g = PosTurns(g, a, n, k)
    BY <2>5, <2>7 DEF PosTurns
  <2>. QED
    BY <2>2, <2>8
<1>. QED
  BY <1>2, <1>3

Between(S, pos, x) == {y \in S : pos <= y /\ y < x}

\* The step from one set bit to the next takes one bit from those before x.
StepsOn(S, pos, next, x, n) ==
  /\ next \in S \cup {n} /\ next <= x
  /\ Cardinality(Between(S, pos, x)) = Cardinality(Between(S, next, x)) + 1
  /\ Cardinality(Between(S, next, x)) \in Nat

LEMMA OneFewer ==
  ASSUME NEW n \in Nat, NEW S \in SUBSET (0 .. (n - 1)), NEW pos \in S, NEW x \in S \cup {n},
         pos < x, NEW next, next = NextIn(S, n, pos + 1)
  PROVE  StepsOn(S, pos, next, x, n)
<1>1. pos \in Nat /\ pos + 1 \in Nat /\ pos + 1 <= n /\ x \in Nat /\ x <= n
      /\ \A y \in S : y \in Nat /\ y < n
  <2>1. \A y \in S : y \in 0 .. (n - 1)
    OBVIOUS
  <2>2. \A y \in S : y \in Nat /\ y < n
    BY <2>1
  <2>. QED
    BY <2>2
<1>2. /\ next \in 0 .. n /\ (next = n \/ (next \in S /\ pos + 1 <= next))
      /\ (pos + 1 <= n => pos + 1 <= next)
      /\ \A y \in S : pos + 1 <= y => next <= y
  <2>1. pos + 1 \in Nat
    BY <1>1
  <2>. QED
    BY <2>1, NextInIs
<1>3. next \in S \cup {n} /\ next <= x /\ next \in Nat /\ pos < next
  <2>1. next \in S \cup {n} /\ next \in Nat /\ next <= n /\ pos < next
    BY <1>1, <1>2
  <2>2. CASE x = n
    BY <2>1, <2>2
  <2>3. CASE x \in S
    <3>1. pos + 1 <= x
      BY <1>1
    <3>. QED
      BY <1>2, <2>1, <2>3, <3>1
  <2>. QED
    BY <2>1, <2>2, <2>3
<1>4. PICK Q, R : Q = Between(S, pos, x) /\ R = Between(S, next, x)
  OBVIOUS
<1>5. pos \notin R
  BY <1>1, <1>3, <1>4 DEF Between
<1>6. Q = R \cup {pos}
  <2>1. \A y \in S : pos <= y /\ y # pos => next <= y
    <3>1. \A y \in S : pos <= y /\ y # pos => pos + 1 <= y
      BY <1>1
    <3>. QED
      BY <1>2, <3>1
  <2>2. \A y \in S : next <= y => pos <= y
    BY <1>1, <1>3
  <2>3. pos \in Q
    BY <1>1, <1>4 DEF Between
  <2>4. \A y \in Q : y \in R \/ y = pos
    BY <1>4, <2>1 DEF Between
  <2>5. \A y \in R : y \in Q
    BY <1>4, <2>2 DEF Between
  <2>. QED
    BY <2>3, <2>4, <2>5
<1>7. IsFiniteSet(R) /\ Cardinality(R) \in Nat
  <2>1. R \in SUBSET (0 .. (n - 1))
    BY <1>4 DEF Between
  <2>2. 0 \in Int /\ n - 1 \in Int
    OBVIOUS
  <2>. QED
    BY ONLY <2>1, <2>2, FewNumbers
<1>8. Cardinality(R \cup {pos}) = Cardinality(R) + 1
  BY <1>5, <1>7, FS_AddElement
<1>. QED
  BY <1>3, <1>4, <1>6, <1>7, <1>8 DEF StepsOn

LEMMA PositionFrom ==
  ASSUME Width, WordSearchesAreExact, NEW n \in Nat, NEW a, Readable(a, n),
         NEW S, S = Bits(a, n), NEW N \in Nat, NEW g, g = PosTurns(g, a, n, N)
  PROVE  \A o \in 0 .. N : \A pos, x \in S \cup {n} :
           pos <= x /\ Cardinality(Between(S, pos, x)) = o => g[o][pos] = x
<1>1. \A o \in 0 .. N, pos \in 0 .. n : g[o][pos] = PosTurn(g, a, n, o, pos)
  <2>1. PICK e : e = PosTurns(g, a, n, N)
    OBVIOUS
  <2>2. \A o \in 0 .. N, pos \in 0 .. n : e[o][pos] = PosTurn(g, a, n, o, pos)
    BY <2>1 DEF PosTurns
  <2>. QED
    BY <2>1, <2>2
<1>2. S \in SUBSET (0 .. (n - 1)) /\ \A y \in S \cup {n} : y \in Nat /\ y \in 0 .. n
  <2>1. S \in SUBSET (0 .. (n - 1))
    BY DEF Bits
  <2>2. \A y \in 0 .. (n - 1) : y \in Nat /\ y \in 0 .. n
    OBVIOUS
  <2>3. n \in 0 .. n
    OBVIOUS
  <2>. QED
    BY <2>1, <2>2, <2>3
<1>3. PICK T : T = {o \in 0 .. N : \E pos, x \in S \cup {n} :
                     pos <= x /\ Cardinality(Between(S, pos, x)) = o /\ g[o][pos] # x}
  OBVIOUS
<1>4. T = {}
  <2>1. SUFFICES ASSUME T # {} PROVE FALSE
    OBVIOUS
  <2>2. T \in SUBSET Nat
    BY <1>3
  <2>3. PICK o \in T : \A j \in T : o <= j
    BY <2>1, <2>2, LeastNat
  <2>4. o \in 0 .. N /\ o \in Nat
    BY <1>3
  <2>5. PICK pos \in S \cup {n}, x \in S \cup {n} :
          pos <= x /\ Cardinality(Between(S, pos, x)) = o /\ g[o][pos] # x
    BY <1>3
  <2>6. pos \in Nat /\ x \in Nat /\ pos \in 0 .. n /\ x \in 0 .. n
    BY <1>2
  <2>7. g[o][pos] = PosTurn(g, a, n, o, pos)
    BY <1>1, <2>4, <2>6
  <2>8. CASE pos = x
    <3>1. Between(S, pos, x) = {}
      BY <1>2, <2>8 DEF Between
    <3>2. o = 0
      BY <2>5, <3>1, FS_EmptySet
    <3>. QED
      BY <2>5, <2>7, <2>8, <3>2 DEF PosTurn
  <2>9. CASE pos # x
    <3>1. pos < x /\ pos < n /\ pos \in S
      BY <2>5, <2>6, <2>9
    <3>2. PICK next : next = NextIn(S, n, pos + 1)
      OBVIOUS
    <3>3. /\ next \in S \cup {n} /\ next <= x
          /\ Cardinality(Between(S, pos, x)) = Cardinality(Between(S, next, x)) + 1
          /\ Cardinality(Between(S, next, x)) \in Nat
      <4>1. S \in SUBSET (0 .. (n - 1)) /\ pos \in S /\ x \in S \cup {n} /\ pos < x
        BY <1>2, <3>1
      <4>2. StepsOn(S, pos, next, x, n)
        BY <3>2, <4>1, OneFewer
      <4>. QED
        BY <4>2 DEF StepsOn
    <3>4. PICK j : j = o - 1
      OBVIOUS
    <3>5. j \in 0 .. N /\ o > 0 /\ ~(o <= j) /\ Cardinality(Between(S, next, x)) = j
      <4>1. PICK c, e : c = Cardinality(Between(S, next, x)) /\ e = Cardinality(Between(S, pos, x))
        OBVIOUS
      <4>2. e = o /\ e = c + 1 /\ c \in Nat
        BY <2>5, <3>3, <4>1
      <4>3. c = j /\ j \in 0 .. N /\ o > 0 /\ ~(o <= j)
        BY <2>4, <3>4, <4>2
      <4>. QED
        BY <4>1, <4>3
    <3>6. j \notin T
      BY <2>3, <3>5
    <3>7. g[j][next] = x
      BY <1>3, <2>5, <3>3, <3>5, <3>6
    <3>8. find_next_bit(a, n, pos + 1) = next
      <4>1. pos + 1 \in Nat
        BY <2>6
      <4>. QED
        BY <3>2, <4>1, NextBitsAre
    <3>9. g[o][pos] = g[j][next]
      BY <2>7, <3>1, <3>4, <3>5, <3>8 DEF PosTurn
    <3>. QED
      BY <2>5, <3>7, <3>9
  <2>. QED
    BY <2>8, <2>9
<1>. QED
  BY <1>3, <1>4

\* The bit found by its ordinal; the size for the number of all bits.
LEMMA PositionIs ==
  ASSUME Width, WordSearchesAreExact, NEW n \in Nat, NEW a, Readable(a, n),
         NEW S, S = Bits(a, n), NEW x \in S \cup {n}, NEW o, o = Cardinality(Before(S, x))
  PROVE  bitmap_ord_to_pos(a, o, n) = x
<1>1. S \in SUBSET (0 .. (n - 1)) /\ \A y \in S \cup {n} : y \in Nat /\ y <= n
  <2>1. S \in SUBSET (0 .. (n - 1))
    BY DEF Bits
  <2>2. \A y \in 0 .. (n - 1) : y \in Nat /\ y <= n
    OBVIOUS
  <2>. QED
    BY <2>1, <2>2
<1>2. o \in Nat
  <2>1. Before(S, x) \in SUBSET (0 .. (n - 1))
    BY <1>1 DEF Before
  <2>2. 0 \in Int /\ n - 1 \in Int
    OBVIOUS
  <2>3. Cardinality(Before(S, x)) \in Nat
    BY ONLY <2>1, <2>2, FewNumbers
  <2>. QED
    BY <2>3
<1>3. PICK first : first = NextIn(S, n, 0)
  OBVIOUS
<1>4. /\ first \in 0 .. n /\ (first = n \/ (first \in S /\ 0 <= first)) /\ (0 <= n => 0 <= first)
      /\ \A y \in S : 0 <= y => first <= y
  BY <1>1, <1>3, NextInIs
<1>5. first \in S \cup {n} /\ first <= x /\ \A y \in S : first <= y
  <2>1. \A y \in S : first <= y
    BY <1>1, <1>4
  <2>2. first <= n
    BY <1>4
  <2>. QED
    BY <1>4, <2>1, <2>2
<1>6. Between(S, first, x) = Before(S, x)
  BY <1>5 DEF Between, Before
<1>7. PICK g : g = CHOOSE h : h = PosTurns(h, a, n, o)
  OBVIOUS
<1>8. g = PosTurns(g, a, n, o)
  BY <1>2, <1>7, PosTurnsExist
<1>9. bitmap_ord_to_pos(a, o, n) = g[o][find_first_bit(a, n)]
  BY <1>7 DEF bitmap_ord_to_pos, PosTurns, PosTurn
<1>10. find_first_bit(a, n) = first
  BY <1>3, FirstBitsAre
<1>11. o \in 0 .. o
  BY <1>2
<1>12. \A q \in 0 .. o : \A pos, y \in S \cup {n} :
         pos <= y /\ Cardinality(Between(S, pos, y)) = q => g[q][pos] = y
  BY <1>2, <1>8, PositionFrom
<1>13. g[o][first] = x
  BY <1>5, <1>6, <1>11, <1>12
<1>. QED
  BY <1>9, <1>10, <1>13

LEMMA Ordinals ==
  ASSUME TypeOK
  PROVE  OrdinalsAndPositionsAgree
<1>1. PICK n : n = nbits
  OBVIOUS
<1>2. Width /\ n \in Nat \ {0} /\ maps \in Maps(DOMAIN maps, n) /\ WordSearchesAreExact
      /\ PowerOf2(BITS_PER_LONG)
  BY <1>1, Typed, Searches, TypedWidth
<1>3. ASSUME NEW d \in DOMAIN maps, NEW a, a = maps[d], NEW S, S = Bits(a, n)
      PROVE  /\ \A i \in 0 .. (n - 1) :
                  bitmap_pos_to_ord(a, i, n) = IF i \in S THEN Cardinality({j \in S : j < i}) ELSE -1
             /\ \A i \in S : bitmap_ord_to_pos(a, bitmap_pos_to_ord(a, i, n), n) = i
             /\ bitmap_ord_to_pos(a, bitmap_weight(a, n), n) = n
  <2>1. a \in Words(n)
    BY <1>2, <1>3, WordsAreBits
  <2>2. Readable(a, n) /\ n \in Nat
    BY <1>2, <2>1, ReadableParts
  <2>3. \A i \in S : i \in 0 .. (n - 1)
    BY <1>3 DEF Bits
  <2>4. ASSUME NEW i \in 0 .. (n - 1)
        PROVE  bitmap_pos_to_ord(a, i, n) = IF i \in S THEN Cardinality(Before(S, i)) ELSE -1
    BY <1>2, <1>3, <2>1, OrdinalIs
  <2>5. ASSUME NEW x \in S \cup {n}, NEW o, o = Cardinality(Before(S, x))
        PROVE  bitmap_ord_to_pos(a, o, n) = x
    BY <1>2, <1>3, <2>2, <2>5, PositionIs
  <2>6. ASSUME NEW i \in S
        PROVE  bitmap_ord_to_pos(a, bitmap_pos_to_ord(a, i, n), n) = i
    BY <2>3, <2>4, <2>5
  <2>7. bitmap_ord_to_pos(a, bitmap_weight(a, n), n) = n
    <3>1. Before(S, n) = S
      <4>1. \A i \in S : i < n
        BY <1>2, <2>3
      <4>. QED
        BY <4>1 DEF Before
    <3>2. bitmap_weight(a, n) = Cardinality(Before(S, n))
      BY <1>2, <1>3, <2>2, <3>1, WeightIs
    <3>. QED
      BY <2>5, <3>2
  <2>. QED
    BY <2>4, <2>6, <2>7 DEF Before
<1>4. ASSUME NEW d \in DOMAIN maps
      PROVE  /\ \A i \in Everything :
                  bitmap_pos_to_ord(maps[d], i, nbits) =
                    IF i \in Of(maps, d) THEN Cardinality({j \in Of(maps, d) : j < i}) ELSE -1
             /\ \A i \in Of(maps, d) :
                  bitmap_ord_to_pos(maps[d], bitmap_pos_to_ord(maps[d], i, nbits), nbits) = i
             /\ bitmap_ord_to_pos(maps[d], bitmap_weight(maps[d], nbits), nbits) = nbits
  BY <1>1, <1>3 DEF Everything, Of
<1>. QED
  BY <1>4 DEF OrdinalsAndPositionsAgree

LEMMA Lookups ==
  ASSUME TypeOK
  PROVE  LookupsAreExact
<1>. QED
  BY Searches, Loops, Ordinals, Areas, Answers, Folds DEF LookupsAreExact

-----------------------------------------------------------------------------
(* The program: whatever it did to its bitmaps before.                     *)

LEMMA InitTyped == Init => TypeOK
<1>. SUFFICES ASSUME Init PROVE TypeOK
  OBVIOUS
<1>1. PICK used \in (SUBSET Bitmaps) \ {{}} : maps = [d \in used |-> [k \in WordsOf(nbits) |-> {}]]
  BY DEF Init
<1>2. BITS_PER_LONG \in LongSizes /\ nbits \in Sizes /\ constant \in {FALSE, nbits <= BITS_PER_LONG}
  BY DEF Init
<1>3. constant \in BOOLEAN
  <2>1. CASE nbits <= BITS_PER_LONG
    <3>1. (nbits <= BITS_PER_LONG) = TRUE
      BY <2>1
    <3>2. constant \in {FALSE, TRUE}
      BY <1>2, <3>1
    <3>. QED
      BY <3>2
  <2>2. CASE ~(nbits <= BITS_PER_LONG)
    <3>1. (nbits <= BITS_PER_LONG) = FALSE
      BY <2>2
    <3>2. constant \in {FALSE}
      BY <1>2, <3>1
    <3>. QED
      BY <3>2
  <2>. QED
    BY <2>1, <2>2
<1>4. DOMAIN maps = used /\ maps \in [used -> [WordsOf(nbits) -> SUBSET ones]]
  BY <1>1
<1>. QED
  BY <1>2, <1>3, <1>4 DEF TypeOK

\* Every operation leaves the bitmaps their words, and the words their width.
LEMMA NextTyped == TypeOK /\ [Next]_bitmapVars => TypeOK'
<1>. SUFFICES ASSUME TypeOK, [Next]_bitmapVars PROVE TypeOK'
  OBVIOUS
<1>1. PICK n, D, m : n = nbits /\ D = DOMAIN maps /\ m = maps
  OBVIOUS
<1>2. Width /\ n \in Nat \ {0} /\ m \in Maps(D, n)
  BY <1>1, Typed
<1>3. ASSUME UNCHANGED buildVars, maps' \in Maps(D, n)
      PROVE  TypeOK'
  <2>1. /\ BITS_PER_LONG' = BITS_PER_LONG /\ nbits' = nbits /\ constant' = constant
    BY <1>3 DEF buildVars
  <2>2. ones' = ones /\ WordsOf(nbits)' = WordsOf(nbits)
    BY <2>1 DEF ones, WordsOf, BITS_TO_LONGS
  <2>3. DOMAIN maps' = DOMAIN maps
    BY <1>1, <1>3 DEF Maps
  <2>. QED
    BY <1>1, <1>3, <2>1, <2>2, <2>3 DEF TypeOK, Maps, Words
<1>4. \A r, d, w : Stores(r, m, D, n, d, w) => r \in Maps(D, n)
  BY DEF Stores
<1>5. ASSUME NEW d \in D, Whole(d) PROVE maps' \in Maps(D, n)
  <2>1. /\ Stores(bitmap_zero(m, d, n), m, D, n, d, ZeroWords(n))
        /\ Stores(bitmap_fill(m, d, n), m, D, n, d, FillWords(n))
    BY ONLY <1>2, d \in D, ZeroStores, FillStores
  <2>. QED
    BY <1>1, <1>4, <1>5, <2>1 DEF Whole
<1>6. ASSUME NEW d \in D, NEW s \in D, Unary(d, s) PROVE maps' \in Maps(D, n)
  <2>1. /\ Stores(bitmap_copy(m, d, s, n), m, D, n, d, CopyWords(m, s, n))
        /\ Stores(bitmap_complement(m, d, s, n), m, D, n, d, ComplementWords(m, s, n))
    BY ONLY <1>2, d \in D, s \in D, CopyStores, ComplementStores
  <2>. QED
    BY <1>1, <1>4, <1>6, <2>1 DEF Unary
<1>7. ASSUME NEW d \in D, NEW s1 \in D, NEW s2 \in D, Binary(d, s1, s2)
      PROVE  maps' \in Maps(D, n)
  <2>1. /\ Stores(bitmap_and(m, d, s1, s2, n), m, D, n, d, AndWords(m, s1, s2, n))
        /\ Stores(bitmap_or(m, d, s1, s2, n), m, D, n, d, OrWords(m, s1, s2, n))
        /\ Stores(bitmap_xor(m, d, s1, s2, n), m, D, n, d, XorWords(m, s1, s2, n))
        /\ Stores(bitmap_andnot(m, d, s1, s2, n), m, D, n, d, AndnotWords(m, s1, s2, n))
    BY ONLY <1>2, d \in D, s1 \in D, s2 \in D, AndStores, OrStores, XorStores, AndnotStores
  <2>. QED
    BY <1>1, <1>4, <1>7, <2>1 DEF Binary
<1>8. ASSUME NEW d \in D, NEW s \in D, Shift(d, s) PROVE maps' \in Maps(D, n)
  <2>1. PICK shift \in Shifts : \/ maps' = bitmap_shift_right(m, d, s, shift, n)
                                \/ maps' = bitmap_shift_left(m, d, s, shift, n)
    BY <1>1, <1>8 DEF Shift
  <2>2. shift \in 0 .. n /\ (small_const_nbits(n) => shift < BITS_PER_LONG)
    BY <1>1 DEF Shifts
  <2>3. /\ Stores(bitmap_shift_right(m, d, s, shift, n), m, D, n, d,
                  RightWords(m, s, Off(shift), Rem(shift), n))
        /\ Stores(bitmap_shift_left(m, d, s, shift, n), m, D, n, d,
                  LeftWords(m, s, Off(shift), Rem(shift), n))
    BY ONLY <1>2, <2>2, d \in D, s \in D, ShiftRightStores, ShiftLeftStores
  <2>. QED
    BY <1>4, <2>1, <2>3
<1>9. ASSUME NEW d \in D, NEW s \in D, Fold(d, s) PROVE maps' \in Maps(D, n)
  <2>1. PICK sz \in 1 .. n : maps' = bitmap_fold(m, d, s, sz, n)
    BY <1>1, <1>9 DEF Fold
  <2>2. CASE d = s
    BY <1>2, <2>1, <2>2 DEF bitmap_fold
  <2>3. CASE d # s
    <3>1. WordSearchesAreExact
      BY Searches
    <3>2. PICK visited : visited = ToSet(for_each_set_bit(m[s], n))
      OBVIOUS
    <3>3. Stores(bitmap_fold(m, d, s, sz, n), m, D, n, d, FoldedWords(visited, sz, n))
      BY ONLY <1>2, <2>3, <3>1, <3>2, d \in D, s \in D, sz \in 1 .. n, FoldStores
    <3>. QED
      BY <1>4, <2>1, <3>3
  <2>. QED
    BY <2>2, <2>3
<1>10. ASSUME NEW d \in D, Run(d) PROVE maps' \in Maps(D, n)
  <2>1. PICK start \in 0 .. (n - 1) : \E len \in 0 .. (n - start) :
          \/ maps' = bitmap_set(m, d, start, len)
          \/ maps' = bitmap_clear(m, d, start, len)
    BY <1>1, <1>10 DEF Run
  <2>2. PICK len \in 0 .. (n - start) : \/ maps' = bitmap_set(m, d, start, len)
                                        \/ maps' = bitmap_clear(m, d, start, len)
    BY <2>1
  <2>3. /\ Stores(bitmap_set(m, d, start, len), m, D, n, d, SetWords(m[d], start, len, n))
        /\ Stores(bitmap_clear(m, d, start, len), m, D, n, d, ClearWords(m[d], start, len, n))
    BY ONLY <1>2, d \in D, start \in 0 .. (n - 1), len \in 0 .. (n - start), RunStores
  <2>. QED
    BY <1>4, <2>2, <2>3
<1>11. ASSUME NEW d \in D, Single(d) PROVE maps' \in Maps(D, n)
  <2>1. PICK i \in 0 .. (n - 1) :
          \/ maps' = set_bit(m, d, i) \/ maps' = clear_bit(m, d, i) \/ maps' = change_bit(m, d, i)
          \/ maps' = test_and_set_bit(m, d, i) \/ maps' = test_and_clear_bit(m, d, i)
          \/ maps' = test_and_change_bit(m, d, i)
    BY <1>1, <1>11 DEF Single
  <2>2. PICK x : x = m[d][BIT_WORD(i)]
    OBVIOUS
  <2>3. /\ Stores(set_bit(m, d, i), m, D, n, d, OneWord(m[d], i, x \cup BIT_MASK(i)))
        /\ Stores(clear_bit(m, d, i), m, D, n, d, OneWord(m[d], i, x \ BIT_MASK(i)))
        /\ Stores(change_bit(m, d, i), m, D, n, d, OneWord(m[d], i, Xor(x, BIT_MASK(i))))
        /\ Stores(test_and_set_bit(m, d, i), m, D, n, d,
                  OneWord(m[d], i, AsInt(x) \cup BIT_MASK(i)))
        /\ Stores(test_and_clear_bit(m, d, i), m, D, n, d,
                  OneWord(m[d], i, AsInt(x) \ BIT_MASK(i)))
        /\ Stores(test_and_change_bit(m, d, i), m, D, n, d,
                  OneWord(m[d], i, Xor(AsInt(x), BIT_MASK(i))))
    BY ONLY <1>2, <2>2, d \in D, i \in 0 .. (n - 1), BitStores
  <2>. QED
    BY <1>4, <2>1, <2>3
<1>12. CASE Next
  <2>1. PICK d \in D, s \in D :
          \/ Whole(d) \/ Unary(d, s) \/ (\E s2 \in D : Binary(d, s, s2)) \/ Shift(d, s)
          \/ Fold(d, s) \/ Run(d) \/ Single(d)
    BY <1>1, <1>12 DEF Next
  <2>2. UNCHANGED buildVars
    BY <1>12 DEF Next
  <2>3. maps' \in Maps(D, n)
    BY <1>5, <1>6, <1>7, <1>8, <1>9, <1>10, <1>11, <2>1
  <2>. QED
    BY <1>3, <2>2, <2>3
<1>13. CASE UNCHANGED bitmapVars
  <2>1. UNCHANGED buildVars /\ maps' \in Maps(D, n)
    BY <1>1, <1>2, <1>13 DEF bitmapVars
  <2>. QED
    BY <1>3, <2>1
<1>. QED
  BY <1>12, <1>13

\* In whatever order a program calls the operations, none stores a word the
\* bitmap does not have, and the words keep their width: the cleared end of a
\* shift, the last word of a run and the folded bits are within the bitmap.
THEOREM BitmapTyped == Spec => []TypeOK
<1>. QED
  BY InitTyped, NextTyped, PTL DEF Spec

\* And, or, xor, andnot, complement, copy and fill give every valid bit what
\* they stand for, and with clean operands no unused one, for every width of a
\* word and every size, whatever an earlier operation left behind the size.
THEOREM CombinationsBitwise == Spec => []CombinationsAreBitwise
<1>1. TypeOK => CombinationsAreBitwise
  BY Results, StaysClean, Comparisons DEF CombinationsAreBitwise
<1>. QED
  BY <1>1, BitmapTyped, PTL

\* The shifts take every bit to its new place, across words and in place,
\* whatever the width of a word, the size and the distance: the right shift is
\* the bit array operation the TSN map relies on.
THEOREM ShiftsMove == Spec => []ShiftsMoveBits
<1>. QED
  BY ShiftsMoveBit, BitmapTyped, PTL

\* Setting or clearing a run, and setting, clearing or changing a bit, changes
\* exactly these bits, across words and at the end of the last one, and a test
\* tells the bit, for every width of a word and every size.
THEOREM ChangesHold == Spec => []ChangesAreExact
<1>. QED
  BY ChangesExact, BitmapTyped, PTL

\* Every search, loop, count and lookup finds exactly what is there, from any
\* start and in any part of a bitmap, for every width of a word and every size:
\* halving a word finds its lowest and its highest bit and counts them all, the
\* ordinals and the positions are inverse, the zero area is the first that fits.
THEOREM LookupsHold == Spec => []LookupsAreExact
<1>. QED
  BY Lookups, BitmapTyped, PTL

=============================================================================
