---------------------------- MODULE TsnMapProofs ----------------------------
(***************************************************************************)
(* The TSN map, for every width of TSNs, every word size and every map     *)
(* size, in four parts.                                                    *)
(*                                                                         *)
(* Serial-number arithmetic: the piecewise values of the wrapping sum and  *)
(* difference, and the sense in which TSN_lt is an order.                  *)
(*                                                                         *)
(* The map keeps its window: IInv is inductive, so its parts hold in every *)
(* reachable state.  A TSN is handled throughout as Plus(c, x), its offset *)
(* x from the ack point c; SerialOrder and DiffShift then turn the code's  *)
(* wrapped comparisons into comparisons of offsets.                        *)
(*                                                                         *)
(* What the map promises: it implements TsnTracker, whose numbers never    *)
(* wrap and whose received numbers are a set; its queries answer from the  *)
(* tracker's state; and the duplicates it reports are the first that were  *)
(* given it.  The refinement needs CleanStorage, storage of whole words    *)
(* that malloc returns zeroed: otherwise the map does not do what the      *)
(* tracker does (run TsnMapMalloc).                                        *)
(* The gap ack iterator of SackReport, over the same map, alone uses       *)
(* IteratorAssumption.                                                     *)
(*                                                                         *)
(* Last, what the comparisons are worth: the order of the numbers that the *)
(* wrapped TSNs and SSNs stand for.                                        *)
(***************************************************************************)
EXTENDS TsnMapHistory, SackReport, FiniteSetTheorems, FunctionTheorems,
        WellFoundedInduction, TLAPS

-----------------------------------------------------------------------------
(* Serial-number arithmetic, for every width.                              *)

\* What % returns next to the range of the modulus.
LEMMA ModSmall ==
  ASSUME NEW M \in Nat \ {0}, NEW a \in Int
  PROVE  /\ a % M \in 0 .. (M - 1)
         /\ (0 <= a /\ a < M) => a % M = a
         /\ (-M <= a /\ a < 0) => a % M = a + M
         /\ (M <= a /\ a < 2 * M) => a % M = a - M
OBVIOUS

\* An integer has one quotient and one remainder.
LEMMA RemainderIsUnique ==
  ASSUME NEW M \in Nat \ {0}, NEW q \in Int, NEW r \in 0 .. (M - 1),
         NEW p \in Int, NEW s \in 0 .. (M - 1), M * q + r = M * p + s
  PROVE  r = s
<1>1. ASSUME NEW i \in Int, NEW j \in Int, i < j
      PROVE  M * i + M <= M * j
  <2>1. j = (i + 1) + (j - i - 1) /\ j - i - 1 \in Nat
    BY <1>1
  <2>2. M * j = M * (i + 1) + M * (j - i - 1)
    BY <2>1
  <2>3. M * (i + 1) = M * i + M /\ M * (j - i - 1) \in Nat
    BY <2>1
  <2> QED
    BY <2>2, <2>3
<1>2. M * q \in Int /\ M * p \in Int
  OBVIOUS
<1>3. ~(q < p)
  BY <1>1, <1>2
<1>4. ~(p < q)
  BY <1>1, <1>2
<1> QED
  BY <1>3, <1>4

LEMMA Division ==
  ASSUME NEW M \in Nat \ {0}, NEW a \in Int
  PROVE  \E q \in Int : a = M * q + (a % M) /\ a % M \in 0 .. (M - 1)
<1>1. a = M * (a \div M) + (a % M) /\ a % M \in 0 .. (M - 1) /\ a \div M \in Int
  OBVIOUS
<1> QED
  BY <1>1

\* Reducing before adding makes no difference.
LEMMA ModAdds ==
  ASSUME NEW M \in Nat \ {0}, NEW a \in Int, NEW k \in Int
  PROVE  (a + k) % M = ((a % M) + k) % M
<1> DEFINE r == a % M
            s == (a + k) % M
            t == (r + k) % M
<1>1. PICK q \in Int : a = M * q + r /\ r \in 0 .. (M - 1)
  BY Division
<1>2. PICK p \in Int : a + k = M * p + s /\ s \in 0 .. (M - 1)
  <2>1. a + k \in Int
    OBVIOUS
  <2> QED
    BY <2>1, Division
<1>3. PICK u \in Int : r + k = M * u + t /\ t \in 0 .. (M - 1)
  <2>1. r + k \in Int
    BY <1>1
  <2> QED
    BY <2>1, Division
<1> HIDE DEF r, s, t
<1>4. M * (q + u) = M * q + M * u /\ M * q \in Int /\ M * u \in Int
  OBVIOUS
<1>5. M * (q + u) + t = M * p + s
  BY <1>1, <1>2, <1>3, <1>4
<1>6. q + u \in Int
  OBVIOUS
<1>7. t = s
  BY <1>2, <1>3, <1>5, <1>6, RemainderIsUnique
<1> QED
  BY <1>7 DEF r, s, t

\* Quotient and remainder.
LEMMA DivMod ==
  ASSUME NEW M \in Nat \ {0}, NEW a \in Int
  PROVE  /\ a \div M \in Int
         /\ a % M \in 0 .. (M - 1)
         /\ a = M * (a \div M) + (a % M)
OBVIOUS

\* A remainder does not see multiples of the modulus.
LEMMA ModUnique ==
  ASSUME NEW M \in Nat \ {0}, NEW q \in Int, NEW r \in 0 .. (M - 1)
  PROVE  (M * q + r) % M = r
<1> DEFINE a  == M * q + r
           p  == a \div M
           s  == a % M
           k  == p - q
           Mp == M * p
           Mq == M * q
           Mk == M * k
<1>1. a \in Int
  OBVIOUS
<1>2. p \in Int /\ s \in 0 .. (M - 1) /\ a = M * p + s
  BY <1>1, DivMod
<1> HIDE DEF p, s
<1>3. k \in Int /\ p = q + k
  BY <1>2
<1> HIDE DEF k
<1>4. /\ Mp \in Int /\ Mq \in Int /\ Mk \in Int
      /\ Mp = Mq + Mk
      /\ Mq + r = Mp + s
  BY <1>2, <1>3
<1>5. /\ k >= 1 => Mk >= M
      /\ k <= -1 => Mk <= -M
      /\ k = 0 => Mk = 0
  BY <1>3
<1> HIDE DEF Mp, Mq, Mk
<1>6. r - s = Mk
  BY <1>2, <1>4
<1>7. k = 0
  BY <1>2, <1>3, <1>5, <1>6
<1>8. r = s
  BY <1>2, <1>5, <1>6, <1>7
<1> QED
  BY <1>8 DEF s

\* Wrapping two numbers before subtracting them changes nothing.
LEMMA ModDiff ==
  ASSUME NEW M \in Nat \ {0}, NEW a \in Int, NEW b \in Int
  PROVE  ((a % M) - (b % M)) % M = (a - b) % M
<1> DEFINE A  == a \div M
           B  == b \div M
           Q  == (a - b) \div M
           k  == Q - A + B
           ra == a % M
           rb == b % M
           r  == (a - b) % M
           MA == M * A
           MB == M * B
           MQ == M * Q
           Mk == M * k
<1>1. A \in Int /\ ra \in 0 .. (M - 1) /\ a = M * A + ra
  BY DivMod
<1>2. B \in Int /\ rb \in 0 .. (M - 1) /\ b = M * B + rb
  BY DivMod
<1>3. a - b \in Int
  OBVIOUS
<1>4. Q \in Int /\ r \in 0 .. (M - 1) /\ a - b = M * Q + r
  BY <1>3, DivMod
<1> HIDE DEF A, B, Q, ra, rb, r
<1>5. /\ k \in Int
      /\ MA \in Int /\ MB \in Int /\ MQ \in Int /\ Mk \in Int
      /\ a = MA + ra /\ b = MB + rb /\ a - b = MQ + r
      /\ Mk = MQ - MA + MB
  BY <1>1, <1>2, <1>4
<1> HIDE DEF k, MA, MB, MQ, Mk
<1>6. ra - rb = Mk + r
  BY <1>1, <1>2, <1>4, <1>5
<1>7. ra - rb = M * k + r
  BY <1>6 DEF Mk
<1>8. (ra - rb) % M = r
  BY <1>4, <1>5, <1>7, ModUnique
<1> QED
  BY <1>8 DEF ra, rb, r

\* A difference smaller than the modulus wraps at most once.
LEMMA SmallDiff ==
  ASSUME NEW M \in Nat \ {0}, NEW d \in Int, -M < d, d < M
  PROVE  d % M = IF d < 0 THEN d + M ELSE d
OBVIOUS

\* The number of TSNs, and its half, are positive naturals.
LEMMA SpaceIsNat ==
  /\ TSNSpace \in Nat \ {0}
  /\ TSNSpace = 2 * TSN_SIGN_BIT
  /\ TSN_SIGN_BIT \in Nat \ {0}
BY SignBitAssumption DEF TSNSpace

\* t + k wraps at most once (uint32_t addition of a small offset).
LEMMA PlusValue ==
  ASSUME NEW t \in TSN, NEW k \in Int, k >= -TSNSpace, k <= TSNSpace
  PROVE  /\ Plus(t, k) \in TSN
         /\ Plus(t, k) = IF t + k < 0 THEN t + k + TSNSpace
                         ELSE IF t + k < TSNSpace THEN t + k ELSE t + k - TSNSpace
<1> DEFINE a == t + k
<1>1. a \in Int /\ -TSNSpace <= a /\ a < 2 * TSNSpace
  BY SpaceIsNat DEF TSN
<1> HIDE DEF a
<1>2. /\ a % TSNSpace \in 0 .. (TSNSpace - 1)
      /\ (0 <= a /\ a < TSNSpace) => a % TSNSpace = a
      /\ (-TSNSpace <= a /\ a < 0) => a % TSNSpace = a + TSNSpace
      /\ (TSNSpace <= a /\ a < 2 * TSNSpace) => a % TSNSpace = a - TSNSpace
  BY <1>1, SpaceIsNat, ModSmall
<1>3. Plus(t, k) = a % TSNSpace
  BY DEF Plus, a
<1>4. Plus(t, k) = IF a < 0 THEN a + TSNSpace
                   ELSE IF a < TSNSpace THEN a ELSE a - TSNSpace
  BY <1>1, <1>2, <1>3, SpaceIsNat
<1>5. Plus(t, k) \in TSN
  BY <1>2, <1>3 DEF TSN
<1> QED
  BY <1>4, <1>5, SpaceIsNat DEF a, TSN

\* s - t wraps exactly when s is the smaller integer.
LEMMA DiffValue ==
  ASSUME NEW s \in TSN, NEW t \in TSN
  PROVE  Diff(s, t) = IF s < t THEN s - t + TSNSpace ELSE s - t
<1> DEFINE d == s - t
<1>1. d \in Int /\ -TSNSpace <= d /\ d < TSNSpace
  BY SpaceIsNat DEF TSN
<1> HIDE DEF d
<1>2. /\ (0 <= d /\ d < TSNSpace) => d % TSNSpace = d
      /\ (-TSNSpace <= d /\ d < 0) => d % TSNSpace = d + TSNSpace
  BY <1>1, SpaceIsNat, ModSmall
<1>3. Diff(s, t) = IF d < 0 THEN d + TSNSpace ELSE d
  BY <1>1, <1>2, SpaceIsNat DEF Diff, d
<1> QED
  BY <1>3, SpaceIsNat DEF d, TSN

\* Adding k to a TSN puts it k ahead.
LEMMA DiffPlus ==
  ASSUME NEW c \in TSN, NEW k \in 0 .. (TSNSpace - 1)
  PROVE  Diff(Plus(c, k), c) = k
<1>1. /\ Plus(c, k) \in TSN
      /\ Plus(c, k) = IF c + k < TSNSpace THEN c + k ELSE c + k - TSNSpace
  BY SpaceIsNat, PlusValue DEF TSN
<1>2. Diff(Plus(c, k), c) = IF Plus(c, k) < c THEN Plus(c, k) - c + TSNSpace ELSE Plus(c, k) - c
  BY <1>1, DiffValue 
<1> QED
  BY <1>1, <1>2, SpaceIsNat DEF TSN

\* Every TSN is its distance ahead of any other.
LEMMA PlusDiff ==
  ASSUME NEW s \in TSN, NEW t \in TSN
  PROVE  Diff(s, t) \in 0 .. (TSNSpace - 1) /\ Plus(t, Diff(s, t)) = s
<1> DEFINE k == Diff(s, t)
<1>1. k = IF s < t THEN s - t + TSNSpace ELSE s - t
  BY DiffValue
<1> HIDE DEF k
<1>2. k \in 0 .. (TSNSpace - 1)
  BY <1>1, SpaceIsNat DEF TSN
<1>3. k \in Int /\ k >= -TSNSpace /\ k <= TSNSpace
  BY <1>2, SpaceIsNat
<1>4. Plus(t, k) = IF t + k < 0 THEN t + k + TSNSpace
                   ELSE IF t + k < TSNSpace THEN t + k ELSE t + k - TSNSpace
  BY <1>3, PlusValue
<1>5. Plus(t, k) = s
  BY <1>1, <1>2, <1>4, SpaceIsNat DEF TSN
<1> QED
  BY <1>2, <1>5 DEF k

\* Distances are those of the offsets from a common TSN.
LEMMA DiffShift ==
  ASSUME NEW c \in TSN, NEW x \in 0 .. (TSNSpace - 1), NEW y \in 0 .. (TSNSpace - 1)
  PROVE  Diff(Plus(c, x), Plus(c, y)) = IF x >= y THEN x - y ELSE x - y + TSNSpace
<1>1. /\ Plus(c, x) \in TSN
      /\ Plus(c, x) = IF c + x < TSNSpace THEN c + x ELSE c + x - TSNSpace
  BY SpaceIsNat, PlusValue DEF TSN
<1>2. /\ Plus(c, y) \in TSN
      /\ Plus(c, y) = IF c + y < TSNSpace THEN c + y ELSE c + y - TSNSpace
  BY SpaceIsNat, PlusValue DEF TSN
<1>3. Diff(Plus(c, x), Plus(c, y)) = IF Plus(c, x) < Plus(c, y) THEN Plus(c, x) - Plus(c, y) + TSNSpace ELSE Plus(c, x) - Plus(c, y)
  BY <1>1, <1>2, DiffValue 
<1> QED
  BY <1>1, <1>2, <1>3, SpaceIsNat DEF TSN

\* Offsets add up as long as they stay within one turn.
LEMMA PlusPlus ==
  ASSUME NEW c \in TSN, NEW x \in 0 .. (TSNSpace - 1),
         NEW y \in 0 .. (TSNSpace - 1), x + y < TSNSpace
  PROVE  Plus(Plus(c, x), y) = Plus(c, x + y)
<1> DEFINE p == Plus(c, x)
<1>1. /\ p \in TSN
      /\ p = IF c + x < TSNSpace THEN c + x ELSE c + x - TSNSpace
  BY SpaceIsNat, PlusValue DEF TSN
<1> HIDE DEF p
<1>2. y \in Int /\ y >= -TSNSpace /\ y <= TSNSpace
  BY SpaceIsNat
<1>3. Plus(p, y) = IF p + y < 0 THEN p + y + TSNSpace
                   ELSE IF p + y < TSNSpace THEN p + y ELSE p + y - TSNSpace
  BY <1>1, <1>2, PlusValue
<1> DEFINE z == x + y
<1>4. z \in Int /\ 0 <= z /\ z <= TSNSpace
  BY SpaceIsNat
<1>5. z = x + y
  OBVIOUS
<1> HIDE DEF z
<1>6. Plus(c, z) = IF c + z < 0 THEN c + z + TSNSpace
                   ELSE IF c + z < TSNSpace THEN c + z ELSE c + z - TSNSpace
  BY <1>4, SpaceIsNat, PlusValue
<1>7. Plus(p, y) = Plus(c, z)
  BY <1>1, <1>3, <1>4, <1>5, <1>6, SpaceIsNat DEF TSN
<1> QED
  BY <1>7 DEF p, z

-----------------------------------------------------------------------------
\* Within half a turn ahead of any TSN c, TSN_lt orders the TSNs as their
\* distances from c: the order every comparison of the TSN map relies on.
THEOREM SerialOrder ==
  ASSUME NEW c \in TSN,
         NEW x \in 0 .. (TSN_SIGN_BIT - 1), NEW y \in 0 .. (TSN_SIGN_BIT - 1)
  PROVE  TSN_lt(Plus(c, x), Plus(c, y)) <=> x < y
<1>1. x \in 0 .. (TSNSpace - 1) /\ y \in 0 .. (TSNSpace - 1)
  BY SpaceIsNat
<1>2. Diff(Plus(c, x), Plus(c, y)) = IF x >= y THEN x - y ELSE x - y + TSNSpace
  BY <1>1, DiffShift
<1> QED
  BY <1>2, SpaceIsNat DEF TSN_lt

\* TSN_lt is the relation of RFC 1982 the comment in vlstp.h quotes, for any
\* two TSNs that are not exactly half the number space apart.
THEOREM TSN_ltIsRFC1982 ==
  ASSUME NEW s \in TSN, NEW t \in TSN, Diff(s, t) # TSN_SIGN_BIT
  PROVE  TSN_lt(s, t) <=> RFC1982_lt(s, t)
<1>1. Diff(s, t) = IF s < t THEN s - t + TSNSpace ELSE s - t
  BY DiffValue
<1> QED
  BY <1>1, SpaceIsNat DEF TSN_lt, RFC1982_lt, TSN

\* Two TSNs exactly half the space apart are each less than the other, where
\* RFC 1982 orders neither.
THEOREM AntipodesAreBothLess ==
  ASSUME NEW s \in TSN, NEW t \in TSN, Diff(s, t) = TSN_SIGN_BIT
  PROVE  /\ TSN_lt(s, t) /\ TSN_lt(t, s)
         /\ ~RFC1982_lt(s, t) /\ ~RFC1982_lt(t, s)
<1>1. Diff(s, t) = IF s < t THEN s - t + TSNSpace ELSE s - t
  BY DiffValue
<1>2. Diff(t, s) = IF t < s THEN t - s + TSNSpace ELSE t - s
  BY DiffValue
<1> QED
  BY <1>1, <1>2, SpaceIsNat DEF TSN_lt, RFC1982_lt, TSN

-----------------------------------------------------------------------------
(* Facts about the operators of BitArray, for every word size.             *)

\* Every nonempty set of naturals has a least element.
LEMMA LeastNat ==
  ASSUME NEW S \in SUBSET Nat, S # {}
  PROVE  \E x \in S : \A y \in S : x <= y
<1>1. PICK x \in S : \A y \in S : ~(<<y, x>> \in OpToRel(<, Nat))
  BY WFMin, NatLessThanWellFounded
<1>2. \A y \in S : x <= y
  <2> TAKE y \in S
  <2>1. ~(<<y, x>> \in OpToRel(<, Nat))
    BY <1>1
  <2>2. ~(y < x)
    BY <2>1 DEF OpToRel
  <2> QED
    BY <2>2
<1> QED
  BY <1>2

\* Min of a nonempty set of naturals is its least element.
LEMMA MinIsLeast ==
  ASSUME NEW S \in SUBSET Nat, S # {}
  PROVE  Min(S) \in S /\ \A y \in S : Min(S) <= y
BY LeastNat DEF Min

\* find_first_zero_bit stops at the first clear bit: everything below is set,
\* and the bit it stops at is clear unless the search reached size.
LEMMA FirstZeroBit ==
  ASSUME NEW map, NEW size \in Nat
  PROVE  LET z == find_first_zero_bit(map, size)
         IN  /\ z \in 0 .. size
             /\ \A i \in 0 .. (z - 1) : i \in map
             /\ z < size => z \notin map
<1> DEFINE zeros == (0 .. (size - 1)) \ map
           z     == find_first_zero_bit(map, size)
<1>1. CASE zeros = {}
  <2>1. z = size
    BY <1>1 DEF find_first_zero_bit
  <2> QED
    BY <1>1, <2>1
<1>2. CASE zeros # {}
  <2>1. z = Min(zeros)
    BY <1>2 DEF find_first_zero_bit
  <2>2. zeros \in SUBSET Nat
    OBVIOUS
  <2>3. z \in zeros /\ \A y \in zeros : z <= y
    BY <1>2, <2>1, <2>2, MinIsLeast
  <2>4. z \in 0 .. (size - 1) /\ z \notin map
    BY <2>3
  <2>5. ASSUME NEW i \in 0 .. (z - 1), i \notin map
        PROVE  FALSE
    <3>1. i \in zeros /\ i < z
      BY <2>4, <2>5
    <3> QED
      BY <2>3, <2>4, <3>1
  <2> HIDE DEF z
  <2> QED
    BY <2>4, <2>5 DEF z
<1> QED
  BY <1>1, <1>2

\* ALIGN rounds up.
LEMMA AlignRoundsUp ==
  ASSUME NEW x \in Nat, NEW a \in Nat \ {0}
  PROVE  ALIGN(x, a) \in Nat /\ ALIGN(x, a) >= x
<1> DEFINE y == x + a - 1
           q == y \div a
<1>1. y \in Nat
  OBVIOUS
<1>2. q \in Nat /\ y = a * q + (y % a) /\ y % a \in 0 .. (a - 1)
  BY <1>1
<1>3. a * q = q * a
  BY <1>2
<1> QED
  BY <1>1, <1>2, <1>3 DEF ALIGN

\* Rounding up keeps order.
LEMMA AlignMonotone ==
  ASSUME NEW x \in Nat, NEW y \in Nat, NEW a \in Nat \ {0}, x <= y
  PROVE  ALIGN(x, a) <= ALIGN(y, a)
<1> DEFINE p == (x + a - 1) \div a
           q == (y + a - 1) \div a
<1>1. p \in Nat /\ q \in Nat /\ p <= q
  OBVIOUS
<1> HIDE DEF p, q
<1>2. p * a <= q * a
  BY <1>1
<1> QED
  BY <1>2 DEF ALIGN, p, q

\* The storage of a map of n bits holds at least n bits, and no fewer than
\* that of a smaller map.
LEMMA StorageCovers ==
  ASSUME NEW n \in Nat
  PROVE  BitsOfLongs(n) \in Nat /\ BitsOfLongs(n) >= n
BY WordAssumption, AlignRoundsUp DEF BitsOfLongs

LEMMA StorageMonotone ==
  ASSUME NEW m \in Nat, NEW n \in Nat, m <= n
  PROVE  BitsOfLongs(m) <= BitsOfLongs(n)
BY WordAssumption, AlignMonotone DEF BitsOfLongs

\* Rounding up gives whole words, and so do sums of whole words.
LEMMA AlignIsWhole ==
  ASSUME NEW x \in Nat, NEW a \in Nat \ {0}
  PROVE  ALIGN(x, a) % a = 0
<1> DEFINE q == (x + a - 1) \div a
<1>1. q \in Int
  OBVIOUS
<1> HIDE DEF q
<1>2. q * a = a * q + 0 /\ 0 \in 0 .. (a - 1)
  BY <1>1
<1>3. (a * q + 0) % a = 0
  BY <1>1, <1>2, ModUnique
<1> QED
  BY <1>2, <1>3 DEF ALIGN, q

LEMMA SumIsWhole ==
  ASSUME NEW x \in Nat, NEW y \in Nat, NEW a \in Nat \ {0},
         x % a = 0, y % a = 0
  PROVE  (x + y) % a = 0
<1>1. x \in Int /\ y \in Int
  OBVIOUS
<1>2. (x + y) % a = ((x % a) + y) % a
  BY <1>1, ModAdds
<1>3. 0 + y = y
  OBVIOUS
<1> QED
  BY <1>2, <1>3

\* malloc(n >> 3) gives a map of whole words all the bits of its words.
LEMMA WholeIsBacked ==
  ASSUME NEW n \in Nat, n % BITS_PER_LONG = 0
  PROVE  Backed(n) = n /\ BitsOfLongs(n) = n
<1> DEFINE L == BITS_PER_LONG
           B == BITS_PER_BYTE
           k == n \div L
           j == L \div B
           q == n \div B
<1>1. L \in Nat \ {0} /\ B \in Nat \ {0} /\ L % B = 0
  BY WordAssumption, MapAssumption
<1>2. k \in Int /\ n = L * k
  <2>1. n \in Int
    OBVIOUS
  <2>2. k \in Int /\ n = L * k + (n % L)
    BY ONLY <1>1, <2>1, DivMod
  <2>3. L * k \in Int
    BY <1>1, <2>2
  <2> QED
    BY <2>2, <2>3
<1>3. j \in Int /\ L = B * j
  <2>1. L \in Int
    BY <1>1
  <2>2. j \in Int /\ L = B * j + (L % B)
    BY ONLY <1>1, <2>1, DivMod
  <2>3. B * j \in Int
    BY <1>1, <2>2
  <2> QED
    BY <1>1, <2>2, <2>3
<1>4. Backed(n) = n
  <2> HIDE DEF k, j, L, B
  <2>1. j * k \in Int /\ 0 \in 0 .. (B - 1)
    BY <1>1, <1>2, <1>3
  <2>2. n = B * (j * k) + 0
    <3>1. n = (B * j) * k
      BY <1>2, <1>3
    <3>2. (B * j) * k = B * (j * k)
      BY <1>1, <1>2, <1>3
    <3>3. B * (j * k) \in Int
      BY <1>1, <2>1
    <3> QED
      BY <3>1, <3>2, <3>3
  <2>3. (B * (j * k) + 0) % B = 0
    BY <1>1, <2>1, ModUnique
  <2>4. n % B = 0
    BY <2>2, <2>3
  <2>5. q \in Int /\ n = B * q + (n % B)
    <3>1. n \in Int
      OBVIOUS
    <3> QED
      BY ONLY <1>1, <3>1, DivMod
  <2> HIDE DEF q
  <2>6. n = q * B
    BY <1>1, <2>4, <2>5
  <2> QED
    BY <2>6 DEF Backed, q, B
<1>5. BitsOfLongs(n) = n
  <2> DEFINE m == n + L - 1
             d == m \div L
             e == m % L
  <2>1. m \in Int
    BY <1>1
  <2>2. d \in Int /\ e \in 0 .. (L - 1) /\ m = L * d + e
    BY ONLY <1>1, <2>1, DivMod
  <2>3. m = L * k + (L - 1) /\ L - 1 \in 0 .. (L - 1)
    <3> HIDE DEF k, L
    <3>1. L * k \in Int
      BY <1>1, <1>2
    <3> QED
      BY <1>1, <1>2, <3>1
  <2>4. (L * k + (L - 1)) % L = L - 1
    BY ONLY <1>1, <1>2, <2>3, ModUnique
  <2>5. e = L - 1
    BY <2>3, <2>4
  <2> HIDE DEF d, e, k, L
  <2>6. L * d = L * k
    <3>1. L * d \in Int /\ L * k \in Int
      BY <1>1, <1>2, <2>2
    <3> HIDE DEF m
    <3> QED
      BY <1>1, <2>2, <2>3, <2>5, <3>1
  <2>7. d * L = n
    BY <1>1, <1>2, <2>2, <2>6
  <2> QED
    BY <2>7 DEF BitsOfLongs, ALIGN, d, m, L
<1> QED
  BY <1>4, <1>5

\* Storage of whole words that malloc returns zeroed holds no set bit.
LEMMA CleanIsEmpty ==
  ASSUME NEW n \in Nat, n % BITS_PER_LONG = 0, ZeroedHeap, NEW k \in Nat,
         NEW junk \in MallocBits(k .. (BitsOfLongs(n) - 1), n)
  PROVE  junk = {}
<1>1. Backed(n) = n /\ BitsOfLongs(n) = n
  BY WholeIsBacked
<1>2. \A i \in junk : i \in k .. (n - 1) /\ i >= n
  BY <1>1 DEF MallocBits
<1> QED
  BY <1>2

\* A right shift leaves the bits that were shift places further up, inside
\* the shifted range.
LEMMA ShiftRightBits ==
  ASSUME NEW map, NEW shift \in Nat, NEW nbits \in Nat, NEW i
  PROVE  i \in bitmap_shift_right(map, shift, nbits) <=>
           i \in 0 .. (nbits - 1) /\ i + shift < nbits /\ i + shift \in map
BY DEF bitmap_shift_right

-----------------------------------------------------------------------------
(* The TSN map.                                                            *)

\* The sizes: a map offset fits in 16 bits and in half the TSN space.
LEMMA Sizes ==
  /\ VLSTP_TSN_MAP_SIZE \in Nat \ {0}
  /\ GapSpace \in Nat
  /\ VLSTP_TSN_MAP_SIZE < GapSpace
  /\ GapSpace <= TSN_SIGN_BIT
  /\ BITS_PER_LONG \in Nat \ {0}
  /\ TSN_SIGN_BIT \in Nat \ {0}
  /\ TSNSpace \in Nat \ {0}
  /\ TSNSpace = 2 * TSN_SIGN_BIT
  /\ TSN = 0 .. (TSNSpace - 1)
BY MapAssumption, WordAssumption, SpaceIsNat DEF TSN

\* TSNs one apart.
LEMMA NextTSN ==
  ASSUME NEW c \in TSN
  PROVE  Plus(c, 1) \in TSN /\ Diff(Plus(c, 1), c) = 1
<1>1. 1 \in 0 .. (TSNSpace - 1) /\ 1 \in Int /\ 1 >= -TSNSpace /\ 1 <= TSNSpace
  BY Sizes
<1> QED
  BY <1>1, DiffPlus, PlusValue

\* Where the ack point stands, skipping nothing moves it nowhere.
LEMMA PlusZero ==
  ASSUME NEW c \in TSN
  PROVE  Plus(c, 0) = c
<1>1. 0 \in Int /\ 0 >= -TSNSpace /\ 0 <= TSNSpace /\ c \in Int /\ 0 <= c /\ c < TSNSpace
  BY Sizes
<1>2. Plus(c, 0) = c + 0
  BY <1>1, PlusValue
<1> QED
  BY <1>1, <1>2

\* Storing an offset of the map in a uint16_t does not change it.
LEMMA SmallIs16Bit ==
  ASSUME NEW k \in 0 .. VLSTP_TSN_MAP_SIZE
  PROVE  k % GapSpace = k
<1>1. GapSpace \in Nat \ {0} /\ k \in Int /\ 0 <= k /\ k < GapSpace
  BY Sizes
<1> QED
  BY <1>1, ModSmall

\* A TSN that is not below bit 0 and below bit n - 1 lies 1 to n - 1 after
\* the ack point.
LEMMA InWindow ==
  ASSUME NEW c \in TSN, NEW x \in 0 .. (TSNSpace - 1),
         NEW n \in 1 .. TSN_SIGN_BIT,
         ~TSN_lt(Plus(c, x), Plus(c, 1)),
         TSN_lt(Plus(c, x), Plus(c, n))
  PROVE  x \in 1 .. (n - 1)
<1>1. 1 \in 0 .. (TSNSpace - 1) /\ n \in 0 .. (TSNSpace - 1)
  BY Sizes
<1>2. /\ Diff(Plus(c, x), Plus(c, 1)) = IF x >= 1 THEN x - 1 ELSE x - 1 + TSNSpace
      /\ Diff(Plus(c, x), Plus(c, n)) = IF x >= n THEN x - n ELSE x - n + TSNSpace
  BY <1>1, DiffShift
<1> QED
  BY <1>2, Sizes DEF TSN_lt

\* An ack point that moved by at most the size of the map has not gone back.
LEMMA AckPointMovedAhead ==
  ASSUME NEW c \in TSN, NEW z \in 0 .. VLSTP_TSN_MAP_SIZE
  PROVE  TSN_lte(c, Plus(c, z))
<1>1. 0 \in 0 .. (TSNSpace - 1) /\ z \in 0 .. (TSNSpace - 1)
  BY Sizes
<1>2. /\ Plus(c, 0) = IF c + 0 < 0 THEN c + 0 + TSNSpace
                      ELSE IF c + 0 < TSNSpace THEN c + 0 ELSE c + 0 - TSNSpace
      /\ Diff(Plus(c, 0), Plus(c, z)) = IF 0 >= z THEN 0 - z ELSE 0 - z + TSNSpace
  <2>1. 0 \in Int /\ 0 >= -TSNSpace /\ 0 <= TSNSpace
    BY Sizes
  <2> QED
    BY <1>1, <2>1, PlusValue, DiffShift
<1>3. Plus(c, 0) = c
  BY <1>2, Sizes
<1> QED
  BY <1>2, <1>3, Sizes DEF TSN_lte, TSN_lt

\* The highest TSN seen, as an offset from the ack point.
LEMMA MaxSeenOffset ==
  ASSUME TypeOK, Span < TSN_SIGN_BIT, NEW x \in 0 .. (TSN_SIGN_BIT - 1)
  PROVE  MaxSeen(Plus(cumulative_tsn_ack_point, x)) =
           Plus(cumulative_tsn_ack_point, IF Span < x THEN x ELSE Span)
<1>1. /\ cumulative_tsn_ack_point \in TSN
      /\ max_tsn_seen = Plus(cumulative_tsn_ack_point, Span)
      /\ Span \in 0 .. (TSNSpace - 1)
  BY PlusDiff DEF TypeOK, Span
<1>2. Span \in 0 .. (TSN_SIGN_BIT - 1)
  BY <1>1, Sizes
<1>3. TSN_lt(max_tsn_seen, Plus(cumulative_tsn_ack_point, x)) <=> Span < x
  BY <1>1, <1>2, SerialOrder
<1> QED
  BY <1>1, <1>3 DEF MaxSeen

\* vlstp_tsnmap_update, called with the ack point c, the highest TSN seen D
\* after it and a map of n >= D bits, moves the ack point z <= D ahead and
\* keeps bit 0 right after it.  If no bit was set at or after D, the new
\* bit 0 is clear and no bit is set at or after the new distance D - z.
LEMMA UpdateStep ==
  ASSUME NEW c \in TSN, NEW D \in 0 .. VLSTP_TSN_MAP_SIZE,
         NEW n \in 0 .. VLSTP_TSN_MAP_SIZE, D <= n,
         NEW bits \in SUBSET (0 .. (BitsOfLongs(n) - 1)),
         CleanStorage => \A i \in bits : i < D,
         vlstp_tsnmap_update(bits, n, Plus(c, 1), c, Plus(c, D))
  PROVE  /\ base_tsn' \in TSN
         /\ cumulative_tsn_ack_point' \in TSN
         /\ base_tsn' = Plus(cumulative_tsn_ack_point', 1)
         /\ \E z \in 0 .. D : cumulative_tsn_ack_point' = Plus(c, z)
         /\ Diff(Plus(c, D), cumulative_tsn_ack_point') \in 0 .. n
         /\ tsn_map' \in SUBSET (0 .. (BitsOfLongs(n) - 1))
         /\ CleanStorage => 0 \notin tsn_map'
         /\ CleanStorage => \A i \in tsn_map' :
              i < Diff(Plus(c, D), cumulative_tsn_ack_point')
<1> DEFINE z == find_first_zero_bit(bits, D)
<1>1. D \in 0 .. (TSNSpace - 1) /\ D \in Nat /\ n \in Nat
  BY Sizes
<1>2. Diff(Plus(c, D), c) = D
  BY <1>1, DiffPlus
<1>3. D % GapSpace = D
  BY Sizes, SmallIs16Bit
<1>4. /\ z \in 0 .. D
      /\ \A i \in 0 .. (z - 1) : i \in bits
      /\ z < D => z \notin bits
  BY <1>1, FirstZeroBit
<1>5. /\ base_tsn' = Plus(Plus(c, 1), z)
      /\ cumulative_tsn_ack_point' = Plus(c, z)
      /\ tsn_map' = IF z = 0 THEN bits ELSE bitmap_shift_right(bits, z, n)
  BY <1>2, <1>3 DEF vlstp_tsnmap_update
<1> HIDE DEF z
<1>6. z \in Nat /\ z \in 0 .. (TSNSpace - 1) /\ 1 \in 0 .. (TSNSpace - 1)
      /\ z + 1 < TSNSpace
  BY <1>1, <1>4, Sizes
<1>7. Plus(Plus(c, 1), z) = Plus(c, 1 + z) /\ Plus(Plus(c, z), 1) = Plus(c, z + 1)
  BY <1>6, Sizes, PlusPlus
<1>8. Plus(c, z) \in TSN /\ Plus(c, z + 1) \in TSN
  <2>1. /\ z \in Int /\ z >= -TSNSpace /\ z <= TSNSpace
        /\ z + 1 \in Int /\ z + 1 >= -TSNSpace /\ z + 1 <= TSNSpace
    BY <1>6, Sizes
  <2> QED
    BY <2>1, PlusValue
<1>9. base_tsn' = Plus(cumulative_tsn_ack_point', 1)
  BY <1>5, <1>6, <1>7
<1>10. Diff(Plus(c, D), cumulative_tsn_ack_point') = D - z
  BY <1>1, <1>4, <1>5, <1>6, DiffShift
<1>11. \A i \in bitmap_shift_right(bits, z, n) :
         i \in 0 .. (n - 1) /\ i + z \in bits
  BY <1>6, <1>1, ShiftRightBits
<1>12. tsn_map' \in SUBSET (0 .. (BitsOfLongs(n) - 1))
  <2>1. BitsOfLongs(n) \in Nat /\ BitsOfLongs(n) >= n
    BY <1>1, StorageCovers
  <2> QED
    BY <1>5, <1>11, <2>1
<1>13. ASSUME CleanStorage
       PROVE  0 \notin tsn_map' /\ \A i \in tsn_map' : i < D - z
  <2>1. \A i \in bits : i \in Nat /\ i < D
    <3>1. BitsOfLongs(n) \in Nat
      BY <1>1, StorageCovers
    <3> QED
      BY <1>13, <3>1
  <2>2. z \notin bits
    BY <1>4, <2>1
  <2>3. CASE z = 0
    BY <1>1, <1>5, <2>1, <2>2, <2>3
  <2>4. CASE z # 0
    <3>1. 0 \notin tsn_map'
      <4>1. 0 + z = z
        BY <1>6
      <4> QED
        BY <1>5, <1>11, <2>2, <2>4, <4>1
    <3>2. ASSUME NEW i \in tsn_map'
          PROVE  i < D - z
      <4>1. i \in 0 .. (n - 1) /\ i + z \in bits
        BY <1>5, <1>11, <2>4
      <4> QED
        BY <1>1, <1>6, <2>1, <4>1
    <3> QED
      BY <3>1, <3>2
  <2> QED
    BY <2>3, <2>4
<1> QED
  BY <1>1, <1>4, <1>5, <1>7, <1>8, <1>9, <1>10, <1>12, <1>13

-----------------------------------------------------------------------------
\* The window as IInv gives it: c is the ack point, the highest TSN is Span
\* after it, at most the length of the map.
LEMMA Window ==
  ASSUME IInv, mem = "live"
  PROVE  /\ base_tsn \in TSN /\ cumulative_tsn_ack_point \in TSN
         /\ base_tsn = Plus(cumulative_tsn_ack_point, 1)
         /\ max_tsn_seen = Plus(cumulative_tsn_ack_point, Span)
         /\ len \in 0 .. VLSTP_TSN_MAP_SIZE
         /\ Span \in 0 .. len
         /\ Span < TSN_SIGN_BIT
<1>1. /\ base_tsn \in TSN /\ cumulative_tsn_ack_point \in TSN
      /\ max_tsn_seen \in TSN /\ len \in 0 .. VLSTP_TSN_MAP_SIZE
  BY DEF IInv, TypeOK
<1>2. /\ Span \in 0 .. (TSNSpace - 1)
      /\ max_tsn_seen = Plus(cumulative_tsn_ack_point, Span)
  BY <1>1, PlusDiff DEF Span
<1>3. Span <= len /\ base_tsn = Plus(cumulative_tsn_ack_point, 1)
  BY DEF IInv, GapFitsMap, BaseFollowsAckPoint
<1> QED
  BY <1>1, <1>2, <1>3, Sizes

\* Every TSN is an offset from the ack point; bit 0 has offset 1.
LEMMA Offset ==
  ASSUME IInv, mem = "live", NEW tsn \in TSN
  PROVE  LET c == cumulative_tsn_ack_point
             x == Diff(tsn, c)
         IN  /\ x \in 0 .. (TSNSpace - 1)
             /\ tsn = Plus(c, x)
             /\ x >= 1 => Diff(tsn, base_tsn) = x - 1
             /\ \A n \in 0 .. VLSTP_TSN_MAP_SIZE :
                  Plus(base_tsn, n) = Plus(c, n + 1)
<1> DEFINE c == cumulative_tsn_ack_point
           x == Diff(tsn, c)
<1>1. c \in TSN /\ base_tsn = Plus(c, 1)
  BY Window
<1>2. x \in 0 .. (TSNSpace - 1) /\ tsn = Plus(c, x)
  BY <1>1, PlusDiff
<1>3. 1 \in 0 .. (TSNSpace - 1)
  BY Sizes
<1> HIDE DEF x
<1>4. x >= 1 => Diff(tsn, base_tsn) = x - 1
  BY <1>1, <1>2, <1>3, DiffShift
<1>5. ASSUME NEW n \in 0 .. VLSTP_TSN_MAP_SIZE
      PROVE  Plus(base_tsn, n) = Plus(c, n + 1)
  <2>1. n \in 0 .. (TSNSpace - 1) /\ 1 + n < TSNSpace /\ 1 + n = n + 1
    BY Sizes
  <2> QED
    BY <1>1, <1>3, <2>1, PlusPlus
<1> QED
  BY <1>2, <1>4, <1>5 DEF x

\* A TSN the receiver marks and the map does not ignore is at most
\* VLSTP_TSN_MAP_SIZE after the ack point.
LEMMA MarkedOffset ==
  ASSUME IInv, mem = "live", NEW tsn \in TSN,
         Trackable(tsn), ~TSN_lt(tsn, base_tsn)
  PROVE  Diff(tsn, cumulative_tsn_ack_point) \in 1 .. VLSTP_TSN_MAP_SIZE
<1> DEFINE c == cumulative_tsn_ack_point
           x == Diff(tsn, c)
<1>1. /\ x \in 0 .. (TSNSpace - 1) /\ tsn = Plus(c, x)
      /\ x >= 1 => Diff(tsn, base_tsn) = x - 1
      /\ Plus(base_tsn, VLSTP_TSN_MAP_SIZE) = Plus(c, VLSTP_TSN_MAP_SIZE + 1)
  BY Offset, Sizes
<1>2. c \in TSN /\ base_tsn = Plus(c, 1) /\ 1 \in 0 .. (TSNSpace - 1)
  BY Window, Sizes
<1>3. x # TSN_SIGN_BIT
  BY DEF Trackable
<1>4. CASE TSN_lte(tsn, c)
  <2>1. x = 0 \/ x >= TSN_SIGN_BIT
    <3>1. Diff(c, c) = 0
      <4>1. c \in Int /\ TSNSpace \in Nat \ {0}
        BY <1>2, Sizes
      <4> QED
        BY <1>2, <4>1, DiffValue
    <3> QED
      BY <1>4, <3>1 DEF TSN_lte, TSN_lt
  <2>2. Diff(tsn, base_tsn) = IF x >= 1 THEN x - 1 ELSE x - 1 + TSNSpace
    BY <1>1, <1>2, DiffShift
  <2>3. Diff(tsn, base_tsn) >= TSN_SIGN_BIT
    BY <1>1, <1>3, <2>1, <2>2, Sizes
  <2> QED
    BY <2>3 DEF TSN_lt
<1>5. CASE ~TSN_lte(tsn, c)
  <2>1. TSN_lt(tsn, Plus(base_tsn, VLSTP_TSN_MAP_SIZE))
    BY <1>5, Sizes DEF Trackable, vlstp_tsnmap_check
  <2>2. VLSTP_TSN_MAP_SIZE + 1 \in 1 .. TSN_SIGN_BIT
    BY Sizes
  <2>3. x \in 1 .. ((VLSTP_TSN_MAP_SIZE + 1) - 1)
    BY <1>1, <1>2, <2>1, <2>2, InWindow
  <2> QED
    BY <2>3, Sizes
<1> QED
  BY <1>4, <1>5

\* What mark writes to: storage that is at least as long as before and has
\* room for the bit.  Growing adds no set bit if malloc zeroes.
LEMMA StorageHasRoom ==
  ASSUME IInv, mem = "live", NEW gap \in 0 .. (VLSTP_TSN_MAP_SIZE - 1),
         NEW store \in StorageFor(gap)
  PROVE  /\ store.len \in 0 .. VLSTP_TSN_MAP_SIZE
         /\ store.len >= len
         /\ gap < store.len
         /\ WholeWords => store.len % BITS_PER_LONG = 0
         /\ store.bits \in SUBSET (0 .. (BitsOfLongs(store.len) - 1))
         /\ CleanStorage => store.bits \subseteq tsn_map
<1>1. /\ len \in 0 .. VLSTP_TSN_MAP_SIZE /\ Span \in 0 .. len
      /\ tsn_map \in SUBSET (0 .. (BitsOfLongs(len) - 1))
      /\ WholeWords => len % BITS_PER_LONG = 0
  BY Window DEF IInv, TypeOK, LenIsWholeWords
<1>2. CASE gap < len
  <2>1. store = [len |-> len, bits |-> tsn_map]
    BY <1>2 DEF StorageFor
  <2> QED
    BY <1>1, <1>2, <2>1
<1>3. CASE ~(gap < len)
  <2>1. (gap + 1) % GapSpace = gap + 1
    <3>1. gap + 1 \in 0 .. VLSTP_TSN_MAP_SIZE
      BY Sizes
    <3> QED
      BY <3>1, SmallIs16Bit
  <2>2. store \in vlstp_tsnmap_grow(gap + 1)
    BY <1>3, <2>1 DEF StorageFor
  <2> DEFINE inc    == ALIGN((gap + 1) - len, BITS_PER_LONG) + VLSTP_TSN_MAP_INCREMENT
             newlen == IF len + inc < VLSTP_TSN_MAP_SIZE THEN len + inc
                       ELSE VLSTP_TSN_MAP_SIZE
             copied == BitsOfLongs(Span)
             kept   == tsn_map \cap (0 .. (copied - 1))
  <2>3. PICK junk \in MallocBits(copied .. (BitsOfLongs(newlen) - 1), newlen) :
          store = [len |-> newlen, bits |-> kept \cup junk]
    BY <2>2 DEF vlstp_tsnmap_grow, Span
  <2>4. inc \in Nat /\ inc >= (gap + 1) - len
    <3>1. (gap + 1) - len \in Nat
      BY <1>1, <1>3, Sizes
    <3>2. ALIGN((gap + 1) - len, BITS_PER_LONG) \in Nat
          /\ ALIGN((gap + 1) - len, BITS_PER_LONG) >= (gap + 1) - len
      BY <3>1, Sizes, AlignRoundsUp
    <3> QED
      BY <3>1, <3>2, Sizes DEF VLSTP_TSN_MAP_INCREMENT
  <2>11. inc % BITS_PER_LONG = 0
    <3> DEFINE x == ALIGN((gap + 1) - len, BITS_PER_LONG)
    <3>1. (gap + 1) - len \in Nat
      BY <1>1, <1>3, Sizes
    <3>2. x \in Nat /\ x % BITS_PER_LONG = 0
      BY <3>1, Sizes, AlignRoundsUp, AlignIsWhole
    <3>3. BITS_PER_LONG \in Nat /\ BITS_PER_LONG % BITS_PER_LONG = 0
      BY Sizes
    <3> HIDE DEF x
    <3>4. (x + BITS_PER_LONG) % BITS_PER_LONG = 0
      BY <3>2, <3>3, Sizes, SumIsWhole
    <3> QED
      BY <3>4 DEF VLSTP_TSN_MAP_INCREMENT, x
  <2> HIDE DEF inc
  <2>12. WholeWords => newlen % BITS_PER_LONG = 0
    <3> SUFFICES ASSUME WholeWords PROVE newlen % BITS_PER_LONG = 0
      OBVIOUS
    <3>1. (len + inc) % BITS_PER_LONG = 0
      BY <1>1, <2>4, <2>11, Sizes, SumIsWhole
    <3> QED
      BY <3>1, MapAssumption
  <2>5. newlen \in 0 .. VLSTP_TSN_MAP_SIZE /\ newlen >= len /\ gap < newlen
    BY <1>1, <1>3, <2>4, Sizes
  <2> HIDE DEF newlen
  <2>6. /\ BitsOfLongs(newlen) \in Nat /\ BitsOfLongs(len) \in Nat
        /\ copied \in Nat
        /\ BitsOfLongs(len) <= BitsOfLongs(newlen)
    <3>1. newlen \in Nat /\ len \in Nat /\ Span \in Nat /\ len <= newlen
      BY <1>1, <2>5
    <3> QED
      BY <3>1, StorageCovers, StorageMonotone
  <2>7. junk \in SUBSET (copied .. (BitsOfLongs(newlen) - 1))
        /\ (CleanStorage => junk = {})
    <3>1. junk \in SUBSET (copied .. (BitsOfLongs(newlen) - 1))
      BY <2>3 DEF MallocBits
    <3>2. CleanStorage => junk = {}
      <4>1. newlen \in Nat
        BY <2>5, Sizes
      <4> HIDE DEF copied
      <4> QED
        BY <2>3, <2>6, <2>12, <4>1, CleanIsEmpty DEF CleanStorage
    <3> QED
      BY <3>1, <3>2
  <2> HIDE DEF copied
  <2>8. kept \cup junk \in SUBSET (0 .. (BitsOfLongs(newlen) - 1))
    BY <1>1, <2>6, <2>7
  <2>9. CleanStorage => kept \cup junk \subseteq tsn_map
    BY <2>7
  <2>10. store.len = newlen /\ store.bits = kept \cup junk
    BY <2>3
  <2> QED
    BY <2>5, <2>8, <2>9, <2>10, <2>12
<1> QED
  BY <1>2, <1>3

-----------------------------------------------------------------------------
(* The queries.                                                            *)

\* A TSN less than half the space behind the ack point has been seen.
LEMMA OldIsSeen ==
  ASSUME NEW c \in TSN, NEW y \in (-(TSN_SIGN_BIT - 1)) .. 0
  PROVE  TSN_lte(Plus(c, y), c)
<1>1. CASE y = 0
  BY <1>1, PlusZero DEF TSN_lte
<1>2. CASE y # 0
  <2> DEFINE x == y + TSNSpace
  <2>1. /\ x \in 0 .. (TSNSpace - 1) /\ x >= TSN_SIGN_BIT
        /\ x \in Int /\ x >= -TSNSpace /\ x <= TSNSpace
        /\ y \in Int /\ y >= -TSNSpace /\ y <= TSNSpace
    BY <1>2, Sizes
  <2>2. Plus(c, y) = Plus(c, x)
    <3>1. Plus(c, y) = IF c + y < 0 THEN c + y + TSNSpace
                       ELSE IF c + y < TSNSpace THEN c + y ELSE c + y - TSNSpace
      BY <2>1, PlusValue
    <3>2. Plus(c, x) = IF c + x < 0 THEN c + x + TSNSpace
                       ELSE IF c + x < TSNSpace THEN c + x ELSE c + x - TSNSpace
      BY <2>1, PlusValue
    <3>3. c \in Int /\ 0 <= c /\ c < TSNSpace /\ TSNSpace \in Int /\ y < 0
      BY <1>2, Sizes
    <3>4. x = y + TSNSpace
      OBVIOUS
    <3> HIDE DEF x
    <3> QED
      BY <2>1, <3>1, <3>2, <3>3, <3>4
  <2> HIDE DEF x
  <2>3. Diff(Plus(c, x), c) = x
    BY <2>1, DiffPlus
  <2> QED
    BY <2>1, <2>2, <2>3 DEF TSN_lte, TSN_lt
<1> QED
  BY <1>1, <1>2

\* vlstp_tsnmap_check of the TSN y after the ack point.
LEMMA CheckOffset ==
  ASSUME IInv, mem = "live",
         NEW y \in (-(TSN_SIGN_BIT - 1)) .. (TSN_SIGN_BIT - 1)
  PROVE  vlstp_tsnmap_check(Plus(cumulative_tsn_ack_point, y)) =
           IF y <= 0 THEN 1
           ELSE IF y > VLSTP_TSN_MAP_SIZE THEN -1
           ELSE IF y - 1 < len /\ y - 1 \in tsn_map THEN 1
           ELSE 0
<1> DEFINE c   == cumulative_tsn_ack_point
            tsn == Plus(c, y)
<1>1. c \in TSN /\ base_tsn = Plus(c, 1)
  BY Window
<1>2. CASE y <= 0
  <2>1. y \in (-(TSN_SIGN_BIT - 1)) .. 0
    BY <1>2, Sizes
  <2>2. TSN_lte(tsn, c)
    BY <1>1, <2>1, OldIsSeen
  <2> QED
    BY <1>2, <2>2 DEF vlstp_tsnmap_check
<1>3. CASE ~(y <= 0)
  <2>1. /\ y \in Int /\ 1 <= y /\ y < TSN_SIGN_BIT
        /\ y \in 0 .. (TSNSpace - 1)
        /\ 1 \in 0 .. (TSNSpace - 1) /\ 0 \in 0 .. (TSNSpace - 1)
        /\ VLSTP_TSN_MAP_SIZE \in 0 .. (TSNSpace - 1)
        /\ VLSTP_TSN_MAP_SIZE + 1 \in 0 .. (TSNSpace - 1)
        /\ 1 + VLSTP_TSN_MAP_SIZE = VLSTP_TSN_MAP_SIZE + 1
        /\ 1 + VLSTP_TSN_MAP_SIZE < TSNSpace
    BY <1>3, Sizes
  <2>2. ~TSN_lte(tsn, c)
    <3>1. Diff(tsn, c) = y
      BY <1>1, <2>1, DiffPlus
    <3>2. Diff(Plus(c, 0), c) = 0 /\ Plus(c, 0) = c
      BY <1>1, <2>1, DiffPlus, PlusZero
    <3> HIDE DEF tsn, c
    <3>3. tsn # c
      BY <2>1, <3>1, <3>2
    <3>4. ~(Diff(tsn, c) >= TSN_SIGN_BIT)
      BY <2>1, <3>1, Sizes
    <3> QED
      BY <3>3, <3>4 DEF TSN_lte, TSN_lt
  <2>3. TSN_lt(tsn, Plus(base_tsn, VLSTP_TSN_MAP_SIZE)) <=> y <= VLSTP_TSN_MAP_SIZE
    <3>1. Plus(base_tsn, VLSTP_TSN_MAP_SIZE) = Plus(c, VLSTP_TSN_MAP_SIZE + 1)
      BY <1>1, <2>1, PlusPlus
    <3>2. Diff(tsn, Plus(c, VLSTP_TSN_MAP_SIZE + 1)) =
            IF y >= VLSTP_TSN_MAP_SIZE + 1 THEN y - (VLSTP_TSN_MAP_SIZE + 1)
            ELSE y - (VLSTP_TSN_MAP_SIZE + 1) + TSNSpace
      BY <1>1, <2>1, DiffShift
    <3> HIDE DEF tsn
    <3>3. Diff(tsn, Plus(c, VLSTP_TSN_MAP_SIZE + 1)) >= TSN_SIGN_BIT
            <=> y <= VLSTP_TSN_MAP_SIZE
      BY <2>1, <3>2, Sizes
    <3> QED
      BY <3>1, <3>3 DEF TSN_lt
  <2>4. Diff(tsn, base_tsn) = y - 1
    BY <1>1, <2>1, DiffShift
  <2>5. y > VLSTP_TSN_MAP_SIZE <=> ~(y <= VLSTP_TSN_MAP_SIZE)
    BY <2>1, Sizes
  <2> HIDE DEF tsn
  <2>6. vlstp_tsnmap_check(tsn) =
          IF ~(y <= VLSTP_TSN_MAP_SIZE) THEN -1
          ELSE IF y - 1 < len /\ y - 1 \in tsn_map THEN 1 ELSE 0
    BY <2>2, <2>3, <2>4 DEF vlstp_tsnmap_check
  <2> QED
    BY <1>3, <2>5, <2>6 DEF tsn
<1> QED
  BY <1>2, <1>3

\* vlstp_tsnmap_find_gap_ack finds the first run of set bits at or after off,
\* and finds one if there is any.
LEMMA FindGapAck ==
  ASSUME IInv, mem = "live", CleanStorage, NEW off \in Nat
  PROVE  LET run == vlstp_tsnmap_find_gap_ack(off)
         IN  \/ run = NoBlock /\ \A i \in tsn_map : i < off
             \/ /\ run.start \in 1 .. run.end
                /\ run.end \in 1 .. (Span - 1)
                /\ off <= run.start
                /\ \A i \in off .. (run.start - 1) : i \notin tsn_map
                /\ \A i \in run.start .. run.end : i \in tsn_map
                /\ run.end + 1 \notin tsn_map
<1> DEFINE ones  == tsn_map \cap (off .. (len - 1))
           first == find_next_bit(tsn_map, len, off)
           zeros == (first .. (len - 1)) \ tsn_map
           after == find_next_zero_bit(tsn_map, len, first)
           run   == vlstp_tsnmap_find_gap_ack(off)
<1>1. /\ len \in Nat /\ Span \in 0 .. len
      /\ tsn_map \in SUBSET Nat /\ \A i \in tsn_map : i < Span
      /\ 0 \notin tsn_map
  <2>1. len \in Nat /\ Span \in 0 .. len
    BY Window
  <2>2. BitsOfLongs(len) \in Nat
    BY <2>1, StorageCovers
  <2> QED
    BY <2>1, <2>2 DEF IInv, TypeOK, NextTSNIsMissing, NothingBeyondMax
<1>2. CASE ones = {}
  <2>1. first = len
    BY <1>2 DEF find_next_bit
  <2>2. run = NoBlock
    BY <1>1, <2>1 DEF vlstp_tsnmap_find_gap_ack
  <2>3. \A i \in tsn_map : i < off
    BY <1>1, <1>2
  <2> QED
    BY <2>2, <2>3
<1>3. CASE ones # {}
  <2>1. ones \in SUBSET Nat
    BY <1>1
  <2>2. first = Min(ones)
    BY <1>3 DEF find_next_bit
  <2> HIDE DEF first
  <2>3. first \in ones /\ \A i \in ones : first <= i
    BY <1>3, <2>1, <2>2, MinIsLeast
  <2>4. /\ first \in tsn_map /\ first \in Nat /\ off <= first /\ first < Span
        /\ first # 0 /\ first < len
    BY <1>1, <2>3
  <2>5. \A i \in off .. (first - 1) : i \notin tsn_map
    BY <1>1, <2>3, <2>4
  <2>6. /\ after \in (first + 1) .. Span
        /\ \A i \in first .. (after - 1) : i \in tsn_map
        /\ after \notin tsn_map
    <3>1. CASE zeros = {}
      <4>1. after = len
        BY <3>1 DEF find_next_zero_bit
      <4>2. \A i \in first .. (len - 1) : i \in tsn_map
        BY <3>1
      <4>3. len = Span
        <5>1. len - 1 \in first .. (len - 1)
          BY <1>1, <2>4
        <5>2. len - 1 < Span
          BY <1>1, <4>2, <5>1
        <5> QED
          BY <1>1, <5>2
      <4> HIDE DEF after
      <4>4. after \notin tsn_map
        BY <1>1, <4>1, <4>3
      <4> QED
        BY <1>1, <2>4, <4>1, <4>2, <4>3, <4>4
    <3>2. CASE zeros # {}
      <4>1. zeros \in SUBSET Nat
        BY <1>1, <2>4
      <4>2. after = Min(zeros)
        BY <3>2 DEF find_next_zero_bit
      <4> HIDE DEF after
      <4>3. after \in zeros /\ \A i \in zeros : after <= i
        BY <3>2, <4>1, <4>2, MinIsLeast
      <4>4. after \in first .. (len - 1) /\ after \notin tsn_map /\ after # first
        BY <2>4, <4>3
      <4>5. \A i \in first .. (after - 1) : i \in tsn_map
        BY <1>1, <2>4, <4>3, <4>4
      <4>6. after - 1 \in first .. (after - 1)
        BY <1>1, <2>4, <4>4
      <4>7. after - 1 < Span
        BY <1>1, <4>5, <4>6
      <4> QED
        BY <1>1, <2>4, <4>4, <4>5, <4>7
    <3> QED
      BY <3>1, <3>2
  <2> HIDE DEF after
  <2>7. run = [start |-> first, end |-> after - 1]
    BY <2>4 DEF vlstp_tsnmap_find_gap_ack, first, after
  <2>8. /\ run.start = first /\ run.end = after - 1 /\ run.end + 1 = after
    BY <1>1, <2>4, <2>6, <2>7
  <2> HIDE DEF run
  <2>9. /\ first \in 1 .. (after - 1) /\ after - 1 \in 1 .. (Span - 1)
    BY <1>1, <2>4, <2>6
  <2>10. /\ run.start \in 1 .. run.end
         /\ run.end \in 1 .. (Span - 1)
         /\ off <= run.start
         /\ \A i \in off .. (run.start - 1) : i \notin tsn_map
         /\ \A i \in run.start .. run.end : i \in tsn_map
         /\ run.end + 1 \notin tsn_map
    BY <2>4, <2>5, <2>6, <2>8, <2>9
  <2> QED
    BY <2>10 DEF run
<1> QED
  BY <1>2, <1>3

\* The gap ack block for an iterator that stands y bits after bit 0: the first
\* run of received TSNs at or after it.  There is none when everything that
\* is recorded lies before it, provided the iterator itself stands at a TSN
\* that is missing, as it does at the start and behind a block.
LEMMA NextGapAck ==
  ASSUME IInv, mem = "live", CleanStorage, NEW y \in 0 .. VLSTP_TSN_MAP_SIZE
  PROVE  LET b == vlstp_tsnmap_next_gap_ack(Plus(base_tsn, y))
         IN  \/ b = NoBlock /\ (y \notin tsn_map => \A i \in tsn_map : i < y)
             \/ /\ b.start \in 2 .. b.end
                /\ b.end \in 2 .. Span
                /\ y + 1 <= b.start
                /\ b = [start |-> b.start, end |-> b.end]
                /\ \A i \in y .. (b.start - 2) : i \notin tsn_map
                /\ \A i \in (b.start - 1) .. (b.end - 1) : i \in tsn_map
                /\ b.end \notin tsn_map
<1> DEFINE c   == cumulative_tsn_ack_point
           pos == Plus(base_tsn, y)
           off == Diff(pos, base_tsn) % GapSpace
           run == vlstp_tsnmap_find_gap_ack(off)
           b   == vlstp_tsnmap_next_gap_ack(pos)
<1>1. /\ c \in TSN /\ base_tsn = Plus(c, 1) /\ base_tsn \in TSN
      /\ max_tsn_seen = Plus(c, Span)
      /\ len \in 0 .. VLSTP_TSN_MAP_SIZE
      /\ Span \in 0 .. len
  BY Window
<1>2. /\ y \in 0 .. (TSNSpace - 1) /\ y + 1 \in 0 .. (TSNSpace - 1)
      /\ y + 1 <= TSN_SIGN_BIT
      /\ 1 \in 0 .. (TSNSpace - 1) /\ 1 + y = y + 1 /\ 1 + y < TSNSpace
      /\ Span \in 0 .. (TSNSpace - 1) /\ Span <= TSN_SIGN_BIT
      /\ y \in Nat /\ Span \in Nat
  BY <1>1, Sizes
<1>3. off = y
  BY <1>1, <1>2, DiffPlus, SmallIs16Bit
<1>4. TSN_lte(max_tsn_seen, pos) <=> Span <= y + 1
  <2>1. pos = Plus(c, y + 1)
    BY <1>1, <1>2, PlusPlus
  <2>2. Diff(max_tsn_seen, pos) = IF Span >= y + 1 THEN Span - (y + 1)
                                  ELSE Span - (y + 1) + TSNSpace
    BY <1>1, <1>2, <2>1, DiffShift
  <2>3. Diff(pos, max_tsn_seen) = IF y + 1 >= Span THEN y + 1 - Span
                                  ELSE y + 1 - Span + TSNSpace
    BY <1>1, <1>2, <2>1, DiffShift
  <2>4. Diff(pos, pos) = y + 1 - (y + 1)
    BY <1>1, <1>2, <2>1, DiffShift
  <2> HIDE DEF pos
  <2>5. max_tsn_seen = pos => Span = y + 1
    BY <1>2, <2>2, <2>4, Sizes
  <2>6. Span = y + 1 => max_tsn_seen = pos
    BY <1>1, <2>1 DEF pos
  <2>7. Diff(max_tsn_seen, pos) >= TSN_SIGN_BIT <=> Span < y + 1
    BY <1>2, <2>2, Sizes
  <2> QED
    BY <1>2, <2>5, <2>6, <2>7 DEF TSN_lte, TSN_lt
<1>5. tsn_map \in SUBSET Nat /\ \A i \in tsn_map : i < Span
  <2>1. BitsOfLongs(len) \in Nat
    BY <1>1, StorageCovers
  <2> QED
    BY <2>1 DEF IInv, TypeOK, NothingBeyondMax
<1>6. \/ run = NoBlock /\ \A i \in tsn_map : i < y
      \/ /\ run.start \in 1 .. run.end
         /\ run.end \in 1 .. (Span - 1)
         /\ y <= run.start
         /\ \A i \in y .. (run.start - 1) : i \notin tsn_map
         /\ \A i \in run.start .. run.end : i \in tsn_map
         /\ run.end + 1 \notin tsn_map
  BY <1>2, <1>3, FindGapAck
<1>7. b = IF Span <= y + 1 \/ run.end = 0 THEN NoBlock
          ELSE [start |-> run.start + 1, end |-> run.end + 1]
  BY <1>4 DEF vlstp_tsnmap_next_gap_ack
<1> HIDE DEF b, run, off, pos
<1>8. CASE Span <= y + 1
  <2>1. ASSUME y \notin tsn_map, NEW i \in tsn_map
        PROVE  i < y
    BY <1>2, <1>5, <1>8, <2>1
  <2> QED
    BY <1>7, <1>8, <2>1 DEF b, pos
<1>9. CASE ~(Span <= y + 1) /\ run = NoBlock /\ \A i \in tsn_map : i < y
  <2>1. run.end = 0
    BY <1>9 DEF NoBlock
  <2> QED
    BY <1>7, <1>9, <2>1 DEF b, pos
<1>10. CASE /\ ~(Span <= y + 1)
            /\ run.start \in 1 .. run.end
            /\ run.end \in 1 .. (Span - 1)
            /\ y <= run.start
            /\ \A i \in y .. (run.start - 1) : i \notin tsn_map
            /\ \A i \in run.start .. run.end : i \in tsn_map
            /\ run.end + 1 \notin tsn_map
  <2>1. b = [start |-> run.start + 1, end |-> run.end + 1]
    BY <1>7, <1>10
  <2>2. /\ b.start = run.start + 1 /\ b.end = run.end + 1
        /\ b = [start |-> b.start, end |-> b.end]
    BY <2>1
  <2>3. /\ b.start \in 2 .. b.end /\ b.end \in 2 .. Span /\ y + 1 <= b.start
        /\ b.start - 2 = run.start - 1 /\ b.start - 1 = run.start
        /\ b.end - 1 = run.end
    BY <1>2, <1>10, <2>2
  <2>4. /\ \A i \in y .. (b.start - 2) : i \notin tsn_map
        /\ \A i \in (b.start - 1) .. (b.end - 1) : i \in tsn_map
        /\ b.end \notin tsn_map
    BY <1>10, <2>2, <2>3
  <2> QED
    BY <2>2, <2>3, <2>4 DEF b, pos
<1> QED
  BY <1>6, <1>8, <1>9, <1>10

-----------------------------------------------------------------------------
\* A zeroed structure satisfies the invariant.
LEMMA InitIInv == Init => IInv
<1> SUFFICES ASSUME Init PROVE IInv
  OBVIOUS
<1>1. BitsOfLongs(0) \in Nat
  BY StorageCovers
<1>2. htonl(0) \in [be32 : TSN]
  BY Sizes DEF htonl
<1>3. 0 \in 0 .. VLSTP_MAX_DUP_TSNS
  BY MapAssumption
<1>4. TypeOK
  BY <1>1, <1>2, <1>3, Sizes DEF Init, TypeOK
<1>5. 0 % BITS_PER_LONG = 0
  BY Sizes
<1> QED
  BY <1>4, <1>5 DEF Init, IInv, BaseFollowsAckPoint, GapFitsMap, LenIsWholeWords, NextTSNIsMissing,
     NothingBeyondMax, UnusedIsEmpty

\* vlstp_tsnmap_init starts an empty window right after initial_tsn - 1.
LEMMA InitMapStep ==
  ASSUME IInv, NEW n \in InitialLens, NEW t \in InitialTSNs,
         vlstp_tsnmap_init(n, t)
  PROVE  IInv'
<1> DEFINE c == Plus(t, -1)
<1>1. t \in TSN /\ n \in 1 .. VLSTP_TSN_MAP_SIZE
  BY MapAssumption
<1>2. /\ base_tsn' = t
      /\ cumulative_tsn_ack_point' = c
      /\ max_tsn_seen' = c
      /\ num_dup_tsns' = 0
      /\ dup_tsns' = dup_tsns
      /\ mem' = "live"
  BY DEF vlstp_tsnmap_init
<1>3. c \in TSN /\ t = Plus(c, 1) /\ Diff(c, c) = 0
  <2>1. /\ -1 \in Int /\ -1 >= -TSNSpace /\ -1 <= TSNSpace
        /\ 1 \in Int /\ 1 >= -TSNSpace /\ 1 <= TSNSpace
    BY Sizes
  <2>2. c \in TSN /\ c = IF t + -1 < 0 THEN t + -1 + TSNSpace
                         ELSE IF t + -1 < TSNSpace THEN t + -1 ELSE t + -1 - TSNSpace
    BY <1>1, <2>1, PlusValue
  <2> HIDE DEF c
  <2>3. Plus(c, 1) = IF c + 1 < 0 THEN c + 1 + TSNSpace
                     ELSE IF c + 1 < TSNSpace THEN c + 1 ELSE c + 1 - TSNSpace
    BY <2>1, <2>2, PlusValue
  <2>4. Diff(c, c) = IF c < c THEN c - c + TSNSpace ELSE c - c
    BY <2>2, DiffValue
  <2> QED
    BY <1>1, <2>2, <2>3, <2>4, Sizes
<1> HIDE DEF c
<1>4. Span' = 0
  BY <1>2, <1>3 DEF Span
<1>5. /\ len' \in 0 .. VLSTP_TSN_MAP_SIZE
      /\ tsn_map' \in SUBSET (0 .. (BitsOfLongs(len') - 1))
      /\ CleanStorage => tsn_map' = {}
      /\ WholeWords => len' % BITS_PER_LONG = 0
  <2>1. CASE mem = "NULL"
    <3>1. len' = n /\ tsn_map' \in MallocBits(0 .. (BitsOfLongs(n) - 1), n)
      BY <2>1 DEF vlstp_tsnmap_init
    <3>2. WholeWords => n % BITS_PER_LONG = 0
      BY DEF WholeWords
    <3>3. CleanStorage => tsn_map' = {}
      <4>1. n \in Nat /\ 0 \in Nat
        BY <1>1, Sizes
      <4> QED
        BY <3>1, <3>2, <4>1, CleanIsEmpty DEF CleanStorage
    <3> QED
      BY <1>1, <3>1, <3>2, <3>3, Sizes DEF MallocBits
  <2>2. CASE mem # "NULL"
    BY <2>2 DEF vlstp_tsnmap_init, IInv, TypeOK, LenIsWholeWords
  <2> QED
    BY <2>1, <2>2
<1>6. TypeOK'
  <2>1. dup_tsns \in [0 .. (VLSTP_MAX_DUP_TSNS - 1) -> [be32 : TSN]]
    BY DEF IInv, TypeOK
  <2>2. 0 \in 0 .. VLSTP_MAX_DUP_TSNS
    BY MapAssumption
  <2> QED
    BY <1>1, <1>2, <1>3, <1>5, <2>1, <2>2 DEF TypeOK
<1> QED
  BY <1>2, <1>3, <1>4, <1>5, <1>6 DEF IInv, BaseFollowsAckPoint, GapFitsMap,
     LenIsWholeWords, NextTSNIsMissing, NothingBeyondMax, UnusedIsEmpty

\* vlstp_tsnmap_mark of a TSN the receiver may mark.
LEMMA MarkStep ==
  ASSUME IInv, NEW tsn \in TSN, Trackable(tsn), vlstp_tsnmap_mark(tsn)
  PROVE  IInv' /\ TSN_lte(cumulative_tsn_ack_point, cumulative_tsn_ack_point')
<1> DEFINE c   == cumulative_tsn_ack_point
           x   == Diff(tsn, c)
           gap == Diff(tsn, base_tsn) % GapSpace
           D   == IF Span < x THEN x ELSE Span
<1>1. mem = "live" /\ UNCHANGED dupVars
  BY DEF vlstp_tsnmap_mark
<1>2. CASE TSN_lt(tsn, base_tsn)
  <2>1. UNCHANGED vars
    BY <1>1, <1>2 DEF vlstp_tsnmap_mark, vars
  <2> QED
    BY <2>1 DEF vars, seenVars, dupVars, IInv, TypeOK, BaseFollowsAckPoint,
       GapFitsMap, LenIsWholeWords, NextTSNIsMissing, NothingBeyondMax, UnusedIsEmpty, Span,
       TSN_lte
<1>3. CASE ~TSN_lt(tsn, base_tsn)
  <2>1. x \in 1 .. VLSTP_TSN_MAP_SIZE
    BY <1>1, <1>3, MarkedOffset
  <2>2. tsn = Plus(c, x) /\ Diff(tsn, base_tsn) = x - 1
    BY <1>1, <2>1, Offset
  <2>3. gap = x - 1 /\ gap \in 0 .. (VLSTP_TSN_MAP_SIZE - 1)
    <3>1. x - 1 \in 0 .. VLSTP_TSN_MAP_SIZE /\ x - 1 \in 0 .. (VLSTP_TSN_MAP_SIZE - 1)
      BY <2>1, Sizes
    <3> QED
      BY <2>2, <3>1, SmallIs16Bit
  <2> HIDE DEF gap
  <2>4. PICK store \in StorageFor(gap) :
          /\ len' = store.len
          /\ IF ~vlstp_tsnmap_has_gap /\ gap = 0
             THEN MarkInOrder /\ tsn_map' = store.bits
             ELSE MarkInGap(tsn, gap, store)
          /\ UNCHANGED mem
    BY <1>3 DEF vlstp_tsnmap_mark, gap
  <2>5. /\ store.len \in 0 .. VLSTP_TSN_MAP_SIZE
        /\ store.len >= len
        /\ gap < store.len
        /\ WholeWords => store.len % BITS_PER_LONG = 0
        /\ store.bits \in SUBSET (0 .. (BitsOfLongs(store.len) - 1))
        /\ CleanStorage => store.bits \subseteq tsn_map
    BY <1>1, <2>3, <2>4, StorageHasRoom
  <2>6. /\ c \in TSN /\ base_tsn = Plus(c, 1)
        /\ max_tsn_seen = Plus(c, Span)
        /\ len \in 0 .. VLSTP_TSN_MAP_SIZE
        /\ Span \in 0 .. len
        /\ Span < TSN_SIGN_BIT
    BY <1>1, Window
  <2>7. CleanStorage => \A i \in tsn_map : i < Span
    BY DEF IInv, NothingBeyondMax
  <2> HIDE DEF x
  <2>8. /\ base_tsn' \in TSN
        /\ cumulative_tsn_ack_point' \in TSN
        /\ max_tsn_seen' \in TSN
        /\ base_tsn' = Plus(cumulative_tsn_ack_point', 1)
        /\ \E z \in 0 .. VLSTP_TSN_MAP_SIZE : cumulative_tsn_ack_point' = Plus(c, z)
        /\ Span' \in 0 .. store.len
        /\ tsn_map' \in SUBSET (0 .. (BitsOfLongs(store.len) - 1))
        /\ CleanStorage => 0 \notin tsn_map'
        /\ CleanStorage => \A i \in tsn_map' : i < Span'
    <3>1. CASE ~vlstp_tsnmap_has_gap /\ gap = 0
      <4>1. /\ max_tsn_seen' = Plus(c, 1)
            /\ cumulative_tsn_ack_point' = Plus(c, 1)
            /\ base_tsn' = Plus(Plus(c, 1), 1)
            /\ tsn_map' = store.bits
        BY <2>4, <2>6, <3>1 DEF MarkInOrder, vlstp_tsnmap_has_gap
      <4>2. Diff(c, c) = 0
        <5>1. Diff(c, c) = IF c < c THEN c - c + TSNSpace ELSE c - c
          BY <2>6, DiffValue
        <5> QED
          BY <2>6, <5>1, Sizes
      <4>3. Span = 0
        BY <3>1, <4>2 DEF vlstp_tsnmap_has_gap, Span
      <4>4. CleanStorage => tsn_map' = {}
        <5>1. BitsOfLongs(store.len) \in Nat
          BY <2>5, StorageCovers
        <5> QED
          BY <2>5, <2>7, <4>1, <4>3, <5>1
      <4>5. /\ 1 \in Int /\ 1 >= -TSNSpace /\ 1 <= TSNSpace
            /\ 1 \in 0 .. (TSNSpace - 1)
        BY Sizes
      <4>6. Plus(c, 1) \in TSN /\ Plus(Plus(c, 1), 1) \in TSN
        BY <2>6, <4>5, PlusValue
      <4>7. Span' = 0
        <5>1. Diff(Plus(c, 1), Plus(c, 1)) = 1 - 1
          BY <2>6, <4>5, DiffShift
        <5> QED
          BY <4>1, <5>1 DEF Span
      <4>8. 1 \in 0 .. VLSTP_TSN_MAP_SIZE
        BY Sizes
      <4> QED
        BY <2>5, <4>1, <4>4, <4>6, <4>7, <4>8
    <3>2. CASE ~(~vlstp_tsnmap_has_gap /\ gap = 0)
      <4>1. MarkInGap(tsn, gap, store)
        BY <2>4, <3>2
      <4>2. x \in 0 .. (TSN_SIGN_BIT - 1)
        BY <2>1, Sizes
      <4>3. max_tsn_seen' = Plus(c, D)
        BY <2>2, <2>6, <4>1, <4>2, MaxSeenOffset DEF MarkInGap, IInv
      <4>4. /\ D \in 0 .. VLSTP_TSN_MAP_SIZE
            /\ D <= store.len
            /\ gap < D /\ Span <= D
        BY <2>1, <2>3, <2>5, <2>6, Sizes
      <4> HIDE DEF D
      <4>5. store.bits \cup {gap} \in SUBSET (0 .. (BitsOfLongs(store.len) - 1))
        <5>1. BitsOfLongs(store.len) \in Nat /\ BitsOfLongs(store.len) >= store.len
          BY <2>5, StorageCovers
        <5>2. gap \in 0 .. (BitsOfLongs(store.len) - 1)
          BY <2>3, <2>5, <5>1, Sizes
        <5> QED
          BY <2>5, <5>2
      <4>6. CleanStorage => \A i \in store.bits \cup {gap} : i < D
        <5>1. BitsOfLongs(store.len) \in Nat
          BY <2>5, StorageCovers
        <5> QED
          BY <2>5, <2>6, <2>7, <4>4, <5>1
      <4>7. vlstp_tsnmap_update(store.bits \cup {gap}, store.len, Plus(c, 1), c, Plus(c, D))
        BY <2>6, <4>1, <4>3 DEF MarkInGap
      <4>8. /\ base_tsn' \in TSN
            /\ cumulative_tsn_ack_point' \in TSN
            /\ base_tsn' = Plus(cumulative_tsn_ack_point', 1)
            /\ \E z \in 0 .. D : cumulative_tsn_ack_point' = Plus(c, z)
            /\ Diff(Plus(c, D), cumulative_tsn_ack_point') \in 0 .. store.len
            /\ tsn_map' \in SUBSET (0 .. (BitsOfLongs(store.len) - 1))
            /\ CleanStorage => 0 \notin tsn_map'
            /\ CleanStorage => \A i \in tsn_map' :
                 i < Diff(Plus(c, D), cumulative_tsn_ack_point')
        BY <2>5, <2>6, <4>4, <4>5, <4>6, <4>7, UpdateStep
      <4>9. Span' = Diff(Plus(c, D), cumulative_tsn_ack_point')
        BY <4>3 DEF Span
      <4>10. max_tsn_seen' \in TSN
        <5>1. D \in Int /\ D >= -TSNSpace /\ D <= TSNSpace
          BY <4>4, Sizes
        <5> QED
          BY <2>6, <4>3, <5>1, PlusValue
      <4>11. 0 .. D \subseteq 0 .. VLSTP_TSN_MAP_SIZE
        BY <4>4, Sizes
      <4> QED
        BY <4>8, <4>9, <4>10, <4>11
    <3> QED
      BY <3>1, <3>2
  <2>9. TypeOK'
    BY <1>1, <2>4, <2>5, <2>8 DEF IInv, TypeOK, dupVars
  <2>10. TSN_lte(c, cumulative_tsn_ack_point')
    BY <2>6, <2>8, AckPointMovedAhead
  <2> QED
    BY <1>1, <2>4, <2>5, <2>8, <2>9, <2>10 DEF IInv, BaseFollowsAckPoint,
       GapFitsMap, LenIsWholeWords, NextTSNIsMissing, NothingBeyondMax, UnusedIsEmpty
<1> QED
  BY <1>2, <1>3

\* vlstp_tsnmap_skip: the ack point passes tsn, then every bit that follows
\* without a gap.
LEMMA SkipStep ==
  ASSUME IInv, NEW tsn \in TSN, vlstp_tsnmap_skip(tsn)
  PROVE  IInv' /\ TSN_lte(cumulative_tsn_ack_point, cumulative_tsn_ack_point')
<1> DEFINE c   == cumulative_tsn_ack_point
           x   == Diff(tsn, c)
           gap == Plus(Diff(tsn, base_tsn), 1)
           M   == IF Span < x THEN x ELSE Span
           D   == M - x
<1>1. /\ mem = "live"
      /\ ~TSN_lt(tsn, base_tsn)
      /\ TSN_lt(tsn, Plus(base_tsn, VLSTP_TSN_MAP_SIZE))
      /\ UNCHANGED <<mem, len, dupVars>>
  BY DEF vlstp_tsnmap_skip
<1>2. /\ c \in TSN /\ base_tsn = Plus(c, 1)
      /\ max_tsn_seen = Plus(c, Span)
      /\ len \in 0 .. VLSTP_TSN_MAP_SIZE
      /\ Span \in 0 .. len
      /\ Span < TSN_SIGN_BIT
  BY <1>1, Window
<1>3. /\ x \in 0 .. (TSNSpace - 1) /\ tsn = Plus(c, x)
      /\ x >= 1 => Diff(tsn, base_tsn) = x - 1
      /\ Plus(base_tsn, VLSTP_TSN_MAP_SIZE) = Plus(c, VLSTP_TSN_MAP_SIZE + 1)
  BY <1>1, Offset, Sizes
<1> HIDE DEF x
<1>4. x \in 1 .. VLSTP_TSN_MAP_SIZE
  <2>1. VLSTP_TSN_MAP_SIZE + 1 \in 1 .. TSN_SIGN_BIT
    BY Sizes
  <2>2. x \in 1 .. ((VLSTP_TSN_MAP_SIZE + 1) - 1)
    BY <1>1, <1>2, <1>3, <2>1, InWindow
  <2> QED
    BY <2>2, Sizes
<1>5. gap = x
  <2>1. Diff(tsn, base_tsn) = x - 1 /\ x - 1 \in TSN
    BY <1>3, <1>4, Sizes
  <2>2. 1 \in Int /\ 1 >= -TSNSpace /\ 1 <= TSNSpace
    BY Sizes
  <2>3. Plus(x - 1, 1) = IF (x - 1) + 1 < 0 THEN (x - 1) + 1 + TSNSpace
                         ELSE IF (x - 1) + 1 < TSNSpace THEN (x - 1) + 1
                         ELSE (x - 1) + 1 - TSNSpace
    BY <2>1, <2>2, PlusValue
  <2> QED
    BY <1>4, <2>1, <2>3, Sizes
<1>6. /\ x \in 0 .. (TSNSpace - 1) /\ 1 \in 0 .. (TSNSpace - 1)
      /\ 1 + x < TSNSpace /\ x + 1 = 1 + x
      /\ x \in 0 .. (TSN_SIGN_BIT - 1)
      /\ x \in Int /\ x >= -TSNSpace /\ x <= TSNSpace
      /\ x + 1 \in Int /\ x + 1 >= -TSNSpace /\ x + 1 <= TSNSpace
  BY <1>4, Sizes
<1>7. /\ Plus(c, x) \in TSN /\ Plus(c, x + 1) \in TSN
      /\ Plus(base_tsn, x) = Plus(Plus(c, x), 1)
      /\ Plus(Plus(c, x), 1) = Plus(c, x + 1)
  <2>1. Plus(c, x) \in TSN /\ Plus(c, x + 1) \in TSN
    BY <1>2, <1>6, PlusValue
  <2>2. Plus(Plus(c, 1), x) = Plus(c, 1 + x) /\ Plus(Plus(c, x), 1) = Plus(c, x + 1)
    BY <1>2, <1>6, Sizes, PlusPlus
  <2> QED
    BY <1>2, <1>6, <2>1, <2>2
<1>8. max_tsn_seen' = Plus(c, M)
  BY <1>1, <1>2, <1>3, <1>6, MaxSeenOffset DEF vlstp_tsnmap_skip, IInv
<1>9. /\ M \in 0 .. (TSNSpace - 1) /\ M \in Int
      /\ M >= -TSNSpace /\ M <= TSNSpace
      /\ D \in 0 .. VLSTP_TSN_MAP_SIZE /\ D <= len /\ x + D = M
      /\ D \in 0 .. (TSNSpace - 1)
      /\ (x >= len => D = 0)
      /\ (Span > x => D = Span - x)
      /\ (Span <= x => D = 0)
  BY <1>2, <1>4, Sizes
<1> HIDE DEF M, D
<1>10. Plus(c, M) = Plus(Plus(c, x), D) /\ Plus(c, M) \in TSN
  <2>1. x + D < TSNSpace
    BY <1>9, Sizes
  <2>2. Plus(Plus(c, x), D) = Plus(c, x + D)
    BY <1>2, <1>6, <1>9, <2>1, PlusPlus
  <2>3. Plus(c, M) \in TSN
    BY <1>2, <1>9, PlusValue
  <2> QED
    BY <1>9, <2>2, <2>3
<1>11. CleanStorage => \A i \in tsn_map : i < Span
  BY DEF IInv, NothingBeyondMax
<1>12. /\ base_tsn' \in TSN
       /\ cumulative_tsn_ack_point' \in TSN
       /\ base_tsn' = Plus(cumulative_tsn_ack_point', 1)
       /\ \E z \in 0 .. VLSTP_TSN_MAP_SIZE : cumulative_tsn_ack_point' = Plus(c, z)
       /\ Span' \in 0 .. len
       /\ tsn_map' \in SUBSET (0 .. (BitsOfLongs(len) - 1))
       /\ CleanStorage => 0 \notin tsn_map'
       /\ CleanStorage => \A i \in tsn_map' : i < Span'
  <2>1. CASE x >= len
    <3>1. /\ tsn_map' = {}
          /\ base_tsn' = Plus(base_tsn, x)
          /\ cumulative_tsn_ack_point' = Plus(c, x)
      BY <1>5, <2>1 DEF vlstp_tsnmap_skip
    <3>2. Span' = 0
      <4>1. M = x
        BY <1>4, <1>9, <2>1
      <4>2. Diff(Plus(c, x), Plus(c, x)) = x - x
        BY <1>2, <1>6, DiffShift
      <4> QED
        BY <1>6, <1>8, <3>1, <4>1, <4>2 DEF Span
    <3> QED
      BY <1>2, <1>4, <1>7, <3>1, <3>2, Sizes
  <2>2. CASE ~(x >= len)
    <3> DEFINE bits == bitmap_shift_right(tsn_map, x, len)
    <3>1. vlstp_tsnmap_update(bits, len, Plus(Plus(c, x), 1), Plus(c, x),
                              Plus(Plus(c, x), D))
      BY <1>5, <1>7, <1>8, <1>10, <2>2 DEF vlstp_tsnmap_skip
    <3>2. \A i \in bits : i \in 0 .. (len - 1) /\ i + x \in tsn_map
      <4>1. x \in Nat /\ len \in Nat
        BY <1>2, <1>4
      <4> QED
        BY <4>1, ShiftRightBits
    <3> HIDE DEF bits
    <3>3. bits \in SUBSET (0 .. (BitsOfLongs(len) - 1))
      <4>1. BitsOfLongs(len) \in Nat /\ BitsOfLongs(len) >= len
        BY <1>2, StorageCovers
      <4> QED
        BY <1>2, <3>2, <4>1
    <3>4. CleanStorage => \A i \in bits : i < D
      BY <1>2, <1>4, <1>9, <1>11, <3>2
    <3>5. /\ base_tsn' \in TSN
          /\ cumulative_tsn_ack_point' \in TSN
          /\ base_tsn' = Plus(cumulative_tsn_ack_point', 1)
          /\ \E z \in 0 .. D : cumulative_tsn_ack_point' = Plus(Plus(c, x), z)
          /\ Diff(Plus(Plus(c, x), D), cumulative_tsn_ack_point') \in 0 .. len
          /\ tsn_map' \in SUBSET (0 .. (BitsOfLongs(len) - 1))
          /\ CleanStorage => 0 \notin tsn_map'
          /\ CleanStorage => \A i \in tsn_map' :
               i < Diff(Plus(Plus(c, x), D), cumulative_tsn_ack_point')
      BY <1>2, <1>7, <1>9, <3>1, <3>3, <3>4, UpdateStep
    <3>6. Span' = Diff(Plus(Plus(c, x), D), cumulative_tsn_ack_point')
      BY <1>8, <1>10 DEF Span
    <3>7. \E z \in 0 .. VLSTP_TSN_MAP_SIZE : cumulative_tsn_ack_point' = Plus(c, z)
      <4>1. PICK z \in 0 .. D : cumulative_tsn_ack_point' = Plus(Plus(c, x), z)
        BY <3>5
      <4>2. z \in 0 .. (TSNSpace - 1) /\ x + z < TSNSpace
            /\ x + z \in 0 .. VLSTP_TSN_MAP_SIZE
        <5>1. (x < len /\ x + D <= len) \/ x + D = x
          BY <1>2, <1>4, <1>9, <2>2
        <5> QED
          BY <1>2, <1>4, <1>9, <4>1, <5>1, Sizes
      <4>3. Plus(Plus(c, x), z) = Plus(c, x + z)
        BY <1>2, <1>6, <4>2, PlusPlus
      <4> QED
        BY <4>1, <4>2, <4>3
    <3> QED
      BY <3>5, <3>6, <3>7
  <2> QED
    BY <2>1, <2>2
<1>13. TypeOK'
  BY <1>1, <1>8, <1>10, <1>12 DEF IInv, TypeOK, dupVars
<1>14. TSN_lte(c, cumulative_tsn_ack_point')
  BY <1>2, <1>12, AckPointMovedAhead
<1> QED
  BY <1>1, <1>12, <1>13, <1>14, <1>2 DEF IInv, BaseFollowsAckPoint, GapFitsMap,
     LenIsWholeWords, NextTSNIsMissing, NothingBeyondMax, UnusedIsEmpty

\* vlstp_tsnmap_renege only clears a bit.
LEMMA RenegeStep ==
  ASSUME IInv, NEW tsn \in TSN, vlstp_tsnmap_renege(tsn)
  PROVE  IInv' /\ UNCHANGED cumulative_tsn_ack_point
<1>1. /\ tsn_map' \subseteq tsn_map
      /\ UNCHANGED <<mem, len, base_tsn, cumulative_tsn_ack_point, max_tsn_seen,
                     dupVars>>
      /\ mem = "live"
  BY DEF vlstp_tsnmap_renege
<1>2. Span' = Span
  BY <1>1 DEF Span
<1> QED
  BY <1>1, <1>2 DEF IInv, TypeOK, BaseFollowsAckPoint, GapFitsMap, dupVars,
     LenIsWholeWords, NextTSNIsMissing, NothingBeyondMax, UnusedIsEmpty

\* The duplicate report and the end of the map leave the window alone.
LEMMA DupAndFreeStep ==
  ASSUME IInv,
         \/ \E tsn \in ReportedDups : vlstp_tsnmap_mark_dup(tsn)
         \/ vlstp_tsnmap_get_dups
         \/ vlstp_tsnmap_free
  PROVE  IInv' /\ UNCHANGED cumulative_tsn_ack_point
<1>1. ASSUME NEW tsn \in ReportedDups, vlstp_tsnmap_mark_dup(tsn)
      PROVE  IInv' /\ UNCHANGED cumulative_tsn_ack_point
  <2>1. UNCHANGED seenVars /\ Span' = Span
    BY <1>1 DEF vlstp_tsnmap_mark_dup, seenVars, Span
  <2>2. num_dup_tsns' \in 0 .. VLSTP_MAX_DUP_TSNS
    BY <1>1, MapAssumption DEF vlstp_tsnmap_mark_dup, IInv, TypeOK
  <2>3. dup_tsns' \in [0 .. (VLSTP_MAX_DUP_TSNS - 1) -> [be32 : TSN]]
    <3>1. htonl(tsn) \in [be32 : TSN]
      BY MapAssumption DEF htonl
    <3> QED
      BY <1>1, <3>1 DEF vlstp_tsnmap_mark_dup, IInv, TypeOK
  <2> QED
    BY <2>1, <2>2, <2>3 DEF seenVars, IInv, TypeOK, BaseFollowsAckPoint,
       GapFitsMap, LenIsWholeWords, NextTSNIsMissing, NothingBeyondMax, UnusedIsEmpty
<1>2. ASSUME vlstp_tsnmap_get_dups
      PROVE  IInv' /\ UNCHANGED cumulative_tsn_ack_point
  <2>1. UNCHANGED seenVars /\ Span' = Span /\ num_dup_tsns' = 0
        /\ UNCHANGED dup_tsns
    BY <1>2 DEF vlstp_tsnmap_get_dups, seenVars, Span
  <2>2. 0 \in 0 .. VLSTP_MAX_DUP_TSNS
    BY MapAssumption
  <2> QED
    BY <2>1, <2>2 DEF seenVars, IInv, TypeOK, BaseFollowsAckPoint,
       GapFitsMap, LenIsWholeWords, NextTSNIsMissing, NothingBeyondMax, UnusedIsEmpty
<1>3. ASSUME vlstp_tsnmap_free
      PROVE  IInv' /\ UNCHANGED cumulative_tsn_ack_point
  <2>1. /\ mem' = "freed" /\ tsn_map' = {} /\ len' = 0
        /\ UNCHANGED <<base_tsn, cumulative_tsn_ack_point, max_tsn_seen, dupVars>>
    BY <1>3 DEF vlstp_tsnmap_free
  <2>2. BitsOfLongs(0) \in Nat /\ 0 % BITS_PER_LONG = 0
    BY StorageCovers, Sizes
  <2> QED
    BY <2>1, <2>2, Sizes DEF dupVars, IInv, TypeOK, BaseFollowsAckPoint,
       GapFitsMap, LenIsWholeWords, NextTSNIsMissing, NothingBeyondMax, UnusedIsEmpty
<1> QED
  BY <1>1, <1>2, <1>3

-----------------------------------------------------------------------------
\* A step that changes nothing.
LEMMA StutterStep ==
  ASSUME IInv, UNCHANGED vars
  PROVE  IInv' /\ UNCHANGED cumulative_tsn_ack_point
BY DEF vars, seenVars, dupVars, IInv, TypeOK, BaseFollowsAckPoint, GapFitsMap,
   LenIsWholeWords, NextTSNIsMissing, NothingBeyondMax, UnusedIsEmpty, Span

\* Every step of the map keeps the invariant and, except for a
\* re-initialisation, does not move the ack point back.
LEMMA NextStep ==
  ASSUME IInv, [Next]_vars
  PROVE  /\ IInv'
         /\ InitMap \/ TSN_lte(cumulative_tsn_ack_point, cumulative_tsn_ack_point')
<1>1. CASE InitMap
  BY <1>1, InitMapStep DEF InitMap
<1>2. CASE InitFails
  BY <1>2, StutterStep DEF InitFails, TSN_lte
<1>3. CASE Mark
  BY <1>3, MarkStep DEF Mark
<1>4. CASE MarkNoMemory
  BY <1>4, StutterStep DEF MarkNoMemory, MarkFails, TSN_lte
<1>5. CASE Skip
  BY <1>5, SkipStep DEF Skip
<1>6. CASE Renege
  BY <1>6, RenegeStep DEF Renege, TSN_lte
<1>7. CASE MarkDup \/ vlstp_tsnmap_get_dups \/ vlstp_tsnmap_free
  BY <1>7, DupAndFreeStep DEF MarkDup, TSN_lte
<1>8. CASE UNCHANGED vars
  BY <1>8, StutterStep DEF TSN_lte
<1> QED
  BY <1>1, <1>2, <1>3, <1>4, <1>5, <1>6, <1>7, <1>8 DEF Next

\* The inductive invariant holds in every reachable state.
THEOREM Invariant == Spec => []IInv
<1>1. IInv /\ [Next]_vars => IInv'
  BY NextStep
<1> QED
  BY InitIInv, <1>1, PTL DEF Spec

\* Every variable keeps its type: offsets, counts and TSNs stay in range, and
\* no operation moves a bit past the last word that the map's length names.
THEOREM TypeCorrect == Spec => []TypeOK
<1>1. IInv => TypeOK
  BY DEF IInv
<1> QED
  BY Invariant, <1>1, PTL

\* Bit 0 stands for the TSN after the ack point, the bits up to the highest
\* TSN seen fit in the map, whatever malloc returns, and maps that start with
\* whole words are never used past the bytes that malloc was asked for.
THEOREM WindowIsSound == Spec => []WindowFits
<1>1. IInv => StorageBacksMap
  <2> SUFFICES ASSUME IInv, WholeWords PROVE BitsOfLongs(len) <= Backed(len)
    BY DEF StorageBacksMap
  <2>1. len \in Nat /\ len % BITS_PER_LONG = 0
    BY Sizes DEF IInv, TypeOK, LenIsWholeWords
  <2> QED
    BY <2>1, WholeIsBacked
<1>2. IInv => WindowFits
  BY <1>1 DEF IInv, WindowFits
<1> QED
  BY Invariant, <1>2, PTL

\* With clean storage the map is always fully updated: its first bit is
\* clear and it has no bit for a TSN above the highest one seen.
THEOREM BitsAreSound == Spec => []MapIsUpToDate
<1>1. IInv => MapIsUpToDate
  BY DEF IInv, MapIsUpToDate
<1> QED
  BY Invariant, <1>1, PTL

\* The Cumulative TSN Ack Point never moves back while a map is in use.
THEOREM AckPointIsMonotone == Spec => AckPointAdvances
<1>1. IInv /\ [Next]_vars =>
        [InitMap \/ TSN_lte(cumulative_tsn_ack_point, cumulative_tsn_ack_point')]_vars
  BY NextStep
<1> QED
  BY Invariant, <1>1, PTL DEF Spec, AckPointAdvances

-----------------------------------------------------------------------------
(* The map and the tracker.                                                *)

\* The end of the run that follows c is the only number with the properties
\* by which the tracker chooses it.
LEMMA EndOfRunIs ==
  ASSUME NEW c \in Int, NEW S, IsFiniteSet(S), NEW n \in Int, c <= n,
         (c + 1) .. n \subseteq S, n + 1 \notin S
  PROVE  Tracker!EndOfRun(c, S) = n
<1>1. IsFiniteSet((c + 1) .. n) /\ Cardinality((c + 1) .. n) = n - c
  <2>1. Cardinality((c + 1) .. n) = IF c + 1 > n THEN 0 ELSE n - (c + 1) + 1
    BY FS_Interval
  <2>2. IsFiniteSet((c + 1) .. n)
    BY FS_Interval
  <2>. QED
    BY <2>1, <2>2
<1>2. n - c <= Cardinality(S) /\ Cardinality(S) \in Nat
  BY <1>1, FS_Subset, FS_CardinalityType
<1>3. n \in c .. (c + Cardinality(S))
  BY <1>2
<1>4. ASSUME NEW m \in c .. (c + Cardinality(S)),
             (c + 1) .. m \subseteq S, m + 1 \notin S
      PROVE  m = n
  <2>1. m \in Int
    BY <1>2
  <2>2. ~(m < n)
    <3>1. m < n => m + 1 \in (c + 1) .. n
      BY <1>2, <2>1
    <3>. QED
      BY <1>4, <3>1
  <2>3. ~(n < m)
    <3>1. n < m => n + 1 \in (c + 1) .. m
      BY <1>2, <2>1
    <3>. QED
      BY <1>4, <3>1
  <2>. QED
    BY <2>1, <2>2, <2>3
<1>. QED
  BY <1>3, <1>4 DEF Tracker!EndOfRun

-----------------------------------------------------------------------------
\* bit 0 stays where it is, or moves on by at most the size of the map.
LEMMA EpochMoves ==
  ASSUME base_tsn \in TSN, NEW z \in 0 .. VLSTP_TSN_MAP_SIZE,
         base_tsn' = Plus(base_tsn, z)
  PROVE  BaseMoves = z
<1>1. z \in 0 .. (TSNSpace - 1) /\ z < TSN_SIGN_BIT
  BY Sizes
<1>2. Diff(base_tsn', base_tsn) = z
  BY <1>1, DiffPlus
<1>. QED
  BY <1>1, <1>2 DEF BaseMoves

LEMMA EpochStays ==
  ASSUME base_tsn \in TSN, UNCHANGED base_tsn
  PROVE  BaseMoves = 0
<1>1. 0 \in 0 .. VLSTP_TSN_MAP_SIZE /\ 0 \in Int /\ 0 >= -TSNSpace /\ 0 <= TSNSpace
  BY Sizes
<1>2. base_tsn' = Plus(base_tsn, 0)
  <2>1. base_tsn \in Int /\ 0 <= base_tsn /\ base_tsn < TSNSpace
    BY Sizes
  <2>2. Plus(base_tsn, 0) = base_tsn + 0
    BY <1>1, <2>1, PlusValue
  <2>. QED
    BY <2>1, <2>2
<1>. QED
  BY <1>1, <1>2, EpochMoves

\* What update does, bit by bit: it moves the ack point over exactly the bits
\* that are set from the front, and the others down by as much.
LEMMA UpdateMoves ==
  ASSUME NEW c \in TSN, NEW D \in 0 .. VLSTP_TSN_MAP_SIZE,
         NEW n \in 0 .. VLSTP_TSN_MAP_SIZE, D <= n,
         NEW bits \in SUBSET Nat, \A i \in bits : i < D,
         vlstp_tsnmap_update(bits, n, Plus(c, 1), c, Plus(c, D))
  PROVE  \E z \in 0 .. D :
           /\ base_tsn' = Plus(c, z + 1)
           /\ cumulative_tsn_ack_point' = Plus(c, z)
           /\ \A i \in 0 .. (z - 1) : i \in bits
           /\ z \notin bits
           /\ tsn_map' \in SUBSET Nat
           /\ \A i \in Nat : i \in tsn_map' <=> i + z \in bits
<1>. DEFINE z == find_first_zero_bit(bits, D)
<1>1. D \in 0 .. (TSNSpace - 1) /\ D \in Nat /\ n \in Nat
  BY Sizes
<1>2. Diff(Plus(c, D), c) % GapSpace = D
  BY <1>1, DiffPlus, Sizes, SmallIs16Bit
<1>3. /\ z \in 0 .. D
      /\ \A i \in 0 .. (z - 1) : i \in bits
      /\ z < D => z \notin bits
  BY <1>1, FirstZeroBit
<1>4. /\ base_tsn' = Plus(Plus(c, 1), z)
      /\ cumulative_tsn_ack_point' = Plus(c, z)
      /\ tsn_map' = IF z = 0 THEN bits ELSE bitmap_shift_right(bits, z, n)
  BY <1>2 DEF vlstp_tsnmap_update
<1>. HIDE DEF z
<1>5. z \in Nat /\ z \notin bits
  BY <1>1, <1>3
<1>6. base_tsn' = Plus(c, z + 1)
  <2>1. /\ 1 \in 0 .. (TSNSpace - 1) /\ z \in 0 .. (TSNSpace - 1) /\ 1 + z < TSNSpace
        /\ 1 + z = z + 1
    BY <1>1, <1>3, <1>5, Sizes
  <2>. QED
    BY <1>4, <2>1, PlusPlus
<1>7. ASSUME NEW i \in Nat
      PROVE  i \in tsn_map' <=> i + z \in bits
  <2>1. CASE z = 0
    <3>1. i + z = i
      BY <2>1
    <3>. QED
      BY <1>4, <2>1, <3>1
  <2>2. CASE z # 0
    <3>1. i \in tsn_map' <=> i \in 0 .. (n - 1) /\ i + z < n /\ i + z \in bits
      BY <1>1, <1>4, <1>5, <2>2, ShiftRightBits
    <3>2. i + z \in bits => i + z < D
      OBVIOUS
    <3>3. i + z \in bits => i \in 0 .. (n - 1) /\ i + z < n
      BY <1>1, <1>5, <3>2
    <3>. QED
      BY <3>1, <3>3
  <2>. QED
    BY <2>1, <2>2
<1>8. tsn_map' \in SUBSET Nat
  <2>1. \A i \in bitmap_shift_right(bits, z, n) : i \in Nat
    BY <1>1, <1>5, ShiftRightBits
  <2>. QED
    BY <1>4, <2>1
<1>. QED
  BY <1>3, <1>4, <1>5, <1>6, <1>7, <1>8

-----------------------------------------------------------------------------
\* The mapping in a map that is in use: cum is the number before epoch.  The
\* bits are offsets below Span when malloc zeroes.
LEMMA Mapped ==
  ASSUME IInv, mem = "live", CleanStorage, epoch \in Int
  PROVE  /\ cum = epoch - 1
         /\ high = (epoch - 1) + Span
         /\ tsn_map \in SUBSET Nat
         /\ \A i \in tsn_map : i < Span
<1>1. /\ cumulative_tsn_ack_point \in TSN /\ base_tsn = Plus(cumulative_tsn_ack_point, 1)
      /\ len \in Nat
  BY Window
<1>2. cum = epoch - 1
  BY <1>1, NextTSN DEF cum
<1>3. tsn_map \in SUBSET Nat
  <2>1. BitsOfLongs(len) \in Nat
    BY <1>1, StorageCovers
  <2>. QED
    BY <2>1 DEF IInv, TypeOK
<1>4. \A i \in tsn_map : i < Span
  BY DEF IInv, NothingBeyondMax
<1>. QED
  BY <1>2, <1>3, <1>4 DEF high

\* After a step that leaves the map in use, bit 0 is behind the ack point.
LEMMA MappedAfter ==
  ASSUME cumulative_tsn_ack_point' \in TSN, epoch' \in Int,
         base_tsn' = Plus(cumulative_tsn_ack_point', 1)
  PROVE  cum' = epoch' - 1 /\ high' = (epoch' - 1) + Span'
<1>1. Diff(base_tsn', cumulative_tsn_ack_point') = 1
  BY NextTSN
<1>. QED
  BY <1>1 DEF cum, high

\* Growing keeps every bit when malloc zeroes.
LEMMA StorageKeepsBits ==
  ASSUME IInv, mem = "live", CleanStorage, NEW gap \in 0 .. (VLSTP_TSN_MAP_SIZE - 1),
         NEW store \in StorageFor(gap)
  PROVE  store.bits = tsn_map
<1>1. store.bits \subseteq tsn_map
  BY StorageHasRoom
<1>2. tsn_map \subseteq store.bits
  <2>1. CASE gap < len
    BY <2>1 DEF StorageFor
  <2>2. CASE ~(gap < len)
    <3>1. store \in vlstp_tsnmap_grow((gap + 1) % GapSpace)
      BY <2>2 DEF StorageFor
    <3>2. tsn_map \cap (0 .. (BitsOfLongs(Span) - 1)) \subseteq store.bits
      BY <3>1 DEF vlstp_tsnmap_grow, Span
    <3>3. Span \in Nat /\ len \in Nat
      BY Window
    <3>4. BitsOfLongs(Span) \in Nat /\ BitsOfLongs(Span) >= Span
      BY <3>3, StorageCovers
    <3>5. \A i \in tsn_map : i \in Nat /\ i < Span
      <4>1. BitsOfLongs(len) \in Nat
        BY <3>3, StorageCovers
      <4>. QED
        BY <4>1 DEF IInv, TypeOK, NothingBeyondMax
    <3>. QED
      BY <3>2, <3>3, <3>4, <3>5
  <2>. QED
    BY <2>1, <2>2
<1>. QED
  BY <1>1, <1>2

-----------------------------------------------------------------------------
(* Each operation is a step of the tracker, or changes nothing it sees.    *)

LEMMA StutterMaps ==
  ASSUME IInv, epoch \in Int, UNCHANGED seenVars, epoch' = epoch
  PROVE  UNCHANGED <<mem = "live", cum, high, ahead>>
BY DEF seenVars, cum, high, ahead, Span

\* The numbers of the TSNs the map looks at: the tracker accepts them.
LEMMA NumberIsAccepted ==
  ASSUME epoch \in Int, cum = epoch - 1, NEW x \in 1 .. VLSTP_TSN_MAP_SIZE
  PROVE  (epoch - 1) + x \in Tracker!Accepted
<1>1. VLSTP_TSN_MAP_SIZE \in Nat
  BY Sizes
<1>. QED
  BY <1>1 DEF Tracker!Accepted

\* vlstp_tsnmap_init opens the tracker at the initial TSN.
LEMMA InitMapOpens ==
  ASSUME CleanStorage, IInv, IInv', NEW n \in InitialLens, NEW t \in InitialTSNs,
         vlstp_tsnmap_init(n, t), epoch' = t
  PROVE  Tracker!Open(t)
<1>1. /\ mem' = "live" /\ base_tsn' = t /\ max_tsn_seen' = cumulative_tsn_ack_point'
      /\ tsn_map' = {}
  <2>1. CASE mem = "NULL"
    <3>1. tsn_map' \in MallocBits(0 .. (BitsOfLongs(n) - 1), n)
      BY <2>1 DEF vlstp_tsnmap_init
    <3>2. n \in Nat /\ 0 \in Nat /\ n % BITS_PER_LONG = 0
      BY MapAssumption, Sizes DEF CleanStorage, WholeWords
    <3>3. tsn_map' = {}
      BY <3>1, <3>2, CleanIsEmpty DEF CleanStorage
    <3> QED
      BY <3>3 DEF vlstp_tsnmap_init
  <2>2. CASE mem # "NULL"
    BY <2>2 DEF vlstp_tsnmap_init
  <2> QED
    BY <2>1, <2>2
<1>2. t \in TSN /\ t \in Int
  BY MapAssumption, Sizes
<1>3. cumulative_tsn_ack_point' \in TSN /\ t = Plus(cumulative_tsn_ack_point', 1)
  BY <1>1 DEF IInv, TypeOK, BaseFollowsAckPoint
<1>4. cum' = t - 1 /\ high' = (t - 1) + Span'
  BY <1>1, <1>2, <1>3, MappedAfter
<1>5. Span' = 0
  <2>1. cumulative_tsn_ack_point' \in Int
    BY <1>3, Sizes
  <2>2. Span' = Diff(cumulative_tsn_ack_point', cumulative_tsn_ack_point')
    BY <1>1 DEF Span
  <2>. QED
    BY <1>3, <2>1, <2>2, DiffValue
<1>6. ahead' = {}
  BY <1>1 DEF ahead
<1>. QED
  BY <1>1, <1>2, <1>4, <1>5, <1>6 DEF Tracker!Open

\* vlstp_tsnmap_free closes it.
LEMMA FreeCloses ==
  ASSUME IInv, epoch \in Int, vlstp_tsnmap_free, epoch' = epoch
  PROVE  Tracker!Close
<1>1. /\ mem = "live" /\ mem' = "freed" /\ tsn_map' = {}
      /\ UNCHANGED <<base_tsn, cumulative_tsn_ack_point, max_tsn_seen>>
  BY DEF vlstp_tsnmap_free
<1>2. ahead' = {} /\ cum' = cum /\ high' = high
  BY <1>1 DEF ahead, cum, high, Span
<1>. QED
  BY <1>1, <1>2 DEF Tracker!Close

\* vlstp_tsnmap_renege forgets the number of its TSN.
LEMMA RenegeForgets ==
  ASSUME CleanStorage, IInv, epoch \in Int, NEW tsn \in TSN,
         vlstp_tsnmap_renege(tsn), epoch' = epoch
  PROVE  \E t \in Tracker!Accepted : Tracker!Forget(t)
<1>. DEFINE c == cumulative_tsn_ack_point
            x == Diff(tsn, c)
            t == (epoch - 1) + x
<1>1. /\ mem = "live"
      /\ ~TSN_lt(tsn, base_tsn) /\ TSN_lt(tsn, Plus(base_tsn, len))
      /\ tsn_map' = tsn_map \ {Diff(tsn, base_tsn)}
      /\ UNCHANGED <<mem, base_tsn, cumulative_tsn_ack_point, max_tsn_seen>>
  BY DEF vlstp_tsnmap_renege
<1>2. /\ c \in TSN /\ base_tsn = Plus(c, 1) /\ len \in 0 .. VLSTP_TSN_MAP_SIZE
  BY <1>1, Window
<1>3. /\ x \in 0 .. (TSNSpace - 1) /\ tsn = Plus(c, x)
      /\ x >= 1 => Diff(tsn, base_tsn) = x - 1
      /\ Plus(base_tsn, len) = Plus(c, len + 1)
  BY <1>1, <1>2, Offset
<1>. HIDE DEF x
<1>4. x \in 1 .. VLSTP_TSN_MAP_SIZE
  <2>1. len + 1 \in 1 .. TSN_SIGN_BIT /\ (len + 1) - 1 = len
    BY <1>2, Sizes
  <2>2. x \in 1 .. ((len + 1) - 1)
    BY <1>1, <1>2, <1>3, <2>1, InWindow
  <2>3. x \in 1 .. len
    BY <2>1, <2>2
  <2>. QED
    BY <1>2, <2>3, Sizes
<1>5. Diff(tsn, base_tsn) = x - 1 /\ t = epoch + (x - 1) /\ x - 1 \in Int
  BY <1>3, <1>4
<1>6. cum = epoch - 1 /\ tsn_map \in SUBSET Nat
  BY <1>1, Mapped
<1>7. cum' = cum /\ high' = high
  BY <1>1 DEF cum, high, Span
<1>8. ahead' = ahead \ {t}
  <2>1. ahead' = {epoch + i : i \in tsn_map \ {x - 1}}
    BY <1>1, <1>5 DEF ahead
  <2>2. \A i \in tsn_map : epoch + i = t <=> i = x - 1
    BY <1>5, <1>6
  <2>. HIDE DEF t
  <2>. QED
    BY <2>1, <2>2 DEF ahead
<1>9. Tracker!Forget(t)
  BY <1>1, <1>7, <1>8 DEF Tracker!Forget
<1>. QED
  BY <1>4, <1>6, <1>9, NumberIsAccepted

-----------------------------------------------------------------------------
\* An update in the tracker's terms.  The ack point first passes the skip TSNs
\* up to c, whatever their bits: bit 0 of the array that update is given stands
\* for epoch + skip.  Then the tracker settles what is left.
LEMMA Settles ==
  ASSUME epoch \in Int, cumulative_tsn_ack_point \in TSN,
         base_tsn = Plus(cumulative_tsn_ack_point, 1),
         NEW skip \in Nat, NEW D \in Nat, skip + D <= VLSTP_TSN_MAP_SIZE,
         NEW c, c = Plus(cumulative_tsn_ack_point, skip),
         NEW n \in 0 .. VLSTP_TSN_MAP_SIZE, D <= n,
         NEW bits \in SUBSET Nat, \A i \in bits : i < D,
         vlstp_tsnmap_update(bits, n, Plus(c, 1), c, Plus(c, D)),
         max_tsn_seen' = Plus(c, D),
         epoch' = epoch + BaseMoves,
         NEW S, S = {(epoch + skip) + i : i \in bits}
  PROVE  /\ Tracker!Settle((epoch + skip) - 1, S)
         /\ high' = ((epoch + skip) - 1) + D
<1>1. /\ skip \in 0 .. VLSTP_TSN_MAP_SIZE /\ D \in 0 .. VLSTP_TSN_MAP_SIZE
      /\ skip \in 0 .. (TSNSpace - 1) /\ D \in 0 .. (TSNSpace - 1)
      /\ skip \in Int /\ skip >= -TSNSpace /\ skip <= TSNSpace
  BY Sizes
<1>2. c \in TSN
  BY <1>1, PlusValue
<1>3. PICK z \in 0 .. D :
         /\ base_tsn' = Plus(c, z + 1)
         /\ cumulative_tsn_ack_point' = Plus(c, z)
         /\ \A i \in 0 .. (z - 1) : i \in bits
         /\ z \notin bits
         /\ tsn_map' \in SUBSET Nat
         /\ \A i \in Nat : i \in tsn_map' <=> i + z \in bits
  BY <1>1, <1>2, UpdateMoves
<1>4. /\ z \in Nat /\ z \in 0 .. (TSNSpace - 1) /\ z + 1 \in 0 .. (TSNSpace - 1)
      /\ 1 \in 0 .. (TSNSpace - 1)
      /\ z + 1 < TSNSpace /\ skip + (z + 1) < TSNSpace
      /\ skip + z \in 0 .. VLSTP_TSN_MAP_SIZE
      /\ skip + z \in 0 .. (TSNSpace - 1) /\ 1 + (skip + z) < TSNSpace
      /\ skip + (z + 1) = 1 + (skip + z)
      /\ z \in Int /\ z >= -TSNSpace /\ z <= TSNSpace
  BY <1>1, Sizes
<1>5. base_tsn' = Plus(base_tsn, skip + z)
  <2>1. Plus(c, z + 1) = Plus(cumulative_tsn_ack_point, skip + (z + 1))
    BY <1>1, <1>4, PlusPlus
  <2>2. Plus(base_tsn, skip + z) = Plus(cumulative_tsn_ack_point, 1 + (skip + z))
    BY <1>4, PlusPlus
  <2>. QED
    BY <1>3, <1>4, <2>1, <2>2
<1>6. epoch' = (epoch + skip) + z
  <2>1. base_tsn \in TSN
    BY NextTSN
  <2>2. BaseMoves = skip + z
    BY <1>4, <1>5, <2>1, EpochMoves
  <2>. QED
    BY <1>1, <1>4, <2>2
<1>7. cum' = epoch' - 1 /\ high' = (epoch' - 1) + Span'
  <2>1. cumulative_tsn_ack_point' \in TSN
    BY <1>2, <1>3, <1>4, PlusValue
  <2>2. base_tsn' = Plus(cumulative_tsn_ack_point', 1)
    BY <1>2, <1>3, <1>4, PlusPlus
  <2>3. epoch' \in Int
    BY <1>4, <1>6
  <2>. QED
    BY <2>1, <2>2, <2>3, MappedAfter
<1>8. Span' = D - z
  <2>1. Diff(Plus(c, D), Plus(c, z)) = D - z
    BY <1>1, <1>2, <1>3, <1>4, DiffShift
  <2>. QED
    BY <1>3, <2>1 DEF Span
<1>. DEFINE e    == epoch + skip
            left == tsn_map'
            m    == (e + z) - 1
<1>9. /\ e \in Int /\ e - 1 \in Int /\ m \in Int /\ e - 1 <= m
      /\ left \in SUBSET Nat /\ \A i \in Nat : i \in left <=> i + z \in bits
      /\ \A t : t \in S <=> \E i \in bits : t = e + i
  BY <1>3, <1>4
<1>. HIDE DEF e, left
<1>10. Tracker!EndOfRun(e - 1, S) = m
  <2>1. IsFiniteSet(S)
    <3>1. S \in SUBSET (e .. (e + D))
      BY <1>9
    <3>2. IsFiniteSet(e .. (e + D))
      BY <1>9, FS_Interval
    <3>. QED
      BY <3>1, <3>2, FS_Subset
  <2>2. ((e - 1) + 1) .. m \subseteq S
    <3>. SUFFICES ASSUME NEW t \in ((e - 1) + 1) .. m
                  PROVE  t \in S
      OBVIOUS
    <3>1. t - e \in 0 .. (z - 1) /\ t = e + (t - e)
      BY <1>4, <1>9
    <3>. QED
      BY <1>3, <1>9, <3>1
  <2>3. m + 1 \notin S
    <3>. SUFFICES ASSUME NEW i \in bits, m + 1 = e + i
                  PROVE  FALSE
      BY <1>9
    <3>1. i = z
      BY <1>4, <1>9
    <3>. QED
      BY <1>3, <3>1
  <2>. HIDE DEF m
  <2>. QED
    BY <1>9, <2>1, <2>2, <2>3, EndOfRunIs
<1>11. {t \in S : t > m} = {(e + z) + i : i \in left}
  <2>1. ASSUME NEW t \in S, t > m
        PROVE  \E i \in left : t = (e + z) + i
    <3>1. PICK i \in bits : t = e + i
      BY <1>9
    <3>2. i - z \in Nat /\ (i - z) + z = i /\ t = (e + z) + (i - z)
      BY <1>4, <1>9, <2>1, <3>1
    <3>3. i - z \in left
      BY <1>9, <3>2
    <3>. QED
      BY <3>2, <3>3
  <2>2. ASSUME NEW i \in left
        PROVE  (e + z) + i \in S /\ (e + z) + i > m
    <3>1. i \in Nat /\ i + z \in bits
      BY <1>9
    <3>2. (e + z) + i = e + (i + z) /\ (e + z) + i > m
      BY <1>4, <1>9, <3>1
    <3>. QED
      BY <1>9, <3>1, <3>2
  <2>. QED
    BY <2>1, <2>2
<1>12. ahead' = {(e + z) + i : i \in left}
  BY <1>6 DEF ahead, e, left
<1>13. cum' = m
  BY <1>6, <1>7 DEF e
<1>. HIDE DEF m
<1>14. Tracker!Settle(e - 1, S)
  BY <1>10, <1>11, <1>12, <1>13 DEF Tracker!Settle
<1>15. high' = ((epoch + skip) - 1) + D
  BY <1>4, <1>6, <1>7, <1>8
<1>. QED
  BY <1>14, <1>15 DEF e

\* The path of mark that does not look at the bits does what update would have
\* done with bit 0 set.
LEMMA InOrderIsUpdate ==
  ASSUME NEW c \in TSN, base_tsn = Plus(c, 1), cumulative_tsn_ack_point = c,
         max_tsn_seen = c, MarkInOrder, tsn_map' = {}
  PROVE  vlstp_tsnmap_update({0}, 1, Plus(c, 1), c, Plus(c, 1))
<1>1. Diff(Plus(c, 1), c) % GapSpace = 1
  <2>1. 1 \in 0 .. VLSTP_TSN_MAP_SIZE
    BY Sizes
  <2>. QED
    BY <2>1, NextTSN, SmallIs16Bit
<1>2. find_first_zero_bit({0}, 1) = 1
  <2>. DEFINE z == find_first_zero_bit({0}, 1)
  <2>1. z \in 0 .. 1 /\ (z < 1 => z \notin {0})
    BY FirstZeroBit
  <2>. HIDE DEF z
  <2>2. z = 1
    BY <2>1
  <2>. QED
    BY <2>2 DEF z
<1>3. bitmap_shift_right({0}, 1, 1) = {}
  BY DEF bitmap_shift_right
<1>. QED
  BY <1>1, <1>2, <1>3 DEF MarkInOrder, vlstp_tsnmap_update

\* vlstp_tsnmap_mark of a TSN the receiver may mark: the tracker receives its
\* number, or the TSN is an old one and nothing changes.
LEMMA MarkReceives ==
  ASSUME CleanStorage, IInv, epoch \in Int, NEW tsn \in TSN, Trackable(tsn),
         vlstp_tsnmap_mark(tsn), epoch' = epoch + BaseMoves
  PROVE  \/ \E t \in Tracker!Accepted : Tracker!Receive(t)
         \/ UNCHANGED <<mem = "live", cum, high, ahead>>
<1>. DEFINE c   == cumulative_tsn_ack_point
            x   == Diff(tsn, c)
            t   == (epoch - 1) + x
            gap == Diff(tsn, base_tsn) % GapSpace
            D   == IF Span < x THEN x ELSE Span
<1>1. mem = "live"
  BY DEF vlstp_tsnmap_mark
<1>2. /\ c \in TSN /\ base_tsn = Plus(c, 1) /\ base_tsn \in TSN
      /\ max_tsn_seen = Plus(c, Span)
      /\ len \in 0 .. VLSTP_TSN_MAP_SIZE
      /\ Span \in 0 .. len
      /\ Span < TSN_SIGN_BIT
  BY <1>1, Window
<1>3. CASE TSN_lt(tsn, base_tsn)
  <2>1. UNCHANGED seenVars
    BY <1>3 DEF vlstp_tsnmap_mark
  <2>2. epoch' = epoch
    BY <1>2, <2>1, EpochStays DEF seenVars
  <2>. QED
    BY <2>1, <2>2, StutterMaps
<1>4. CASE ~TSN_lt(tsn, base_tsn)
  <2>1. x \in 1 .. VLSTP_TSN_MAP_SIZE
    BY <1>1, <1>4, MarkedOffset
  <2>2. tsn = Plus(c, x) /\ Diff(tsn, base_tsn) = x - 1
    BY <1>1, <2>1, Offset
  <2>3. gap = x - 1 /\ gap \in 0 .. (VLSTP_TSN_MAP_SIZE - 1)
    <3>1. x - 1 \in 0 .. VLSTP_TSN_MAP_SIZE /\ x - 1 \in 0 .. (VLSTP_TSN_MAP_SIZE - 1)
      BY <2>1, Sizes
    <3>. QED
      BY <2>2, <3>1, SmallIs16Bit
  <2>. HIDE DEF gap
  <2>4. PICK store \in StorageFor(gap) :
          /\ len' = store.len
          /\ IF ~vlstp_tsnmap_has_gap /\ gap = 0
             THEN MarkInOrder /\ tsn_map' = store.bits
             ELSE MarkInGap(tsn, gap, store)
          /\ UNCHANGED mem
    BY <1>4 DEF vlstp_tsnmap_mark, gap
  <2>5. /\ store.len \in 0 .. VLSTP_TSN_MAP_SIZE
        /\ store.len >= len
        /\ gap < store.len
        /\ store.bits = tsn_map
    BY <1>1, <2>3, <2>4, StorageHasRoom, StorageKeepsBits
  <2>6. /\ cum = epoch - 1 /\ high = (epoch - 1) + Span
        /\ tsn_map \in SUBSET Nat /\ \A i \in tsn_map : i < Span
    BY <1>1, Mapped
  <2>. HIDE DEF x
  <2>7. \E n \in 0 .. VLSTP_TSN_MAP_SIZE :
          /\ D <= n
          /\ vlstp_tsnmap_update(tsn_map \cup {gap}, n, Plus(c, 1), c, Plus(c, D))
          /\ max_tsn_seen' = Plus(c, D)
    <3>1. CASE ~vlstp_tsnmap_has_gap /\ gap = 0
      <4>1. MarkInOrder /\ tsn_map' = tsn_map /\ max_tsn_seen = c
        BY <2>4, <2>5, <3>1 DEF vlstp_tsnmap_has_gap
      <4>2. Span = 0
        <5>1. Diff(Plus(c, 0), c) = 0
          BY <1>2, DiffPlus, Sizes
        <5>. QED
          BY <1>2, <4>1, <5>1, PlusZero DEF Span
      <4>3. tsn_map = {} /\ x = 1
        BY <2>1, <2>3, <2>6, <3>1, <4>2
      <4>4. tsn_map \cup {gap} = {0} /\ D = 1
        BY <3>1, <4>2, <4>3
      <4>5. vlstp_tsnmap_update({0}, 1, Plus(c, 1), c, Plus(c, 1))
        BY <1>2, <4>1, <4>3, InOrderIsUpdate
      <4>6. max_tsn_seen' = Plus(c, 1)
        BY <4>1 DEF MarkInOrder
      <4>7. 1 \in 0 .. VLSTP_TSN_MAP_SIZE
        BY Sizes
      <4>. QED
        BY <4>4, <4>5, <4>6, <4>7
    <3>2. CASE ~(~vlstp_tsnmap_has_gap /\ gap = 0)
      <4>1. MarkInGap(tsn, gap, store)
        BY <2>4, <3>2
      <4>2. x \in 0 .. (TSN_SIGN_BIT - 1)
        BY <2>1, Sizes
      <4>3. max_tsn_seen' = Plus(c, D)
        BY <1>2, <2>2, <4>1, <4>2, MaxSeenOffset DEF MarkInGap, IInv
      <4>4. D <= store.len
        BY <1>2, <2>1, <2>3, <2>5
      <4>. HIDE DEF D
      <4>5. vlstp_tsnmap_update(tsn_map \cup {gap}, store.len, Plus(c, 1), c, Plus(c, D))
        BY <1>2, <2>5, <4>1, <4>3 DEF MarkInGap
      <4>. QED
        BY <2>5, <4>3, <4>4, <4>5
    <3>. QED
      BY <3>1, <3>2
  <2>8. /\ D \in Nat /\ D \in 0 .. VLSTP_TSN_MAP_SIZE /\ D = IF Span < x THEN x ELSE Span
        /\ tsn_map \cup {gap} \in SUBSET Nat /\ \A i \in tsn_map \cup {gap} : i < D
    BY <1>2, <2>1, <2>3, <2>6, Sizes
  <2>9. t \in Int /\ t = epoch + gap
    BY <2>1, <2>3
  <2>10. ahead \cup {t} = {(epoch + 0) + i : i \in tsn_map \cup {gap}}
    <3>1. \A i \in tsn_map \cup {gap} : (epoch + 0) + i = epoch + i
      BY <2>8
    <3>. HIDE DEF t
    <3>. QED
      BY <2>9, <3>1 DEF ahead
  <2>. HIDE DEF D, t
  <2>11. /\ Tracker!Settle((epoch + 0) - 1, ahead \cup {t})
         /\ high' = ((epoch + 0) - 1) + D
    <3>1. PICK n \in 0 .. VLSTP_TSN_MAP_SIZE :
            /\ D <= n
            /\ vlstp_tsnmap_update(tsn_map \cup {gap}, n, Plus(c, 1), c, Plus(c, D))
            /\ max_tsn_seen' = Plus(c, D)
      BY <2>7
    <3>2. c = Plus(c, 0) /\ 0 \in Nat /\ 0 + D <= VLSTP_TSN_MAP_SIZE
      BY <1>2, <2>8, PlusZero, Sizes
    <3>. QED
      BY <1>2, <2>8, <2>10, <3>1, <3>2, Settles
  <2>12. Tracker!Settle(cum, ahead \cup {t})
    <3>1. (epoch + 0) - 1 = cum
      BY <2>6
    <3>. QED
      BY <2>11, <3>1
  <2>13. Tracker!Seen(t)
    <3>1. t > high <=> x > Span
      BY <1>2, <2>1, <2>6 DEF t
    <3>2. high' = (epoch - 1) + D
      BY <2>8, <2>11
    <3>. QED
      BY <1>2, <2>1, <2>6, <2>8, <3>1, <3>2 DEF Tracker!Seen, t
  <2>14. Tracker!Receive(t)
    BY <1>1, <2>4, <2>12, <2>13 DEF Tracker!Receive
  <2>15. t \in Tracker!Accepted
    BY <2>1, <2>6, NumberIsAccepted DEF t
  <2>. QED
    BY <2>14, <2>15
<1>. QED
  BY <1>3, <1>4

\* vlstp_tsnmap_skip passes the number of its TSN.
LEMMA SkipSkips ==
  ASSUME CleanStorage, IInv, epoch \in Int, NEW tsn \in TSN,
         vlstp_tsnmap_skip(tsn), epoch' = epoch + BaseMoves
  PROVE  \E t \in Tracker!Accepted : Tracker!SkipTo(t)
<1>. DEFINE c    == cumulative_tsn_ack_point
            x    == Diff(tsn, c)
            t    == (epoch - 1) + x
            gap  == Plus(Diff(tsn, base_tsn), 1)
            M    == IF Span < x THEN x ELSE Span
            D    == M - x
            bits == IF x >= len THEN {} ELSE bitmap_shift_right(tsn_map, x, len)
<1>1. /\ mem = "live"
      /\ ~TSN_lt(tsn, base_tsn)
      /\ TSN_lt(tsn, Plus(base_tsn, VLSTP_TSN_MAP_SIZE))
      /\ UNCHANGED <<mem, len>>
  BY DEF vlstp_tsnmap_skip
<1>2. /\ c \in TSN /\ base_tsn = Plus(c, 1)
      /\ max_tsn_seen = Plus(c, Span)
      /\ len \in 0 .. VLSTP_TSN_MAP_SIZE
      /\ Span \in 0 .. len
      /\ Span < TSN_SIGN_BIT
  BY <1>1, Window
<1>3. /\ x \in 0 .. (TSNSpace - 1) /\ tsn = Plus(c, x)
      /\ x >= 1 => Diff(tsn, base_tsn) = x - 1
      /\ Plus(base_tsn, VLSTP_TSN_MAP_SIZE) = Plus(c, VLSTP_TSN_MAP_SIZE + 1)
  BY <1>1, Offset, Sizes
<1>. HIDE DEF x
<1>4. x \in 1 .. VLSTP_TSN_MAP_SIZE
  <2>1. VLSTP_TSN_MAP_SIZE + 1 \in 1 .. TSN_SIGN_BIT
    BY Sizes
  <2>2. x \in 1 .. ((VLSTP_TSN_MAP_SIZE + 1) - 1)
    BY <1>1, <1>2, <1>3, <2>1, InWindow
  <2>. QED
    BY <2>2, Sizes
<1>5. gap = x
  <2>1. Diff(tsn, base_tsn) = x - 1 /\ x - 1 \in TSN
    BY <1>3, <1>4, Sizes
  <2>2. 1 \in Int /\ 1 >= -TSNSpace /\ 1 <= TSNSpace
    BY Sizes
  <2>3. Plus(x - 1, 1) = IF (x - 1) + 1 < 0 THEN (x - 1) + 1 + TSNSpace
                         ELSE IF (x - 1) + 1 < TSNSpace THEN (x - 1) + 1
                         ELSE (x - 1) + 1 - TSNSpace
    BY <2>1, <2>2, PlusValue
  <2>. QED
    BY <1>4, <2>1, <2>3, Sizes
<1>6. /\ x \in 0 .. (TSNSpace - 1) /\ 1 \in 0 .. (TSNSpace - 1)
      /\ 1 + x < TSNSpace /\ x + 1 = 1 + x
      /\ x \in 0 .. (TSN_SIGN_BIT - 1)
  BY <1>4, Sizes
<1>7. Plus(base_tsn, x) = Plus(Plus(c, x), 1)
  BY <1>2, <1>6, PlusPlus
<1>8. max_tsn_seen' = Plus(c, M)
  BY <1>1, <1>2, <1>3, <1>6, MaxSeenOffset DEF vlstp_tsnmap_skip, IInv
<1>9. /\ cum = epoch - 1 /\ high = (epoch - 1) + Span
      /\ tsn_map \in SUBSET Nat /\ \A i \in tsn_map : i < Span
  BY <1>1, Mapped
<1>10. /\ M = IF Span < x THEN x ELSE Span
       /\ D \in Nat /\ D \in 0 .. (TSNSpace - 1) /\ x + D = M
       /\ D <= len /\ x + D <= VLSTP_TSN_MAP_SIZE /\ x + D < TSNSpace
       /\ (x >= len => D = 0)
       /\ D = IF Span < x THEN 0 ELSE Span - x
  BY <1>2, <1>4, Sizes
<1>11. bits \in SUBSET Nat /\ \A i \in Nat : i \in bits <=> i + x \in tsn_map
  <2>1. len \in Nat /\ x \in Nat
    BY <1>2, <1>4
  <2>2. \A i \in Nat : i \in bitmap_shift_right(tsn_map, x, len) <=> i + x \in tsn_map
    <3>. SUFFICES ASSUME NEW i \in Nat
                  PROVE  i \in bitmap_shift_right(tsn_map, x, len) <=> i + x \in tsn_map
      OBVIOUS
    <3>1. i + x \in tsn_map => i \in 0 .. (len - 1) /\ i + x < len
      BY <1>2, <1>9, <2>1
    <3>. QED
      BY <2>1, <3>1, ShiftRightBits
  <2>3. x >= len => \A i \in Nat : i + x \notin tsn_map
    BY <1>2, <1>9, <2>1
  <2>4. bitmap_shift_right(tsn_map, x, len) \in SUBSET Nat
    BY <2>1, ShiftRightBits
  <2>. QED
    BY <2>2, <2>3, <2>4
<1>. HIDE DEF M, D, gap, bits
<1>12. \A i \in bits : i < D
  <2>. SUFFICES ASSUME NEW i \in bits
                PROVE  i < D
    OBVIOUS
  <2>1. i \in Nat /\ i + x < Span
    BY <1>9, <1>11
  <2>. QED
    BY <1>2, <1>4, <1>10, <2>1
<1>13. max_tsn_seen' = Plus(Plus(c, x), D)
  BY <1>2, <1>6, <1>8, <1>10, PlusPlus
<1>14. vlstp_tsnmap_update(bits, len, Plus(Plus(c, x), 1), Plus(c, x), Plus(Plus(c, x), D))
  <2>1. CASE x >= len
    <3>1. /\ tsn_map' = {} /\ bits = {} /\ D = 0
          /\ base_tsn' = Plus(base_tsn, x)
          /\ cumulative_tsn_ack_point' = Plus(c, x)
      BY <1>5, <1>10, <2>1 DEF vlstp_tsnmap_skip, gap, bits
    <3>2. /\ Plus(c, x) \in TSN /\ Plus(Plus(c, x), 1) \in TSN
          /\ 0 \in 0 .. (TSNSpace - 1) /\ 0 \in 0 .. VLSTP_TSN_MAP_SIZE
      <4>1. x \in Int /\ x >= -TSNSpace /\ x <= TSNSpace
        BY <1>4, Sizes
      <4>2. Plus(c, x) \in TSN
        BY <1>2, <4>1, PlusValue
      <4>3. Plus(Plus(c, x), 1) \in TSN
        BY <4>2, NextTSN
      <4>. QED
        BY <4>2, <4>3, Sizes
    <3>3. Diff(Plus(Plus(c, x), 0), Plus(c, x)) % GapSpace = 0
      BY <3>2, DiffPlus, SmallIs16Bit
    <3>4. find_first_zero_bit({}, 0) = 0
      BY FirstZeroBit
    <3>5. Plus(Plus(c, x), 0) = Plus(c, x)
          /\ Plus(Plus(Plus(c, x), 1), 0) = Plus(Plus(c, x), 1)
      BY <3>2, PlusZero
    <3>. QED
      BY <1>7, <3>1, <3>3, <3>4, <3>5 DEF vlstp_tsnmap_update
  <2>2. CASE ~(x >= len)
    BY <1>5, <1>7, <1>13, <2>2 DEF vlstp_tsnmap_skip, gap, bits
  <2>. QED
    BY <2>1, <2>2
<1>15. t \in Int /\ t = (epoch + x) - 1
  BY <1>4
<1>16. {a \in ahead : a > t} = {(epoch + x) + i : i \in bits}
  <2>. HIDE DEF t
  <2>1. ASSUME NEW i \in tsn_map, epoch + i > t
        PROVE  \E j \in bits : epoch + i = (epoch + x) + j
    <3>1. i - x \in Nat /\ (i - x) + x = i /\ epoch + i = (epoch + x) + (i - x)
      BY <1>4, <1>9, <1>15, <2>1
    <3>. QED
      BY <1>11, <3>1
  <2>2. ASSUME NEW j \in bits
        PROVE  (epoch + x) + j > t /\ \E i \in tsn_map : (epoch + x) + j = epoch + i
    <3>1. j \in Nat /\ j + x \in tsn_map
      BY <1>11
    <3>2. (epoch + x) + j > t /\ (epoch + x) + j = epoch + (j + x)
      BY <1>4, <1>15, <3>1
    <3>. QED
      BY <3>1, <3>2
  <2>. QED
    BY <2>1, <2>2 DEF ahead
<1>. HIDE DEF t
<1>17. /\ Tracker!Settle((epoch + x) - 1, {a \in ahead : a > t})
       /\ high' = ((epoch + x) - 1) + D
  <2>. DEFINE S == {a \in ahead : a > t}
              b == Plus(c, x)
  <2>1. x \in Nat /\ len \in 0 .. VLSTP_TSN_MAP_SIZE /\ b = Plus(c, x)
        /\ S = {(epoch + x) + i : i \in bits}
    BY <1>2, <1>4, <1>16
  <2>2. vlstp_tsnmap_update(bits, len, Plus(b, 1), b, Plus(b, D))
        /\ max_tsn_seen' = Plus(b, D)
    BY <1>13, <1>14
  <2>. HIDE DEF S, b
  <2>3. /\ Tracker!Settle((epoch + x) - 1, S)
        /\ high' = ((epoch + x) - 1) + D
    BY <1>2, <1>10, <1>11, <1>12, <2>1, <2>2, Settles
  <2>. QED
    BY <2>3 DEF S
<1>18. Tracker!Settle(t, {a \in ahead : a > t})
  BY <1>15, <1>17
<1>19. Tracker!Seen(t)
  <2>1. t > high <=> x > Span
    BY <1>2, <1>4, <1>9 DEF t
  <2>2. high' = IF x > Span THEN t ELSE high
    BY <1>2, <1>4, <1>9, <1>10, <1>15, <1>17
  <2>. QED
    BY <2>1, <2>2 DEF Tracker!Seen
<1>20. Tracker!SkipTo(t)
  BY <1>1, <1>18, <1>19 DEF Tracker!SkipTo
<1>21. t \in Tracker!Accepted
  BY <1>4, <1>9, NumberIsAccepted DEF t
<1>. QED
  BY <1>20, <1>21

-----------------------------------------------------------------------------
(* The inductive invariant with the history variables: base_tsn is epoch   *)
(* on the 32-bit wheel.                                                    *)

HInv ==
  /\ IInv
  /\ epoch \in Int
  /\ epoch % TSNSpace = base_tsn
  /\ dup_history \in Seq(ReportedDups)

\* A difference read as a signed offset leads from the one TSN to the other.
LEMMA SignedDifference ==
  ASSUME NEW a \in TSN, NEW b \in TSN,
         NEW k, k = IF Diff(b, a) < TSN_SIGN_BIT THEN Diff(b, a)
                    ELSE Diff(b, a) - TSNSpace
  PROVE  k \in Int /\ Plus(a, k) = b
<1>1. /\ a \in Int /\ 0 <= a /\ a < TSNSpace
      /\ b \in Int /\ 0 <= b /\ b < TSNSpace
      /\ TSNSpace \in Int /\ TSN_SIGN_BIT \in Int
  BY Sizes
<1>2. Diff(b, a) = IF b < a THEN b - a + TSNSpace ELSE b - a
  BY DiffValue
<1>3. /\ k \in Int /\ k >= -TSNSpace /\ k <= TSNSpace
      /\ k = b - a \/ k = b - a + TSNSpace \/ k = b - a - TSNSpace
  BY <1>1, <1>2
<1>4. Plus(a, k) = IF a + k < 0 THEN a + k + TSNSpace
                   ELSE IF a + k < TSNSpace THEN a + k ELSE a + k - TSNSpace
  BY <1>3, PlusValue
<1>. QED
  BY <1>1, <1>3, <1>4

\* Every operation that moves bit 0 moves its number and its TSN together.
LEMMA EpochFollowsBase ==
  ASSUME epoch \in Int, epoch % TSNSpace = base_tsn, base_tsn \in TSN,
         base_tsn' \in TSN, epoch' = epoch + BaseMoves
  PROVE  epoch' \in Int /\ epoch' % TSNSpace = base_tsn'
<1>. DEFINE k == BaseMoves
<1>1. k \in Int /\ Plus(base_tsn, k) = base_tsn'
  BY SignedDifference DEF BaseMoves
<1>. HIDE DEF k
<1>2. (epoch + k) % TSNSpace = (base_tsn + k) % TSNSpace
  BY <1>1, ModAdds, Sizes
<1>3. epoch' = epoch + k
  BY DEF k
<1>. QED
  BY <1>1, <1>2, <1>3 DEF Plus

\* Every step is one of the map, or changes none of its variables.
LEMMA HNextIsNext == HNext => [Next]_vars
BY DEF HNext, HInitMap, HReceive, ReportDup, TakeDups, Next, InitMap, MarkDup

LEMMA InitHInv == HInit => HInv
<1>. SUFFICES ASSUME HInit PROVE HInv
  OBVIOUS
<1>1. IInv
  BY InitIInv DEF HInit
<1>2. epoch = 0 /\ base_tsn = 0 /\ dup_history = <<>>
  BY DEF HInit, Init
<1>3. 0 % TSNSpace = 0
  BY ModSmall, Sizes
<1>. QED
  BY <1>1, <1>2, <1>3 DEF HInv

LEMMA HNextStep ==
  ASSUME HInv, [HNext]_historyVars
  PROVE  HInv'
<1>1. IInv'
  <2>1. [Next]_vars
    BY HNextIsNext DEF historyVars
  <2>. QED
    BY <2>1, NextStep DEF HInv
<1>2. base_tsn \in TSN /\ base_tsn' \in TSN
  BY <1>1 DEF HInv, IInv, TypeOK
<1>3. CASE HInitMap
  <2>1. PICK n \in InitialLens, t \in InitialTSNs :
          vlstp_tsnmap_init(n, t) /\ epoch' = t /\ dup_history' = <<>>
    BY <1>3 DEF HInitMap
  <2>2. base_tsn' = t
    BY <2>1 DEF vlstp_tsnmap_init
  <2>3. t \in Int /\ t % TSNSpace = t
    <3>1. t \in Int /\ 0 <= t /\ t < TSNSpace
      BY MapAssumption, Sizes
    <3>. QED
      BY <3>1, ModSmall, Sizes
  <2>. QED
    BY <1>1, <2>1, <2>2, <2>3 DEF HInv
<1>4. CASE HReceive
  <2>1. epoch' = epoch + BaseMoves /\ dup_history' = dup_history
    BY <1>4 DEF HReceive
  <2>2. epoch' \in Int /\ epoch' % TSNSpace = base_tsn'
    BY <1>2, <2>1, EpochFollowsBase DEF HInv
  <2>. QED
    BY <1>1, <2>1, <2>2 DEF HInv
<1>5. CASE ReportDup
  <2>1. PICK tsn \in ReportedDups :
          /\ vlstp_tsnmap_mark_dup(tsn) \/ UNCHANGED vars
          /\ dup_history' = Append(dup_history, tsn)
          /\ UNCHANGED epoch
    BY <1>5 DEF ReportDup
  <2>2. base_tsn' = base_tsn
    BY <2>1 DEF vlstp_tsnmap_mark_dup, vars, seenVars
  <2>3. dup_history' \in Seq(ReportedDups)
    BY <2>1 DEF HInv
  <2>. QED
    BY <1>1, <2>1, <2>2, <2>3 DEF HInv
<1>6. CASE TakeDups
  <2>1. base_tsn' = base_tsn /\ epoch' = epoch /\ dup_history' = <<>>
    BY <1>6 DEF TakeDups, vlstp_tsnmap_get_dups, seenVars
  <2>. QED
    BY <1>1, <2>1 DEF HInv
<1>7. CASE UNCHANGED historyVars
  BY <1>1, <1>7 DEF historyVars, vars, seenVars, HInv
<1>. QED
  BY <1>3, <1>4, <1>5, <1>6, <1>7 DEF HNext

\* The inductive invariant holds in every reachable state.
THEOREM HistoryInvariant == HSpec => []HInv
<1>1. HInv /\ [HNext]_historyVars => HInv'
  BY HNextStep
<1>. QED
  BY InitHInv, <1>1, PTL DEF HSpec

-----------------------------------------------------------------------------
(* The refinement.                                                         *)

LEMMA InitMaps == HInit => Tracker!Init
<1>. SUFFICES ASSUME HInit PROVE Tracker!Init
  OBVIOUS
<1>1. /\ mem = "NULL" /\ epoch = 0 /\ tsn_map = {}
      /\ base_tsn = 0 /\ cumulative_tsn_ack_point = 0 /\ max_tsn_seen = 0
  BY DEF HInit, Init
<1>2. Diff(0, 0) = 0
  <2>1. 0 \in TSN
    BY Sizes
  <2>2. Diff(0, 0) = IF 0 < 0 THEN 0 - 0 + TSNSpace ELSE 0 - 0
    BY <2>1, DiffValue
  <2>. QED
    BY <2>2
<1>3. cum = 0 /\ high = 0 /\ ahead = {}
  BY <1>1, <1>2 DEF cum, high, Span, ahead
<1>4. (mem = "live") = FALSE
  BY <1>1
<1>. QED
  BY <1>3, <1>4 DEF Tracker!Init

\* Every step is a step of the tracker, or one it does not see.
LEMMA HNextMaps ==
  ASSUME CleanStorage, HInv, HInv', [HNext]_historyVars
  PROVE  Tracker!Next \/ UNCHANGED <<mem = "live", cum, high, ahead>>
<1>1. IInv /\ IInv' /\ epoch \in Int /\ base_tsn \in TSN
  BY DEF HInv, IInv, TypeOK
<1>2. CASE HInitMap
  <2>1. PICK n \in InitialLens, t \in InitialTSNs :
          vlstp_tsnmap_init(n, t) /\ epoch' = t
    BY <1>2 DEF HInitMap
  <2>2. Tracker!Open(t)
    BY <1>1, <2>1, InitMapOpens
  <2>. QED
    BY <2>2 DEF Tracker!Next
<1>3. CASE HReceive
  <2>1. epoch' = epoch + BaseMoves
    BY <1>3 DEF HReceive
  <2>2. UNCHANGED base_tsn => epoch' = epoch
    BY <1>1, <2>1, EpochStays
  <2>3. CASE InitFails \/ MarkNoMemory
    <3>1. UNCHANGED vars
      BY <2>3 DEF InitFails, MarkNoMemory, MarkFails
    <3>. QED
      BY <1>1, <2>2, <3>1, StutterMaps DEF vars, seenVars
  <2>4. CASE Mark
    <3>1. PICK tsn \in TSN : Trackable(tsn) /\ vlstp_tsnmap_mark(tsn)
      BY <2>4 DEF Mark
    <3>2. \/ \E t \in Tracker!Accepted : Tracker!Receive(t)
          \/ UNCHANGED <<mem = "live", cum, high, ahead>>
      BY <1>1, <2>1, <3>1, MarkReceives
    <3>. QED
      BY <3>2 DEF Tracker!Next
  <2>5. CASE Skip
    <3>1. PICK tsn \in TSN : vlstp_tsnmap_skip(tsn)
      BY <2>5 DEF Skip
    <3>2. \E t \in Tracker!Accepted : Tracker!SkipTo(t)
      BY <1>1, <2>1, <3>1, SkipSkips
    <3>. QED
      BY <3>2 DEF Tracker!Next
  <2>6. CASE Renege
    <3>1. PICK tsn \in TSN : vlstp_tsnmap_renege(tsn)
      BY <2>6 DEF Renege
    <3>2. epoch' = epoch
      BY <2>2, <3>1 DEF vlstp_tsnmap_renege
    <3>3. \E t \in Tracker!Accepted : Tracker!Forget(t)
      BY <1>1, <3>1, <3>2, RenegeForgets
    <3>. QED
      BY <3>3 DEF Tracker!Next
  <2>7. CASE vlstp_tsnmap_free
    <3>1. epoch' = epoch
      BY <2>2, <2>7 DEF vlstp_tsnmap_free
    <3>2. Tracker!Close
      BY <1>1, <2>7, <3>1, FreeCloses
    <3>. QED
      BY <3>2 DEF Tracker!Next
  <2>. QED
    BY <1>3, <2>3, <2>4, <2>5, <2>6, <2>7 DEF HReceive
<1>4. CASE ReportDup
  <2>1. UNCHANGED seenVars /\ epoch' = epoch
    BY <1>4 DEF ReportDup, vlstp_tsnmap_mark_dup, vars
  <2>. QED
    BY <1>1, <2>1, StutterMaps
<1>5. CASE TakeDups
  <2>1. UNCHANGED seenVars /\ epoch' = epoch
    BY <1>5 DEF TakeDups, vlstp_tsnmap_get_dups
  <2>. QED
    BY <1>1, <2>1, StutterMaps
<1>6. CASE UNCHANGED historyVars
  <2>1. UNCHANGED seenVars /\ epoch' = epoch
    BY <1>6 DEF historyVars, vars
  <2>. QED
    BY <1>1, <2>1, StutterMaps
<1>. QED
  BY <1>2, <1>3, <1>4, <1>5, <1>6 DEF HNext

\* With storage that malloc zeroes, the 32-bit map implements the tracker:
\* marking, skipping, reneging, growing and wrapping lose no number that was
\* received and add none, and the ack point stops exactly before the first
\* number that is missing.
THEOREM Refinement ==
  ASSUME CleanStorage
  PROVE  HSpec => ImplementsTracker
<1>1. HInv /\ HInv' /\ [HNext]_historyVars =>
        [Tracker!Next]_(Tracker!trackerVars)
  BY HNextMaps DEF Tracker!trackerVars
<1>. QED
  BY InitMaps, HistoryInvariant, <1>1, PTL DEF HSpec, ImplementsTracker, Tracker!Spec

-----------------------------------------------------------------------------
(* The duplicates.                                                         *)

LEMMA DupsStep ==
  ASSUME HInv, DupsAreTheFirst, [HNext]_historyVars
  PROVE  DupsAreTheFirst'
<1>1. /\ dup_history \in Seq(ReportedDups)
      /\ VLSTP_MAX_DUP_TSNS \in Nat \ {0}
      /\ num_dup_tsns \in 0 .. VLSTP_MAX_DUP_TSNS
      /\ dup_tsns \in [0 .. (VLSTP_MAX_DUP_TSNS - 1) -> [be32 : TSN]]
  BY MapAssumption DEF HInv, IInv, TypeOK
<1>2. ASSUME UNCHANGED <<num_dup_tsns, dup_tsns, dup_history>>, mem' = "live" => mem = "live"
      PROVE  DupsAreTheFirst'
  BY <1>2 DEF DupsAreTheFirst
<1>3. ASSUME num_dup_tsns' = 0, dup_history' = <<>>
      PROVE  DupsAreTheFirst'
  <2>1. 0 .. (num_dup_tsns' - 1) = {} /\ Len(dup_history') = 0
    BY <1>3
  <2>. QED
    BY <1>1, <1>3, <2>1 DEF DupsAreTheFirst
<1>4. CASE HInitMap
  BY <1>3, <1>4 DEF HInitMap, vlstp_tsnmap_init
<1>5. CASE HReceive
  <2>1. UNCHANGED dup_history
    BY <1>5 DEF HReceive
  <2>2. UNCHANGED dupVars /\ (mem' = "live" => mem = "live")
    BY <1>5 DEF HReceive, InitFails, Mark, MarkNoMemory, Skip, Renege, MarkFails,
       vlstp_tsnmap_mark, vlstp_tsnmap_skip, vlstp_tsnmap_renege, vlstp_tsnmap_free,
       vars, seenVars
  <2>. QED
    BY <1>2, <2>1, <2>2 DEF dupVars
<1>6. CASE ReportDup
  <2>1. PICK tsn \in ReportedDups :
          /\ mem = "live"
          /\ \/ vlstp_tsnmap_mark_dup(tsn)
             \/ num_dup_tsns >= VLSTP_MAX_DUP_TSNS /\ UNCHANGED vars
          /\ dup_history' = Append(dup_history, tsn)
    BY <1>6 DEF ReportDup
  <2>. DEFINE n == num_dup_tsns
              k == Len(dup_history)
  <2>2. /\ k \in Nat /\ Len(dup_history') = k + 1
        /\ dup_history'[k + 1] = tsn
        /\ \A i \in 1 .. k : dup_history'[i] = dup_history[i]
    BY <1>1, <2>1
  <2>3. /\ n = IF k < VLSTP_MAX_DUP_TSNS THEN k ELSE VLSTP_MAX_DUP_TSNS
        /\ \A i \in 0 .. (n - 1) : dup_tsns[i] = htonl(dup_history[i + 1])
    BY <2>1 DEF DupsAreTheFirst
  <2>4. CASE vlstp_tsnmap_mark_dup(tsn)
    <3>1. /\ n < VLSTP_MAX_DUP_TSNS
          /\ dup_tsns' = [dup_tsns EXCEPT ![n] = htonl(tsn)]
          /\ num_dup_tsns' = n + 1
      BY <2>4 DEF vlstp_tsnmap_mark_dup
    <3>2. n = k /\ n \in 0 .. (VLSTP_MAX_DUP_TSNS - 1)
      BY <1>1, <2>2, <2>3, <3>1
    <3>3. num_dup_tsns' = IF Len(dup_history') < VLSTP_MAX_DUP_TSNS
                          THEN Len(dup_history') ELSE VLSTP_MAX_DUP_TSNS
      BY <1>1, <2>2, <3>1, <3>2
    <3>4. ASSUME NEW i \in 0 .. (num_dup_tsns' - 1)
          PROVE  dup_tsns'[i] = htonl(dup_history'[i + 1])
      <4>1. i \in 0 .. (VLSTP_MAX_DUP_TSNS - 1) /\ i <= n
        <5>1. i \in 0 .. ((n + 1) - 1)
          BY <3>1
        <5>. HIDE DEF n
        <5>. QED
          BY <1>1, <3>2, <5>1
      <4>2. CASE i = n
        BY <1>1, <2>2, <3>1, <3>2, <4>1, <4>2
      <4>3. CASE i # n
        <5>1. i \in 0 .. (n - 1) /\ i + 1 \in 1 .. k
          BY <3>2, <4>1, <4>3
        <5>. QED
          BY <1>1, <2>2, <2>3, <3>1, <4>1, <4>3, <5>1
      <4>. QED
        BY <4>2, <4>3
    <3>. QED
      BY <3>3, <3>4 DEF DupsAreTheFirst
  <2>5. CASE num_dup_tsns >= VLSTP_MAX_DUP_TSNS /\ UNCHANGED vars
    <3>1. UNCHANGED <<num_dup_tsns, dup_tsns>> /\ n = VLSTP_MAX_DUP_TSNS
      BY <1>1, <2>5 DEF vars, dupVars
    <3>2. k >= VLSTP_MAX_DUP_TSNS /\ k \in Nat /\ VLSTP_MAX_DUP_TSNS \in Nat
      BY <1>1, <2>2, <2>3, <3>1
    <3>3. \A i \in 0 .. (n - 1) : i + 1 \in 1 .. k
      BY <3>1, <3>2
    <3>4. ASSUME NEW i \in 0 .. (num_dup_tsns' - 1)
          PROVE  dup_tsns'[i] = htonl(dup_history'[i + 1])
      <4>1. i \in 0 .. (n - 1) /\ i + 1 \in 1 .. k
        BY <3>1, <3>3
      <4>. QED
        BY <2>2, <2>3, <3>1, <4>1
    <3>. QED
      BY <2>2, <3>1, <3>2, <3>4 DEF DupsAreTheFirst
  <2>. QED
    BY <2>1, <2>4, <2>5
<1>7. CASE TakeDups
  BY <1>3, <1>7 DEF TakeDups, vlstp_tsnmap_get_dups
<1>8. CASE UNCHANGED historyVars
  BY <1>2, <1>8 DEF historyVars, vars, seenVars, dupVars
<1>. QED
  BY <1>4, <1>5, <1>6, <1>7, <1>8 DEF HNext

\* A SACK reports the first VLSTP_MAX_DUP_TSNS duplicates since the last one,
\* oldest first: the separate count and the array stay together.
THEOREM DupsAreKept == HSpec => []DupsAreTheFirst
<1>1. HInit => DupsAreTheFirst
  BY DEF HInit, Init, DupsAreTheFirst
<1>2. HInv /\ DupsAreTheFirst /\ [HNext]_historyVars => DupsAreTheFirst'
  BY DupsStep
<1>. QED
  BY HistoryInvariant, <1>1, <1>2, PTL DEF HSpec

-----------------------------------------------------------------------------
(* The answers of the queries.                                             *)

\* A number the receiver can tell apart stands for the TSN as far from the
\* ack point, on either side of the wrap.
LEMMA NumberOfTSN ==
  ASSUME HInv, mem = "live", NEW y \in Int
  PROVE  ((epoch - 1) + y) % TSNSpace = Plus(cumulative_tsn_ack_point, y)
<1>. DEFINE c == cumulative_tsn_ack_point
<1>1. /\ c \in TSN /\ c \in Int /\ base_tsn = (c + 1) % TSNSpace
      /\ epoch \in Int /\ epoch % TSNSpace = base_tsn
      /\ TSNSpace \in Nat \ {0}
  BY Window, Sizes DEF HInv, Plus
<1>. HIDE DEF c
<1>2. (epoch + (y - 1)) % TSNSpace = (base_tsn + (y - 1)) % TSNSpace
  <2>1. y - 1 \in Int
    OBVIOUS
  <2>. QED
    BY <1>1, <2>1, ModAdds
<1>3. ((c + 1) + (y - 1)) % TSNSpace = (base_tsn + (y - 1)) % TSNSpace
  <2>1. /\ y - 1 \in Int /\ c + 1 \in Int /\ TSNSpace \in Nat \ {0}
        /\ (c + 1) % TSNSpace = base_tsn
    BY <1>1
  <2>2. ((c + 1) + (y - 1)) % TSNSpace = (((c + 1) % TSNSpace) + (y - 1)) % TSNSpace
    BY ONLY <2>1, ModAdds
  <2>. QED
    BY <2>1, <2>2
<1>4. (epoch - 1) + y = epoch + (y - 1) /\ c + y = (c + 1) + (y - 1)
  BY <1>1
<1>5. ((epoch - 1) + y) % TSNSpace = (c + y) % TSNSpace
  BY <1>2, <1>3, <1>4
<1>. QED
  BY <1>5 DEF Plus, c

\* What is received beyond cum, as an offset.
LEMMA AheadOffset ==
  ASSUME IInv, mem = "live", CleanStorage, epoch \in Int, NEW y \in Int
  PROVE  /\ (epoch - 1) + y \in ahead <=> y - 1 \in tsn_map
         /\ y - 1 \in tsn_map => 1 <= y /\ y <= len
<1>1. tsn_map \in SUBSET Nat /\ \A i \in tsn_map : i < Span
  BY Mapped
<1>2. Span \in 0 .. len /\ len \in Nat
  BY Window
<1>3. \A i \in tsn_map : (epoch - 1) + y = epoch + i <=> i = y - 1
  BY <1>1
<1>4. (epoch - 1) + y \in ahead <=> y - 1 \in tsn_map
  BY <1>3 DEF ahead
<1>. QED
  BY <1>1, <1>2, <1>4

\* vlstp_tsnmap_check answers from what was received, on both sides of the
\* wrap: 1 for what was seen, -1 beyond the window the map can grow to, 0 for
\* what it still waits for.
THEOREM ChecksAreExact ==
  ASSUME CleanStorage
  PROVE  HSpec => []CheckIsExact
<1>1. ASSUME HInv, mem = "live", NEW t \in Horizon
      PROVE  vlstp_tsnmap_check(t % TSNSpace) =
               CASE t <= cum \/ t \in ahead         -> 1
                 [] t > cum + VLSTP_TSN_MAP_SIZE    -> -1
                 [] OTHER                           -> 0
  <2>. DEFINE y == t - cum
  <2>1. IInv /\ epoch \in Int /\ cum = epoch - 1
    BY <1>1, Mapped DEF HInv
  <2>2. t \in Int /\ cum \in Int /\ t = (epoch - 1) + y
        /\ y \in (-(TSN_SIGN_BIT - 1)) .. (TSN_SIGN_BIT - 1)
    BY <1>1, <2>1, Sizes DEF Horizon
  <2>3. y \in Int /\ (t <= cum <=> y <= 0)
        /\ (t > cum + VLSTP_TSN_MAP_SIZE <=> y > VLSTP_TSN_MAP_SIZE)
    BY <2>2, Sizes
  <2>. HIDE DEF y
  <2>4. t % TSNSpace = Plus(cumulative_tsn_ack_point, y)
    BY <1>1, <2>2, <2>3, NumberOfTSN
  <2>5. /\ t \in ahead <=> y - 1 \in tsn_map
        /\ y - 1 \in tsn_map => 1 <= y /\ y <= len
    BY <1>1, <2>1, <2>2, <2>3, AheadOffset
  <2>6. len \in Int /\ len <= VLSTP_TSN_MAP_SIZE /\ VLSTP_TSN_MAP_SIZE \in Nat
    BY <1>1, <2>1, Window, Sizes
  <2>7. vlstp_tsnmap_check(t % TSNSpace) =
           IF y <= 0 THEN 1
           ELSE IF y > VLSTP_TSN_MAP_SIZE THEN -1
           ELSE IF y - 1 < len /\ y - 1 \in tsn_map THEN 1
           ELSE 0
    BY <1>1, <2>1, <2>2, <2>4, CheckOffset
  <2>8. CASE t <= cum \/ t \in ahead
    <3>1. vlstp_tsnmap_check(t % TSNSpace) = 1
      BY <2>3, <2>5, <2>6, <2>7, <2>8
    <3>2. ~(t > cum + VLSTP_TSN_MAP_SIZE)
      BY <2>3, <2>5, <2>6, <2>8
    <3>. QED
      BY <2>8, <3>1, <3>2
  <2>9. CASE ~(t <= cum \/ t \in ahead)
    <3>1. vlstp_tsnmap_check(t % TSNSpace) =
            IF t > cum + VLSTP_TSN_MAP_SIZE THEN -1 ELSE 0
      BY <2>3, <2>5, <2>7, <2>9
    <3>. QED
      BY <2>9, <3>1
  <2>. QED
    BY <2>8, <2>9
<1>2. HInv => CheckIsExact
  BY <1>1 DEF CheckIsExact
<1>. QED
  BY HistoryInvariant, <1>2, PTL

-----------------------------------------------------------------------------
\* As many numbers are ahead as bits are set.
LEMMA AheadIsAsLarge ==
  ASSUME epoch \in Int, tsn_map \in SUBSET Nat, IsFiniteSet(tsn_map)
  PROVE  IsFiniteSet(ahead) /\ Cardinality(ahead) = Cardinality(tsn_map)
<1>. DEFINE f == [i \in tsn_map |-> epoch + i]
<1>1. f \in [tsn_map -> ahead]
  BY DEF ahead
<1>2. \A a, b \in tsn_map : f[a] = f[b] => a = b
  OBVIOUS
<1>3. \A t \in ahead : \E i \in tsn_map : f[i] = t
  BY DEF ahead
<1>. HIDE DEF f
<1>4. f \in Bijection(tsn_map, ahead)
  BY <1>1, <1>2, <1>3, Fun_IsBij
<1>5. ExistsBijection(tsn_map, ahead)
  BY <1>4, Fun_ExistsBij
<1>. QED
  BY <1>5, FS_Bijection

\* vlstp_tsnmap_pending is the number of TSNs that are missing below the
\* highest one seen, whichever of its two paths computes it.
THEOREM PendingIsCounted ==
  ASSUME CleanStorage
  PROVE  HSpec => []PendingIsExact
<1>1. ASSUME HInv, mem = "live"
      PROVE  vlstp_tsnmap_pending = Cardinality(((cum + 1) .. high) \ ahead)
  <2>. DEFINE c   == cumulative_tsn_ack_point
              gap == Diff(max_tsn_seen, base_tsn)
              all == Diff(max_tsn_seen, c)
  <2>1. IInv /\ epoch \in Int
    BY <1>1 DEF HInv
  <2>2. /\ c \in TSN /\ base_tsn = Plus(c, 1) /\ max_tsn_seen = Plus(c, Span)
        /\ len \in 0 .. VLSTP_TSN_MAP_SIZE
        /\ Span \in 0 .. len
    BY <1>1, <2>1, Window
  <2>3. /\ cum = epoch - 1 /\ high = (epoch - 1) + Span
        /\ tsn_map \in SUBSET Nat /\ \A i \in tsn_map : i < Span
        /\ 0 \notin tsn_map
    BY <1>1, <2>1, Mapped DEF IInv, NextTSNIsMissing
  <2>4. (cum + 1) .. high = epoch .. (epoch + Span - 1)
    BY <2>1, <2>2, <2>3
  <2>5. IsFiniteSet(tsn_map) /\ Cardinality(tsn_map) \in Nat
        /\ Cardinality(tsn_map) <= Span
    <3>1. IsFiniteSet(0 .. (Span - 1)) /\ Cardinality(0 .. (Span - 1)) = Span
      <4>1. Cardinality(0 .. (Span - 1)) = IF 0 > Span - 1 THEN 0 ELSE Span - 1 - 0 + 1
        BY <2>2, FS_Interval
      <4>2. IsFiniteSet(0 .. (Span - 1))
        BY <2>2, FS_Interval
      <4>. QED
        BY <2>2, <4>1, <4>2
    <3>2. tsn_map \in SUBSET (0 .. (Span - 1))
      BY <2>2, <2>3
    <3>. QED
      BY <3>1, <3>2, FS_Subset, FS_CardinalityType
  <2>6. Cardinality((epoch .. (epoch + Span - 1)) \ ahead) = Span - Cardinality(tsn_map)
    <3>. DEFINE I == epoch .. (epoch + Span - 1)
    <3>1. IsFiniteSet(I) /\ Cardinality(I) = Span
      <4>. DEFINE b == epoch + Span - 1
      <4>1. b \in Int /\ (epoch > b <=> Span = 0) /\ b - epoch + 1 = Span
        BY <2>1, <2>2
      <4>. HIDE DEF b
      <4>2. /\ IsFiniteSet(epoch .. b)
            /\ Cardinality(epoch .. b) = IF epoch > b THEN 0 ELSE b - epoch + 1
        BY <2>1, <4>1, FS_Interval
      <4>3. Cardinality(epoch .. b) = Span
        BY <4>1, <4>2
      <4>. QED
        BY <4>2, <4>3 DEF b
    <3>2. I \cap ahead = ahead
      <4>1. \A i \in tsn_map : epoch + i \in I
        BY <2>1, <2>2, <2>3
      <4>. QED
        BY <4>1 DEF ahead
    <3>3. Cardinality(ahead) = Cardinality(tsn_map)
      BY <2>1, <2>3, <2>5, AheadIsAsLarge
    <3>. HIDE DEF I
    <3>4. Cardinality(I \ ahead) = Cardinality(I) - Cardinality(I \cap ahead)
      BY <3>1, FS_Difference
    <3>5. Cardinality(I \ ahead) = Span - Cardinality(tsn_map)
      BY <3>1, <3>2, <3>3, <3>4
    <3>. QED
      BY <3>5 DEF I
  <2>7. /\ all = Span
        /\ gap = IF Span >= 1 THEN Span - 1 ELSE Span - 1 + TSNSpace
    <3>1. Span \in 0 .. (TSNSpace - 1) /\ 1 \in 0 .. (TSNSpace - 1)
      BY <2>2, Sizes
    <3>2. all = Span
      BY DEF Span
    <3>. QED
      BY <2>2, <3>1, <3>2, DiffShift
  <2>. HIDE DEF gap, all
  <2>8. CASE gap = 0 \/ gap >= len
    <3>1. Span = 0 \/ Span = 1
      BY <2>2, <2>7, <2>8, Sizes
    <3>2. tsn_map = {}
      BY <2>3, <3>1
    <3>3. Cardinality(tsn_map) = 0
      BY <3>2, FS_EmptySet
    <3>4. all % GapSpace = Span
      <4>1. Span \in 0 .. VLSTP_TSN_MAP_SIZE
        BY <2>2, Sizes
      <4>. QED
        BY <2>7, <4>1, SmallIs16Bit
    <3>5. vlstp_tsnmap_pending = all % GapSpace
      BY <2>8 DEF vlstp_tsnmap_pending, gap, all
    <3>6. Cardinality(((cum + 1) .. high) \ ahead) = Span - 0
      BY <2>4, <2>6, <3>3
    <3>7. Span - 0 = Span
      BY <3>1
    <3>. QED
      BY <3>4, <3>5, <3>6, <3>7
  <2>9. CASE ~(gap = 0 \/ gap >= len)
    <3>1. Span >= 1 /\ gap + 1 = Span
      BY <2>2, <2>7, <2>9, Sizes
    <3>2. tsn_map \cap (0 .. (Span - 1)) = tsn_map
      <4>1. \A i \in tsn_map : i \in 0 .. (Span - 1)
        BY <2>2, <2>3
      <4>. QED
        BY <4>1
    <3>3. bitmap_weight(tsn_map, gap + 1) = Cardinality(tsn_map)
      BY <3>1, <3>2 DEF bitmap_weight
    <3>4. (Span - Cardinality(tsn_map)) % GapSpace = Span - Cardinality(tsn_map)
      <4>1. Span - Cardinality(tsn_map) \in 0 .. VLSTP_TSN_MAP_SIZE
        BY <2>2, <2>5, Sizes
      <4>. QED
        BY <4>1, SmallIs16Bit
    <3>5. vlstp_tsnmap_pending = (all - bitmap_weight(tsn_map, gap + 1)) % GapSpace
      BY <2>9 DEF vlstp_tsnmap_pending, gap, all
    <3>. QED
      BY <2>4, <2>6, <2>7, <3>3, <3>4, <3>5
  <2>. QED
    BY <2>8, <2>9
<1>2. HInv => PendingIsExact
  BY <1>1 DEF PendingIsExact
<1>. QED
  BY HistoryInvariant, <1>2, PTL

-----------------------------------------------------------------------------
(* The gap ack blocks of a SACK.  The loop is a recursive function; what   *)
(* holds after n turns is proved by looking at the least n for which it    *)
(* does not.                                                               *)

GabsStart == [blocks |-> <<>>, pos |-> vlstp_tsnmap_iter_init]

\* g is the loop up to turn m.
IsGabsAfter(g, m) ==
  g = [n \in 0 .. m |-> IF n = 0 THEN GabsStart ELSE GabsTurn(g[n - 1])]

\* There is such a function, so the recursive definition defines it.
LEMMA GabsAfterExists ==
  ASSUME NEW m \in Nat
  PROVE  \E g : IsGabsAfter(g, m)
<1>. DEFINE S == {k \in Nat : ~ \E g : IsGabsAfter(g, k)}
<1>1. SUFFICES ASSUME S # {} PROVE FALSE
  OBVIOUS
<1>2. PICK k \in S : \A i \in S : k <= i
  <2>1. S \in SUBSET Nat
    OBVIOUS
  <2>. HIDE DEF S
  <2>. QED
    BY <1>1, <2>1, LeastNat
<1>3. k \in Nat /\ ~ \E g : IsGabsAfter(g, k)
  OBVIOUS
<1>4. CASE k = 0
  <2>. DEFINE g == [n \in 0 .. 0 |-> GabsStart]
  <2>1. IsGabsAfter(g, 0)
    BY DEF IsGabsAfter
  <2>. QED
    BY <1>3, <1>4, <2>1
<1>5. CASE k # 0
  <2>1. k - 1 \in Nat /\ ~(k <= k - 1)
    BY <1>3, <1>5
  <2>2. PICK g : IsGabsAfter(g, k - 1)
    BY <1>2, <2>1
  <2>. HIDE DEF S
  <2>. DEFINE h == [n \in 0 .. k |-> IF n < k THEN g[n] ELSE GabsTurn(g[k - 1])]
  <2>3. \A n \in 0 .. (k - 1) :
          g[n] = IF n = 0 THEN GabsStart ELSE GabsTurn(g[n - 1])
    BY <2>2 DEF IsGabsAfter
  <2>4. ASSUME NEW n \in 0 .. k
        PROVE  h[n] = IF n = 0 THEN GabsStart ELSE GabsTurn(h[n - 1])
    <3>1. CASE n = 0
      <4>1. n < k /\ n \in 0 .. (k - 1)
        BY <1>3, <1>5, <3>1
      <4>. QED
        BY <2>3, <3>1, <4>1
    <3>2. CASE n # 0 /\ n < k
      <4>1. n \in 0 .. (k - 1) /\ n - 1 \in 0 .. k /\ n - 1 < k
        BY <1>3, <3>2
      <4>2. h[n] = g[n] /\ h[n - 1] = g[n - 1]
        BY <3>2, <4>1
      <4>. QED
        BY <2>3, <3>2, <4>1, <4>2
    <3>3. CASE n # 0 /\ ~(n < k)
      <4>1. n = k /\ k - 1 \in 0 .. k /\ k - 1 < k
        BY <1>3, <3>3
      <4>2. h[n] = GabsTurn(g[k - 1]) /\ h[n - 1] = g[k - 1]
        BY <4>1
      <4>. QED
        BY <3>3, <4>2
    <3>. QED
      BY <3>1, <3>2, <3>3
  <2>5. h = [n \in 0 .. k |-> h[n]]
    OBVIOUS
  <2>. HIDE DEF h
  <2>6. IsGabsAfter(h, k)
    BY <2>4, <2>5 DEF IsGabsAfter
  <2>. QED
    BY <1>3, <2>6
<1>. QED
  BY <1>4, <1>5

LEMMA GabsAfterIs ==
  /\ GabsAfter[0] = GabsStart
  /\ \A n \in 1 .. VLSTP_MAX_GABS : GabsAfter[n] = GabsTurn(GabsAfter[n - 1])
<1>1. VLSTP_MAX_GABS \in Nat \ {0}
  BY MapAssumption
<1>2. \E g : g = [n \in 0 .. VLSTP_MAX_GABS |->
                    IF n = 0 THEN GabsStart ELSE GabsTurn(g[n - 1])]
  BY <1>1, GabsAfterExists DEF IsGabsAfter
<1>3. GabsAfter = [n \in 0 .. VLSTP_MAX_GABS |->
                    IF n = 0 THEN GabsStart ELSE GabsTurn(GabsAfter[n - 1])]
  BY <1>2 DEF GabsAfter, GabsStart
<1>4. ASSUME NEW n \in 0 .. VLSTP_MAX_GABS
      PROVE  GabsAfter[n] = IF n = 0 THEN GabsStart ELSE GabsTurn(GabsAfter[n - 1])
  BY <1>3
<1>. QED
  BY <1>1, <1>4

\* The block with the given offsets, as it is sent.
Gab(s, e) == [start |-> htons(s), end |-> htons(e)]

\* A maximal run of received TSNs, as offsets from the ack point: offset k is
\* bit k - 1.
IsRun(s, e) ==
  /\ s \in 1 .. Span
  /\ e \in 1 .. Span
  /\ s <= e
  /\ \A k \in s .. e : k - 1 \in tsn_map
  /\ s - 2 \notin tsn_map
  /\ e \notin tsn_map

\* Of two runs that overlap neither goes beyond the other.
LEMMA RunsAreDisjoint ==
  ASSUME NEW s \in Int, NEW e \in Int, NEW p \in Int, NEW q \in Int,
         IsRun(s, e), IsRun(p, q), s <= p, p <= e
  PROVE  s = p /\ e = q
<1>1. s = p
  <2>1. ASSUME s < p
        PROVE  FALSE
    <3>1. p - 1 \in s .. e /\ (p - 1) - 1 = p - 2
      BY <2>1
    <3>2. p - 2 \in tsn_map
      BY <3>1 DEF IsRun
    <3>. QED
      BY <3>2 DEF IsRun
  <2>. QED
    BY <2>1
<1>2. ASSUME NEW a \in Int, NEW b \in Int, IsRun(s, a), IsRun(s, b), a < b
      PROVE  FALSE
  <2>1. s <= a /\ a + 1 \in s .. b /\ (a + 1) - 1 = a
    BY <1>2 DEF IsRun
  <2>2. a \in tsn_map
    BY <1>2, <2>1 DEF IsRun
  <2>. QED
    BY <1>2, <2>2 DEF IsRun
<1>3. e = q
  BY <1>1, <1>2
<1>. QED
  BY <1>1, <1>3

\* What the loop has after n turns, standing y bits after bit 0: the runs that
\* start before that, each once and in order; and it has used up n turns or
\* nothing is left.
GabsSoFar(w, n, y) ==
  /\ y \in 0 .. VLSTP_TSN_MAP_SIZE
  /\ y \notin tsn_map
  /\ w.pos = Plus(base_tsn, y)
  /\ w.blocks \in Seq({Gab(q[1], q[2]) : q \in (1 .. Span) \X (1 .. Span)})
  /\ Len(w.blocks) <= n
  /\ Len(w.blocks) = n \/ \A i \in tsn_map : i < y
  /\ \A j \in 1 .. Len(w.blocks) :
       /\ IsRun(w.blocks[j].start.be16, w.blocks[j].end.be16)
       /\ w.blocks[j].end.be16 <= y
  /\ \A i, j \in 1 .. Len(w.blocks) :
       i < j => w.blocks[i].end.be16 < w.blocks[j].start.be16
  /\ \A s, e \in 1 .. Span :
       IsRun(s, e) /\ s <= y => \E j \in 1 .. Len(w.blocks) : w.blocks[j] = Gab(s, e)

LEMMA GabsAtStart ==
  ASSUME IInv, mem = "live", CleanStorage
  PROVE  GabsSoFar(GabsStart, 0, 0)
<1>1. /\ base_tsn \in TSN /\ base_tsn = Plus(cumulative_tsn_ack_point, 1)
      /\ 0 \in 0 .. VLSTP_TSN_MAP_SIZE
      /\ Span \in Nat
  BY Window, Sizes
<1>2. 0 \notin tsn_map
  BY DEF IInv, NextTSNIsMissing
<1>3. GabsStart.pos = Plus(base_tsn, 0)
  BY <1>1, PlusZero DEF GabsStart, vlstp_tsnmap_iter_init
<1>4. GabsStart.blocks = <<>> /\ Len(<<>>) = 0 /\ 1 .. 0 = {}
  BY DEF GabsStart
<1>5. \A s, e \in 1 .. Span : ~(s <= 0)
  BY <1>1
<1>. QED
  BY <1>1, <1>2, <1>3, <1>4, <1>5 DEF GabsSoFar

\* One turn more.
LEMMA GabsTurnStep ==
  ASSUME IInv, mem = "live", CleanStorage, NEW n \in Nat, NEW w, NEW y \in Int,
         GabsSoFar(w, n, y)
  PROVE  \E z \in Int : GabsSoFar(GabsTurn(w), n + 1, z)
<1>. DEFINE b    == vlstp_tsnmap_next_gap_ack(w.pos)
            v    == GabsTurn(w)
            L    == Len(w.blocks)
            Gabs == {Gab(q[1], q[2]) : q \in (1 .. Span) \X (1 .. Span)}
<1>1. /\ y \in 0 .. VLSTP_TSN_MAP_SIZE /\ y \in Nat /\ y \notin tsn_map
      /\ w.pos = Plus(base_tsn, y)
      /\ w.blocks \in Seq(Gabs)
      /\ L \in Nat /\ L <= n
      /\ L = n \/ \A i \in tsn_map : i < y
      /\ \A j \in 1 .. L : /\ IsRun(w.blocks[j].start.be16, w.blocks[j].end.be16)
                           /\ w.blocks[j].end.be16 <= y
      /\ \A i, j \in 1 .. L :
           i < j => w.blocks[i].end.be16 < w.blocks[j].start.be16
      /\ \A s, e \in 1 .. Span :
           IsRun(s, e) /\ s <= y => \E j \in 1 .. L : w.blocks[j] = Gab(s, e)
  <2>1. \A k \in 0 .. VLSTP_TSN_MAP_SIZE : k \in Nat
    BY Sizes
  <2>2. Len(w.blocks) \in Nat
    BY DEF GabsSoFar
  <2>. QED
    BY <2>1, <2>2 DEF GabsSoFar
<1>2. /\ Span \in Nat /\ Span <= VLSTP_TSN_MAP_SIZE /\ VLSTP_TSN_MAP_SIZE \in Nat
      /\ base_tsn \in TSN /\ cumulative_tsn_ack_point \in TSN
      /\ base_tsn = Plus(cumulative_tsn_ack_point, 1)
  BY Window, Sizes
<1>3. \/ b = NoBlock /\ \A i \in tsn_map : i < y
      \/ /\ b.start \in 2 .. b.end
         /\ b.end \in 2 .. Span
         /\ y + 1 <= b.start
         /\ b = [start |-> b.start, end |-> b.end]
         /\ \A i \in y .. (b.start - 2) : i \notin tsn_map
         /\ \A i \in (b.start - 1) .. (b.end - 1) : i \in tsn_map
         /\ b.end \notin tsn_map
  BY <1>1, NextGapAck
<1>. HIDE DEF b, L, Gabs
<1>4. CASE b = NoBlock /\ \A i \in tsn_map : i < y
  <2>1. v = w
    BY <1>4 DEF GabsTurn, b
  <2>2. GabsSoFar(w, n + 1, y)
    <3>1. L <= n + 1
      BY <1>1
    <3>. QED
      BY <1>4, <3>1 DEF GabsSoFar, L
  <2>. QED
    BY <2>1, <2>2
<1>5. CASE /\ b.start \in 2 .. b.end
           /\ b.end \in 2 .. Span
           /\ y + 1 <= b.start
           /\ b = [start |-> b.start, end |-> b.end]
           /\ \A i \in y .. (b.start - 2) : i \notin tsn_map
           /\ \A i \in (b.start - 1) .. (b.end - 1) : i \in tsn_map
           /\ b.end \notin tsn_map
           /\ L = n
  <2>. DEFINE p == b.start
              q == b.end
  <2>1. /\ p \in Int /\ q \in Int /\ 2 <= p /\ p <= q /\ q <= Span /\ y + 1 <= p
        /\ p \in 1 .. Span /\ q \in 1 .. Span
    BY <1>2, <1>5
  <2>2. b # NoBlock
    BY <1>5 DEF NoBlock
  <2>3. v = [blocks |-> Append(w.blocks, Gab(p, q)), pos |-> IterAfter(b)]
    BY <2>2 DEF GabsTurn, b, Gab
  <2>4. /\ \A i \in y .. (p - 2) : i \notin tsn_map
        /\ \A i \in (p - 1) .. (q - 1) : i \in tsn_map
        /\ q \notin tsn_map
    BY <1>5
  <2>5. v.pos = Plus(base_tsn, q)
    <3>1. /\ 1 \in 0 .. (TSNSpace - 1) /\ q \in 0 .. (TSNSpace - 1)
          /\ 1 + q < TSNSpace /\ 1 + q = q + 1
      BY <1>2, <2>1, Sizes
    <3>2. Plus(base_tsn, q) = Plus(cumulative_tsn_ack_point, 1 + q)
      BY <1>2, <3>1, PlusPlus
    <3>. QED
      BY <2>3, <3>1, <3>2 DEF IterAfter
  <2>6. IsRun(p, q)
    <3>1. \A k \in p .. q : k - 1 \in (p - 1) .. (q - 1)
      BY <2>1
    <3>2. p - 2 \notin tsn_map
      <4>1. p # y + 1
        <5>1. p - 1 \in (p - 1) .. (q - 1)
          BY <2>1
        <5>2. p = y + 1 => p - 1 = y
          BY <1>1, <2>1
        <5>. QED
          BY <1>1, <2>4, <5>1, <5>2
      <4>2. p - 2 \in y .. (p - 2)
        BY <1>1, <2>1, <4>1
      <4>. QED
        BY <2>4, <4>2
    <3>. QED
      BY <2>1, <2>4, <3>1, <3>2 DEF IsRun
  <2>. HIDE DEF p, q
  <2>7. /\ v.blocks = Append(w.blocks, Gab(p, q))
        /\ Gab(p, q) \in Gabs
        /\ Gab(p, q).start.be16 = p /\ Gab(p, q).end.be16 = q
    <3>1. <<p, q>> \in (1 .. Span) \X (1 .. Span) /\ <<p, q>>[1] = p /\ <<p, q>>[2] = q
      BY <2>1
    <3>2. Gab(p, q) \in Gabs
      BY <3>1 DEF Gabs
    <3>. QED
      BY <2>3, <3>2 DEF Gab, htons
  <2>. HIDE DEF v
  <2>8. /\ v.blocks \in Seq(Gabs) /\ Len(v.blocks) = L + 1
        /\ v.blocks[L + 1] = Gab(p, q)
        /\ \A j \in 1 .. L : v.blocks[j] = w.blocks[j]
        /\ \A j \in 1 .. (L + 1) : j \in 1 .. L \/ j = L + 1
        /\ L + 1 \in 1 .. (L + 1) /\ \A j \in 1 .. L : j \in 1 .. (L + 1)
        /\ \A i, j \in 1 .. (L + 1) : i < j => i \in 1 .. L
    BY <1>1, <2>7 DEF L
  <2>9. \A j \in 1 .. (L + 1) : /\ IsRun(v.blocks[j].start.be16, v.blocks[j].end.be16)
                                /\ v.blocks[j].end.be16 <= q
    <3>1. \A j \in 1 .. L : w.blocks[j].end.be16 <= q
      <4>1. \A j \in 1 .. L : w.blocks[j].end.be16 \in Int /\ w.blocks[j].end.be16 <= y
        BY <1>1, <1>2 DEF IsRun
      <4>. QED
        BY <1>1, <2>1, <4>1
    <3>2. q <= q
      BY <2>1
    <3>. QED
      BY <1>1, <2>6, <2>7, <2>8, <3>1, <3>2
  <2>10. \A i, j \in 1 .. (L + 1) :
           i < j => v.blocks[i].end.be16 < v.blocks[j].start.be16
    <3>. SUFFICES ASSUME NEW i \in 1 .. (L + 1), NEW j \in 1 .. (L + 1), i < j
                  PROVE  v.blocks[i].end.be16 < v.blocks[j].start.be16
      OBVIOUS
    <3>1. i \in 1 .. L /\ v.blocks[i] = w.blocks[i]
      BY <2>8
    <3>2. CASE j \in 1 .. L
      BY <1>1, <2>8, <3>1, <3>2
    <3>3. CASE j = L + 1
      <4>1. v.blocks[j].start.be16 = p
        BY <2>7, <2>8, <3>3
      <4>2. w.blocks[i].end.be16 \in Int /\ w.blocks[i].end.be16 <= y
        BY <1>1, <3>1 DEF IsRun
      <4>3. y \in Int /\ p \in Int /\ y < p /\ v.blocks[i].end.be16 = w.blocks[i].end.be16
        BY <1>1, <2>1, <3>1
      <4>. QED
        BY ONLY <4>1, <4>2, <4>3
    <3>. QED
      BY <2>8, <3>2, <3>3
  <2>11. \A s, e \in 1 .. Span :
           IsRun(s, e) /\ s <= q => \E j \in 1 .. (L + 1) : v.blocks[j] = Gab(s, e)
    <3>. SUFFICES ASSUME NEW s \in 1 .. Span, NEW e \in 1 .. Span, IsRun(s, e), s <= q
                  PROVE  \E j \in 1 .. (L + 1) : v.blocks[j] = Gab(s, e)
      OBVIOUS
    <3>1. CASE s <= y
      <4>1. PICK j \in 1 .. L : w.blocks[j] = Gab(s, e)
        BY <1>1, <3>1
      <4>. QED
        BY <2>8, <4>1
    <3>2. CASE ~(s <= y)
      <4>1. s \in Int /\ e \in Int /\ s \in s .. e /\ s - 1 \in tsn_map
        <5>1. s \in Int /\ e \in Int /\ s \in s .. e
          BY <1>2 DEF IsRun
        <5>. QED
          BY <5>1 DEF IsRun
      <4>2. p <= s
        <5>1. s < p => s - 1 \in y .. (p - 2)
          BY <1>1, <2>1, <3>2, <4>1
        <5>. QED
          BY <2>1, <2>4, <4>1, <5>1
      <4>3. p = s /\ q = e
        BY <2>1, <2>6, <4>1, <4>2, RunsAreDisjoint
      <4>. QED
        BY <2>8, <4>3
    <3>. QED
      BY <3>1, <3>2
  <2>12. q \in 0 .. VLSTP_TSN_MAP_SIZE /\ q \in Int /\ L + 1 <= n + 1 /\ L + 1 = n + 1
    BY <1>1, <1>2, <1>5, <2>1
  <2>13. GabsSoFar(v, n + 1, q)
    BY <2>4, <2>5, <2>8, <2>9, <2>10, <2>11, <2>12 DEF GabsSoFar, Gabs
  <2>. QED
    BY <2>12, <2>13 DEF v
<1>6. L # n => b = NoBlock
  <2>1. ASSUME \A i \in tsn_map : i < y,
               b.start \in 2 .. b.end, b.end \in 2 .. Span, y + 1 <= b.start,
               \A i \in (b.start - 1) .. (b.end - 1) : i \in tsn_map
        PROVE  FALSE
    <3>1. b.start - 1 \in (b.start - 1) .. (b.end - 1) /\ ~(b.start - 1 < y)
      BY <1>1, <1>2, <2>1
    <3>. QED
      BY <2>1, <3>1
  <2>. QED
    BY <1>1, <1>3, <2>1
<1>7. L # n => \A i \in tsn_map : i < y
  BY <1>1
<1>. QED
  BY <1>3, <1>4, <1>5, <1>6, <1>7

\* After every turn of the loop, by its least turn for which it fails.
LEMMA GabsInvariant ==
  ASSUME IInv, mem = "live", CleanStorage
  PROVE  \A n \in 0 .. VLSTP_MAX_GABS : \E y \in Int : GabsSoFar(GabsAfter[n], n, y)
<1>. DEFINE S == {k \in 0 .. VLSTP_MAX_GABS :
                    ~ \E y \in Int : GabsSoFar(GabsAfter[k], k, y)}
<1>1. SUFFICES ASSUME S # {} PROVE FALSE
  OBVIOUS
<1>2. PICK k \in S : \A i \in S : k <= i
  <2>1. S \in SUBSET Nat
    BY MapAssumption
  <2>. HIDE DEF S
  <2>. QED
    BY <1>1, <2>1, LeastNat
<1>3. k \in 0 .. VLSTP_MAX_GABS /\ ~ \E y \in Int : GabsSoFar(GabsAfter[k], k, y)
  OBVIOUS
<1>4. VLSTP_MAX_GABS \in Nat
  BY MapAssumption
<1>5. CASE k = 0
  BY <1>3, <1>5, GabsAfterIs, GabsAtStart
<1>6. CASE k # 0
  <2>1. /\ k \in 1 .. VLSTP_MAX_GABS /\ k - 1 \in 0 .. VLSTP_MAX_GABS
        /\ k - 1 \in Nat /\ ~(k <= k - 1) /\ (k - 1) + 1 = k
    BY <1>3, <1>4, <1>6
  <2>2. PICK y \in Int : GabsSoFar(GabsAfter[k - 1], k - 1, y)
    BY <1>2, <2>1
  <2>. HIDE DEF S
  <2>3. \E z \in Int : GabsSoFar(GabsTurn(GabsAfter[k - 1]), (k - 1) + 1, z)
    BY <2>1, <2>2, GabsTurnStep
  <2>4. GabsAfter[k] = GabsTurn(GabsAfter[k - 1])
    BY <2>1, GabsAfterIs
  <2>. QED
    BY <1>3, <2>1, <2>3, <2>4
<1>. QED
  BY <1>5, <1>6

\* The runs of numbers are the runs of bits, as offsets from the ack point.
LEMMA RunsAre ==
  ASSUME IInv, mem = "live", CleanStorage, epoch \in Int
  PROVE  /\ \A s, e \in 1 .. Span : IsRun(s, e) => Gab(s, e) \in Runs
         /\ \A r \in Runs : \E s, e \in 1 .. Span : IsRun(s, e) /\ r = Gab(s, e)
<1>1. cum = epoch - 1 /\ Span \in Nat
  BY Mapped, Window, Sizes
<1>2. \A y \in Int : cum + y \in ahead <=> y - 1 \in tsn_map
  BY <1>1, AheadOffset
<1>. DEFINE Maximal(q) == /\ q[1] <= q[2]
                          /\ \A k \in q[1] .. q[2] : cum + k \in ahead
                          /\ cum + q[1] - 1 \notin ahead
                          /\ cum + q[2] + 1 \notin ahead
<1>3. ASSUME NEW s \in 1 .. Span, NEW e \in 1 .. Span
      PROVE  IsRun(s, e) <=> Maximal(<<s, e>>)
  <2>1. s \in Int /\ e \in Int /\ s - 1 \in Int /\ e + 1 \in Int
    BY <1>1
  <2>2. cum + s - 1 \in ahead <=> s - 2 \in tsn_map
    <3>1. cum + s - 1 = cum + (s - 1) /\ (s - 1) - 1 = s - 2
      BY <1>1, <2>1
    <3>. QED
      BY <1>2, <2>1, <3>1
  <2>3. cum + e + 1 \in ahead <=> e \in tsn_map
    <3>1. cum + e + 1 = cum + (e + 1) /\ (e + 1) - 1 = e
      BY <1>1, <2>1
    <3>. QED
      BY <1>2, <2>1, <3>1
  <2>4. \A k \in s .. e : cum + k \in ahead <=> k - 1 \in tsn_map
    BY <1>2, <2>1
  <2>5. <<s, e>>[1] = s /\ <<s, e>>[2] = e
    OBVIOUS
  <2>. HIDE DEF Maximal
  <2>6. Maximal(<<s, e>>) <=> /\ s <= e
                              /\ \A k \in s .. e : k - 1 \in tsn_map
                              /\ s - 2 \notin tsn_map
                              /\ e \notin tsn_map
    BY <2>2, <2>3, <2>4, <2>5 DEF Maximal
  <2>. QED
    BY <2>6 DEF IsRun
<1>4. Runs = {Gab(r[1], r[2]) : r \in {q \in (1 .. Span) \X (1 .. Span) : Maximal(q)}}
  BY DEF Runs, Gab
<1>. HIDE DEF Maximal
<1>5. ASSUME NEW s \in 1 .. Span, NEW e \in 1 .. Span, IsRun(s, e)
      PROVE  Gab(s, e) \in Runs
  <2>1. /\ <<s, e>> \in {q \in (1 .. Span) \X (1 .. Span) : Maximal(q)}
        /\ <<s, e>>[1] = s /\ <<s, e>>[2] = e
    BY <1>3, <1>5
  <2>. QED
    BY <1>4, <2>1
<1>6. ASSUME NEW r \in Runs
      PROVE  \E s, e \in 1 .. Span : IsRun(s, e) /\ r = Gab(s, e)
  <2>1. PICK q \in (1 .. Span) \X (1 .. Span) : Maximal(q) /\ r = Gab(q[1], q[2])
    BY <1>4
  <2>2. q[1] \in 1 .. Span /\ q[2] \in 1 .. Span /\ q = <<q[1], q[2]>>
    OBVIOUS
  <2>. QED
    BY <1>3, <2>1, <2>2
<1>. QED
  BY <1>5, <1>6

\* There are finitely many.
LEMMA RunsAreFinite ==
  ASSUME IInv, mem = "live", CleanStorage, epoch \in Int
  PROVE  IsFiniteSet(Runs) /\ Cardinality(Runs) \in Nat
<1>. DEFINE P == (1 .. Span) \X (1 .. Span)
            G == {Gab(q[1], q[2]) : q \in P}
            f == [q \in P |-> Gab(q[1], q[2])]
<1>1. IsFiniteSet(P)
  <2>1. Span \in Int
    BY Window, Sizes
  <2>2. IsFiniteSet(1 .. Span)
    BY <2>1, FS_Interval
  <2>. QED
    BY <2>2, FS_Product
<1>2. f \in Surjection(P, G)
  BY DEF Surjection
<1>3. Runs \in SUBSET G
  <2>1. \A s, e \in 1 .. Span : /\ <<s, e>> \in P
                                /\ <<s, e>>[1] = s /\ <<s, e>>[2] = e
    OBVIOUS
  <2>2. \A s, e \in 1 .. Span : Gab(s, e) \in G
    BY <2>1
  <2>. QED
    BY <2>2, RunsAre
<1>. HIDE DEF P, G, f
<1>4. IsFiniteSet(G)
  BY <1>1, <1>2, FS_Surjection
<1>. QED
  BY <1>3, <1>4, FS_Subset, FS_CardinalityType


Reported(w) == {w.blocks[j] : j \in 1 .. Len(w.blocks)}

\* What the loop has collected are runs, each once.
LEMMA ReportedAreRuns ==
  ASSUME IInv, mem = "live", CleanStorage, epoch \in Int,
         NEW w, NEW n \in Nat, NEW y \in Int, GabsSoFar(w, n, y)
  PROVE  /\ Reported(w) \in SUBSET Runs
         /\ IsFiniteSet(Reported(w))
         /\ Cardinality(Reported(w)) = Len(w.blocks)
<1>. DEFINE reported == Reported(w)
            L == Len(w.blocks)
            I == 1 .. L
            f == [j \in I |-> w.blocks[j]]
<1>1. L \in Nat /\ Span \in Nat
  BY Window, Sizes DEF GabsSoFar
<1>2. ASSUME NEW j \in I
      PROVE  /\ w.blocks[j].start.be16 \in 1 .. Span
             /\ w.blocks[j].end.be16 \in 1 .. Span
             /\ w.blocks[j].start.be16 <= w.blocks[j].end.be16
             /\ IsRun(w.blocks[j].start.be16, w.blocks[j].end.be16)
             /\ w.blocks[j] = Gab(w.blocks[j].start.be16, w.blocks[j].end.be16)
  <2>1. IsRun(w.blocks[j].start.be16, w.blocks[j].end.be16)
    BY DEF GabsSoFar
  <2>2. w.blocks[j] \in {Gab(q[1], q[2]) : q \in (1 .. Span) \X (1 .. Span)}
    BY DEF GabsSoFar
  <2>3. PICK s, e : w.blocks[j] = Gab(s, e)
    BY <2>2
  <2>4. w.blocks[j].start.be16 = s /\ w.blocks[j].end.be16 = e
    BY <2>3 DEF Gab, htons
  <2>. QED
    BY <2>1, <2>3, <2>4 DEF IsRun
<1>3. \A i, j \in I : i < j => w.blocks[i].end.be16 < w.blocks[j].start.be16
  BY DEF GabsSoFar
<1>. HIDE DEF L
<1>4. ASSUME NEW i \in I, NEW j \in I, w.blocks[i] = w.blocks[j], i < j
      PROVE  FALSE
  <2>1. w.blocks[i].end.be16 < w.blocks[i].start.be16
    BY <1>3, <1>4
  <2>. QED
    BY <1>1, <1>2, <2>1
<1>5. \A i, j \in I : f[i] = f[j] => i = j
  <2>1. \A i, j \in I : i < j \/ i = j \/ j < i
    BY <1>1
  <2>. QED
    BY <1>4, <2>1
<1>6. reported = {w.blocks[j] : j \in I}
  BY DEF L, Reported
<1>7. f \in [I -> reported] /\ \A r \in reported : \E j \in I : f[j] = r
  BY <1>6
<1>8. \A r \in reported : r \in Runs
  <2>1. \A j \in I : w.blocks[j] \in Runs
    BY <1>2, RunsAre
  <2>. QED
    BY <1>6, <2>1
<1>9. IsFiniteSet(I) /\ Cardinality(I) = L
  <2>1. Cardinality(1 .. L) = IF 1 > L THEN 0 ELSE L - 1 + 1
    BY <1>1, FS_Interval
  <2>2. IsFiniteSet(1 .. L)
    BY <1>1, FS_Interval
  <2>. QED
    BY <1>1, <2>1, <2>2
<1>. HIDE DEF f, I, reported
<1>10. f \in Bijection(I, reported)
  BY <1>5, <1>7, Fun_IsBij
<1>11. ExistsBijection(I, reported)
  BY <1>10, Fun_ExistsBij
<1>. QED
  BY <1>8, <1>9, <1>11, FS_Bijection DEF L, reported

\* The loop ends with the first VLSTP_MAX_GABS runs, in order.
LEMMA GabsFollowRuns ==
  ASSUME IInv, CleanStorage, epoch \in Int
  PROVE  GabsAreExact
<1>. SUFFICES ASSUME mem = "live"
              PROVE  LET gabs     == vlstp_tsnmap_num_gabs
                         reported == {gabs[i] : i \in 1 .. Len(gabs)}
                     IN  /\ reported \subseteq Runs
                         /\ Len(gabs) = IF Cardinality(Runs) < VLSTP_MAX_GABS
                                        THEN Cardinality(Runs) ELSE VLSTP_MAX_GABS
                         /\ \A i, j \in 1 .. Len(gabs) :
                              i < j => gabs[i].end.be16 < gabs[j].start.be16
                         /\ \A r \in Runs \ reported, b \in reported :
                              b.end.be16 < r.start.be16
  BY DEF GabsAreExact
<1>. DEFINE gabs     == vlstp_tsnmap_num_gabs
            reported == {gabs[i] : i \in 1 .. Len(gabs)}
<1>1. /\ Span \in Nat /\ VLSTP_MAX_GABS \in Nat \ {0}
      /\ cumulative_tsn_ack_point \in TSN
      /\ max_tsn_seen = Plus(cumulative_tsn_ack_point, Span)
  BY Window, Sizes, MapAssumption
<1>2. IsFiniteSet(Runs) /\ Cardinality(Runs) \in Nat
  BY RunsAreFinite
<1>3. CASE ~vlstp_tsnmap_has_gap
  <2>1. Span = 0
    <3>1. Diff(cumulative_tsn_ack_point, cumulative_tsn_ack_point) = 0
      BY <1>1, Sizes DEF Diff
    <3>. QED
      BY <1>3, <3>1 DEF vlstp_tsnmap_has_gap, Span
  <2>2. Runs = {}
    <3>1. 1 .. 0 = {}
      OBVIOUS
    <3>. QED
      BY <2>1, <3>1, RunsAre
  <2>3. Cardinality(Runs) = 0 /\ 0 < VLSTP_MAX_GABS
    BY <1>1, <2>2, FS_EmptySet
  <2>4. gabs = <<>> /\ Len(<<>>) = 0 /\ 1 .. 0 = {}
    BY <1>3 DEF vlstp_tsnmap_num_gabs
  <2>. HIDE DEF gabs
  <2>5. Len(gabs) = 0 /\ 1 .. Len(gabs) = {} /\ reported = {}
    BY <2>4
  <2>6. Len(gabs) = IF Cardinality(Runs) < VLSTP_MAX_GABS
                    THEN Cardinality(Runs) ELSE VLSTP_MAX_GABS
    BY <2>3, <2>5
  <2>. QED
    BY <2>5, <2>6 DEF gabs
<1>4. CASE vlstp_tsnmap_has_gap
  <2>. DEFINE w == GabsAfter[VLSTP_MAX_GABS]
              L == Len(w.blocks)
  <2>1. PICK y \in Int : GabsSoFar(w, VLSTP_MAX_GABS, y)
    <3>1. VLSTP_MAX_GABS \in 0 .. VLSTP_MAX_GABS
      BY <1>1
    <3>. QED
      BY <3>1, GabsInvariant
  <2>2. gabs = w.blocks
    BY <1>4 DEF vlstp_tsnmap_num_gabs
  <2>. HIDE DEF w, gabs
  <2>3. /\ reported \in SUBSET Runs /\ IsFiniteSet(reported)
        /\ Cardinality(reported) = L
    <3>1. reported = Reported(w)
      BY <2>2 DEF Reported
    <3>2. /\ Reported(w) \in SUBSET Runs
          /\ IsFiniteSet(Reported(w))
          /\ Cardinality(Reported(w)) = Len(w.blocks)
      BY <1>1, <2>1, ReportedAreRuns
    <3>. HIDE DEF reported
    <3>. QED
      BY <3>1, <3>2
  <2>4. /\ L \in Nat /\ L <= VLSTP_MAX_GABS
        /\ L = VLSTP_MAX_GABS \/ \A i \in tsn_map : i < y
        /\ \A i, j \in 1 .. L :
             i < j => w.blocks[i].end.be16 < w.blocks[j].start.be16
        /\ \A j \in 1 .. L : /\ IsRun(w.blocks[j].start.be16, w.blocks[j].end.be16)
                             /\ w.blocks[j].end.be16 <= y
        /\ \A s, e \in 1 .. Span :
             IsRun(s, e) /\ s <= y => \E j \in 1 .. L : w.blocks[j] = Gab(s, e)
    BY <2>1 DEF GabsSoFar
  <2>. HIDE DEF L
  <2>5. reported = {w.blocks[j] : j \in 1 .. L}
    BY <2>2 DEF L
  <2>. HIDE DEF reported
  <2>6. ASSUME NEW s \in 1 .. Span, NEW e \in 1 .. Span, IsRun(s, e), s <= y
        PROVE  Gab(s, e) \in reported
    BY <2>4, <2>5, <2>6
  <2>7. L = IF Cardinality(Runs) < VLSTP_MAX_GABS
            THEN Cardinality(Runs) ELSE VLSTP_MAX_GABS
    <3>1. L <= Cardinality(Runs)
      BY <1>2, <2>3, FS_Subset
    <3>2. CASE L = VLSTP_MAX_GABS
      BY <1>1, <1>2, <3>1, <3>2
    <3>3. CASE \A i \in tsn_map : i < y
      <4>1. \A r \in Runs : r \in reported
        <5>. SUFFICES ASSUME NEW r \in Runs PROVE r \in reported
          OBVIOUS
        <5>1. PICK s \in 1 .. Span, e \in 1 .. Span : IsRun(s, e) /\ r = Gab(s, e)
          BY RunsAre
        <5>2. s \in Int /\ s \in s .. e
          BY <1>1, <5>1 DEF IsRun
        <5>3. s - 1 < y
          BY <3>3, <5>1, <5>2 DEF IsRun
        <5>4. s <= y
          BY <5>2, <5>3
        <5>. QED
          BY <2>6, <5>1, <5>4
      <4>2. Runs = reported
        BY <2>3, <4>1
      <4>3. Cardinality(Runs) = L
        BY <2>3, <4>2
      <4>. QED
        BY <1>1, <2>4, <4>3
    <3>. QED
      BY <2>4, <3>2, <3>3
  <2>8. ASSUME NEW r \in Runs \ reported, NEW b \in reported
        PROVE  b.end.be16 < r.start.be16
    <3>1. PICK s \in 1 .. Span, e \in 1 .. Span : IsRun(s, e) /\ r = Gab(s, e)
      BY RunsAre
    <3>2. s \in Int /\ ~(s <= y)
      BY <1>1, <2>6, <2>8, <3>1
    <3>3. r.start.be16 = s
      BY <3>1 DEF Gab, htons
    <3>4. PICK j \in 1 .. L : b = w.blocks[j]
      BY <2>5
    <3>5. b.end.be16 \in Int /\ b.end.be16 <= y
      BY <1>1, <2>4, <3>4 DEF IsRun
    <3>. QED
      BY <3>2, <3>3, <3>5
  <2>9. \A i, j \in 1 .. Len(gabs) :
          i < j => gabs[i].end.be16 < gabs[j].start.be16
    BY <2>2, <2>4 DEF L
  <2>10. Len(gabs) = IF Cardinality(Runs) < VLSTP_MAX_GABS
                     THEN Cardinality(Runs) ELSE VLSTP_MAX_GABS
    BY <2>2, <2>7 DEF L
  <2>. QED
    BY <2>3, <2>8, <2>9, <2>10 DEF gabs, reported
<1>. QED
  BY <1>3, <1>4

\* What a SACK says of the gaps follows from what was received alone: the
\* number of missing TSNs, and the first VLSTP_MAX_GABS maximal runs of
\* received ones, in order, none twice and none left out before the last.
THEOREM GapReportsAreExact ==
  ASSUME CleanStorage
  PROVE  HSpec => []GapReportIsExact
<1>1. HInv => GabsAreExact
  BY GabsFollowRuns DEF HInv
<1>2. HSpec => []PendingIsExact
  BY PendingIsCounted
<1>3. PendingIsExact /\ GabsAreExact => GapReportIsExact
  BY DEF GapReportIsExact
<1>. QED
  BY HistoryInvariant, <1>1, <1>2, <1>3, PTL

-----------------------------------------------------------------------------
(* What a gap ack iterator finds over a map that moves on under it, when   *)
(* malloc zeroes.                                                          *)
(*                                                                         *)
(* The iterator is an absolute TSN, read as a 16-bit offset from bit 0.    *)
(* Counted from iter_base, where bit 0 was when the iterator was started,  *)
(* it stands at r and bit 0 at m; SackInv bounds both, so that an iterator *)
(* at or ahead of bit 0 is read exactly and one behind it is read as a     *)
(* place beyond the map.                                                   *)

\* A TSN ahead of the last one in serial order has not wrapped past it: the
\* distances from where the iterator was started add up.
LEMMA DistanceGrows ==
  ASSUME NEW i \in TSN, NEW a \in TSN, NEW b \in TSN,
         2 * Diff(a, i) < GapSpace, TSN_lte(a, b)
  PROVE  Diff(a, i) <= Diff(b, i)
<1> DEFINE m == Diff(a, i)
           z == Diff(b, a)
<1>1. /\ m \in 0 .. (TSNSpace - 1) /\ a = Plus(i, m)
      /\ z \in 0 .. (TSNSpace - 1) /\ b = Plus(a, z)
  BY PlusDiff
<1>2. 2 * m < TSN_SIGN_BIT
  BY <1>1, Sizes
<1> HIDE DEF m, z
<1>3. z <= TSN_SIGN_BIT
  <2>1. Diff(a, b) = IF z = 0 THEN 0 ELSE TSNSpace - z
    <3>1. 0 \in 0 .. (TSNSpace - 1) /\ a = Plus(a, 0)
      BY PlusZero, Sizes
    <3>2. Diff(Plus(a, 0), Plus(a, z)) = IF 0 >= z THEN 0 - z ELSE 0 - z + TSNSpace
      BY <1>1, <3>1, DiffShift
    <3> QED
      BY <1>1, <3>1, <3>2, Sizes
  <2>2. z = 0 \/ Diff(a, b) >= TSN_SIGN_BIT
    <3>1. a = b => z = 0
      <4>1. Diff(a, a) = IF a < a THEN a - a + TSNSpace ELSE a - a
        BY DiffValue
      <4> QED
        BY <4>1, Sizes DEF z
    <3> QED
      BY <3>1 DEF TSN_lte, TSN_lt
  <2> QED
    BY <1>1, <2>1, <2>2, Sizes
<1>4. b = Plus(i, m + z) /\ m + z \in 0 .. (TSNSpace - 1)
  <2>1. m + z \in 0 .. (TSNSpace - 1) /\ m + z < TSNSpace
    BY <1>1, <1>2, <1>3, Sizes
  <2> QED
    BY <1>1, <2>1, PlusPlus
<1>5. Diff(b, i) = m + z
  BY <1>4, DiffPlus
<1> QED
  BY <1>1, <1>5 DEF m

\* Serial order does not change when both TSNs move on by one.
LEMMA LaterByOne ==
  ASSUME NEW a \in TSN, NEW b \in TSN, TSN_lte(a, b)
  PROVE  TSN_lte(Plus(a, 1), Plus(b, 1))
<1> DEFINE z == Diff(b, a)
<1>1. z \in 0 .. (TSNSpace - 1) /\ b = Plus(a, z)
  BY PlusDiff
<1> HIDE DEF z
<1>2. CASE a = b
  BY <1>2 DEF TSN_lte
<1>3. CASE a # b
  <2>1. Diff(a, b) >= TSN_SIGN_BIT
    BY <1>3 DEF TSN_lte, TSN_lt
  <2>2. /\ a \in Int /\ b \in Int /\ 0 <= a /\ a < TSNSpace /\ 0 <= b /\ b < TSNSpace
        /\ TSNSpace \in Int
    BY Sizes
  <2>3. /\ Diff(a, b) = IF a < b THEN a - b + TSNSpace ELSE a - b
        /\ Plus(a, 1) \in TSN /\ Plus(b, 1) \in TSN
        /\ Plus(a, 1) = IF a + 1 < TSNSpace THEN a + 1 ELSE a + 1 - TSNSpace
        /\ Plus(b, 1) = IF b + 1 < TSNSpace THEN b + 1 ELSE b + 1 - TSNSpace
    <3>1. 1 \in Int /\ 1 >= -TSNSpace /\ 1 <= TSNSpace
      BY Sizes
    <3>2. /\ Plus(a, 1) \in TSN /\ Plus(b, 1) \in TSN
          /\ Plus(a, 1) = IF a + 1 < 0 THEN a + 1 + TSNSpace
                          ELSE IF a + 1 < TSNSpace THEN a + 1 ELSE a + 1 - TSNSpace
          /\ Plus(b, 1) = IF b + 1 < 0 THEN b + 1 + TSNSpace
                          ELSE IF b + 1 < TSNSpace THEN b + 1 ELSE b + 1 - TSNSpace
      BY <3>1, PlusValue
    <3>3. Diff(a, b) = IF a < b THEN a - b + TSNSpace ELSE a - b
      BY DiffValue
    <3> QED
      BY <2>2, <3>2, <3>3
  <2>4. Diff(Plus(a, 1), Plus(b, 1)) =
          IF Plus(a, 1) < Plus(b, 1) THEN Plus(a, 1) - Plus(b, 1) + TSNSpace
          ELSE Plus(a, 1) - Plus(b, 1)
    BY <2>3, DiffValue
  <2>5. Diff(Plus(a, 1), Plus(b, 1)) = Diff(a, b)
    BY <1>3, <2>2, <2>3, <2>4
  <2> QED
    BY <2>1, <2>5 DEF TSN_lte, TSN_lt
<1> QED
  BY <1>2, <1>3

\* A place j behind bit 0, stored in 16 bits, becomes one beyond every map.
LEMMA BehindIsBeyond ==
  ASSUME NEW j \in 1 .. (GapSpace - 1)
  PROVE  (TSNSpace - j) % GapSpace = GapSpace - j
<1>1. GapSpace \in Nat \ {0} /\ TSNSpace \in Int /\ -j \in Int /\ TSNSpace - j \in Int
      /\ TSNSpace - j = TSNSpace + (-j)
  BY Sizes
<1>2. (TSNSpace + (-j)) % GapSpace = ((TSNSpace % GapSpace) + (-j)) % GapSpace
  BY <1>1, ModAdds
<1>3. (TSNSpace % GapSpace) + (-j) = -j
  BY <1>1, IteratorAssumption
<1>4. (-j) % GapSpace = GapSpace - j
  <2>1. -GapSpace <= -j /\ -j < 0 /\ (-j) + GapSpace = GapSpace - j
    BY <1>1
  <2>2. (-j) % GapSpace = (-j) + GapSpace
    BY <1>1, <2>1, ModSmall
  <2> QED
    BY <2>1, <2>2
<1> QED
  BY <1>1, <1>2, <1>3, <1>4

\* Whatever the position, a block is a run of received TSNs of the window.
LEMMA BlockIsReceived ==
  ASSUME IInv, mem = "live", CleanStorage, NEW pos \in TSN,
         vlstp_tsnmap_next_gap_ack(pos) # NoBlock
  PROVE  LET b == vlstp_tsnmap_next_gap_ack(pos)
         IN  /\ b.start \in 2 .. b.end
             /\ b.end \in 2 .. Span
             /\ \A k \in b.start .. b.end : k - 1 \in tsn_map
<1> DEFINE off == Diff(pos, base_tsn) % GapSpace
           run == vlstp_tsnmap_find_gap_ack(off)
           b   == vlstp_tsnmap_next_gap_ack(pos)
<1>1. base_tsn \in TSN /\ Span \in Nat
  BY Window
<1>2. off \in Nat
  <2>1. Diff(pos, base_tsn) \in Int /\ GapSpace \in Nat \ {0}
    <3>1. Diff(pos, base_tsn) \in 0 .. (TSNSpace - 1)
      BY <1>1, PlusDiff
    <3> QED
      BY <3>1, Sizes
  <2> HIDE DEF off
  <2>2. Diff(pos, base_tsn) % GapSpace \in 0 .. (GapSpace - 1)
    BY <2>1, ModSmall
  <2> QED
    BY <2>1, <2>2 DEF off
<1> HIDE DEF off
<1>3. \/ run = NoBlock
      \/ /\ run.start \in 1 .. run.end
         /\ run.end \in 1 .. (Span - 1)
         /\ \A i \in run.start .. run.end : i \in tsn_map
  BY <1>2, FindGapAck
<1>4. run.end # 0 /\ b = [start |-> run.start + 1, end |-> run.end + 1]
  BY DEF vlstp_tsnmap_next_gap_ack, off
<1>5. run # NoBlock
  BY <1>4 DEF NoBlock
<1>6. b.start = run.start + 1 /\ b.end = run.end + 1
  BY <1>4
<1> HIDE DEF b, run
<1>7. b.start \in 2 .. b.end /\ b.end \in 2 .. Span
  BY <1>1, <1>3, <1>5, <1>6
<1>8. \A k \in b.start .. b.end : k - 1 \in run.start .. run.end
  BY <1>3, <1>5, <1>6
<1> QED
  BY <1>3, <1>5, <1>7, <1>8 DEF b

-----------------------------------------------------------------------------
LEMMA SackInitInv == SackInit => SackInv
<1> SUFFICES ASSUME SackInit PROVE SackInv
  OBVIOUS
<1>1. IInv
  BY InitIInv DEF SackInit
<1>2. iter_base \in TSN /\ iter_start = NoIter
  BY Sizes DEF SackInit
<1> QED
  BY <1>1, <1>2 DEF SackInv, IteratorIsNear

\* Starting: the iterator stands at bit 0.
LEMMA StartIterStep ==
  ASSUME SackInv, StartIter
  PROVE  SackInv'
<1>1. IInv' /\ mem = "live" /\ IInv
  BY StutterStep DEF StartIter, SackInv
<1>2. base_tsn \in TSN /\ base_tsn = Plus(cumulative_tsn_ack_point, 1)
  BY <1>1, Window
<1>3. iter_start' = base_tsn /\ iter_base' = base_tsn /\ base_tsn' = base_tsn /\ mem' = mem
  BY <1>2 DEF StartIter, vlstp_tsnmap_iter_init, vars, seenVars
<1>4. Diff(base_tsn, base_tsn) = 0
  <2>1. Diff(base_tsn, base_tsn) = IF base_tsn < base_tsn THEN base_tsn - base_tsn + TSNSpace
                                   ELSE base_tsn - base_tsn
    BY <1>2, DiffValue
  <2> QED
    BY <1>2, <2>1, Sizes
<1>5. 2 * 0 < GapSpace /\ 0 <= 0 + VLSTP_TSN_MAP_SIZE
  BY Sizes
<1> QED
  BY <1>1, <1>2, <1>3, <1>4, <1>5 DEF SackInv, IteratorIsNear

\* A block moves the iterator behind it, at most to the end of the map.
LEMMA NextBlockStep ==
  ASSUME SackInv, CleanStorage, NextBlock
  PROVE  SackInv'
<1> DEFINE c == cumulative_tsn_ack_point
           m == Diff(base_tsn, iter_base)
<1>1. IInv' /\ IInv /\ mem = "live" /\ iter_start # NoIter
  BY StutterStep DEF NextBlock, SackInv
<1>2. /\ iter_start \in TSN /\ iter_base \in TSN
      /\ 2 * m < GapSpace /\ iter_base' = iter_base
      /\ base_tsn' = base_tsn /\ mem' = mem
  BY <1>1 DEF SackInv, IteratorIsNear, NextBlock, vars, seenVars
<1>3. CASE Block = NoBlock
  <2>1. iter_start' = iter_start
    BY <1>3 DEF NextBlock
  <2> QED
    BY <1>1, <1>2, <2>1 DEF SackInv, IteratorIsNear
<1>4. CASE Block # NoBlock
  <2> DEFINE e == Block.end
  <2>1. iter_start' = Plus(c, e + 1)
    BY <1>4 DEF NextBlock, IterAfter
  <2>2. /\ c \in TSN /\ base_tsn = Plus(c, 1) /\ base_tsn \in TSN
        /\ len \in 0 .. VLSTP_TSN_MAP_SIZE /\ Span \in 0 .. len
    BY <1>1, Window
  <2>3. e \in 2 .. Span
    BY <1>1, <1>2, <1>4, BlockIsReceived DEF Block
  <2>4. m \in 0 .. (TSNSpace - 1) /\ base_tsn = Plus(iter_base, m)
    BY <1>2, <2>2, PlusDiff
  <2> HIDE DEF e, m
  <2>5. /\ e \in 0 .. (TSNSpace - 1) /\ e <= VLSTP_TSN_MAP_SIZE
        /\ 1 \in 0 .. (TSNSpace - 1) /\ e + 1 = 1 + e /\ 1 + e < TSNSpace
        /\ m + e \in 0 .. (TSNSpace - 1) /\ m + e < TSNSpace
        /\ m + e <= m + VLSTP_TSN_MAP_SIZE
    BY <1>2, <2>2, <2>3, <2>4, Sizes, IteratorAssumption
  <2>6. iter_start' = Plus(iter_base, m + e)
    <3>1. Plus(base_tsn, e) = Plus(c, 1 + e)
      BY <2>2, <2>5, PlusPlus
    <3>2. Plus(Plus(iter_base, m), e) = Plus(iter_base, m + e)
      BY <1>2, <2>4, <2>5, PlusPlus
    <3> QED
      BY <2>1, <2>4, <2>5, <3>1, <3>2
  <2>7. iter_start' \in TSN
    <3>1. m + e \in Int /\ m + e >= -TSNSpace /\ m + e <= TSNSpace
      BY <2>5, Sizes
    <3> QED
      BY <1>2, <2>6, <3>1, PlusValue
  <2>8. Diff(iter_start', iter_base) = m + e
    BY <1>2, <2>5, <2>6, DiffPlus
  <2>9. Diff(base_tsn', iter_base') = m
    BY <1>2 DEF m
  <2> QED
    BY <1>1, <1>2, <2>5, <2>7, <2>8, <2>9 DEF SackInv, IteratorIsNear
<1> QED
  BY <1>3, <1>4

\* The map moves on: bit 0 comes closer to the iterator, or leaves it behind.
LEMMA ReceiveStep ==
  ASSUME SackInv, Receive
  PROVE  SackInv'
<1>1. IInv /\ iter_base \in TSN /\ UNCHANGED iterVars
  BY DEF SackInv, Receive
<1>2. IInv' /\ TSN_lte(cumulative_tsn_ack_point, cumulative_tsn_ack_point') /\ mem' = mem
  <2>1. CASE Mark
    BY <1>1, <2>1, MarkStep DEF Mark, vlstp_tsnmap_mark, seenVars
  <2>2. CASE MarkNoMemory
    BY <1>1, <2>2, StutterStep DEF MarkNoMemory, MarkFails, vars, seenVars, TSN_lte
  <2>3. CASE Skip
    BY <1>1, <2>3, SkipStep DEF Skip, vlstp_tsnmap_skip
  <2>4. CASE Renege
    BY <1>1, <2>4, RenegeStep DEF Renege, vlstp_tsnmap_renege, TSN_lte
  <2> QED
    BY <2>1, <2>2, <2>3, <2>4 DEF Receive
<1>3. CASE iter_start = NoIter
  BY <1>1, <1>2, <1>3 DEF SackInv, IteratorIsNear, iterVars
<1>4. CASE iter_start # NoIter
  <2> DEFINE c == cumulative_tsn_ack_point
             d == cumulative_tsn_ack_point'
  <2>1. /\ mem = "live" /\ iter_start \in TSN
        /\ 2 * Diff(base_tsn, iter_base) < GapSpace
        /\ Diff(iter_start, iter_base) <= Diff(base_tsn, iter_base) + VLSTP_TSN_MAP_SIZE
        /\ 2 * Diff(base_tsn', iter_base) < GapSpace
    BY <1>4 DEF SackInv, IteratorIsNear, Receive
  <2>2. /\ c \in TSN /\ base_tsn = Plus(c, 1) /\ base_tsn \in TSN
        /\ d \in TSN /\ base_tsn' = Plus(d, 1) /\ base_tsn' \in TSN
    BY <1>1, <1>2, <2>1 DEF IInv, TypeOK, BaseFollowsAckPoint
  <2>3. TSN_lte(base_tsn, base_tsn')
    BY <1>2, <2>2, LaterByOne
  <2>4. Diff(base_tsn, iter_base) <= Diff(base_tsn', iter_base)
    BY <1>1, <2>1, <2>2, <2>3, DistanceGrows
  <2>5. /\ Diff(base_tsn, iter_base) \in Int /\ Diff(base_tsn', iter_base) \in Int
        /\ Diff(iter_start, iter_base) \in Int /\ VLSTP_TSN_MAP_SIZE \in Int
    BY <1>1, <2>1, <2>2, PlusDiff, Sizes
  <2>6. Diff(iter_start, iter_base) <= Diff(base_tsn', iter_base) + VLSTP_TSN_MAP_SIZE
    BY <2>1, <2>4, <2>5
  <2> QED
    BY <1>1, <1>2, <2>1, <2>6 DEF SackInv, IteratorIsNear, iterVars
<1> QED
  BY <1>3, <1>4

LEMMA SackNextStep ==
  ASSUME SackInv, CleanStorage, [SackNext]_sackVars
  PROVE  SackInv'
<1>1. CASE StartIter
  BY <1>1, StartIterStep
<1>2. CASE NextBlock
  BY <1>2, NextBlockStep
<1>3. CASE Restart
  <2>1. IInv'
    BY <1>3, InitMapStep, DupAndFreeStep DEF Restart, InitMap, SackInv
  <2>2. iter_start' = NoIter /\ iter_base' \in TSN
    BY <1>3, Sizes DEF Restart
  <2> QED
    BY <2>1, <2>2 DEF SackInv, IteratorIsNear
<1>4. CASE Receive
  BY <1>4, ReceiveStep
<1>5. CASE UNCHANGED sackVars
  <2>1. IInv' /\ UNCHANGED <<mem, base_tsn, iter_start, iter_base>>
    BY <1>5, StutterStep DEF sackVars, SackInv, vars, seenVars, iterVars
  <2> QED
    BY <2>1 DEF SackInv, IteratorIsNear
<1> QED
  BY <1>1, <1>2, <1>3, <1>4, <1>5 DEF SackNext

\* The iterator stays near the map it reads.
THEOREM SackInvariant ==
  ASSUME CleanStorage
  PROVE  SackSpec => []SackInv
<1>1. SackInv /\ [SackNext]_sackVars => SackInv'
  BY SackNextStep
<1> QED
  BY SackInitInv, <1>1, PTL DEF SackSpec

\* A block names received TSNs only, wherever the map has moved since the
\* iterator was started.
THEOREM BlocksAreReceived ==
  ASSUME CleanStorage
  PROVE  SackSpec => []BlocksWereReceived
<1>1. ASSUME SackInv, mem = "live", iter_start # NoIter, Block # NoBlock,
             NEW k \in Block.start .. Block.end
      PROVE  /\ vlstp_tsnmap_check(Plus(cumulative_tsn_ack_point, k)) = 1
             /\ k \in 1 .. Span
  <2>1. IInv /\ iter_start \in TSN
    BY <1>1 DEF SackInv, IteratorIsNear
  <2>2. Block.start \in 2 .. Block.end /\ Block.end \in 2 .. Span /\ k - 1 \in tsn_map
    BY <1>1, <2>1, BlockIsReceived DEF Block
  <2>3. len \in 0 .. VLSTP_TSN_MAP_SIZE /\ Span \in 0 .. len
    BY <1>1, <2>1, Window
  <2>4. /\ k \in 1 .. Span /\ ~(k <= 0) /\ k - 1 < len /\ ~(k > VLSTP_TSN_MAP_SIZE)
        /\ k \in (-(TSN_SIGN_BIT - 1)) .. (TSN_SIGN_BIT - 1)
    BY <2>2, <2>3, Sizes
  <2> QED
    BY <1>1, <2>1, <2>2, <2>4, CheckOffset
<1>2. SackInv => BlocksWereReceived
  BY <1>1 DEF BlocksWereReceived
<1> QED
  BY SackInvariant, <1>2, PTL

\* Every block starts at or after the iterator and moves it forward: the loop
\* that collects the blocks of a SACK names no TSN twice and ends.
THEOREM IterationsAdvance ==
  ASSUME CleanStorage
  PROVE  SackSpec => []IterationAdvances
<1>1. ASSUME SackInv, mem = "live", iter_start # NoIter, Block # NoBlock
      PROVE  /\ ~TSN_lt(Plus(cumulative_tsn_ack_point, Block.start), iter_start)
             /\ TSN_lt(iter_start, IterAfter(Block))
  <2> DEFINE c == cumulative_tsn_ack_point
             m == Diff(base_tsn, iter_base)
             r == Diff(iter_start, iter_base)
             y == r - m
  <2>1. /\ IInv /\ iter_start \in TSN /\ iter_base \in TSN
        /\ 2 * m < GapSpace /\ r <= m + VLSTP_TSN_MAP_SIZE
    BY <1>1 DEF SackInv, IteratorIsNear
  <2>2. /\ c \in TSN /\ base_tsn = Plus(c, 1) /\ base_tsn \in TSN
        /\ len \in 0 .. VLSTP_TSN_MAP_SIZE /\ Span \in 0 .. len
    BY <1>1, <2>1, Window
  <2>3. /\ m \in 0 .. (TSNSpace - 1) /\ base_tsn = Plus(iter_base, m)
        /\ r \in 0 .. (TSNSpace - 1) /\ iter_start = Plus(iter_base, r)
    BY <2>1, <2>2, PlusDiff
  <2> HIDE DEF m, r
  <2>4. Diff(iter_start, base_tsn) = IF r >= m THEN r - m ELSE r - m + TSNSpace
    BY <2>1, <2>3, DiffShift
  <2>5. CASE r >= m
    <3>1. /\ y \in 0 .. VLSTP_TSN_MAP_SIZE /\ y \in 0 .. (TSNSpace - 1)
          /\ y \in Nat
      BY <2>1, <2>3, <2>5, Sizes
    <3>2. iter_start = Plus(base_tsn, y)
      <4>1. m + y = r /\ m + y < TSNSpace
        BY <2>3, <2>5, Sizes
      <4>2. Plus(Plus(iter_base, m), y) = Plus(iter_base, m + y)
        BY <2>1, <2>3, <3>1, <4>1, PlusPlus
      <4> QED
        BY <2>3, <4>1, <4>2
    <3> HIDE DEF y
    <3>3. /\ Block.start \in 2 .. Block.end
          /\ Block.end \in 2 .. Span
          /\ y + 1 <= Block.start
      BY <1>1, <2>1, <3>1, <3>2, NextGapAck DEF Block
    <3> DEFINE s == Block.start - 1
               e == Block.end
    <3>4. /\ s \in 0 .. (TSN_SIGN_BIT - 1) /\ e \in 0 .. (TSN_SIGN_BIT - 1)
          /\ y \in 0 .. (TSN_SIGN_BIT - 1) /\ y <= s /\ y < e
          /\ s \in 0 .. (TSNSpace - 1) /\ e \in 0 .. (TSNSpace - 1)
          /\ 1 \in 0 .. (TSNSpace - 1) /\ 1 + s < TSNSpace /\ 1 + e < TSNSpace
          /\ 1 + s = Block.start /\ 1 + e = Block.end + 1
      <4>1. Block.start \in Int /\ Block.end \in Int /\ Block.end <= VLSTP_TSN_MAP_SIZE
            /\ 2 <= Block.start /\ Block.start <= Block.end
        BY <2>2, <3>3, Sizes
      <4>2. /\ s \in Int /\ 1 <= s /\ s < e /\ e \in Int /\ e <= VLSTP_TSN_MAP_SIZE
            /\ 1 + s = Block.start /\ 1 + e = Block.end + 1 /\ y <= s
        BY <3>1, <3>3, <4>1
      <4> HIDE DEF s, e
      <4> QED
        BY <3>1, <4>2, Sizes
    <3>5. /\ Plus(c, Block.start) = Plus(base_tsn, s)
          /\ IterAfter(Block) = Plus(base_tsn, e)
      BY <2>2, <3>4, PlusPlus DEF IterAfter
    <3> HIDE DEF s, e
    <3>6. TSN_lt(Plus(base_tsn, s), Plus(base_tsn, y)) <=> s < y
      BY <2>2, <3>4, SerialOrder
    <3>7. TSN_lt(Plus(base_tsn, y), Plus(base_tsn, e)) <=> y < e
      BY <2>2, <3>4, SerialOrder
    <3> QED
      BY <3>2, <3>4, <3>5, <3>6, <3>7
  <2>6. CASE ~(r >= m)
    <3> DEFINE j == m - r
    <3>1. j \in 1 .. (GapSpace - 1) /\ 2 * j < GapSpace
      BY <2>1, <2>3, <2>6, Sizes
    <3>2. Diff(iter_start, base_tsn) = TSNSpace - j
      BY <2>3, <2>4, <2>6, Sizes
    <3> HIDE DEF j
    <3>3. (TSNSpace - j) % GapSpace = GapSpace - j
      BY <3>1, BehindIsBeyond
    <3>4. GapSpace - j \in Nat /\ GapSpace - j >= len
      BY <2>2, <3>1, Sizes, IteratorAssumption
    <3>5. vlstp_tsnmap_find_gap_ack(GapSpace - j) = NoBlock
      <4>1. find_next_bit(tsn_map, len, GapSpace - j) = len
        <5>1. tsn_map \cap ((GapSpace - j) .. (len - 1)) = {}
          BY <2>2, <3>4
        <5> QED
          BY <5>1 DEF find_next_bit
      <4> QED
        BY <2>2, <4>1 DEF vlstp_tsnmap_find_gap_ack
    <3>6. Block = NoBlock
      BY <3>2, <3>3, <3>5 DEF Block, vlstp_tsnmap_next_gap_ack, NoBlock
    <3> QED
      BY <1>1, <3>6
  <2> QED
    BY <2>5, <2>6
<1>2. SackInv => IterationAdvances
  BY <1>1 DEF IterationAdvances
<1> QED
  BY SackInvariant, <1>2, PTL

-----------------------------------------------------------------------------
(* Wrapped comparison keeps the order of the numbers behind the TSNs and   *)
(* the SSNs, for every pair of widths and every number of wraps.           *)

\* Half the space, B, decides the order of two numbers closer than that.
LEMMA OrderWhenClose ==
  ASSUME NEW B \in Nat \ {0}, NEW m \in Int, NEW n \in Int,
         -B < m - n, m - n < B
  PROVE  /\ ((m % (2 * B)) - (n % (2 * B))) % (2 * B) >= B <=> m < n
         /\ m % (2 * B) = n % (2 * B) <=> m = n
<1> DEFINE S == 2 * B
           d == m - n
<1>1. S \in Nat \ {0} /\ d \in Int /\ -B < d /\ d < B
  OBVIOUS
<1>2. ((m % S) - (n % S)) % S = d % S
  <2> HIDE DEF S
  <2> QED
    BY <1>1, ModDiff
<1>3. d % S = IF d < 0 THEN d + S ELSE d
  <2>1. -S < d /\ d < S
    BY <1>1
  <2> HIDE DEF d, S
  <2> QED
    BY <1>1, <2>1, SmallDiff
<1>4. ((m % S) - (n % S)) % S >= B <=> m < n
  BY <1>1, <1>2, <1>3
<1>5. m % S = n % S => d % S = 0
  <2>1. m % S \in 0 .. (S - 1)
    BY <1>1, DivMod
  <2>2. 0 % S = 0
    BY <1>1
  <2> QED
    BY <1>2, <2>1, <2>2
<1>6. m % S = n % S <=> m = n
  BY <1>1, <1>3, <1>5
<1> QED
  BY <1>4, <1>6

\* The ack point and its number.
LEMMA AckPointIsWrapped ==
  ASSUME HInv, mem = "live"
  PROVE  cum \in Int /\ cumulative_tsn_ack_point = Wrapped(cum)
<1>1. cum = epoch - 1 /\ epoch \in Int
  <2>1. /\ cumulative_tsn_ack_point \in TSN
        /\ base_tsn = Plus(cumulative_tsn_ack_point, 1)
        /\ epoch \in Int
    BY Window DEF HInv
  <2> QED
    BY <2>1, NextTSN DEF cum
<1>2. ((epoch - 1) + 0) % TSNSpace = Plus(cumulative_tsn_ack_point, 0)
  BY NumberOfTSN
<1>3. Plus(cumulative_tsn_ack_point, 0) = cumulative_tsn_ack_point
  BY Window, PlusZero DEF HInv
<1> QED
  BY <1>1, <1>2, <1>3 DEF Wrapped

\* TSNs are compared like their numbers.
LEMMA TSNOrder ==
  ASSUME HInv, mem = "live"
  PROVE  TSNsKeepTheOrder
<1> DEFINE ack  == cumulative_tsn_ack_point
           half == Wrapped(cum + TSN_SIGN_BIT)
           S    == 2 * TSN_SIGN_BIT
<1>1. cum \in Int /\ ack = Wrapped(cum) /\ TSN_SIGN_BIT \in Nat \ {0}
      /\ S \in Nat \ {0}
  BY AckPointIsWrapped, SignBitAssumption
<1>2. ASSUME NEW m \in Int, NEW n \in Int,
             -TSN_SIGN_BIT < m - n, m - n < TSN_SIGN_BIT
      PROVE  /\ TSN_lt(Wrapped(m), Wrapped(n)) <=> m < n
             /\ TSN_lte(Wrapped(m), Wrapped(n)) <=> m <= n
  <2>1. /\ ((m % S) - (n % S)) % S >= TSN_SIGN_BIT <=> m < n
        /\ m % S = n % S <=> m = n
    BY <1>1, <1>2, OrderWhenClose
  <2>2. /\ TSN_lt(Wrapped(m), Wrapped(n)) <=> m < n
        /\ Wrapped(m) = Wrapped(n) <=> m = n
    BY <2>1 DEF TSN_lt, Diff, Wrapped, TSNSpace
  <2> QED
    BY <2>2 DEF TSN_lte
<1>3. ASSUME NEW t \in Horizon
      PROVE  /\ TSN_lt(Wrapped(t), ack) <=> t < cum
             /\ TSN_lte(Wrapped(t), ack) <=> t <= cum
             /\ TSN_lt(ack, Wrapped(t)) <=> cum < t
  <2>1. /\ t \in Int
        /\ -TSN_SIGN_BIT < t - cum /\ t - cum < TSN_SIGN_BIT
        /\ -TSN_SIGN_BIT < cum - t /\ cum - t < TSN_SIGN_BIT
    BY <1>1 DEF Horizon
  <2> QED
    BY <1>1, <1>2, <2>1
<1>4. TSN_lt(ack, half) /\ TSN_lt(half, ack)
  <2> DEFINE h == cum + TSN_SIGN_BIT
  <2>1. h \in Int /\ h - cum = TSN_SIGN_BIT /\ cum - h = -TSN_SIGN_BIT
    BY <1>1
  <2>2. /\ ((h % S) - (cum % S)) % S = (h - cum) % S
        /\ ((cum % S) - (h % S)) % S = (cum - h) % S
    <3> HIDE DEF h, S
    <3> QED
      BY <1>1, <2>1, ModDiff
  <2>3. TSN_SIGN_BIT % S = TSN_SIGN_BIT /\ (-TSN_SIGN_BIT) % S = TSN_SIGN_BIT
    <3>1. /\ TSN_SIGN_BIT \in Int /\ -S < TSN_SIGN_BIT /\ TSN_SIGN_BIT < S
          /\ -TSN_SIGN_BIT \in Int /\ -S < -TSN_SIGN_BIT /\ -TSN_SIGN_BIT < S
          /\ -TSN_SIGN_BIT + S = TSN_SIGN_BIT /\ -TSN_SIGN_BIT < 0
      BY <1>1
    <3> HIDE DEF S
    <3>2. TSN_SIGN_BIT % S = IF TSN_SIGN_BIT < 0 THEN TSN_SIGN_BIT + S ELSE TSN_SIGN_BIT
      BY <1>1, <3>1, SmallDiff
    <3>3. (-TSN_SIGN_BIT) % S = IF -TSN_SIGN_BIT < 0 THEN -TSN_SIGN_BIT + S ELSE -TSN_SIGN_BIT
      BY <1>1, <3>1, SmallDiff
    <3> QED
      BY <1>1, <3>1, <3>2, <3>3
  <2>4. /\ Diff(half, ack) = TSN_SIGN_BIT
        /\ Diff(ack, half) = TSN_SIGN_BIT
    BY <1>1, <2>1, <2>2, <2>3 DEF Diff, Wrapped, TSNSpace
  <2> QED
    BY <1>1, <2>4 DEF TSN_lt
<1> QED
  BY <1>3, <1>4 DEF TSNsKeepTheOrder

\* SSNs are, whenever their numbers are close enough.
LEMMA SSNOrder ==
  ASSUME HInv, mem = "live"
  PROVE  SSNsKeepTheOrder
<1> DEFINE S == 2 * SSN_SIGN_BIT
<1>1. cum \in Int /\ SSN_SIGN_BIT \in Nat \ {0}
  BY AckPointIsWrapped, HistoryAssumption
<1>2. ASSUME NEW m \in Int, NEW n \in Int,
             -SSN_SIGN_BIT < m - n, m - n < SSN_SIGN_BIT
      PROVE  /\ SSN!TSN_lt(Short(m), Short(n)) <=> m < n
             /\ SSN!TSN_lte(Short(m), Short(n)) <=> m <= n
  <2>1. /\ ((m % S) - (n % S)) % S >= SSN_SIGN_BIT <=> m < n
        /\ m % S = n % S <=> m = n
    BY <1>1, <1>2, OrderWhenClose
  <2>2. /\ SSN!TSN_lt(Short(m), Short(n)) <=> m < n
        /\ Short(m) = Short(n) <=> m = n
    BY <2>1 DEF SSN!TSN_lt, SSN!Diff, Short, SSN!TSNSpace
  <2> QED
    BY <2>2 DEF SSN!TSN_lte
<1>3. ASSUME NEW t \in Horizon, t - cum \in (1 - SSN_SIGN_BIT) .. (SSN_SIGN_BIT - 1)
      PROVE  /\ SSN!TSN_lt(Short(t), Short(cum)) <=> t < cum
             /\ SSN!TSN_lte(Short(t), Short(cum)) <=> t <= cum
             /\ SSN!TSN_lt(Short(cum), Short(t)) <=> cum < t
  <2>1. /\ t \in Int
        /\ -SSN_SIGN_BIT < t - cum /\ t - cum < SSN_SIGN_BIT
        /\ -SSN_SIGN_BIT < cum - t /\ cum - t < SSN_SIGN_BIT
    BY <1>1, <1>3, SignBitAssumption DEF Horizon
  <2> QED
    BY <1>1, <1>2, <2>1
<1> QED
  BY <1>3 DEF SSNsKeepTheOrder

\* Every comparison of a TSN with the ack point, and of two SSNs that are
\* close, gives the order of the numbers they are the images of, for every
\* width and however often they have wrapped.
THEOREM OrderIsKept == HSpec => []SerialsKeepTheOrder
<1>1. HInv => SerialsKeepTheOrder
  BY TSNOrder, SSNOrder DEF SerialsKeepTheOrder
<1> QED
  BY <1>1, HistoryInvariant, PTL
=============================================================================
