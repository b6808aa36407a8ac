---------------------------- MODULE JenkinsHash ----------------------------
(***************************************************************************)
(* The hash functions of include/jhash.h at their full width.  A uint32_t  *)
(* is the pair of its upper and its lower 16 bits, since TLC's integers    *)
(* have 32 bits and a sign; a key is a sequence of bytes in memory, which  *)
(* may go on behind the key.  Words are little-endian, as on the machines  *)
(* the build files know.                                                   *)
(***************************************************************************)
EXTENDS Integers, Sequences, FiniteSetsExt

Half == 65536

Word(x) == <<(x \div Half) % Half, x % Half>>

Plus(x, y) == LET lo == x[2] + y[2]
               IN  <<(x[1] + y[1] + (lo \div Half)) % Half, lo % Half>>
Minus(x, y) == LET lo == x[2] - y[2]
               IN  <<(x[1] - y[1] + (lo \div Half)) % Half, lo % Half>>

\* The bits in which the two numbers of a pair differ.
DifferHalf[x \in (0 .. (Half - 1)) \X (0 .. (Half - 1))] ==
  IF x[1] + x[2] = 0 THEN 0
  ELSE ((x[1] + x[2]) % 2) + 2 * DifferHalf[<<x[1] \div 2, x[2] \div 2>>]

Differ(x, y) == <<DifferHalf[<<x[1], y[1]>>], DifferHalf[<<x[2], y[2]>>]>>

rol32(x, k) ==
  LET y == IF k >= 16 THEN <<x[2], x[1]>> ELSE x
      j == k % 16
      Part(p, q) == ((p * 2^j) % Half) + (q \div 2^(16 - j))
  IN  <<Part(y[1], y[2]), Part(y[2], y[1])>>

\* x -= y; x ^= rol32(y, k); y += z
MixStep(s, x, y, z, k) ==
  [s EXCEPT ![x] = Differ(Minus(@, s[y]), rol32(s[y], k)),
            ![y] = Plus(@, s[z])]

__jhash_mix(s) ==
  LET s1 == MixStep(s,  "a", "c", "b", 4)
      s2 == MixStep(s1, "b", "a", "c", 6)
      s3 == MixStep(s2, "c", "b", "a", 8)
      s4 == MixStep(s3, "a", "c", "b", 16)
      s5 == MixStep(s4, "b", "a", "c", 19)
  IN  MixStep(s5, "c", "b", "a", 4)

\* x ^= y; x -= rol32(y, k)
FinalStep(s, x, y, k) == [s EXCEPT ![x] = Minus(Differ(@, s[y]), rol32(s[y], k))]

__jhash_final(s) ==
  LET s1 == FinalStep(s,  "c", "b", 14)
      s2 == FinalStep(s1, "a", "c", 11)
      s3 == FinalStep(s2, "b", "a", 25)
      s4 == FinalStep(s3, "c", "b", 16)
      s5 == FinalStep(s4, "a", "c", 4)
      s6 == FinalStep(s5, "b", "a", 14)
  IN  FinalStep(s6, "c", "b", 24)

JHASH_INITVAL == <<57005, 48879>>     \* 0xdead, 0xbeef

Start(length, initval) ==
  LET v == Plus(Plus(JHASH_INITVAL, Word(length)), initval)
  IN  [a |-> v, b |-> v, c |-> v]

AddWords(s, a, b, c) ==
  [a |-> Plus(s.a, a), b |-> Plus(s.b, b), c |-> Plus(s.c, c)]

\* __get_unaligned_cpu32
WordAt(key, k) ==
  <<key[k + 3] + 256 * key[k + 4], key[k + 1] + 256 * key[k + 2]>>

\* What the cases of the switch that are passed through add to a, b or c: up
\* to four bytes, those there still are.
LastBytes(key, k, length) ==
  LET B(i) == IF i < length THEN key[k + i + 1] ELSE 0
  IN  <<B(2) + 256 * B(3), B(0) + 256 * B(1)>>

\* Mutant: a last block of twelve bytes is mixed like the others.
LastBlock_short(length) == length < 12

\* The loop is left.
LastBlock(length) == length <= 12

\* The loop takes a block at a time until it is left, here after m turns.
jhash(key, length, initval) ==
  LET Mixed[i \in 0 .. length] ==
        IF i = 0 THEN Start(length, initval)
        ELSE LET k == 12 * (i - 1)
             IN  __jhash_mix(AddWords(Mixed[i - 1], WordAt(key, k),
                                      WordAt(key, k + 4), WordAt(key, k + 8)))
      m    == Min({i \in 0 .. length : LastBlock(length - 12 * i)})
      k    == 12 * m
      rest == length - k
  IN  IF rest = 0 THEN Mixed[m].c
      ELSE __jhash_final(AddWords(Mixed[m], LastBytes(key, k, rest),
                                            LastBytes(key, k + 4, rest - 4),
                                            LastBytes(key, k + 8, rest - 8))).c

\* The same for blocks of three words.
jhash2(key, length, initval) ==
  LET W(i) == IF i <= length THEN key[i] ELSE Word(0)
      Block(s, i) == AddWords(s, W(3 * i + 1), W(3 * i + 2), W(3 * i + 3))
      Mixed[i \in 0 .. length] == IF i = 0 THEN Start(4 * length, initval)
                          ELSE __jhash_mix(Block(Mixed[i - 1], i - 1))
      m == Min({i \in 0 .. length : length - 3 * i <= 3})
  IN  IF length - 3 * m = 0 THEN Mixed[m].c ELSE __jhash_final(Block(Mixed[m], m)).c

jhash_3words(a, b, c, initval) ==
  __jhash_final([a |-> Plus(a, JHASH_INITVAL), b |-> Plus(b, JHASH_INITVAL),
                 c |-> Plus(c, initval)]).c

jhash_2words(a, b, initval) == jhash_3words(a, b, Word(0), initval)

jhash_1word(a, initval) == jhash_3words(a, Word(0), Word(0), initval)
-----------------------------------------------------------------------------
(* Properties, for keys of up to three blocks.                             *)

Bytes(n, seed) == [i \in 1 .. n |-> (seed + 37 * i * i + 101 * i) % 256]
Words(n, seed) == [i \in 1 .. n |-> WordAt(Bytes(4 * n, seed), 4 * (i - 1))]

Seeds    == {0, 77, 250}
InitVals == {Word(0), <<65535, 65535>>, JHASH_INITVAL}

\* y -= z; x ^= rol32(y, k); x += y: MixStep backwards.
UndoMixStep(s, x, y, z, k) ==
  LET old == Minus(s[y], s[z])
  IN  [s EXCEPT ![y] = old, ![x] = Plus(Differ(@, rol32(old, k)), old)]

Unmix(s) ==
  LET s5 == UndoMixStep(s,  "c", "b", "a", 4)
      s4 == UndoMixStep(s5, "b", "a", "c", 19)
      s3 == UndoMixStep(s4, "a", "c", "b", 16)
      s2 == UndoMixStep(s3, "c", "b", "a", 8)
      s1 == UndoMixStep(s2, "b", "a", "c", 6)
  IN  UndoMixStep(s1, "a", "c", "b", 4)

\* "mix 3 32-bit values reversibly": undoing the steps gives them back.
MixIsReversible(seed) ==
  \A a, b, c \in InitVals \cup {Words(1, seed)[1]} :
    LET s == [a |-> a, b |-> b, c |-> c] IN Unmix(__jhash_mix(s)) = s

\* An array of words has the hash of its bytes, on either side of every
\* block's end, and so have one, two and three words, but for the length.
WordsHashLikeBytes(seed) ==
  LET w == Words(3, seed)
      I == JHASH_INITVAL
  IN  /\ \A n \in 0 .. 7, v \in InitVals :
           jhash2(Words(n, seed), n, v) = jhash(Bytes(4 * n, seed), 4 * n, v)
      /\ jhash_1word(w[1], I) = jhash2(w, 1, Minus(Word(0), Word(4)))
      /\ jhash_2words(w[1], w[2], I) = jhash2(w, 2, Minus(Word(0), Word(8)))
      /\ jhash_3words(w[1], w[2], w[3], I) = jhash2(w, 3, Minus(Word(0), Word(12)))

\* A key has one hash wherever it lies: what follows it in memory, here
\* nothing or something, is not read.
OnlyTheKeyCounts(seed) ==
  \A n \in 0 .. 26 :
    jhash(Bytes(n, seed), n, Word(0))
      = jhash(Bytes(n, seed) \o Bytes(12, seed + 1), n, Word(0))

\* lookup3.c, which jhash.h takes its functions from, hashes "Four score and
\* seven years ago" to 17770551 and, with 1 for the initial value, cd628161.
AgreesWithLookup3 ==
  LET text == <<70, 111, 117, 114, 32, 115, 99, 111, 114, 101, 32, 97, 110, 100, 32,
                115, 101, 118, 101, 110, 32, 121, 101, 97, 114, 115, 32, 97, 103, 111>>
  IN  /\ jhash(text, Len(text), Word(0)) = <<6007, 1361>>
      /\ jhash(text, Len(text), Word(1)) = <<52578, 33121>>

\* The hash functions are those of their origin, and agree with each other,
\* for every seed of a key.
HashAgrees ==
  \A seed \in Seeds :
    /\ MixIsReversible(seed)
    /\ WordsHashLikeBytes(seed)
    /\ OnlyTheKeyCounts(seed)
    /\ AgreesWithLookup3
=============================================================================
