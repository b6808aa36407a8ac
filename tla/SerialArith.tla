---------------------------- MODULE SerialArith ----------------------------
(***************************************************************************)
(* Serial-number arithmetic on TSNs (vlstp.h, after RFC 1982): a TSN is an *)
(* unsigned integer of fixed width, comparison looks only at the sign bit  *)
(* of the wrapped difference.  The width is a parameter: uint32_t is the   *)
(* instance TSN_SIGN_BIT = 2^31.                                           *)
(***************************************************************************)
EXTENDS Integers

CONSTANT TSN_SIGN_BIT     \* the weight of the top bit of a TSN

ASSUME SignBitAssumption == TSN_SIGN_BIT \in Nat \ {0}

TSNSpace == 2 * TSN_SIGN_BIT

TSN == 0 .. (TSNSpace - 1)

\* t + k and s - t as the code computes them, in uint32_t.
Plus(t, k) == (t + k) % TSNSpace
Diff(s, t) == (s - t) % TSNSpace

\* Mutant: no wrap.
TSN_lt_unwrapped(s, t) == s < t

\* ((s) - (t)) & TSN_SIGN_BIT
TSN_lt(s, t) == Diff(s, t) >= TSN_SIGN_BIT

TSN_lte(s, t) == s = t \/ TSN_lt(s, t)

\* "s1 is said to be less than s2 if, and only if, ..." as the comment in
\* vlstp.h quotes it, 2^(SERIAL_BITS - 1) being TSN_SIGN_BIT.
RFC1982_lt(i1, i2) ==
  \/ i1 < i2 /\ i2 - i1 < TSN_SIGN_BIT
  \/ i1 > i2 /\ i1 - i2 > TSN_SIGN_BIT
=============================================================================
