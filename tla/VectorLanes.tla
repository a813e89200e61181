----------------------------- MODULE VectorLanes -----------------------------
(***************************************************************************)
(* Vector registers as functions from lane numbers, and the few machine     *)
(* instructions the kernels of simd/avx.c and simd/neon.c are made of, by   *)
(* what the instruction set manuals say they compute.  A byte lane is       *)
(* 0..255 when unsigned and -128..127 when signed.                          *)
(***************************************************************************)
EXTENDS Integers, Sequences

\* f[0] + ... + f[n-1].
Total(f, n) ==
  LET upTo[k \in 0..n] == IF k = 0 THEN 0 ELSE upTo[k - 1] + f[k - 1]
  IN  upTo[n]

\* n lanes of memory m from index a, as the load instructions read them.
Load(m, a, n) == [i \in 0 .. n - 1 |-> m[a + i]]

Lanes(v) == DOMAIN v

Wrap(x, w) == ((x + 2^(w - 1)) % 2^w) - 2^(w - 1)
SignedByte(b) == Wrap(b, 8)
Saturate16(x) == IF x > 32767 THEN 32767 ELSE IF x < -32768 THEN -32768 ELSE x

\* Keep the low k bits of every byte (an AND with 2^k - 1).
LowBits(v, k) == [i \in Lanes(v) |-> v[i] % 2^k]

\* Join bit fields that do not overlap (OR).
Join(u, v) == [i \in Lanes(u) |-> u[i] + v[i]]

\* Logical shifts of elements of size bytes.  The bits of the next byte of the
\* same element enter from above (Srl), those of the byte before it from below.
Srl(v, size, k) ==
  [i \in Lanes(v) |->
     LET above == IF (i + 1) % size = 0 THEN 0 ELSE v[i + 1]
     IN  ((v[i] + 256 * above) \div 2^k) % 256]

Sll(v, size, k) ==
  [i \in Lanes(v) |->
     LET below == IF i % size = 0 THEN 0 ELSE v[i - 1]
     IN  (v[i] * 2^k + (below * 2^k) \div 256) % 256]

\* _mm_abs_epi8: the result is read as an unsigned byte, so |-128| is 128.
Abs8(x) == [i \in Lanes(x) |-> IF x[i] < 0 THEN -x[i] ELSE x[i]]

\* _mm_sign_epi8: y negated where x is negative, with byte wrap-around.
Sign8(y, x) ==
  [i \in Lanes(y) |-> IF x[i] < 0 THEN Wrap(-y[i], 8)
                      ELSE IF x[i] = 0 THEN 0 ELSE y[i]]

\* _mm_hadd_epi16 / vpaddq_s16: adjacent 16-bit lanes added, modulo 2^16.
PairSums16(v, n) == [i \in 0 .. n - 1 |-> Wrap(v[2*i] + v[2*i + 1], 16)]

(***************************************************************************)
(* Dot products of n unsigned (or signed) bytes by n signed bytes into      *)
(* 32-bit lanes of four bytes each.                                         *)
(***************************************************************************)

\* _mm_maddubs_epi16 and then _mm_madd_epi16 by ones: pairs saturate at 16 bits.
MaddDot(u, s, n) ==
  LET p16 == [i \in 0 .. (n \div 2) - 1 |->
                Saturate16(u[2*i] * s[2*i] + u[2*i + 1] * s[2*i + 1])]
  IN  [l \in 0 .. (n \div 4) - 1 |-> p16[2*l] + p16[2*l + 1]]

\* _mm256_dpbusd_avx_epi32 and vdotq_s32: four products at once, no saturation.
FourDot(u, s, n) ==
  [l \in 0 .. (n \div 4) - 1 |->
     u[4*l] * s[4*l] + u[4*l + 1] * s[4*l + 1]
     + u[4*l + 2] * s[4*l + 2] + u[4*l + 3] * s[4*l + 3]]

\* The total of a register of 32-bit lanes.
Hsum(v, n) == Total(v, n)
==============================================================================
