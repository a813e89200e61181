------------------------------- MODULE Kernels -------------------------------
(***************************************************************************)
(* The quantised matrix products of slm/tensor.c and the dispatched kernels *)
(* of simd/: one weight row of packed 4-, 5-, 6- or 8-bit numbers times one *)
(* activation row quantised to bytes, in five machine-specific versions and *)
(* a scalar one, chosen once by simd_init from what the processor reports;  *)
(* and the tiling of the float matrix products.                             *)
(*                                                                         *)
(* Kept: the block layouts, every bit field and shift, the widths at which  *)
(* the instructions saturate or wrap, which bytes meet which scale, the     *)
(* loops' tails, the dispatch.  Abstracted: the floating-point factors d and*)
(* dmin of a block (a block's result is the pair of integers they multiply),*)
(* the rounding of the products inside the quantisers, and the width: W is  *)
(* the number of weights under one scale pair, 32 in the code; the rest of  *)
(* the layout is in terms of it (a super-block has 8*W weights).            *)
(***************************************************************************)
EXTENDS VectorLanes

CONSTANTS
  W,          \* weights per sub-block of a Q4_K block: 32 in the code
  Bytes,      \* sequence of weight blocks, each a function from offsets to bytes
  Sources,    \* sequence of activation blocks, functions 0..8*W-1 -> Int
  Weights,    \* first blocks of the weight rows tried
  Columns,    \* first blocks of the columns tried
  Cpus,       \* the processors: sets of instruction set extensions
  Tokens,     \* columns of a matrix product
  OutF,       \* rows of a matrix product
  NBlocks,    \* blocks in a row
  MaxM, MaxN  \* bounds of the float products' sizes

\* Up to eight times the real width a pair of bsums, W numbers, fits in 16 bits.
ASSUME KernelsAssumption == W \in Nat /\ W > 0 /\ W % 8 = 0 /\ W <= 256

\* A block of Q6_K, the longest, has 6*W + 16 bytes before its fp16 factor.
ASSUME RowsAssumption ==
  /\ Bytes # << >> /\ Bytes \in Seq([0 .. 6*W + 15 -> 0 .. 255])
  /\ Sources # << >> /\ Sources \in Seq([0 .. 8*W - 1 -> Int])
  /\ Weights \subseteq Nat /\ Columns \subseteq Nat
  /\ Tokens \in Nat /\ OutF \in Nat /\ NBlocks \in Nat

H == W \div 2     \* weights under one bsum, one scale of Q6_K, one NEON register
Q == 8 * W        \* QK_K

(***************************************************************************)
(* Block layouts, offsets as in the structs (the fp16 factors left out).    *)
(***************************************************************************)
Q4KBlock(m) == [scales |-> Load(m, 0, 12), qs |-> Load(m, 12, 4*W)]
Q5KBlock(m) == [scales |-> Load(m, 0, 12), qh |-> Load(m, 12, W),
                qs |-> Load(m, 12 + W, 4*W)]
Q6KBlock(m) == [ql |-> Load(m, 0, 4*W), qh |-> Load(m, 4*W, 2*W),
                scales |-> [i \in 0..15 |-> SignedByte(m[6*W + i])]]
Q8Block(m)  == [qs |-> [i \in 0 .. W - 1 |-> SignedByte(m[i])]]

GetScaleMin(sc, j) ==
  IF j < 4
  THEN [d |-> sc[j] % 64, m |-> sc[j + 4] % 64]
  ELSE [d |-> (sc[j + 4] % 16) + (sc[j - 4] \div 64) * 16,
        m |-> (sc[j + 4] \div 16) + (sc[j] \div 64) * 16]

Scales(x) == [j \in 0..7 |-> GetScaleMin(x.scales, j).d]
Mins(x)   == [j \in 0..7 |-> GetScaleMin(x.scales, j).m]

(***************************************************************************)
(* Quantising an activation row.  RoundEven is q8k_nearest_int, RoundAway   *)
(* libm's roundf, of the quotient p/q with q > 0.                           *)
(***************************************************************************)
\* Mutant: truncates like a cast to int.
RoundDown(p, q) == p \div q

RoundEven(p, q) ==
  LET f == p \div q
      r == p % q
  IN  IF 2 * r < q \/ (2 * r = q /\ f % 2 = 0) THEN f ELSE f + 1

RoundAway(p, q) ==
  IF p < 0 THEN -((2 * (-p) + q) \div (2 * q)) ELSE (2 * p + q) \div (2 * q)

Clip(v) == IF v > 127 THEN 127 ELSE IF v < -128 THEN -128 ELSE v

Abs(x) == IF x < 0 THEN -x ELSE x
MaxAbsAt(s, n) ==
  CHOOSE i \in 0 .. n - 1 : /\ \A k \in 0 .. n - 1 : Abs(s[k]) <= Abs(s[i])
                            /\ \A k \in 0 .. i - 1 : Abs(s[k]) < Abs(s[i])

\* The first value of the largest magnitude becomes -127, whatever its sign.
QuantizeQ8K(s) ==
  LET xmax == s[MaxAbsAt(s, Q)]
      sgn  == IF xmax < 0 THEN -1 ELSE 1
      qs   == [i \in 0 .. Q - 1 |->
                 IF xmax = 0 THEN 0
                 ELSE Clip(RoundEven(-127 * s[i] * sgn, Abs(xmax)))]
  IN  [qs |-> qs, bsums |-> [j \in 0..15 |-> Total(Load(qs, j * H, H), H)]]

QuantizeQ8_0(s) ==
  LET amax == Abs(s[MaxAbsAt(s, W)])
  IN  [qs |-> [i \in 0 .. W - 1 |->
                 IF amax = 0 THEN 0 ELSE Clip(RoundAway(127 * s[i], amax))]]

\* Q4_0, the packer's own format: two weights in a byte, biased by 8.
PackQ4_0(s) ==
  LET amax == Abs(s[MaxAbsAt(s, W)])
      q(i) == IF amax = 0 THEN 0
              ELSE LET r == RoundAway(7 * s[i], amax)
                   IN  IF r < -8 THEN -8 ELSE IF r > 7 THEN 7 ELSE r
  IN  [i \in 0 .. H - 1 |-> (q(2*i) + 8) + 16 * (q(2*i + 1) + 8)]

(***************************************************************************)
(* The weights themselves, as the dequantisers read them: a weight is       *)
(* d * w[i].d - dmin * w[i].m.                                              *)
(***************************************************************************)
DequantQ4K(x) ==
  [i \in 0 .. Q - 1 |->
     LET b  == x.qs[W * (i \div (2*W)) + (i % W)]
         sm == GetScaleMin(x.scales, i \div W)
     IN  [d |-> sm.d * (IF (i \div W) % 2 = 0 THEN b % 16 ELSE b \div 16),
          m |-> sm.m]]

DequantQ5K(x) ==
  [i \in 0 .. Q - 1 |->
     LET b     == x.qs[W * (i \div (2*W)) + (i % W)]
         sm    == GetScaleMin(x.scales, i \div W)
         fifth == (x.qh[i % W] \div 2^(i \div W)) % 2
     IN  [d |-> sm.d * ((IF (i \div W) % 2 = 0 THEN b % 16 ELSE b \div 16) + 16 * fifth),
          m |-> sm.m]]

DequantQ6K(x) ==
  [i \in 0 .. Q - 1 |->
     LET half == i \div (4*W)
         c    == (i \div W) % 4
         l    == i % W
         b    == x.ql[2*W * half + W * (c % 2) + l]
         low  == IF c < 2 THEN b % 16 ELSE b \div 16
         high == (x.qh[W * half + l] \div 4^c) % 4
     IN  [d |-> x.scales[8 * half + l \div H + 2 * c] * (low + 16 * high - 32),
          m |-> 0]]

DequantQ8_0(x) == [i \in 0 .. W - 1 |-> [d |-> x.qs[i], m |-> 0]]

(***************************************************************************)
(* The scalar reference dots of quants.h.                                   *)
(***************************************************************************)
PairMins(x, y) == Total([j \in 0..7 |-> (y.bsums[2*j] + y.bsums[2*j + 1]) * Mins(x)[j]], 8)

ScalarQ4K(x, y) ==
  LET sub(s) == Total([l \in 0 .. W - 1 |->
                  LET b == x.qs[W * (s \div 2) + l]
                  IN  (IF s % 2 = 0 THEN b % 16 ELSE b \div 16) * y.qs[W * s + l]], W)
  IN  [isum |-> Total([s \in 0..7 |-> Scales(x)[s] * sub(s)], 8), mins |-> PairMins(x, y)]

ScalarQ5K(x, y) ==
  LET sub(s) == Total([l \in 0 .. W - 1 |->
                  LET b == x.qs[W * (s \div 2) + l]
                      u == (x.qh[l] \div 2^s) % 2
                  IN  ((IF s % 2 = 0 THEN b % 16 ELSE b \div 16) + 16 * u)
                      * y.qs[W * s + l]], W)
  IN  [isum |-> Total([s \in 0..7 |-> Scales(x)[s] * sub(s)], 8), mins |-> PairMins(x, y)]

ScalarQ6K(x, y) ==
  LET weight(j, c, l) ==       \* c counts the eight sub-blocks of H weights in half j
        LET b == x.ql[2*W*j + H * (c % 4) + l]
            h == x.qh[W*j + H * (c % 2) + l] \div 4^(c \div 2)
        IN  (IF c < 4 THEN b % 16 ELSE b \div 16) + 16 * (h % 4)
      sub(k) == Total([l \in 0 .. H - 1 |->
                  weight(k \div 8, k % 8, l) * y.qs[H * k + l]], H)
      mins == Total([k \in 0..15 |-> y.bsums[k] * x.scales[k]], 16)
  IN  [isum |-> Total([k \in 0..15 |-> x.scales[k] * sub(k)], 16) - 32 * mins, mins |-> 0]

ScalarQ8_0(x, y) == [isum |-> Total([i \in 0 .. W - 1 |-> x.qs[i] * y.qs[i]], W), mins |-> 0]

(***************************************************************************)
(* The machine versions.  isa names the instructions a tier multiplies      *)
(* with: avx1 and avx2 use maddubs and madd, avxvnni dpbusd, dotprod sdot,  *)
(* and NEON without sdot widens to 16 bits and adds pairs into 32.          *)
(***************************************************************************)
NeonVdotBaseline(a, b, n) ==
  LET pair(i) == a[i] * b[i] + a[i + 1] * b[i + 1]
  IN  [l \in 0 .. (n \div 4) - 1 |-> pair(2*l) + pair((n \div 2) + 2*l)]

Dot(isa, u, s, n) ==
  CASE isa \in {"avx1", "avx2"}       -> MaddDot(u, s, n)
    [] isa \in {"avxvnni", "dotprod"} -> FourDot(u, s, n)
    [] isa = "baseline"               -> NeonVdotBaseline(u, s, n)

\* One register of n products, all under the same scale.
ScaledDot(isa, u, s, n, scale) == scale * Hsum(Dot(isa, u, s, n), n \div 4)

\* Mutant: the bits of the neighbouring byte are left in.
UnmaskedHighNibbles(v) == Srl(v, 2, 4)

\* x86: shifts work on 16-bit elements, so every field is masked after it.
HighNibbles(v) == LowBits(Srl(v, 2, 4), 4)

FifthBit(qh, k) == Sll(LowBits(Srl(qh, 2, k), 1), 2, 4)

TopBits(qh, k)  == Sll(LowBits(Srl(qh, 2, k), 2), 2, 4)

HaddMins(x, y) ==
  LET pair == PairSums16(y.bsums, 8)
  IN  Total([j \in 0..7 |-> pair[j] * Mins(x)[j]], 8)

BsumMins(x, y) == Total([k \in 0..15 |-> y.bsums[k] * x.scales[k]], 16)

\* One 256-bit register of weights per half sub-block pair.
AvxQ4K(isa, x, y) ==
  LET step(j) ==
        LET q == Load(x.qs, W*j, W)
        IN  ScaledDot(isa, LowBits(q, 4), Load(y.qs, 2*W*j, W), W, Scales(x)[2*j])
            + ScaledDot(isa, HighNibbles(q), Load(y.qs, 2*W*j + W, W), W, Scales(x)[2*j + 1])
  IN  [isum |-> Total([j \in 0..3 |-> step(j)], 4), mins |-> HaddMins(x, y)]

AvxQ5K(isa, x, y) ==
  LET step(j) ==
        LET q == Load(x.qs, W*j, W)
        IN  ScaledDot(isa, Join(LowBits(q, 4), FifthBit(x.qh, 2*j)),
                      Load(y.qs, 2*W*j, W), W, Scales(x)[2*j])
            + ScaledDot(isa, Join(HighNibbles(q), FifthBit(x.qh, 2*j + 1)),
                        Load(y.qs, 2*W*j + W, W), W, Scales(x)[2*j + 1])
  IN  [isum |-> Total([j \in 0..3 |-> step(j)], 4), mins |-> HaddMins(x, y)]

\* The lower half of a register's lanes is under one scale, the upper under the next.
AvxQ6K(isa, x, y) ==
  LET chunk(j, c) ==
        LET q == Load(x.ql, 2*W*j + W * (c % 2), W)
            w == Join(IF c < 2 THEN LowBits(q, 4) ELSE HighNibbles(q),
                      TopBits(Load(x.qh, W*j, W), 2*c))
            p == Dot(isa, w, Load(y.qs, 4*W*j + W*c, W), W)
            n == W \div 4
        IN  Total([l \in 0 .. n - 1 |->
                     p[l] * x.scales[8*j + 2*c + (IF 2*l < n THEN 0 ELSE 1)]], n)
      half(j) == Total([c \in 0..3 |-> chunk(j, c)], 4)
  IN  [isum |-> half(0) + half(1) - 32 * BsumMins(x, y), mins |-> 0]

AvxVnniQ4K(x, y) == AvxQ4K("avxvnni", x, y)

AvxVnniQ5K(x, y) == AvxQ5K("avxvnni", x, y)

AvxVnniQ6K(x, y) == AvxQ6K("avxvnni", x, y)

\* AVX1 has no 256-bit integer instructions: two registers of H bytes instead.
SseQ4K(x, y) ==
  LET step(j, a) ==
        LET q == Load(x.qs, W*j + H*a, H)
        IN  ScaledDot("avx1", LowBits(q, 4), Load(y.qs, 2*W*j + H*a, H), H, Scales(x)[2*j])
            + ScaledDot("avx1", HighNibbles(q), Load(y.qs, 2*W*j + W + H*a, H), H,
                        Scales(x)[2*j + 1])
  IN  [isum |-> Total([i \in 0..7 |-> step(i \div 2, i % 2)], 8), mins |-> HaddMins(x, y)]

SseQ5K(x, y) ==
  LET step(j, a) ==
        LET q  == Load(x.qs, W*j + H*a, H)
            qh == Load(x.qh, H*a, H)
        IN  ScaledDot("avx1", Join(LowBits(q, 4), FifthBit(qh, 2*j)),
                      Load(y.qs, 2*W*j + H*a, H), H, Scales(x)[2*j])
            + ScaledDot("avx1", Join(HighNibbles(q), FifthBit(qh, 2*j + 1)),
                        Load(y.qs, 2*W*j + W + H*a, H), H, Scales(x)[2*j + 1])
  IN  [isum |-> Total([i \in 0..7 |-> step(i \div 2, i % 2)], 8), mins |-> HaddMins(x, y)]

SseQ6K(x, y) ==
  LET chunk(j, c) ==
        LET q == Load(x.ql, 2*W*j + H * (c % 4), H)
            w == Join(IF c < 4 THEN LowBits(q, 4) ELSE HighNibbles(q),
                      TopBits(Load(x.qh, W*j + H * (c % 2), H), 2 * (c \div 2)))
        IN  ScaledDot("avx1", w, Load(y.qs, 4*W*j + H*c, H), H, x.scales[8*j + c])
  IN  [isum |-> Total([k \in 0..15 |-> chunk(k \div 8, k % 8)], 16) - 32 * BsumMins(x, y),
       mins |-> 0]

(***************************************************************************)
(* NEON: registers of H bytes and shifts of single bytes.  The scales are   *)
(* unpacked four at a time, in 32-bit words, rather than by GetScaleMin.    *)
(***************************************************************************)
WordScales(x) ==
  LET word(k) == Load(x.scales, 4*k, 4)
      high(k) == Sll(LowBits(Srl(word(k), 4, 6), 2), 4, 4)
      low4    == LowBits(word(0), 6)
      high4   == Join(LowBits(word(2), 4), high(0))
  IN  [j \in 0..7 |-> IF j < 4 THEN low4[j] ELSE high4[j - 4]]

WordMins(x, y) ==
  LET word(k) == Load(x.scales, 4*k, 4)
      low4  == LowBits(word(1), 6)
      high4 == Join(LowBits(Srl(word(2), 4, 4), 4),
                    Sll(LowBits(Srl(word(1), 4, 6), 2), 4, 4))
      pair  == PairSums16(y.bsums, 8)
  IN  Total([j \in 0..7 |-> pair[j] * (IF j < 4 THEN low4[j] ELSE high4[j - 4])], 8)

NeonQ4K(isa, x, y) ==
  LET step(j, a) ==
        LET q == Load(x.qs, W*j + H*a, H)
        IN  ScaledDot(isa, LowBits(q, 4), Load(y.qs, 2*W*j + H*a, H), H, WordScales(x)[2*j])
            + ScaledDot(isa, Srl(q, 1, 4), Load(y.qs, 2*W*j + W + H*a, H), H,
                        WordScales(x)[2*j + 1])
  IN  [isum |-> Total([i \in 0..7 |-> step(i \div 2, i % 2)], 8), mins |-> WordMins(x, y)]

\* qhbits loses two bits per step, so bits 0 and 1 are always the ones wanted;
\* bit 1 is moved up by three, not four.
NeonQ5K(isa, x, y) ==
  LET qhbits(j, a) == Srl(Load(x.qh, H*a, H), 1, 2*j)
      bit1(v) == [i \in Lanes(v) |-> (v[i] % 4) - (v[i] % 2)]
      step(j, a) ==
        LET q == Load(x.qs, W*j + H*a, H)
        IN  ScaledDot(isa, Join(LowBits(q, 4), Sll(LowBits(qhbits(j, a), 1), 1, 4)),
                      Load(y.qs, 2*W*j + H*a, H), H, WordScales(x)[2*j])
            + ScaledDot(isa, Join(Srl(q, 1, 4), Sll(bit1(qhbits(j, a)), 1, 3)),
                        Load(y.qs, 2*W*j + W + H*a, H), H, WordScales(x)[2*j + 1])
  IN  [isum |-> Total([i \in 0..7 |-> step(i \div 2, i % 2)], 8), mins |-> WordMins(x, y)]

NeonQ6K(isa, x, y) ==
  LET chunk(j, c) ==
        LET q  == Load(x.ql, 2*W*j + H * (c % 4), H)
            qh == Load(x.qh, W*j + H * (c % 2), H)
            w  == Join(IF c < 4 THEN LowBits(q, 4) ELSE Srl(q, 1, 4),
                       Sll(LowBits(Srl(qh, 1, 2 * (c \div 2)), 2), 1, 4))
        IN  ScaledDot(isa, w, Load(y.qs, 4*W*j + H*c, H), H, x.scales[8*j + c])
  IN  [isum |-> Total([k \in 0..15 |-> chunk(k \div 8, k % 8)], 16) - 32 * BsumMins(x, y),
       mins |-> 0]

DotprodQ4K(x, y) == NeonQ4K("dotprod", x, y)

DotprodQ5K(x, y) == NeonQ5K("dotprod", x, y)

DotprodQ6K(x, y) == NeonQ6K("dotprod", x, y)

(***************************************************************************)
(* Q8_0 by Q8_0.  maddubs and dpbusd want one unsigned operand: the x86     *)
(* tiers multiply |x| by y with the sign of x.  NEON takes blocks in pairs  *)
(* and leaves an odd last block to a scalar loop.                           *)
(***************************************************************************)
AvxQ8_0(isa, x, y) ==
  [isum |-> Hsum(Dot(isa, Abs8(x.qs), Sign8(y.qs, x.qs), W), W \div 4), mins |-> 0]

AvxVnniQ8_0(x, y) == AvxQ8_0("avxvnni", x, y)

SseQ8_0(x, y) ==
  LET half(a) ==
        LET xv == Load(x.qs, H*a, H)
        IN  Hsum(Dot("avx1", Abs8(xv), Sign8(Load(y.qs, H*a, H), xv), H), H \div 4)
  IN  [isum |-> half(0) + half(1), mins |-> 0]

NeonQ8_0Row(isa, xs, ys, nb) ==
  LET pair(ib) == LET half(a) == Hsum(Dot(isa, Load(xs[ib].qs, H*a, H),
                                          Load(ys[ib].qs, H*a, H), H), H \div 4)
                  IN  [isum |-> half(0) + half(1), mins |-> 0]
      paired   == {ib \in 0 .. nb - 1 : 2 * (ib \div 2) + 1 < nb}
  IN  [ib \in 0 .. nb - 1 |->
         IF ib \in paired THEN pair(ib) ELSE ScalarQ8_0(xs[ib], ys[ib])]

DotprodQ8_0Row(xs, ys, nb) == NeonQ8_0Row("dotprod", xs, ys, nb)

(***************************************************************************)
(* The dispatch table: a tier for all four formats, scalar until simd_init. *)
(***************************************************************************)
\* CPUID or the operating system's word; on macOS any processor with AdvSIMD, as
\* every one has, is taken to have sdot.
DetectCpu(c) ==
  IF "arm" \in c
  THEN {"arm"} \cup {f \in {"dotprod"} : c \cap {"dotprod", "macos"} # {}}
  ELSE c \cap {"avx", "fma", "f16c", "avx2", "avx_vnni"}

DispatchTier(g_cpu) ==
  IF "arm" \in g_cpu
  THEN IF "dotprod" \in g_cpu THEN "dotprod" ELSE "baseline"
  ELSE IF {"avx_vnni", "avx2", "fma"} \subseteq g_cpu THEN "avxvnni"
  ELSE IF {"avx2", "fma"} \subseteq g_cpu THEN "avx2"
  ELSE IF "avx" \in g_cpu THEN "avx1" ELSE "scalar"

BlockDot(t, fmt, x, y) ==
  CASE fmt = "q4k" ->
         (CASE t = "scalar" -> ScalarQ4K(x, y)      [] t = "avx1" -> SseQ4K(x, y)
            [] t = "avx2"   -> AvxQ4K("avx2", x, y) [] t = "avxvnni" -> AvxVnniQ4K(x, y)
            [] t = "dotprod" -> DotprodQ4K(x, y)    [] t = "baseline" -> NeonQ4K(t, x, y))
    [] fmt = "q5k" ->
         (CASE t = "scalar" -> ScalarQ5K(x, y)      [] t = "avx1" -> SseQ5K(x, y)
            [] t = "avx2"   -> AvxQ5K("avx2", x, y) [] t = "avxvnni" -> AvxVnniQ5K(x, y)
            [] t = "dotprod" -> DotprodQ5K(x, y)    [] t = "baseline" -> NeonQ5K(t, x, y))
    [] fmt = "q6k" ->
         (CASE t = "scalar" -> ScalarQ6K(x, y)      [] t = "avx1" -> SseQ6K(x, y)
            [] t = "avx2"   -> AvxQ6K("avx2", x, y) [] t = "avxvnni" -> AvxVnniQ6K(x, y)
            [] t = "dotprod" -> DotprodQ6K(x, y)    [] t = "baseline" -> NeonQ6K(t, x, y))
    [] fmt = "q8_0" ->
         (CASE t = "scalar" -> ScalarQ8_0(x, y)      [] t = "avx1" -> SseQ8_0(x, y)
            [] t = "avx2"   -> AvxQ8_0("avx2", x, y) [] t = "avxvnni" -> AvxVnniQ8_0(x, y))

RowDot(t, fmt, xs, ys, nb) ==
  IF fmt = "q8_0" /\ t \in {"dotprod", "baseline"}
  THEN IF t = "dotprod" THEN DotprodQ8_0Row(xs, ys, nb) ELSE NeonQ8_0Row(t, xs, ys, nb)
  ELSE [b \in 0 .. nb - 1 |-> BlockDot(t, fmt, xs[b], ys[b])]

\* The only product that takes its activations unquantised, and has one version.
Q4_0Row(xs, ys, nb) ==
  LET pair(b, i) == ((xs[b][i] % 16) - 8) * ys[b][2*i] + ((xs[b][i] \div 16) - 8) * ys[b][2*i + 1]
  IN  [b \in 0 .. nb - 1 |-> [isum |-> Total([i \in 0 .. H - 1 |-> pair(b, i)], H), mins |-> 0]]

(***************************************************************************)
(* The tiled float products, by which element of C is written from which    *)
(* row of A and of Bt: all three as offsets into their matrices.  The fp16  *)
(* versions differ only in how they widen an element.                       *)
(***************************************************************************)
MR == 4
NR == 8

Block(m, n, a, lda, b, ldb, c, ldc) ==
  {[c |-> c + i*ldc + j, a |-> a + i*lda, b |-> b + j*ldb] : i \in 0 .. m - 1, j \in 0 .. n - 1}

Kernel4x8(a, lda, b, ldb, c, ldc) == Block(4, 8, a, lda, b, ldb, c, ldc)

\* Mutant: the rows left over are computed for the columns left over only.
SgemmCorner(m, n, lda, ldb, ldc) ==
  LET mMain  == (m \div MR) * MR
      nMain  == (n \div NR) * NR
      mTiles == {MR * i : i \in 0 .. (mMain \div MR) - 1}
      nTiles == {NR * i : i \in 0 .. (nMain \div NR) - 1}
  IN  (UNION {Kernel4x8(i*lda, lda, j*ldb, ldb, i*ldc + j, ldc) : i \in mTiles, j \in nTiles})
      \cup (UNION {Block(MR, n - nMain, i*lda, lda, nMain*ldb, ldb, i*ldc + nMain, ldc) : i \in mTiles})
      \cup Block(m - mMain, n - nMain, mMain*lda, lda, nMain*ldb, ldb, mMain*ldc + nMain, ldc)

SgemmTiled(m, n, lda, ldb, ldc) ==
  LET mMain  == (m \div MR) * MR
      nMain  == (n \div NR) * NR
      mTiles == {MR * i : i \in 0 .. (mMain \div MR) - 1}
      nTiles == {NR * i : i \in 0 .. (nMain \div NR) - 1}
  IN  (UNION {Kernel4x8(i*lda, lda, j*ldb, ldb, i*ldc + j, ldc) : i \in mTiles, j \in nTiles})
      \cup (UNION {Block(MR, n - nMain, i*lda, lda, nMain*ldb, ldb, i*ldc + nMain, ldc) : i \in mTiles})
      \cup Block(m - mMain, n, mMain*lda, lda, 0, ldb, mMain*ldc, ldc)

HgemmTiledF16c(m, n, lda, ldb, ldc) == SgemmTiled(m, n, lda, ldb, ldc)

HgemmTiled(g_cpu, m, n, lda, ldb, ldc) ==
  IF "f16c" \in g_cpu THEN HgemmTiledF16c(m, n, lda, ldb, ldc)
  ELSE SgemmTiled(m, n, lda, ldb, ldc)

-----------------------------------------------------------------------------
(***************************************************************************)
(* The calls.  A product takes the columns (tokens) in turn: it quantises a *)
(* column into one scratch row and then computes all output rows from it,   *)
(* in parallel and in any order, before the next column overwrites it.      *)
(***************************************************************************)
VARIABLES
  cpu,     \* the processor the program runs on
  g_cpu,   \* what simd_init detected of it
  tier,    \* the four function pointers
  mm,      \* the product in progress
  gemm     \* the last float product

vars == <<cpu, g_cpu, tier, mm, gemm>>

NoCall == [fmt |-> "none"]
Pick(seq, i) == seq[(i % Len(seq)) + 1]     \* patterns in turn

Source(s, t, b) == Pick(Sources, s + t + b)
WeightBlock(fmt, w, j, b) ==
  LET bytes == Pick(Bytes, w + j + 2*b)
  IN  CASE fmt = "q4k"  -> Q4KBlock(bytes) [] fmt = "q5k"  -> Q5KBlock(bytes)
        [] fmt = "q6k"  -> Q6KBlock(bytes) [] fmt = "q8_0" -> Q8Block(bytes)
        [] fmt = "q4_0" -> PackQ4_0(Source(w, j, b))

WeightRow(fmt, w, j) == [b \in 0 .. NBlocks - 1 |-> WeightBlock(fmt, w, j, b)]

Scratch(fmt, s, t) ==
  [b \in 0 .. NBlocks - 1 |->
     CASE fmt \in {"q4k", "q5k", "q6k"} -> QuantizeQ8K(Source(s, t, b))
       [] fmt = "q8_0" -> QuantizeQ8_0(Source(s, t, b))
       [] fmt = "q4_0" -> Source(s, t, b)]

Init ==
  /\ cpu \in Cpus
  /\ g_cpu = {}
  /\ tier = "scalar"
  /\ mm = NoCall
  /\ gemm = NoCall

SimdInit ==
  /\ mm = NoCall
  /\ g_cpu = {} /\ tier = "scalar"
  /\ g_cpu' = DetectCpu(cpu)
  /\ tier' = DispatchTier(DetectCpu(cpu))
  /\ UNCHANGED <<cpu, mm, gemm>>

Start(fmt, w, s) ==
  /\ mm = NoCall
  /\ mm' = [fmt |-> fmt, w |-> w, s |-> s, xq |-> 0, todo |-> {}, out |-> {}]
  /\ gemm' = NoCall
  /\ UNCHANGED <<cpu, g_cpu, tier>>

MatmulQ4K(w, s)  == Start("q4k", w, s)

MatmulQ5K(w, s)  == Start("q5k", w, s)

MatmulQ6K(w, s)  == Start("q6k", w, s)

MatmulQ8_0(w, s) == Start("q8_0", w, s)

MatmulQ4_0(w, s) == Start("q4_0", w, s)

\* Mutant: the scratch row is refilled while rows of the column before still run.
NextColumnAtOnce ==
  /\ mm # NoCall
  /\ mm.xq < Tokens
  /\ mm' = [mm EXCEPT !.xq = @ + 1, !.todo = mm.todo \cup ({mm.xq + 1} \X (0 .. OutF - 1))]
  /\ UNCHANGED <<cpu, g_cpu, tier, gemm>>

\* quantize_row_*: xq names the column whose bytes are in the scratch row.
NextColumn ==
  /\ mm # NoCall
  /\ mm.todo = {} /\ mm.xq < Tokens
  /\ mm' = [mm EXCEPT !.xq = @ + 1, !.todo = mm.todo \cup ({mm.xq + 1} \X (0 .. OutF - 1))]
  /\ UNCHANGED <<cpu, g_cpu, tier, gemm>>

\* One iteration of LLM_PAR_FOR, for column c[1] and row c[2].
Row(c) ==
  /\ mm # NoCall
  /\ c \in mm.todo
  /\ LET xs == WeightRow(mm.fmt, mm.w, c[2])
         ys == Scratch(mm.fmt, mm.s, mm.xq)
         r  == IF mm.fmt = "q4_0" THEN Q4_0Row(xs, ys, NBlocks)
               ELSE RowDot(tier, mm.fmt, xs, ys, NBlocks)
     IN  mm' = [mm EXCEPT !.todo = @ \ {c}, !.out = @ \cup {[at |-> c, blocks |-> r]}]
  /\ UNCHANGED <<cpu, g_cpu, tier, gemm>>

Return ==
  /\ mm # NoCall
  /\ mm.todo = {} /\ mm.xq = Tokens
  /\ mm' = NoCall
  /\ UNCHANGED <<cpu, g_cpu, tier, gemm>>

\* C has two spare columns, so a tile that runs over shows.
Gemm(kind, m, n) ==
  /\ mm = NoCall /\ gemm = NoCall
  /\ gemm' = [fmt |-> kind, m |-> m, n |-> n]
  /\ UNCHANGED <<cpu, g_cpu, tier, mm>>

Next ==
  \/ SimdInit
  \/ \E w \in Weights, s \in Columns :
       \/ MatmulQ4K(w, s) \/ MatmulQ5K(w, s) \/ MatmulQ6K(w, s)
       \/ MatmulQ8_0(w, s) \/ MatmulQ4_0(w, s)
  \/ NextColumn
  \/ \E c \in (1 .. Tokens) \X (0 .. OutF - 1) : Row(c)
  \/ Return
  \/ \E kind \in {"sgemm", "hgemm"}, m \in 1 .. MaxM, n \in 1 .. MaxN : Gemm(kind, m, n)

Spec == Init /\ [][Next]_vars

-----------------------------------------------------------------------------
(***************************************************************************)
(* Properties.                                                             *)
(***************************************************************************)
Dequant(fmt, x) ==
  CASE fmt = "q4k" -> DequantQ4K(x) [] fmt = "q5k"  -> DequantQ5K(x)
    [] fmt = "q6k" -> DequantQ6K(x) [] fmt = "q8_0" -> DequantQ8_0(x)

Q4_0Weight(x, i) == (IF i % 2 = 0 THEN x[i \div 2] % 16 ELSE x[i \div 2] \div 16) - 8

Results == IF mm = NoCall THEN {} ELSE mm.out

\* Whatever the tier, the order in which the rows are computed and the fields
\* the weights are packed in, an integer result is exactly the sum of the
\* dequantised weights (tensor.c's dequantisers, a separate reading of the
\* layout) times the numbers in the scratch row for the cell's own column: no
\* lane loses a bit to a shift, a mask, a saturating add or a 16-bit sum, no tail
\* block is skipped, and no row reads the scratch of another column.
MatmulIsReference ==
  \A o \in Results : \A b \in 0 .. NBlocks - 1 :
    LET x == WeightBlock(mm.fmt, mm.w, o.at[2], b)
        y == Scratch(mm.fmt, mm.s, o.at[1])[b]
    IN  IF mm.fmt = "q4_0"
        THEN o.blocks[b].isum = Total([i \in 0 .. W - 1 |-> Q4_0Weight(x, i) * y[i]], W)
        ELSE
          LET n == IF mm.fmt = "q8_0" THEN W ELSE Q
              w == Dequant(mm.fmt, x)
          IN  /\ o.blocks[b].isum = Total([i \in 0 .. n - 1 |-> w[i].d * y.qs[i]], n)
              /\ o.blocks[b].mins = Total([i \in 0 .. n - 1 |-> w[i].m * y.qs[i]], n)

\* Both roundings in use, to even and away from zero, and the packer of Q4_0
\* lose at most half a step per number: multiplied back by its block's factor
\* (the largest value over 127, or over 7) a quantised number is one of the
\* nearest to the original, whichever sign the largest value has, and no number
\* is moved by the clipping or by the field it is packed in.
NearestNumbers ==
  mm # NoCall /\ mm.xq > 0 =>
    \A b \in 0 .. NBlocks - 1 :
      IF mm.fmt = "q4_0"
      THEN LET v == Source(mm.w, 0, b)
               x == PackQ4_0(v)
               big == Abs(v[MaxAbsAt(v, W)])
           IN  \A i \in 0 .. W - 1 : Abs(2 * (Q4_0Weight(x, i) * big - 7 * v[i])) <= big
      ELSE LET s   == Source(mm.s, mm.xq, b)
               n   == IF mm.fmt = "q8_0" THEN W ELSE Q
               big == s[MaxAbsAt(s, n)]
               top == IF n = Q THEN -big ELSE Abs(big)
               y   == Scratch(mm.fmt, mm.s, mm.xq)[b]
           IN  \A i \in 0 .. n - 1 : Abs(2 * (y.qs[i] * top - 127 * s[i])) <= Abs(big)

\* The tiles of simd_sgemm_tiled and of its two fp16 copies write every element
\* of C, each from its own row of A and its own row of Bt, and nothing outside C,
\* whatever is left over beyond multiples of four rows and eight columns.
GemmCoversC ==
  gemm # NoCall =>
    LET m == gemm.m  n == gemm.n  lda == 5  ldb == 3  ldc == n + 2
        writes == IF gemm.fmt = "hgemm" THEN HgemmTiled(g_cpu, m, n, lda, ldb, ldc)
                  ELSE SgemmTiled(m, n, lda, ldb, ldc)
    IN  writes = {[c |-> i*ldc + j, a |-> i*lda, b |-> j*ldb] : i \in 0 .. m - 1, j \in 0 .. n - 1}

=============================================================================
