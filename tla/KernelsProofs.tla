---------------------------- MODULE KernelsProofs ----------------------------
(***************************************************************************)
(* For matrices of any size: the tiles of the float products write every   *)
(* element once, from its own rows; and for any number of columns and rows *)
(* each row of a quantised product reads the scratch of its own column;    *)
(* for any numbers, the quantisers round to a nearest one; and for any     *)
(* weights and columns, every version of a quantised product gives the sum *)
(* of the dequantised weights times the column.  For any ring, head, chunk *)
(* and prompt, the chunked kernel of the DeltaNet layers computes what the *)
(* recurrence does.                                                        *)
(***************************************************************************)
EXTENDS Kernels, DeltaNet, NumberFacts, SequenceTheorems, TLAPS

-----------------------------------------------------------------------------
(* Tiles.                                                                  *)

\* The element in row i and column j, and the rows it is computed from
Cell(i, j, lda, ldb, ldc) == [c |-> i*ldc + j, a |-> i*lda, b |-> j*ldb]

LEMMA Distribution ==
  ASSUME NEW p \in Int, NEW q \in Int, NEW d \in Int
  PROVE  p*d + q*d = (p + q)*d /\ p*d \in Int
OBVIOUS

\* The cells of m rows from row p and n columns from column q
Rect(p, q, m, n, lda, ldb, ldc) ==
  {Cell(i, j, lda, ldb, ldc) : i \in p..p + m - 1, j \in q..q + n - 1}

LEMMA RectHas ==
  ASSUME NEW m, NEW n, NEW p, NEW q, NEW lda, NEW ldb, NEW ldc,
         NEW i \in p..p + m - 1, NEW j \in q..q + n - 1
  PROVE  Cell(i, j, lda, ldb, ldc) \in Rect(p, q, m, n, lda, ldb, ldc)
BY DEF Rect

LEMMA RectOnly ==
  ASSUME NEW m, NEW n, NEW p, NEW q, NEW lda, NEW ldb, NEW ldc,
         NEW x \in Rect(p, q, m, n, lda, ldb, ldc)
  PROVE  \E i \in p..p + m - 1, j \in q..q + n - 1 : x = Cell(i, j, lda, ldb, ldc)
BY DEF Rect

\* What a block that begins at row p and column q writes
Elem(i, j, p, q, lda, ldb, ldc) ==
  [c |-> (p*ldc + q) + i*ldc + j, a |-> p*lda + i*lda, b |-> q*ldb + j*ldb]

BlockFrom(p, q, m, n, lda, ldb, ldc) ==
  {Elem(i, j, p, q, lda, ldb, ldc) : i \in 0..m - 1, j \in 0..n - 1}

LEMMA BlockHas ==
  ASSUME NEW m, NEW n, NEW p, NEW q, NEW lda, NEW ldb, NEW ldc,
         NEW i \in 0..m - 1, NEW j \in 0..n - 1
  PROVE  Elem(i, j, p, q, lda, ldb, ldc) \in BlockFrom(p, q, m, n, lda, ldb, ldc)
BY DEF BlockFrom

LEMMA BlockOnly ==
  ASSUME NEW m, NEW n, NEW p, NEW q, NEW lda, NEW ldb, NEW ldc,
         NEW x \in BlockFrom(p, q, m, n, lda, ldb, ldc)
  PROVE  \E i \in 0..m - 1, j \in 0..n - 1 : x = Elem(i, j, p, q, lda, ldb, ldc)
BY DEF BlockFrom

\* What such a block should write
IsRect(p, q, m, n, lda, ldb, ldc) ==
  BlockFrom(p, q, m, n, lda, ldb, ldc) = Rect(p, q, m, n, lda, ldb, ldc)

\* A block that begins at row p and column q covers a rectangle of C.
LEMMA BlockAt ==
  ASSUME NEW m \in Int, NEW n \in Int, NEW p \in Int, NEW q \in Int,
         NEW lda \in Int, NEW ldb \in Int, NEW ldc \in Int
  PROVE  IsRect(p, q, m, n, lda, ldb, ldc)
<1> DEFINE B(i, j) == Elem(i, j, p, q, lda, ldb, ldc)
           blk == BlockFrom(p, q, m, n, lda, ldb, ldc)
           rct == Rect(p, q, m, n, lda, ldb, ldc)
<1>1. ASSUME NEW i \in Int, NEW j \in Int
      PROVE  B(i, j) = Cell(p + i, q + j, lda, ldb, ldc)
  <2>1. p*lda + i*lda = (p + i)*lda /\ q*ldb + j*ldb = (q + j)*ldb
    BY Distribution
  <2>2. p*ldc + i*ldc = (p + i)*ldc /\ p*ldc \in Int /\ i*ldc \in Int
    BY Distribution
  <2> DEFINE x == p*ldc
             y == i*ldc
             z == (p + i)*ldc
  <2>3. x + y = z /\ x \in Int /\ y \in Int
    BY <2>2
  <2> HIDE DEF x, y, z
  <2>4. (x + q) + y + j = z + (q + j)
    BY <2>3
  <2> QED BY <2>1, <2>4 DEF Cell, Elem, x, y, z
<1>2. ASSUME NEW e \in blk PROVE e \in rct
  <2>1. PICK i \in 0..m - 1, j \in 0..n - 1 : e = B(i, j)
    BY BlockOnly
  <2> HIDE DEF B
  <2>2. i \in Int /\ j \in Int /\ p + i \in p..p + m - 1 /\ q + j \in q..q + n - 1
    OBVIOUS
  <2>3. e = Cell(p + i, q + j, lda, ldb, ldc)
    BY <1>1, <2>1, <2>2
  <2> QED BY <2>2, <2>3, RectHas
<1>3. ASSUME NEW e \in rct PROVE e \in blk
  <2>1. PICK i \in p..p + m - 1, j \in q..q + n - 1 : e = Cell(i, j, lda, ldb, ldc)
    BY RectOnly
  <2>2. /\ i - p \in 0..m - 1 /\ j - q \in 0..n - 1 /\ i - p \in Int /\ j - q \in Int
        /\ p + (i - p) = i /\ q + (j - q) = j
    OBVIOUS
  <2> HIDE DEF B
  <2>3. e = B(i - p, j - q)
    BY <1>1, <2>1, <2>2
  <2>4. B(i - p, j - q) \in blk
    BY <2>2, BlockHas DEF B
  <2> QED BY <2>3, <2>4
<1> HIDE DEF blk, rct
<1>4. blk = rct
  BY <1>2, <1>3
<1> QED BY <1>4 DEF blk, rct, IsRect

\* Where the tiles of four, or of eight, end.
LEMMA LastTile ==
  ASSUME NEW n \in Nat
  PROVE  /\ ((n \div 4) * 4) \div 4 = n \div 4 /\ (n \div 4) * 4 \in 0..n
         /\ ((n \div 8) * 8) \div 8 = n \div 8 /\ (n \div 8) * 8 \in 0..n
OBVIOUS

\* Three families of sets, put together
Union3(S, T, u) == (UNION S) \cup (UNION T) \cup u

LEMMA Union3Has ==
  ASSUME NEW S, NEW T, NEW u
  PROVE  /\ \A s \in S : s \subseteq Union3(S, T, u)
         /\ \A t \in T : t \subseteq Union3(S, T, u)
         /\ u \subseteq Union3(S, T, u)
         /\ \A x \in Union3(S, T, u) :
              (\E s \in S : x \in s) \/ (\E t \in T : x \in t) \/ x \in u
<1>1. ASSUME NEW V, NEW s \in V PROVE s \subseteq UNION V
  OBVIOUS
<1>2. ASSUME NEW V, NEW x \in UNION V PROVE \E s \in V : x \in s
  OBVIOUS
<1>3. ASSUME NEW s \in S PROVE s \subseteq Union3(S, T, u)
  BY <1>1 DEF Union3
<1>4. ASSUME NEW t \in T PROVE t \subseteq Union3(S, T, u)
  BY <1>1 DEF Union3
<1>5. u \subseteq Union3(S, T, u)
  BY DEF Union3
<1>6. ASSUME NEW x \in Union3(S, T, u)
      PROVE  (\E s \in S : x \in s) \/ (\E t \in T : x \in t) \/ x \in u
  BY <1>2 DEF Union3
<1> QED BY <1>3, <1>4, <1>5, <1>6

LEMMA TilesCover ==
  ASSUME NEW m \in Nat, NEW n \in Nat, NEW lda \in Int, NEW ldb \in Int, NEW ldc \in Int
  PROVE  SgemmTiled(m, n, lda, ldb, ldc) = Rect(0, 0, m, n, lda, ldb, ldc)
<1> DEFINE mMain  == (m \div 4) * 4
           nMain  == (n \div 8) * 8
           mTiles == {4 * k : k \in 0..(m \div 4) - 1}
           nTiles == {8 * k : k \in 0..(n \div 8) - 1}
           At(p, q) == Cell(p, q, lda, ldb, ldc)
           Inner(p, q) == Rect(p, q, 4, 8, lda, ldb, ldc)
           Inners == {Inner(p, q) : p \in mTiles, q \in nTiles}
           Right(p) == Rect(p, nMain, 4, n - nMain, lda, ldb, ldc)
           Rights == {Right(p) : p \in mTiles}
           Below == Rect(mMain, 0, m - mMain, n, lda, ldb, ldc)
           All == Rect(0, 0, m, n, lda, ldb, ldc)
           Tiles == SgemmTiled(m, n, lda, ldb, ldc)
<1>1. /\ mMain \div 4 = m \div 4 /\ mMain \in 0..m
      /\ nMain \div 8 = n \div 8 /\ nMain \in 0..n
  BY LastTile
<1>2. /\ \A p \in mTiles : p \in Int /\ \A i \in p..p + 4 - 1 : i \in 0..0 + m - 1
      /\ \A q \in nTiles : q \in Int /\ \A j \in q..q + 8 - 1 : j \in 0..0 + n - 1
  <2>1. \A k \in 0..(m \div 4) - 1 :
          4*k \in Int /\ \A i \in 4*k..4*k + 4 - 1 : i \in 0..0 + m - 1
    OBVIOUS
  <2>2. \A k \in 0..(n \div 8) - 1 :
          8*k \in Int /\ \A j \in 8*k..8*k + 8 - 1 : j \in 0..0 + n - 1
    OBVIOUS
  <2> QED BY <2>1, <2>2
<1>3. /\ mMain \in Int /\ nMain \in Int /\ m - mMain \in Int /\ n - nMain \in Int
      /\ n \in Int /\ 0 \in Int /\ 4 \in Int /\ 8 \in Int
      /\ \A i \in mMain..mMain + (m - mMain) - 1 : i \in 0..0 + m - 1
      /\ \A j \in nMain..nMain + (n - nMain) - 1 : j \in 0..0 + n - 1
  BY <1>1
<1>4. Tiles = Union3(Inners, Rights, Below)
  <2>1. ASSUME NEW p \in mTiles, NEW q \in nTiles
        PROVE  Kernel4x8(p*lda, lda, q*ldb, ldb, p*ldc + q, ldc) = Inner(p, q)
    <3>1. p \in Int /\ q \in Int
      BY <1>2
    <3> HIDE DEF mTiles, nTiles
    <3>2. IsRect(p, q, 4, 8, lda, ldb, ldc)
      BY <1>3, <3>1, BlockAt
    <3> QED BY <3>2 DEF IsRect, Kernel4x8, Block, BlockFrom, Elem
  <2>2. ASSUME NEW p \in mTiles
        PROVE  Block(4, n - nMain, p*lda, lda, nMain*ldb, ldb, p*ldc + nMain, ldc) = Right(p)
    <3>1. p \in Int
      BY <1>2
    <3> HIDE DEF nMain, mTiles
    <3>2. IsRect(p, nMain, 4, n - nMain, lda, ldb, ldc)
      BY <1>3, <3>1, BlockAt
    <3> QED BY <3>2 DEF IsRect, Block, BlockFrom, Elem
  <2>3. Block(m - mMain, n, mMain*lda, lda, 0, ldb, mMain*ldc, ldc) = Below
    <3> HIDE DEF mMain
    <3>1. IsRect(mMain, 0, m - mMain, n, lda, ldb, ldc)
      BY <1>3, BlockAt
    <3>2. 0*ldb = 0 /\ mMain*ldc + 0 = mMain*ldc
      BY <1>3, Distribution
    <3>3. Block(m - mMain, n, mMain*lda, lda, 0*ldb, ldb, mMain*ldc + 0, ldc)
          = BlockFrom(mMain, 0, m - mMain, n, lda, ldb, ldc)
      BY DEF Block, BlockFrom, Elem
    <3> QED BY <3>1, <3>2, <3>3 DEF IsRect
  <2>4. Tiles
        = (UNION {Kernel4x8(p*lda, lda, q*ldb, ldb, p*ldc + q, ldc) : p \in mTiles, q \in nTiles})
          \cup (UNION {Block(4, n - nMain, p*lda, lda, nMain*ldb, ldb, p*ldc + nMain, ldc) : p \in mTiles})
          \cup Block(m - mMain, n, mMain*lda, lda, 0, ldb, mMain*ldc, ldc)
    BY <1>1 DEF SgemmTiled, MR, NR
  <2> HIDE DEF mMain, nMain, mTiles, nTiles, Inner, Right, Below, Tiles
  <2> QED BY <2>1, <2>2, <2>3, <2>4 DEF Union3
<1>5. /\ \A p \in mTiles, q \in nTiles : Inner(p, q) \subseteq Tiles
      /\ \A p \in mTiles : Right(p) \subseteq Tiles
      /\ Below \subseteq Tiles
  <2>1. \A p \in mTiles, q \in nTiles : Inner(p, q) \in Inners
    <3> HIDE DEF mTiles, nTiles, Inner
    <3> QED OBVIOUS
  <2>2. \A p \in mTiles : Right(p) \in Rights
    <3> HIDE DEF mTiles, Right
    <3> QED OBVIOUS
  <2> HIDE DEF mTiles, nTiles, Inner, Inners, Right, Rights, Below, Tiles
  <2> QED BY <1>4, <2>1, <2>2, Union3Has
<1>6. ASSUME NEW x \in Tiles PROVE x \in All
  <2>1. CASE \E p \in mTiles, q \in nTiles : x \in Inner(p, q)
    <3>1. PICK p \in mTiles, q \in nTiles : x \in Inner(p, q)
      BY <2>1
    <3>2. PICK i \in p..p + 4 - 1, j \in q..q + 8 - 1 : x = At(i, j)
      BY <3>1, RectOnly
    <3> QED BY <1>2, <3>2, RectHas
  <2>2. CASE \E p \in mTiles : x \in Right(p)
    <3>1. PICK p \in mTiles : x \in Right(p)
      BY <2>2
    <3> HIDE DEF nMain, mTiles
    <3>2. PICK i \in p..p + 4 - 1, j \in nMain..nMain + (n - nMain) - 1 : x = At(i, j)
      BY <3>1, RectOnly
    <3> QED BY <1>2, <1>3, <3>2, RectHas
  <2>3. CASE x \in Below
    <3> HIDE DEF mMain
    <3>1. PICK i \in mMain..mMain + (m - mMain) - 1, j \in 0..0 + n - 1 : x = At(i, j)
      BY <2>3, RectOnly
    <3> QED BY <1>3, <3>1, RectHas
  <2>4. \A t \in Inners : \E p \in mTiles, q \in nTiles : t = Inner(p, q)
    <3> HIDE DEF mTiles, nTiles, Inner
    <3> QED OBVIOUS
  <2>5. \A t \in Rights : \E p \in mTiles : t = Right(p)
    <3> HIDE DEF mTiles, Right
    <3> QED OBVIOUS
  <2> HIDE DEF mTiles, nTiles, Inner, Inners, Right, Rights, Below, Tiles, All
  <2>6. (\E t \in Inners : x \in t) \/ (\E t \in Rights : x \in t) \/ x \in Below
    BY <1>4, Union3Has
  <2> QED BY <2>1, <2>2, <2>3, <2>4, <2>5, <2>6
<1>7. ASSUME NEW i \in 0..0 + m - 1, NEW j \in 0..0 + n - 1
      PROVE  At(i, j) \in Tiles
  <2>1. i \in Int /\ j \in Int
    OBVIOUS
  <2>2. CASE i >= mMain
    <3>1. i \in mMain..mMain + (m - mMain) - 1
      BY <1>1, <2>2
    <3> HIDE DEF mMain, Tiles
    <3>2. At(i, j) \in Below
      BY <3>1, RectHas
    <3> QED BY <1>5, <3>2
  <2>3. CASE i < mMain
    <3> DEFINE p == 4 * (i \div 4)
    <3>1. p \in mTiles /\ i \in p..p + 4 - 1
      <4>1. i \div 4 \in 0..(m \div 4) - 1 /\ i \in 4 * (i \div 4)..4 * (i \div 4) + 4 - 1
        BY <2>3
      <4> QED BY <4>1
    <3>2. CASE j >= nMain
      <4>1. j \in nMain..nMain + (n - nMain) - 1
        BY <1>1, <3>2
      <4> HIDE DEF nMain, p, mTiles, Tiles
      <4>2. At(i, j) \in Right(p)
        BY <3>1, <4>1, RectHas
      <4> QED BY <1>5, <3>1, <4>2
    <3>3. CASE j < nMain
      <4> DEFINE q == 8 * (j \div 8)
      <4>1. q \in nTiles /\ j \in q..q + 8 - 1
        <5>1. j \div 8 \in 0..(n \div 8) - 1 /\ j \in 8 * (j \div 8)..8 * (j \div 8) + 8 - 1
          BY <3>3
        <5> QED BY <5>1
      <4> HIDE DEF p, q, mTiles, nTiles, Tiles
      <4>2. At(i, j) \in Inner(p, q)
        BY <3>1, <4>1, RectHas
      <4> QED BY <1>5, <3>1, <4>1, <4>2
    <3> QED BY <1>1, <2>1, <3>2, <3>3
  <2> QED BY <1>1, <2>1, <2>2, <2>3
<1>8. ASSUME NEW x \in All PROVE x \in Tiles
  <2>1. PICK i \in 0..0 + m - 1, j \in 0..0 + n - 1 : x = At(i, j)
    BY RectOnly
  <2> QED BY <1>7, <2>1
<1> HIDE DEF Tiles, All
<1>9. Tiles = All
  BY <1>6, <1>8
<1> QED BY <1>9 DEF Tiles, All

\* The sizes of a float product are numbers.
Sized == gemm # NoCall => gemm.m \in Nat /\ gemm.n \in Nat

LEMMA SizedReached == Spec => []Sized
<1>1. Init => Sized
  BY DEF Init, Sized
<1>2. Sized /\ [Next]_vars => Sized'
  <2> SUFFICES ASSUME Sized, [Next]_vars PROVE Sized'
    OBVIOUS
  <2>1. ASSUME NEW kind \in {"sgemm", "hgemm"}, NEW m \in 1..MaxM, NEW n \in 1..MaxN,
               Gemm(kind, m, n)
        PROVE  Sized'
    BY <2>1 DEF Gemm, Sized
  <2>2. ASSUME gemm' = gemm \/ gemm' = NoCall PROVE Sized'
    BY <2>2 DEF Sized, NoCall
  <2>3. ASSUME NEW w, NEW s,
               \/ MatmulQ4K(w, s) \/ MatmulQ5K(w, s) \/ MatmulQ6K(w, s)
               \/ MatmulQ8_0(w, s) \/ MatmulQ4_0(w, s)
        PROVE  Sized'
    BY <2>2, <2>3 DEF MatmulQ4K, MatmulQ5K, MatmulQ6K, MatmulQ8_0, MatmulQ4_0, Start
  <2>4. ASSUME NEW c, Row(c) PROVE Sized'
    BY <2>2, <2>4 DEF Row
  <2>5. CASE SimdInit \/ NextColumn \/ Return \/ UNCHANGED vars
    BY <2>2, <2>5 DEF SimdInit, NextColumn, Return, vars
  <2> QED BY <2>1, <2>3, <2>4, <2>5 DEF Next
<1> QED BY <1>1, <1>2, PTL DEF Spec

\* The tiles write every element of C from its own rows and nothing outside C,
\* for matrices of any size.
THEOREM TilesCoverC == Spec => []GemmCoversC
<1>1. Sized => GemmCoversC
  <2> SUFFICES ASSUME Sized, gemm # NoCall PROVE GemmCoversC
    BY DEF GemmCoversC
  <2> DEFINE m == gemm.m
             n == gemm.n
  <2>1. m \in Nat /\ n \in Nat /\ n + 2 \in Int /\ 5 \in Int /\ 3 \in Int
    BY DEF Sized
  <2> HIDE DEF m, n
  <2>2. SgemmTiled(m, n, 5, 3, n + 2) = Rect(0, 0, m, n, 5, 3, n + 2)
    BY <2>1, TilesCover
  <2>3. HgemmTiled(g_cpu, m, n, 5, 3, n + 2) = SgemmTiled(m, n, 5, 3, n + 2)
    BY DEF HgemmTiled, HgemmTiledF16c
  <2>4. Rect(0, 0, m, n, 5, 3, n + 2)
        = {[c |-> i*(n + 2) + j, a |-> i*5, b |-> j*3] : i \in 0 .. m - 1, j \in 0 .. n - 1}
    <3>1. 0 + m - 1 = m - 1 /\ 0 + n - 1 = n - 1
      BY <2>1
    <3> QED BY <3>1 DEF Rect, Cell
  <2> QED BY <2>2, <2>3, <2>4 DEF GemmCoversC, m, n
<1> QED BY <1>1, SizedReached, PTL

-----------------------------------------------------------------------------
(* The scratch row.                                                        *)

\* What a cell's result should be computed from: its own row of weights and
\* its own column
OwnResult(c) ==
  LET xs == WeightRow(mm.fmt, mm.w, c[2])
      ys == Scratch(mm.fmt, mm.s, c[1])
  IN  IF mm.fmt = "q4_0" THEN Q4_0Row(xs, ys, NBlocks)
      ELSE RowDot(tier, mm.fmt, xs, ys, NBlocks)

\* Rows that are left belong to the column in the scratch row, and those done
\* have been computed from their own
OwnColumns ==
  mm # NoCall =>
    /\ DOMAIN mm = {"fmt", "w", "s", "xq", "todo", "out"}
    /\ \A c \in mm.todo : c[1] = mm.xq
    /\ \A o \in mm.out : o.blocks = OwnResult(o.at)

\* The rows of a column may finish in any order: no row reads the scratch of
\* another column, and the tier does not change during a product.
THEOREM RowsReadTheirColumn == Spec => []OwnColumns
<1>1. Init => OwnColumns
  BY DEF Init, OwnColumns
<1>2. OwnColumns /\ [Next]_vars => OwnColumns'
  <2> SUFFICES ASSUME OwnColumns, [Next]_vars PROVE OwnColumns'
    OBVIOUS
  <2>1. ASSUME NEW fmt, NEW w, NEW s, Start(fmt, w, s) PROVE OwnColumns'
    BY <2>1 DEF Start, OwnColumns
  <2>2. ASSUME NEW w, NEW s,
               \/ MatmulQ4K(w, s) \/ MatmulQ5K(w, s) \/ MatmulQ6K(w, s)
               \/ MatmulQ8_0(w, s) \/ MatmulQ4_0(w, s)
        PROVE  OwnColumns'
    BY <2>1, <2>2 DEF MatmulQ4K, MatmulQ5K, MatmulQ6K, MatmulQ8_0, MatmulQ4_0
  <2>3. CASE SimdInit \/ Return
    BY <2>3 DEF SimdInit, Return, OwnColumns
  <2>4. CASE NextColumn
    <3>1. /\ mm # NoCall /\ DOMAIN mm = {"fmt", "w", "s", "xq", "todo", "out"}
          /\ mm.todo = {} /\ tier' = tier
          /\ mm' = [mm EXCEPT !.xq = @ + 1, !.todo = mm.todo \cup ({mm.xq + 1} \X (0 .. OutF - 1))]
      BY <2>4 DEF NextColumn, OwnColumns
    <3>2. /\ mm'.fmt = mm.fmt /\ mm'.w = mm.w /\ mm'.s = mm.s /\ mm'.xq = mm.xq + 1
          /\ mm'.todo = {mm.xq + 1} \X (0 .. OutF - 1) /\ mm'.out = mm.out
          /\ DOMAIN mm' = DOMAIN mm
      BY <3>1
    <3>3. \A c \in mm'.todo : c[1] = mm'.xq
      BY <3>2
    <3>4. \A o \in mm'.out : o.blocks = OwnResult(o.at)'
      BY <3>1, <3>2 DEF OwnColumns, OwnResult
    <3> QED BY <3>1, <3>2, <3>3, <3>4 DEF OwnColumns
  <2>5. ASSUME NEW c, Row(c) PROVE OwnColumns'
    <3> DEFINE r == OwnResult(c)
    <3>1. /\ mm # NoCall /\ DOMAIN mm = {"fmt", "w", "s", "xq", "todo", "out"}
          /\ c \in mm.todo /\ tier' = tier /\ c[1] = mm.xq
      BY <2>5 DEF Row, OwnColumns
    <3>2. mm' = [mm EXCEPT !.todo = @ \ {c}, !.out = @ \cup {[at |-> c, blocks |-> r]}]
      BY <2>5, <3>1 DEF Row, OwnResult
    <3> HIDE DEF r
    <3>3. /\ mm'.fmt = mm.fmt /\ mm'.w = mm.w /\ mm'.s = mm.s /\ mm'.xq = mm.xq
          /\ mm'.todo = mm.todo \ {c} /\ mm'.out = mm.out \cup {[at |-> c, blocks |-> r]}
          /\ DOMAIN mm' = DOMAIN mm
      BY <3>1, <3>2
    <3>4. \A x : OwnResult(x)' = OwnResult(x)
      BY <3>1, <3>3 DEF OwnResult
    <3>5. \A o \in mm'.out : o.blocks = OwnResult(o.at)
      BY <3>1, <3>3 DEF OwnColumns, r
    <3>6. \A x \in mm'.todo : x[1] = mm'.xq
      BY <3>1, <3>3 DEF OwnColumns
    <3> QED BY <3>1, <3>3, <3>4, <3>5, <3>6 DEF OwnColumns
  <2>6. ASSUME NEW kind, NEW m, NEW n, Gemm(kind, m, n) PROVE OwnColumns'
    BY <2>6 DEF Gemm, OwnColumns
  <2>7. CASE UNCHANGED vars
    BY <2>7 DEF vars, OwnColumns, OwnResult
  <2> QED BY <2>2, <2>3, <2>4, <2>5, <2>6, <2>7 DEF Next
<1> QED BY <1>1, <1>2, PTL DEF Spec
-----------------------------------------------------------------------------
(* Rounding.                                                               *)

\* Whole multiples of q, rounded to, and how far p is from one.
Near(v, q, p) == v \in Int /\ -q <= 2 * (v*q - p) /\ 2 * (v*q - p) <= q

LEMMA Multiples ==
  ASSUME NEW q \in Nat \ {0}, NEW v \in Int
  PROVE  /\ v*q \in Int /\ (v + 1)*q = v*q + q /\ (-v)*q = -(v*q) /\ v*(-q) = -(v*q)
         /\ v * (2*q) = 2 * (v*q)
OBVIOUS

LEMMA Increasing ==
  ASSUME NEW q \in Nat \ {0}, NEW v \in Int, NEW u \in Int, v <= u
  PROVE  v*q <= u*q
OBVIOUS

LEMMA EvenIsNear ==
  ASSUME NEW p \in Int, NEW q \in Nat \ {0}
  PROVE  Near(RoundEven(p, q), q, p)
<1>1. PICK f \in Int, r \in 0..q - 1 : p = f*q + r /\ p % q = r /\ p \div q = f
  BY DivMod
<1>2. f*q \in Int /\ (f + 1)*q = f*q + q
  BY Multiples
<1>3. CASE 2*r < q \/ (2*r = q /\ f % 2 = 0)
  <2>1. RoundEven(p, q) = f
    BY <1>1, <1>3 DEF RoundEven
  <2> DEFINE e == f*q
  <2>2. e \in Int /\ p = e + r /\ 2*r <= q
    BY <1>1, <1>2, <1>3
  <2> HIDE DEF e
  <2>3. -q <= 2 * (e - p) /\ 2 * (e - p) <= q
    BY <2>2
  <2> QED BY <2>1, <2>3 DEF Near, e
<1>4. CASE ~(2*r < q \/ (2*r = q /\ f % 2 = 0))
  <2>1. RoundEven(p, q) = f + 1
    BY <1>1, <1>4 DEF RoundEven
  <2> DEFINE e == f*q
  <2>2. e \in Int /\ p = e + r /\ 2*r >= q /\ (f + 1)*q = e + q
    BY <1>1, <1>2, <1>4
  <2> HIDE DEF e
  <2>3. -q <= 2 * ((e + q) - p) /\ 2 * ((e + q) - p) <= q
    BY <2>2
  <2> QED BY <2>1, <2>2, <2>3 DEF Near
<1> QED BY <1>3, <1>4

LEMMA AwayIsNear ==
  ASSUME NEW p \in Int, NEW q \in Nat \ {0}
  PROVE  Near(RoundAway(p, q), q, p)
<1>1. ASSUME NEW a \in Nat PROVE Near((2*a + q) \div (2*q), q, a)
  <2>1. 2*q \in Nat \ {0} /\ 2*a + q \in Int
    OBVIOUS
  <2>2. PICK k \in Int, r \in 0..2*q - 1 :
          2*a + q = k * (2*q) + r /\ (2*a + q) \div (2*q) = k
    BY <2>1, DivMod
  <2> DEFINE e == k*q
  <2>3. e \in Int /\ k * (2*q) = 2*e
    BY Multiples
  <2>4. 2*a + q = 2*e + r
    BY <2>2, <2>3
  <2> HIDE DEF e
  <2>5. -q <= 2 * (e - a) /\ 2 * (e - a) <= q
    BY <2>3, <2>4
  <2> QED BY <2>2, <2>5 DEF Near, e
<1>2. CASE p < 0
  <2> DEFINE k == (2 * (-p) + q) \div (2*q)
  <2>1. Near(k, q, -p)
    BY <1>1, <1>2
  <2>2. RoundAway(p, q) = -k
    BY <1>2 DEF RoundAway
  <2> HIDE DEF k
  <2> DEFINE e == k*q
  <2>3. k \in Int /\ -q <= 2 * (e - (-p)) /\ 2 * (e - (-p)) <= q
    BY <2>1 DEF Near
  <2>4. e \in Int /\ (-k)*q = -e
    BY <2>3, Multiples
  <2> HIDE DEF e
  <2>5. -q <= 2 * (-e - p) /\ 2 * (-e - p) <= q /\ -k \in Int
    BY <2>3, <2>4
  <2> QED BY <2>2, <2>4, <2>5 DEF Near
<1>3. CASE ~(p < 0)
  <2>1. p \in Nat /\ RoundAway(p, q) = (2*p + q) \div (2*q)
    BY <1>3 DEF RoundAway
  <2> QED BY <1>1, <2>1
<1> QED BY <1>2, <1>3

\* What is rounded from at most c steps is at most c.
LEMMA NearIsSmall ==
  ASSUME NEW q \in Nat \ {0}, NEW p \in Int, NEW v, NEW c \in Nat,
         Near(v, q, p), -(c*q) <= p, p <= c*q
  PROVE  -c <= v /\ v <= c
<1> DEFINE e == v*q
           d == c*q
<1>1. v \in Int /\ -q <= 2 * (e - p) /\ 2 * (e - p) <= q
  BY DEF Near
<1>2. e \in Int /\ d \in Int /\ (c + 1)*q = d + q /\ (-(c + 1))*q = -(d + q) /\ -d <= p /\ p <= d
  <2>1. d \in Int /\ (c + 1)*q = d + q
    BY Multiples
  <2>2. (-(c + 1))*q = -((c + 1)*q)
    BY Multiples
  <2>3. e \in Int
    BY <1>1, Multiples
  <2> QED BY <2>1, <2>2, <2>3
<1>3. ~(c + 1 <= v)
  <2> SUFFICES ASSUME c + 1 <= v PROVE FALSE
    OBVIOUS
  <2>1. (c + 1)*q <= e
    BY <1>1, Increasing
  <2> HIDE DEF e, d
  <2> QED BY <1>1, <1>2, <2>1
<1>4. ~(v <= -(c + 1))
  <2> SUFFICES ASSUME v <= -(c + 1) PROVE FALSE
    OBVIOUS
  <2>1. e <= (-(c + 1))*q
    BY <1>1, Increasing
  <2> HIDE DEF e, d
  <2> QED BY <1>1, <1>2, <2>1
<1> QED BY <1>1, <1>3, <1>4

-----------------------------------------------------------------------------
(* The largest of a block.                                                 *)

IsLargest(s, n, i) == i \in 0..n - 1 /\ \A k \in 0..n - 1 : Abs(s[k]) <= Abs(s[i])

LEMMA SizeOf == \A x \in Int : Abs(x) \in Nat /\ (Abs(x) = x \/ Abs(x) = -x) /\ (Abs(x) = 0 <=> x = 0)
BY DEF Abs

LEMMA LargestFound ==
  ASSUME NEW n \in Nat \ {0}, NEW s, \A k \in 0..n - 1 : s[k] \in Int
  PROVE  IsLargest(s, n, MaxAbsAt(s, n))
<1> DEFINE S == {m \in 0..n - 1 : \E i \in 0..m : \A k \in 0..m : Abs(s[k]) <= Abs(s[i])}
           Best == {i \in 0..n - 1 : IsLargest(s, n, i)}
<1>0. \A k \in 0..n - 1 : Abs(s[k]) \in Nat
  BY SizeOf
<1>1. 0 \in S
  BY <1>0
<1>2. ASSUME NEW m \in 1..n - 1, m - 1 \in S PROVE m \in S
  <2>1. PICK i \in 0..m - 1 : \A k \in 0..m - 1 : Abs(s[k]) <= Abs(s[i])
    BY <1>2
  <2>2. i \in 0..n - 1 /\ m \in 0..n - 1 /\ i \in 0..m /\ m \in 0..m
    OBVIOUS
  <2>3. \A k \in 0..m : k = m \/ k \in 0..m - 1
    OBVIOUS
  <2>4. \A k \in 0..m : k \in 0..n - 1
    OBVIOUS
  <2>5. CASE Abs(s[m]) <= Abs(s[i])
    <3>1. \A k \in 0..m : Abs(s[k]) <= Abs(s[i])
      BY <2>1, <2>3, <2>5
    <3> QED BY <2>2, <3>1
  <2>6. CASE Abs(s[i]) <= Abs(s[m])
    <3>1. \A k \in 0..m : Abs(s[k]) <= Abs(s[m])
      <4> SUFFICES ASSUME NEW k \in 0..m PROVE Abs(s[k]) <= Abs(s[m])
        OBVIOUS
      <4>1. Abs(s[k]) \in Nat /\ Abs(s[m]) \in Nat /\ Abs(s[i]) \in Nat
        BY <1>0, <2>2, <2>4
      <4> QED BY <2>1, <2>3, <2>6, <4>1
    <3> QED BY <2>2, <3>1
  <2> QED BY <1>0, <2>2, <2>5, <2>6
<1> HIDE DEF S
<1>3. \A m \in 0..n - 1 : m \in S
  <2>1. n - 1 \in Nat
    OBVIOUS
  <2> QED BY <1>1, <1>2, <2>1, UpTo
<1>4. Best # {} /\ Best \subseteq Nat
  <2>1. n - 1 \in S
    BY <1>3
  <2> QED BY <2>1 DEF S, IsLargest
<1> HIDE DEF Best
<1>5. PICK m \in Best : \A k \in Best : m <= k
  BY <1>4, LeastOf
<1>6. IsLargest(s, n, m)
  BY DEF Best
<1>7. ASSUME NEW k \in 0..m - 1 PROVE Abs(s[k]) < Abs(s[m])
  <2>1. m \in 0..n - 1 /\ k \in 0..n - 1 /\ ~(m <= k)
    BY <1>6 DEF IsLargest
  <2>2. k \notin Best
    BY <1>5, <2>1
  <2>3. PICK j \in 0..n - 1 : ~(Abs(s[j]) <= Abs(s[k]))
    BY <2>1, <2>2 DEF Best, IsLargest
  <2>4. Abs(s[j]) <= Abs(s[m])
    BY <1>6 DEF IsLargest
  <2> QED BY <1>0, <2>1, <2>3, <2>4
<1>8. \E i \in 0..n - 1 : /\ \A k \in 0..n - 1 : Abs(s[k]) <= Abs(s[i])
                         /\ \A k \in 0..i - 1 : Abs(s[k]) < Abs(s[i])
  BY <1>6, <1>7 DEF IsLargest
<1> QED BY <1>8 DEF MaxAbsAt, IsLargest

-----------------------------------------------------------------------------
(* The quantisers.                                                         *)

Numbers(s, n) == \A k \in 0..n - 1 : s[k] \in Int

WIs == W \in Nat \ {0} /\ Q \in Nat \ {0} /\ Q = 8*W /\ H \in Nat \ {0} /\ W = 2*H

LEMMA Widths == WIs /\ W # Q
<1>1. W \in Nat /\ W > 0 /\ W % 8 = 0
  BY KernelsAssumption
<1>2. PICK q \in Int, r \in 0..7 : W = q*8 + r /\ W % 8 = r
  BY <1>1, DivMod
<1>3. W = 2 * (4*q) + 0 /\ 4*q \in Int
  BY <1>1, <1>2
<1>4. W \div 2 = 4*q
  <2> DEFINE k == 4*q
  <2>1. k \in Int /\ W = k*2 + 0 /\ W \in Int /\ 2 \in Nat \ {0} /\ 0 \in 0..2 - 1
    BY <1>1, <1>3
  <2> HIDE DEF k
  <2> QED BY <2>1, DivModUnique DEF k
<1> QED BY <1>1, <1>3, <1>4 DEF WIs, H, Q

\* A super-block's number, times the largest of the block taken to be -127,
\* is one of the nearest to the original.
LEMMA Q8KIsNear ==
  ASSUME NEW s, Numbers(s, Q), NEW i \in 0..Q - 1
  PROVE  LET big == s[MaxAbsAt(s, Q)]
         IN  Abs(2 * (QuantizeQ8K(s).qs[i] * (-big) - 127 * s[i])) <= Abs(big)
<1> DEFINE big == s[MaxAbsAt(s, Q)]
           sgn == IF big < 0 THEN -1 ELSE 1
           q == Abs(big)
           p == -127 * s[i] * sgn
           v == RoundEven(p, q)
           z == QuantizeQ8K(s).qs[i]
<1>1. MaxAbsAt(s, Q) \in 0..Q - 1 /\ Abs(s[i]) <= q
  BY Widths, LargestFound DEF WIs, Numbers, IsLargest
<1>2. big \in Int /\ s[i] \in Int
  BY <1>1 DEF Numbers
<1>3. z = IF big = 0 THEN 0 ELSE Clip(v)
  BY DEF QuantizeQ8K
<1> HIDE DEF big, z
<1>4. CASE big = 0
  <2>1. z = 0 /\ q = 0 /\ s[i] = 0
    BY <1>1, <1>2, <1>3, <1>4 DEF Abs
  <2>2. Abs(2 * (z * (-big) - 127 * s[i])) <= Abs(big)
    BY <1>4, <2>1 DEF Abs
  <2> QED BY <2>2 DEF big, z
<1>5. CASE big # 0
  <2>1. /\ q \in Nat \ {0} /\ p \in Int /\ -(127*q) <= p /\ p <= 127*q
        /\ \/ sgn = 1 /\ q = big /\ p = -(127 * s[i])
           \/ sgn = -1 /\ q = -big /\ p = 127 * s[i]
    BY <1>1, <1>2, <1>5 DEF Abs
  <2> HIDE DEF sgn, p, q
  <2>2. Near(v, q, p)
    BY <2>1, EvenIsNear
  <2>3. -127 <= v /\ v <= 127
    BY <2>1, <2>2, NearIsSmall
  <2> HIDE DEF v
  <2>4. z = v
    BY <1>3, <1>5, <2>2, <2>3 DEF Clip, Near
  <2> DEFINE e == v*q
  <2>5. v \in Int /\ e \in Int /\ v * (-q) = -e /\ -q <= 2 * (e - p) /\ 2 * (e - p) <= q
    BY <2>1, <2>2, Multiples DEF Near
  <2>6. CASE q = big /\ p = -(127 * s[i])
    <3>1. z * (-big) = -e
      BY <2>4, <2>5, <2>6
    <3> HIDE DEF e
    <3>2. Abs(2 * (-e - 127 * s[i])) <= q
      BY <1>2, <2>1, <2>5, <2>6 DEF Abs
    <3>3. q = Abs(big)
      BY DEF q
    <3>4. Abs(2 * (z * (-big) - 127 * s[i])) <= Abs(big)
      BY <3>1, <3>2, <3>3
    <3> QED BY <3>4 DEF big, z
  <2>7. CASE q = -big /\ p = 127 * s[i]
    <3>1. z * (-big) = e
      BY <2>4, <2>7
    <3> HIDE DEF e
    <3>2. Abs(2 * (e - 127 * s[i])) <= q
      BY <1>2, <2>1, <2>5, <2>7 DEF Abs
    <3>3. q = Abs(big)
      BY DEF q
    <3>4. Abs(2 * (z * (-big) - 127 * s[i])) <= Abs(big)
      BY <3>1, <3>2, <3>3
    <3> QED BY <3>4 DEF big, z
  <2> QED BY <2>1, <2>6, <2>7
<1> QED BY <1>2, <1>4, <1>5

\* Rounding c*x steps of a, where a is no less than any number of the block,
\* stays within c steps.
LEMMA AwayInRange ==
  ASSUME NEW x \in Int, NEW a \in Nat \ {0}, Abs(x) <= a, NEW c \in {7, 127}
  PROVE  LET v == RoundAway(c*x, a)
         IN  /\ v \in Int /\ -c <= v /\ v <= c
             /\ Abs(2 * (v*a - c*x)) <= a
<1> DEFINE v == RoundAway(c*x, a)
           p == c*x
<1>1. c \in Nat /\ p \in Int /\ -(c*a) <= p /\ p <= c*a
  BY DEF Abs
<1> HIDE DEF p
<1>2. Near(v, a, p)
  BY <1>1, AwayIsNear DEF p
<1> HIDE DEF v
<1>3. -c <= v /\ v <= c /\ v \in Int
  BY <1>1, <1>2, NearIsSmall DEF Near
<1> DEFINE e == v*a
<1>4. e \in Int /\ -a <= 2 * (e - p) /\ 2 * (e - p) <= a
  BY <1>2, <1>3, Multiples DEF Near
<1> HIDE DEF e
<1>5. Abs(2 * (e - p)) <= a
  BY <1>1, <1>4 DEF Abs
<1> QED BY <1>3, <1>5 DEF e, v, p

LEMMA Q8_0IsNear ==
  ASSUME NEW s, Numbers(s, W), NEW i \in 0..W - 1
  PROVE  LET a == Abs(s[MaxAbsAt(s, W)])
         IN  Abs(2 * (QuantizeQ8_0(s).qs[i] * a - 127 * s[i])) <= a
<1> DEFINE a == Abs(s[MaxAbsAt(s, W)])
           v == RoundAway(127 * s[i], a)
           z == QuantizeQ8_0(s).qs[i]
<1>1. MaxAbsAt(s, W) \in 0..W - 1 /\ Abs(s[i]) <= a
  BY Widths, LargestFound DEF WIs, Numbers, IsLargest
<1>2. a \in Nat /\ s[i] \in Int
  BY <1>1, SizeOf DEF Numbers
<1>3. z = IF a = 0 THEN 0 ELSE Clip(v)
  BY DEF QuantizeQ8_0
<1> HIDE DEF a, z
<1>4. CASE a = 0
  <2>1. z = 0 /\ s[i] = 0
    BY <1>1, <1>2, <1>3, <1>4 DEF Abs
  <2>2. Abs(2 * (z * a - 127 * s[i])) <= a
    BY <1>4, <2>1 DEF Abs
  <2> QED BY <2>2 DEF a, z
<1>5. CASE a # 0
  <2>1. v \in Int /\ -127 <= v /\ v <= 127 /\ Abs(2 * (v*a - 127 * s[i])) <= a
    BY <1>1, <1>2, <1>5, AwayInRange
  <2> HIDE DEF v
  <2>2. z = v
    BY <1>3, <1>5, <2>1 DEF Clip
  <2> QED BY <2>1, <2>2 DEF a, z
<1> QED BY <1>4, <1>5

\* Each of two numbers of four bits is read back from the byte they share.
LEMMA Halves ==
  ASSUME NEW a \in 0..15, NEW b \in 0..15
  PROVE  (a + 16*b) % 16 = a /\ (a + 16*b) \div 16 = b
OBVIOUS

LEMMA Q4_0IsNear ==
  ASSUME NEW s, Numbers(s, W), NEW i \in 0..W - 1
  PROVE  LET a == Abs(s[MaxAbsAt(s, W)])
         IN  Abs(2 * (Q4_0Weight(PackQ4_0(s), i) * a - 7 * s[i])) <= a
<1> DEFINE a == Abs(s[MaxAbsAt(s, W)])
           r(k) == RoundAway(7 * s[k], a)
           q(k) == IF a = 0 THEN 0 ELSE IF r(k) < -8 THEN -8 ELSE IF r(k) > 7 THEN 7 ELSE r(k)
           x == PackQ4_0(s)
           h == i \div 2
<1>1. MaxAbsAt(s, W) \in 0..W - 1 /\ \A k \in 0..W - 1 : Abs(s[k]) <= a
  BY Widths, LargestFound DEF WIs, Numbers, IsLargest
<1>2. a \in Nat /\ \A k \in 0..W - 1 : s[k] \in Int
  BY <1>1, SizeOf DEF Numbers
<1>3. x = [k \in 0..H - 1 |-> (q(2*k) + 8) + 16 * (q(2*k + 1) + 8)]
  BY DEF PackQ4_0
<1> HIDE DEF a, x
<1>4. ASSUME NEW k \in 0..W - 1
      PROVE  q(k) \in -8..7 /\ Abs(2 * (q(k) * a - 7 * s[k])) <= a
  <2>1. CASE a = 0
    <3>1. q(k) = 0 /\ s[k] = 0
      BY <1>1, <1>2, <2>1 DEF Abs
    <3> HIDE DEF q
    <3> QED BY <2>1, <3>1 DEF Abs
  <2>2. CASE a # 0
    <3>1. r(k) \in Int /\ -7 <= r(k) /\ r(k) <= 7 /\ Abs(2 * (r(k) * a - 7 * s[k])) <= a
      BY <1>1, <1>2, <2>2, AwayInRange
    <3> HIDE DEF r
    <3>2. q(k) = r(k)
      BY <2>2, <3>1
    <3> HIDE DEF q
    <3> QED BY <3>1, <3>2
  <2> QED BY <2>1, <2>2
<1> HIDE DEF q
<1>5. PICK g \in Int, u \in 0..1 : i = g*2 + u /\ i % 2 = u /\ i \div 2 = g
  BY DivMod
<1>6. /\ h = g /\ g \in 0..H - 1 /\ 2*g \in 0..W - 1 /\ 2*g + 1 \in 0..W - 1
      /\ i = 2*g + u
  BY <1>5, Widths DEF WIs
<1>7. q(2*g) \in -8..7 /\ q(2*g + 1) \in -8..7
  BY <1>4, <1>6
<1>8. x[g] = (q(2*g) + 8) + 16 * (q(2*g + 1) + 8)
  BY <1>3, <1>6
<1>9. x[g] % 16 = q(2*g) + 8 /\ x[g] \div 16 = q(2*g + 1) + 8
  <2>1. q(2*g) + 8 \in 0..15 /\ q(2*g + 1) + 8 \in 0..15
    BY <1>7
  <2> QED BY <1>8, <2>1, Halves
<1>10. Q4_0Weight(x, i) = q(i)
  <2>1. Q4_0Weight(x, i) = (IF u = 0 THEN x[g] % 16 ELSE x[g] \div 16) - 8
    BY <1>5, <1>6 DEF Q4_0Weight
  <2>2. CASE u = 0
    <3>1. i = 2*g
      BY <1>6, <2>2
    <3> QED BY <1>7, <1>9, <2>1, <2>2, <3>1
  <2>3. CASE u = 1
    <3>1. i = 2*g + 1
      BY <1>6, <2>3
    <3> QED BY <1>7, <1>9, <2>1, <2>3, <3>1
  <2> QED BY <2>2, <2>3
<1>11. Abs(2 * (q(i) * a - 7 * s[i])) <= a
  BY <1>4
<1> QED BY <1>10, <1>11 DEF a, x

\* What a product is called with.
Called ==
  mm # NoCall =>
    /\ DOMAIN mm = {"fmt", "w", "s", "xq", "todo", "out"}
    /\ mm.fmt \in {"q4k", "q5k", "q6k", "q8_0", "q4_0"}
    /\ mm.w \in Weights /\ mm.s \in Columns /\ mm.xq \in Nat

LEMMA CalledStep ==
  ASSUME Called, [Next]_vars
  PROVE  Called'
<1>1. ASSUME NEW fmt \in {"q4k", "q5k", "q6k", "q8_0", "q4_0"},
             NEW w \in Weights, NEW s \in Columns, Start(fmt, w, s)
      PROVE  Called'
  BY <1>1 DEF Start, Called
<1>2. ASSUME NEW w \in Weights, NEW s \in Columns,
             \/ MatmulQ4K(w, s) \/ MatmulQ5K(w, s) \/ MatmulQ6K(w, s)
             \/ MatmulQ8_0(w, s) \/ MatmulQ4_0(w, s)
      PROVE  Called'
  BY <1>1, <1>2 DEF MatmulQ4K, MatmulQ5K, MatmulQ6K, MatmulQ8_0, MatmulQ4_0
<1>3. ASSUME mm' = mm \/ mm' = NoCall PROVE Called'
  BY <1>3 DEF Called
<1>4. ASSUME NEW kind, NEW m, NEW n, Gemm(kind, m, n) PROVE Called'
  BY <1>3, <1>4 DEF Gemm
<1>5. CASE SimdInit \/ Return \/ UNCHANGED vars
  BY <1>3, <1>5 DEF SimdInit, Return, vars
<1>6. CASE NextColumn
  BY <1>6 DEF NextColumn, Called
<1>7. ASSUME NEW c, Row(c) PROVE Called'
  BY <1>7 DEF Row, Called
<1> QED BY <1>2, <1>4, <1>5, <1>6, <1>7 DEF Next

LEMMA CalledReached == Spec => []Called
<1>1. Init => Called
  BY DEF Init, Called
<1>2. Called /\ [Next]_vars => Called'
  BY CalledStep
<1> QED BY <1>1, <1>2, PTL DEF Spec

LEMMA SourceIs ==
  ASSUME NEW a \in Nat, NEW t \in Nat, NEW b \in Nat
  PROVE  Numbers(Source(a, t, b), Q) /\ Numbers(Source(a, t, b), W)
<1> DEFINE l == Len(Sources)
           k == (a + t + b) % l
<1>1. l \in Nat \ {0} /\ a + t + b \in Int
  BY RowsAssumption
<1>2. k \in 0..l - 1
  BY <1>1, ModType
<1>3. k + 1 \in 1..l
  BY <1>1, <1>2
<1>4. Sources[k + 1] \in [0 .. 8*W - 1 -> Int]
  BY <1>3, RowsAssumption
<1>5. Source(a, t, b) = Sources[k + 1]
  BY DEF Source, Pick
<1> HIDE DEF k
<1>6. \A j \in 0..W - 1 : j \in 0..8*W - 1
  BY Widths DEF WIs
<1> QED BY <1>4, <1>5, <1>6, Widths DEF Numbers, WIs

\* For any numbers in any rows, both roundings and the packer lose at most half
\* a step, and clipping and packing move nothing.
THEOREM NumbersAreNearest == Spec => []NearestNumbers
<1>1. Called => NearestNumbers
  <2> SUFFICES ASSUME Called, mm # NoCall, mm.xq > 0, NEW b \in 0..NBlocks - 1
      PROVE  IF mm.fmt = "q4_0"
             THEN LET v == Source(mm.w, 0, b)
                      x == PackQ4_0(v)
                      big == Abs(v[MaxAbsAt(v, W)])
                  IN  \A i \in 0 .. W - 1 : Abs(2 * (Q4_0Weight(x, i) * big - 7 * v[i])) <= big
             ELSE LET s   == Source(mm.s, mm.xq, b)
                      n   == IF mm.fmt = "q8_0" THEN W ELSE Q
                      big == s[MaxAbsAt(s, n)]
                      top == IF n = Q THEN -big ELSE Abs(big)
                      y   == Scratch(mm.fmt, mm.s, mm.xq)[b]
                  IN  \A i \in 0 .. n - 1 : Abs(2 * (y.qs[i] * top - 127 * s[i])) <= Abs(big)
    BY DEF NearestNumbers
  <2>1. /\ mm.fmt \in {"q4k", "q5k", "q6k", "q8_0", "q4_0"}
        /\ mm.w \in Nat /\ mm.s \in Nat /\ mm.xq \in Nat /\ b \in Nat /\ 0 \in Nat
    <3>1. Weights \subseteq Nat /\ Columns \subseteq Nat /\ NBlocks \in Nat
      BY RowsAssumption
    <3>2. /\ mm.fmt \in {"q4k", "q5k", "q6k", "q8_0", "q4_0"}
          /\ mm.w \in Weights /\ mm.s \in Columns /\ mm.xq \in Nat
      BY DEF Called
    <3>3. b \in Nat
      BY <3>1
    <3> QED BY <3>1, <3>2, <3>3
  <2> DEFINE v == Source(mm.w, 0, b)
             s == Source(mm.s, mm.xq, b)
             y == Scratch(mm.fmt, mm.s, mm.xq)[b]
  <2>2. Numbers(v, W) /\ Numbers(s, W) /\ Numbers(s, Q)
    BY <2>1, SourceIs
  <2>3. CASE mm.fmt = "q4_0"
    <3> HIDE DEF v
    <3>1. \A i \in 0..W - 1 :
            Abs(2 * (Q4_0Weight(PackQ4_0(v), i) * Abs(v[MaxAbsAt(v, W)]) - 7 * v[i]))
              <= Abs(v[MaxAbsAt(v, W)])
      BY <2>2, Q4_0IsNear
    <3> QED BY <2>3, <3>1 DEF v
  <2>4. CASE mm.fmt = "q8_0"
    <3>1. y = QuantizeQ8_0(s)
      BY <2>4 DEF Scratch
    <3> HIDE DEF s, y
    <3>2. \A i \in 0..W - 1 :
            Abs(2 * (y.qs[i] * Abs(s[MaxAbsAt(s, W)]) - 127 * s[i])) <= Abs(s[MaxAbsAt(s, W)])
      BY <2>2, <3>1, Q8_0IsNear
    <3> QED BY <2>4, <3>2, Widths DEF s, y
  <2>5. CASE mm.fmt \in {"q4k", "q5k", "q6k"}
    <3>1. y = QuantizeQ8K(s)
      BY <2>5 DEF Scratch
    <3> HIDE DEF s, y
    <3>2. \A i \in 0..Q - 1 :
            Abs(2 * (y.qs[i] * (-(s[MaxAbsAt(s, Q)])) - 127 * s[i])) <= Abs(s[MaxAbsAt(s, Q)])
      BY <2>2, <3>1, Q8KIsNear
    <3> QED BY <2>5, <3>2, Widths DEF s, y
  <2> QED BY <2>1, <2>3, <2>4, <2>5
<1> QED BY <1>1, CalledReached, PTL

-----------------------------------------------------------------------------
(* The chunked kernel.                                                     *)
(*                                                                         *)
(* Numbers first: what a commutative ring gives, then sums.                *)

LEMMA Closed ==
  ASSUME NEW a \in Num, NEW b \in Num
  PROVE  /\ a \oplus b \in Num /\ a \ominus b \in Num /\ a \otimes b \in Num
         /\ exp(a) \in Num /\ Zero \in Num /\ One \in Num
  BY RingAssumption, ExpAssumption

LEMMA Commutes ==
  ASSUME NEW a \in Num, NEW b \in Num
  PROVE  a \oplus b = b \oplus a /\ a \otimes b = b \otimes a
  BY RingAssumption

LEMMA Associates ==
  ASSUME NEW a \in Num, NEW b \in Num, NEW c \in Num
  PROVE  /\ a \oplus (b \oplus c) = (a \oplus b) \oplus c
         /\ a \otimes (b \otimes c) = (a \otimes b) \otimes c
  BY RingAssumption

LEMMA Distributes ==
  ASSUME NEW a \in Num, NEW b \in Num, NEW c \in Num
  PROVE  /\ a \otimes (b \oplus c) = a \otimes b \oplus a \otimes c
         /\ (b \oplus c) \otimes a = b \otimes a \oplus c \otimes a
<1>1. a \otimes (b \oplus c) = a \otimes b \oplus a \otimes c
  BY RingAssumption
<1>2. (b \oplus c) \otimes a = a \otimes (b \oplus c)
  BY Commutes, Closed
<1> QED BY <1>1, <1>2, Commutes

LEMMA Neutral ==
  ASSUME NEW a \in Num
  PROVE  /\ a \oplus Zero = a /\ Zero \oplus a = a
         /\ a \otimes One = a /\ One \otimes a = a
  BY RingAssumption

\* What is added can be taken away again.
LEMMA Cancels ==
  ASSUME NEW a \in Num, NEW b \in Num, NEW c \in Num, a \oplus c = b \oplus c
  PROVE  a = b
<1> DEFINE n == Zero \ominus c
<1>1. n \in Num /\ n \oplus c = Zero /\ c \oplus n = Zero
  BY RingAssumption
<1> HIDE DEF n
<1>2. a = a \oplus (c \oplus n) /\ b = b \oplus (c \oplus n)
  BY <1>1, Neutral
<1>3. a \oplus (c \oplus n) = (a \oplus c) \oplus n /\ b \oplus (c \oplus n) = (b \oplus c) \oplus n
  BY <1>1, Associates
<1> QED BY <1>2, <1>3

\* A difference is what must be added.
LEMMA Difference ==
  ASSUME NEW a \in Num, NEW b \in Num
  PROVE  /\ (a \ominus b) \oplus b = a
         /\ \A x \in Num : x \oplus b = a => x = a \ominus b
<1>1. (a \ominus b) \oplus b = a /\ a \ominus b \in Num
  BY RingAssumption
<1> QED BY <1>1, Cancels

LEMMA TimesZero ==
  ASSUME NEW a \in Num
  PROVE  a \otimes Zero = Zero /\ Zero \otimes a = Zero /\ a \ominus a = Zero
<1>1. a \otimes Zero \in Num /\ Zero \in Num
  BY Closed, RingAssumption
<1>2. a \otimes (Zero \oplus Zero) = a \otimes Zero \oplus a \otimes Zero /\ Zero \oplus Zero = Zero
  BY Distributes, Neutral, <1>1
<1>3. a \otimes Zero \oplus a \otimes Zero = Zero \oplus a \otimes Zero
  BY <1>1, <1>2, Neutral
<1>4. a \otimes Zero = Zero
  BY <1>1, <1>3, Cancels
<1>5. Zero \otimes a = Zero
  BY <1>1, <1>4, Commutes
<1>6. Zero = a \ominus a
  BY <1>1, Neutral, Difference
<1> QED BY <1>4, <1>5, <1>6

\* Four terms in another order.
LEMMA Regroup ==
  ASSUME NEW a \in Num, NEW b \in Num, NEW c \in Num, NEW d \in Num
  PROVE  /\ (a \oplus b) \oplus (c \oplus d) = (a \oplus c) \oplus (b \oplus d)
         /\ (a \otimes b) \otimes (c \otimes d) = (a \otimes c) \otimes (b \otimes d)
<1>1. (a \oplus b) \oplus (c \oplus d) = (a \oplus c) \oplus (b \oplus d)
  <2>0. c \oplus d \in Num /\ b \oplus d \in Num
    BY Closed
  <2>1. (a \oplus b) \oplus (c \oplus d) = a \oplus (b \oplus (c \oplus d))
    BY <2>0, Associates
  <2>2. b \oplus (c \oplus d) = c \oplus (b \oplus d)
    BY Associates, Commutes
  <2>3. a \oplus (c \oplus (b \oplus d)) = (a \oplus c) \oplus (b \oplus d)
    BY <2>0, Associates
  <2> QED BY <2>1, <2>2, <2>3
<1>2. (a \otimes b) \otimes (c \otimes d) = (a \otimes c) \otimes (b \otimes d)
  <2>0. c \otimes d \in Num /\ b \otimes d \in Num
    BY Closed
  <2>1. (a \otimes b) \otimes (c \otimes d) = a \otimes (b \otimes (c \otimes d))
    BY <2>0, Associates
  <2>2. b \otimes (c \otimes d) = c \otimes (b \otimes d)
    BY Associates, Commutes
  <2>3. a \otimes (c \otimes (b \otimes d)) = (a \otimes c) \otimes (b \otimes d)
    BY <2>0, Associates
  <2> QED BY <2>1, <2>2, <2>3
<1> QED BY <1>1, <1>2

\* Three factors in another order.
LEMMA Reorder ==
  ASSUME NEW a \in Num, NEW b \in Num, NEW c \in Num
  PROVE  /\ (a \otimes b) \otimes c = (a \otimes c) \otimes b
         /\ (a \otimes b) \otimes c = a \otimes (b \otimes c)
         /\ a \otimes (b \otimes c) = b \otimes (a \otimes c)
  BY Associates, Commutes

\* Differences and sums.
LEMMA Differences ==
  ASSUME NEW a \in Num, NEW b \in Num, NEW c \in Num
  PROVE  /\ (a \ominus b) \oplus c = (a \oplus c) \ominus b
         /\ (a \ominus b) \ominus c = a \ominus (b \oplus c)
         /\ (a \ominus b) \otimes c = (a \otimes c) \ominus (b \otimes c)
         /\ a \oplus (Zero \ominus b) = a \ominus b
<1>1. (a \ominus b) \oplus c = (a \oplus c) \ominus b
  <2>0. a \ominus b \in Num
    BY Closed
  <2>1. ((a \ominus b) \oplus c) \oplus b = ((a \ominus b) \oplus b) \oplus c
    BY <2>0, Associates, Commutes
  <2>2. ((a \ominus b) \oplus c) \oplus b = a \oplus c
    BY <2>1, Difference
  <2> QED BY <2>2, Difference, Closed
<1>2. (a \ominus b) \ominus c = a \ominus (b \oplus c)
  <2> DEFINE x == (a \ominus b) \ominus c
  <2>1. x \in Num /\ a \ominus b \in Num /\ b \oplus c \in Num
    BY Closed
  <2>2. x \oplus c = a \ominus b
    BY <2>1, Difference
  <2>3. (x \oplus c) \oplus b = a
    BY <2>2, Difference
  <2> HIDE DEF x
  <2>4. x \oplus (b \oplus c) = (x \oplus c) \oplus b
    BY <2>1, Associates, Commutes
  <2>5. x = a \ominus (b \oplus c)
    BY <2>1, <2>3, <2>4, Difference
  <2> QED BY <2>5 DEF x
<1>3. (a \ominus b) \otimes c = (a \otimes c) \ominus (b \otimes c)
  <2>1. (a \ominus b) \otimes c \oplus b \otimes c = ((a \ominus b) \oplus b) \otimes c
    BY Distributes, Closed
  <2>2. (a \ominus b) \otimes c \oplus b \otimes c = a \otimes c
    BY <2>1, Difference
  <2> QED BY <2>2, Difference, Closed
<1>4. a \oplus (Zero \ominus b) = a \ominus b
  <2> DEFINE n == Zero \ominus b
  <2>1. n \in Num /\ n \oplus b = Zero /\ Zero \in Num
    BY Closed, Difference
  <2> HIDE DEF n
  <2>2. (a \oplus n) \oplus b = a
    BY <2>1, Associates, Neutral
  <2>3. a \oplus n = a \ominus b
    BY <2>1, <2>2, Difference, Closed
  <2> QED BY <2>3 DEF n
<1> QED BY <1>1, <1>2, <1>3, <1>4
-----------------------------------------------------------------------------
(* Sums.                                                                   *)

Nums(f, n) == \A i \in 1..n : f[i] \in Num

Adds(f, n, g) ==
  /\ g \in [0..n -> Num]
  /\ g[0] = Zero
  /\ \A i \in 1..n : g[i] = g[i - 1] \oplus f[i]

\* The function that Sum takes its last value of.
LEMMA SumAdds ==
  ASSUME NEW n \in Nat, NEW f, Nums(f, n)
  PROVE  \E g : Adds(f, n, g) /\ Sum(f, n) = g[n]
<1> DEFINE Def(g) == g = [i \in 0..n |-> IF i = 0 THEN Zero ELSE g[i - 1] \oplus f[i]]
           F == [i \in 1..n |-> [x \in Num |-> x \oplus f[i]]]
           h == CHOOSE g : Def(g)
<1>1. Zero \in Num
  BY Closed, RingAssumption
<1>2. F \in [1..n -> [Num -> Num]]
  BY Closed DEF Nums
<1> HIDE DEF F
<1>3. PICK g \in [0..n -> Num] : g[0] = Zero /\ \A i \in 1..n : g[i] = F[i][g[i - 1]]
  <2>1. IsDefined(n, Num, Zero, F)
    BY <1>1, <1>2, Recursion
  <2> QED BY <2>1 DEF IsDefined
<1>4. ASSUME NEW i \in 1..n PROVE g[i] = g[i - 1] \oplus f[i]
  <2>1. i - 1 \in 0..n
    OBVIOUS
  <2>2. g[i - 1] \in Num
    BY <2>1
  <2> QED BY <1>3, <2>2 DEF F
<1>5. Def(g)
  <2>1. ASSUME NEW i \in 0..n PROVE g[i] = IF i = 0 THEN Zero ELSE g[i - 1] \oplus f[i]
    <3>1. CASE i = 0
      BY <1>3, <3>1
    <3>2. CASE i # 0
      <4>1. i \in 1..n
        BY <3>2
      <4> QED BY <1>4, <3>2, <4>1
    <3> QED BY <3>1, <3>2
  <2> QED BY <2>1
<1>6. Def(h)
  <2> HIDE DEF Def
  <2> QED BY <1>5
<1>7. Sum(f, n) = h[n]
  BY DEF Sum
<1> HIDE DEF h
<1>8. h = g
  <2>1. h = [i \in 0..n |-> IF i = 0 THEN Zero ELSE h[i - 1] \oplus f[i]]
    BY <1>6
  <2> DEFINE S == {i \in 0..n : h[i] = g[i]}
  <2>2. 0 \in S
    BY <1>3, <2>1
  <2>3. ASSUME NEW i \in 1..n, i - 1 \in S PROVE i \in S
    <3>1. i \in 0..n /\ i # 0 /\ h[i - 1] = g[i - 1]
      BY <2>3
    <3>2. h[i] = h[i - 1] \oplus f[i]
      BY <2>1, <3>1
    <3> QED BY <1>4, <3>1, <3>2
  <2> HIDE DEF S
  <2>4. \A i \in 0..n : i \in S
    BY <2>2, <2>3, UpTo
  <2>5. \A i \in 0..n : h[i] = g[i]
    BY <2>4 DEF S
  <2> QED BY <2>1, <2>5
<1> QED BY <1>3, <1>4, <1>7, <1>8 DEF Adds

\* A sum is a number; it ends with its last term.
LEMMA SumSteps ==
  ASSUME NEW n \in Nat, NEW f, Nums(f, n)
  PROVE  /\ Sum(f, 0) = Zero
         /\ Sum(f, n) \in Num
         /\ n # 0 => n - 1 \in Nat /\ Sum(f, n - 1) \in Num /\ Sum(f, n) = Sum(f, n - 1) \oplus f[n]
<1>1. PICK g : Adds(f, n, g) /\ Sum(f, n) = g[n]
  BY SumAdds
<1>2. PICK z : Adds(f, 0, z) /\ Sum(f, 0) = z[0]
  <2>1. Nums(f, 0) /\ 0 \in Nat
    BY DEF Nums
  <2> QED BY <2>1, SumAdds
<1>3. Sum(f, 0) = Zero
  BY <1>2 DEF Adds
<1>4. Sum(f, n) \in Num
  BY <1>1 DEF Adds
<1>5. ASSUME n # 0
      PROVE  n - 1 \in Nat /\ Sum(f, n - 1) \in Num /\ Sum(f, n) = Sum(f, n - 1) \oplus f[n]
  <2>1. n - 1 \in Nat /\ Nums(f, n - 1)
    BY <1>5 DEF Nums
  <2>2. PICK p : Adds(f, n - 1, p) /\ Sum(f, n - 1) = p[n - 1]
    BY <2>1, SumAdds
  <2> DEFINE S == {i \in 0..n - 1 : p[i] = g[i]}
  <2>3. 0 \in S
    BY <1>1, <2>1, <2>2 DEF Adds
  <2>4. ASSUME NEW i \in 1..n - 1, i - 1 \in S PROVE i \in S
    <3>1. i \in 1..n /\ i \in 0..n - 1 /\ p[i - 1] = g[i - 1]
      BY <2>4, <2>1
    <3> QED BY <1>1, <2>2, <3>1 DEF Adds
  <2> HIDE DEF S
  <2>5. \A i \in 0..n - 1 : i \in S
    BY <2>1, <2>3, <2>4, UpTo
  <2>6. p[n - 1] = g[n - 1] /\ n \in 1..n
    BY <2>1, <2>5 DEF S
  <2> QED BY <1>1, <2>1, <2>2, <2>6 DEF Adds
<1> QED BY <1>3, <1>4, <1>5

\* Equal terms, equal sums.
LEMMA SumsAgree ==
  ASSUME NEW n \in Nat, NEW f, NEW g, \A i \in 1..n : f[i] = g[i], Nums(f, n)
  PROVE  Sum(f, n) = Sum(g, n)
<1> DEFINE S == {m \in 0..n : Sum(f, m) = Sum(g, m)}
<1>1. \A m \in 0..n : Nums(f, m) /\ Nums(g, m) /\ m \in Nat
  BY DEF Nums
<1>2. 0 \in S
  BY <1>1, SumSteps
<1>3. ASSUME NEW m \in 1..n, m - 1 \in S PROVE m \in S
  <2>1. m \in 0..n /\ m # 0
    OBVIOUS
  <2>2. Sum(f, m) = Sum(f, m - 1) \oplus f[m] /\ Sum(g, m) = Sum(g, m - 1) \oplus g[m]
    BY <1>1, <2>1, SumSteps
  <2> QED BY <1>3, <2>1, <2>2
<1> HIDE DEF S
<1>4. \A m \in 0..n : m \in S
  BY <1>2, <1>3, UpTo
<1> QED BY <1>4 DEF S

\* Zeros at the end add nothing.
LEMMA SumOfZeros ==
  ASSUME NEW n \in Nat, NEW m \in 0..n, NEW f, Nums(f, m), \A i \in m + 1..n : f[i] = Zero
  PROVE  Sum(f, n) = Sum(f, m)
<1> DEFINE S == {k \in 0..n : k >= m => Sum(f, k) = Sum(f, m)}
<1>1. Nums(f, n)
  <2>1. ASSUME NEW i \in 1..n PROVE f[i] \in Num
    <3>1. i \in 1..m \/ i \in m + 1..n
      OBVIOUS
    <3>2. Zero \in Num
      BY RingAssumption
    <3> QED BY <3>1, <3>2 DEF Nums
  <2> QED BY <2>1 DEF Nums
<1>2. \A k \in 0..n : Nums(f, k) /\ k \in Nat
  BY <1>1 DEF Nums
<1>3. 0 \in S
  OBVIOUS
<1>4. ASSUME NEW k \in 1..n, k - 1 \in S PROVE k \in S
  <2>1. k \in 0..n /\ k - 1 \in 0..n /\ k # 0
    OBVIOUS
  <2>2. Sum(f, k) = Sum(f, k - 1) \oplus f[k] /\ Sum(f, k - 1) \in Num
    BY <1>2, <2>1, SumSteps
  <2>3. CASE k > m
    <3>1. f[k] = Zero /\ Sum(f, k - 1) = Sum(f, m)
      BY <1>4, <2>3
    <3> QED BY <2>1, <2>2, <3>1, Neutral
  <2>4. CASE ~(k > m)
    <3>1. k >= m => k = m
      BY <2>4
    <3> QED BY <2>1, <3>1
  <2> QED BY <2>3, <2>4
<1> HIDE DEF S
<1>5. \A k \in 0..n : k \in S
  BY <1>3, <1>4, UpTo
<1>6. n \in S /\ n >= m
  BY <1>5
<1> QED BY <1>6 DEF S

\* Two sums, term by term.
LEMMA SumOfSums ==
  ASSUME NEW n \in Nat, NEW f, NEW g, Nums(f, n), Nums(g, n)
  PROVE  Sum(f, n) \oplus Sum(g, n) = Sum([i \in 1..n |-> f[i] \oplus g[i]], n)
<1> DEFINE h == [i \in 1..n |-> f[i] \oplus g[i]]
           S == {m \in 0..n : Sum(f, m) \oplus Sum(g, m) = Sum(h, m)}
<1>1. \A m \in 0..n : Nums(f, m) /\ Nums(g, m) /\ m \in Nat
  BY DEF Nums
<1>3. \A i \in 1..n : h[i] = f[i] \oplus g[i] /\ f[i] \in Num /\ g[i] \in Num
  BY DEF Nums
<1>2. \A m \in 0..n : Nums(h, m)
  <2>1. \A i \in 1..n : h[i] \in Num
    BY <1>3, Closed
  <2> HIDE DEF h
  <2> QED BY <2>1 DEF Nums
<1> HIDE DEF h
<1>4. 0 \in S
  <2>1. Sum(f, 0) = Zero /\ Sum(g, 0) = Zero /\ Sum(h, 0) = Zero /\ Zero \in Num
    BY <1>1, <1>2, SumSteps
  <2> QED BY <2>1, Neutral
<1>5. ASSUME NEW m \in 1..n, m - 1 \in S PROVE m \in S
  <2>1. m \in 0..n /\ m # 0 /\ m \in Nat
    OBVIOUS
  <2>2. Sum(f, m) = Sum(f, m - 1) \oplus f[m] /\ Sum(f, m - 1) \in Num
    BY <1>1, <2>1, SumSteps
  <2>3. Sum(g, m) = Sum(g, m - 1) \oplus g[m] /\ Sum(g, m - 1) \in Num
    BY <1>1, <2>1, SumSteps
  <2>4. Sum(h, m) = Sum(h, m - 1) \oplus (f[m] \oplus g[m])
    BY <1>2, <1>3, <2>1, SumSteps
  <2>5. Sum(h, m - 1) = Sum(f, m - 1) \oplus Sum(g, m - 1)
    BY <1>5
  <2>6. Sum(f, m) \oplus Sum(g, m) = Sum(h, m)
    BY <1>3, <2>2, <2>3, <2>4, <2>5, Regroup
  <2> QED BY <2>1, <2>6
<1> HIDE DEF S
<1>6. \A m \in 0..n : m \in S
  BY <1>4, <1>5, UpTo
<1>7. n \in 0..n
  OBVIOUS
<1>8. Sum(f, n) \oplus Sum(g, n) = Sum(h, n)
  BY <1>6, <1>7 DEF S
<1> QED BY <1>8 DEF h

\* A factor may be taken into a sum.
LEMMA SumScaled ==
  ASSUME NEW n \in Nat, NEW f, Nums(f, n), NEW c \in Num
  PROVE  Sum(f, n) \otimes c = Sum([i \in 1..n |-> f[i] \otimes c], n)
<1> DEFINE h == [i \in 1..n |-> f[i] \otimes c]
           S == {m \in 0..n : Sum(f, m) \otimes c = Sum(h, m)}
<1>1. \A m \in 0..n : Nums(f, m) /\ m \in Nat
  BY DEF Nums
<1>3. \A i \in 1..n : h[i] = f[i] \otimes c /\ f[i] \in Num
  BY DEF Nums
<1>2. \A m \in 0..n : Nums(h, m)
  <2>1. \A i \in 1..n : h[i] \in Num
    BY <1>3, Closed
  <2> HIDE DEF h
  <2> QED BY <2>1 DEF Nums
<1> HIDE DEF h
<1>4. 0 \in S
  <2>1. Sum(f, 0) = Zero /\ Sum(h, 0) = Zero
    BY <1>1, <1>2, SumSteps
  <2> QED BY <2>1, TimesZero
<1>5. ASSUME NEW m \in 1..n, m - 1 \in S PROVE m \in S
  <2>1. m \in 0..n /\ m # 0 /\ m \in Nat
    OBVIOUS
  <2>2. Sum(f, m) = Sum(f, m - 1) \oplus f[m] /\ Sum(f, m - 1) \in Num
    BY <1>1, <2>1, SumSteps
  <2>3. Sum(h, m) = Sum(h, m - 1) \oplus f[m] \otimes c
    BY <1>2, <1>3, <2>1, SumSteps
  <2>4. Sum(h, m - 1) = Sum(f, m - 1) \otimes c
    BY <1>5
  <2>5. Sum(f, m) \otimes c = Sum(h, m)
    BY <1>3, <2>2, <2>3, <2>4, Distributes
  <2> QED BY <2>1, <2>5
<1> HIDE DEF S
<1>6. \A m \in 0..n : m \in S
  BY <1>4, <1>5, UpTo
<1>7. n \in 0..n
  OBVIOUS
<1>8. Sum(f, n) \otimes c = Sum(h, n)
  BY <1>6, <1>7 DEF S
<1> QED BY <1>8 DEF h

\* A sum over a rectangle may be taken by its rows or by its columns.
LEMMA SumSwap ==
  ASSUME NEW m \in Nat, NEW n \in Nat, NEW F, \A i \in 1..m, j \in 1..n : F[<<i, j>>] \in Num
  PROVE  Sum([i \in 1..m |-> Sum([j \in 1..n |-> F[<<i, j>>]], n)], m)
           = Sum([j \in 1..n |-> Sum([i \in 1..m |-> F[<<i, j>>]], m)], n)
<1> DEFINE row(i) == [j \in 1..n |-> F[<<i, j>>]]
           col(j) == [i \in 1..m |-> F[<<i, j>>]]
           rows   == [i \in 1..m |-> Sum(row(i), n)]
           cols(k) == [j \in 1..n |-> Sum(col(j), k)]
           S == {k \in 0..m : Sum(rows, k) = Sum(cols(k), n)}
<1>1. /\ \A i \in 1..m : Nums(row(i), n) /\ \A j \in 1..n : row(i)[j] = F[<<i, j>>]
      /\ \A j \in 1..n : Nums(col(j), m) /\ \A i \in 1..m : col(j)[i] = F[<<i, j>>]
  BY DEF Nums
<1> HIDE DEF row, col
<1>2. \A i \in 1..m : rows[i] = Sum(row(i), n) /\ rows[i] \in Num
  BY <1>1, SumSteps
<1> HIDE DEF rows
<1>3. \A k \in 0..m : k \in Nat /\ Nums(rows, k) /\ \A j \in 1..n : Nums(col(j), k)
  BY <1>1, <1>2 DEF Nums
<1>4. \A k \in 0..m : Nums(cols(k), n) /\ \A j \in 1..n : cols(k)[j] = Sum(col(j), k)
  <2> SUFFICES ASSUME NEW k \in 0..m
               PROVE  Nums(cols(k), n) /\ \A j \in 1..n : cols(k)[j] = Sum(col(j), k)
    OBVIOUS
  <2>1. \A j \in 1..n : Sum(col(j), k) \in Num
    BY <1>3, SumSteps
  <2> QED BY <2>1 DEF Nums
<1> HIDE DEF cols
<1>5. 0 \in S
  <2>1. 0 \in 0..m /\ 0 \in 0..n
    OBVIOUS
  <2>2. \A j \in 1..n : cols(0)[j] = Zero
    BY <1>3, <1>4, <2>1, SumSteps
  <2>3. Nums(cols(0), 0) /\ Sum(cols(0), 0) = Zero
    BY <1>4, <2>1, SumSteps DEF Nums
  <2>4. \A j \in 0 + 1..n : cols(0)[j] = Zero
    BY <2>2
  <2>5. Sum(cols(0), n) = Zero
    BY <2>1, <2>3, <2>4, SumOfZeros
  <2>6. Sum(rows, 0) = Zero
    BY <1>3, <2>1, SumSteps
  <2> QED BY <2>1, <2>5, <2>6
<1>6. ASSUME NEW k \in 1..m, k - 1 \in S PROVE k \in S
  <2>1. k \in 0..m /\ k # 0 /\ k \in Nat /\ k - 1 \in 0..m
    OBVIOUS
  <2>2. Sum(rows, k) = Sum(rows, k - 1) \oplus Sum(row(k), n)
    BY <1>2, <1>3, <2>1, SumSteps
  <2>3. Sum(rows, k - 1) = Sum(cols(k - 1), n)
    BY <1>6
  <2>4. \A j \in 1..n : cols(k)[j] = cols(k - 1)[j] \oplus row(k)[j]
    <3> SUFFICES ASSUME NEW j \in 1..n PROVE cols(k)[j] = cols(k - 1)[j] \oplus row(k)[j]
      OBVIOUS
    <3>1. Sum(col(j), k) = Sum(col(j), k - 1) \oplus col(j)[k]
      BY <1>3, <2>1, SumSteps
    <3>2. col(j)[k] = row(k)[j]
      BY <1>1
    <3> QED BY <1>4, <2>1, <3>1, <3>2
  <2> DEFINE both == [j \in 1..n |-> cols(k - 1)[j] \oplus row(k)[j]]
  <2>5. Sum(cols(k - 1), n) \oplus Sum(row(k), n) = Sum(both, n)
    BY <1>1, <1>4, <2>1, SumOfSums
  <2>6. \A j \in 1..n : cols(k)[j] = both[j]
    BY <2>4
  <2> HIDE DEF both
  <2>7. Sum(cols(k), n) = Sum(both, n)
    BY <1>4, <2>1, <2>6, SumsAgree
  <2> QED BY <2>1, <2>2, <2>3, <2>5, <2>7
<1> HIDE DEF S
<1>7. \A k \in 0..m : k \in S
  BY <1>5, <1>6, UpTo
<1>8. m \in 0..m
  OBVIOUS
<1>9. Sum(rows, m) = Sum(cols(m), n)
  BY <1>7, <1>8 DEF S
<1> QED BY <1>9 DEF rows, cols, row, col

\* A matrix between two columns, its rows or its columns summed first
ByRows(M, x, y, m, n) ==
  Sum([i \in 1..m |-> Sum([j \in 1..n |-> M[<<i, j>>] \otimes x[j]], n) \otimes y[i]], m)
ByColumns(M, x, y, m, n) ==
  Sum([j \in 1..n |-> Sum([i \in 1..m |-> M[<<i, j>>] \otimes y[i]], m) \otimes x[j]], n)

LEMMA Exchange ==
  ASSUME NEW m \in Nat, NEW n \in Nat, NEW M, NEW x, NEW y,
         \A i \in 1..m, j \in 1..n : M[<<i, j>>] \in Num, Nums(x, n), Nums(y, m)
  PROVE  ByRows(M, x, y, m, n) = ByColumns(M, x, y, m, n)
<1> DEFINE F == [p \in (1..m) \X (1..n) |-> (M[<<p[1], p[2]>>] \otimes x[p[2]]) \otimes y[p[1]]]
           byX(i) == [j \in 1..n |-> M[<<i, j>>] \otimes x[j]]
           byY(j) == [i \in 1..m |-> M[<<i, j>>] \otimes y[i]]
           L == [i \in 1..m |-> Sum(byX(i), n) \otimes y[i]]
           R == [j \in 1..n |-> Sum(byY(j), m) \otimes x[j]]
           rows == [i \in 1..m |-> Sum([j \in 1..n |-> F[<<i, j>>]], n)]
           cols == [j \in 1..n |-> Sum([i \in 1..m |-> F[<<i, j>>]], m)]
<1>1. \A i \in 1..m, j \in 1..n :
        /\ M[<<i, j>>] \in Num /\ x[j] \in Num /\ y[i] \in Num
        /\ M[<<i, j>>] \otimes x[j] \in Num /\ M[<<i, j>>] \otimes y[i] \in Num
        /\ F[<<i, j>>] = (M[<<i, j>>] \otimes x[j]) \otimes y[i]
        /\ F[<<i, j>>] = (M[<<i, j>>] \otimes y[i]) \otimes x[j]
        /\ F[<<i, j>>] \in Num
  <2> SUFFICES ASSUME NEW i \in 1..m, NEW j \in 1..n
               PROVE  /\ M[<<i, j>>] \in Num /\ x[j] \in Num /\ y[i] \in Num
                      /\ M[<<i, j>>] \otimes x[j] \in Num /\ M[<<i, j>>] \otimes y[i] \in Num
                      /\ F[<<i, j>>] = (M[<<i, j>>] \otimes x[j]) \otimes y[i]
                      /\ F[<<i, j>>] = (M[<<i, j>>] \otimes y[i]) \otimes x[j]
                      /\ F[<<i, j>>] \in Num
    OBVIOUS
  <2>1. M[<<i, j>>] \in Num /\ x[j] \in Num /\ y[i] \in Num
    BY DEF Nums
  <2>2. F[<<i, j>>] = (M[<<i, j>>] \otimes x[j]) \otimes y[i]
    OBVIOUS
  <2> HIDE DEF F
  <2>3. (M[<<i, j>>] \otimes x[j]) \otimes y[i] = (M[<<i, j>>] \otimes y[i]) \otimes x[j]
    BY <2>1, Reorder
  <2>4. M[<<i, j>>] \otimes x[j] \in Num /\ M[<<i, j>>] \otimes y[i] \in Num
    BY <2>1, Closed
  <2>5. (M[<<i, j>>] \otimes x[j]) \otimes y[i] \in Num
    BY <2>1, <2>4, Closed
  <2> QED BY <2>1, <2>2, <2>3, <2>4, <2>5
<1> HIDE DEF F
<1>2. Sum(rows, m) = Sum(cols, n)
  BY <1>1, SumSwap
<1>3. ASSUME NEW i \in 1..m PROVE L[i] = rows[i] /\ L[i] \in Num
  <2>1. Nums(byX(i), n) /\ y[i] \in Num
    BY <1>1 DEF Nums
  <2> DEFINE sc == [j \in 1..n |-> byX(i)[j] \otimes y[i]]
             fi == [j \in 1..n |-> F[<<i, j>>]]
  <2>2. Sum(byX(i), n) \otimes y[i] = Sum(sc, n)
    BY <2>1, SumScaled
  <2>3. \A j \in 1..n : fi[j] = sc[j]
    BY <1>1
  <2>4. Nums(fi, n)
    BY <1>1 DEF Nums
  <2>5. Sum(byX(i), n) \otimes y[i] \in Num
    BY <2>1, SumSteps, Closed
  <2> HIDE DEF sc, fi, byX
  <2>6. Sum(fi, n) = Sum(sc, n)
    BY <2>3, <2>4, SumsAgree
  <2> QED BY <2>2, <2>5, <2>6 DEF fi
<1>4. ASSUME NEW j \in 1..n PROVE R[j] = cols[j] /\ R[j] \in Num
  <2>1. Nums(byY(j), m) /\ x[j] \in Num
    BY <1>1 DEF Nums
  <2> DEFINE sc == [i \in 1..m |-> byY(j)[i] \otimes x[j]]
             fj == [i \in 1..m |-> F[<<i, j>>]]
  <2>2. Sum(byY(j), m) \otimes x[j] = Sum(sc, m)
    BY <2>1, SumScaled
  <2>3. \A i \in 1..m : fj[i] = sc[i]
    BY <1>1
  <2>4. Nums(fj, m)
    BY <1>1 DEF Nums
  <2>5. Sum(byY(j), m) \otimes x[j] \in Num
    BY <2>1, SumSteps, Closed
  <2> HIDE DEF sc, fj, byY
  <2>6. Sum(fj, m) = Sum(sc, m)
    BY <2>3, <2>4, SumsAgree
  <2> QED BY <2>2, <2>5, <2>6 DEF fj
<1> HIDE DEF L, R, rows, cols
<1>5. Nums(L, m) /\ Nums(R, n)
  BY <1>3, <1>4 DEF Nums
<1>6. Sum(L, m) = Sum(rows, m)
  BY <1>3, <1>5, SumsAgree
<1>7. Sum(R, n) = Sum(cols, n)
  BY <1>4, <1>5, SumsAgree
<1>8. Sum(L, m) = Sum(R, n)
  BY <1>2, <1>6, <1>7
<1> QED BY <1>8 DEF L, R, byX, byY, ByRows, ByColumns

-----------------------------------------------------------------------------
(* Tokens one by one.                                                      *)

States == [Cells -> Num]

Decayed(s, t) == [c \in Cells |-> s[c] \otimes exp(t.g_log)]

\* What a token adds in the direction of its key
Delta(s, t) == [e \in 1..VHd |-> (t.v[e] \ominus times(Decayed(s, t), t.k)[e]) \otimes t.beta]

LEMMA InputTypes ==
  ASSUME NEW t \in Inputs
  PROVE  /\ KHd \in Nat /\ VHd \in Nat
         /\ \A d \in 1..KHd : t.q[d] \in Num /\ t.k[d] \in Num
         /\ \A e \in 1..VHd : t.v[e] \in Num
         /\ t.g_log \in Num /\ t.beta \in Num /\ exp(t.g_log) \in Num
<1>1. /\ KHd \in Nat /\ VHd \in Nat
      /\ t.q \in [1..KHd -> Num] /\ t.k \in [1..KHd -> Num] /\ t.v \in [1..VHd -> Num]
      /\ t.g_log \in Num /\ t.beta \in Num
  BY InputsAssumption
<1>2. exp(t.g_log) \in Num
  BY <1>1, ExpAssumption
<1> QED BY <1>1, <1>2

LEMMA TimesType ==
  ASSUME NEW s \in States, NEW x, Nums(x, KHd), NEW e \in 1..VHd
  PROVE  /\ times(s, x)[e] = Sum([d \in 1..KHd |-> s[<<d, e>>] \otimes x[d]], KHd)
         /\ times(s, x)[e] \in Num
<1> DEFINE g == [d \in 1..KHd |-> s[<<d, e>>] \otimes x[d]]
<1>1. KHd \in Nat
  BY InputsAssumption
<1>2. ASSUME NEW d \in 1..KHd PROVE g[d] \in Num
  <2>1. <<d, e>> \in Cells
    BY DEF Cells
  <2>2. s[<<d, e>>] \in Num /\ x[d] \in Num
    BY <2>1 DEF States, Nums
  <2> QED BY <2>2, Closed
<1>3. times(s, x)[e] = Sum(g, KHd)
  BY DEF times
<1> HIDE DEF g
<1>4. Sum(g, KHd) \in Num
  BY <1>1, <1>2, SumSteps DEF Nums
<1> QED BY <1>3, <1>4 DEF g

LEMMA DeltaType ==
  ASSUME NEW s \in States, NEW t \in Inputs
  PROVE  /\ Decayed(s, t) \in States
         /\ Delta(s, t) \in [1..VHd -> Num]
         /\ Nums(t.k, KHd) /\ Nums(t.q, KHd)
<1>1. Decayed(s, t) \in States
  <2>1. ASSUME NEW c \in Cells PROVE s[c] \otimes exp(t.g_log) \in Num
    <3>1. s[c] \in Num
      BY DEF States
    <3> QED BY <3>1, InputTypes, Closed
  <2> QED BY <2>1 DEF States, Decayed
<1>2. Nums(t.k, KHd) /\ Nums(t.q, KHd)
  BY InputTypes DEF Nums
<1>3. ASSUME NEW e \in 1..VHd
      PROVE  (t.v[e] \ominus times(Decayed(s, t), t.k)[e]) \otimes t.beta \in Num
  <2>1. times(Decayed(s, t), t.k)[e] \in Num
    BY <1>1, <1>2, TimesType
  <2>2. t.v[e] \in Num /\ t.beta \in Num
    BY InputTypes
  <2>3. t.v[e] \ominus times(Decayed(s, t), t.k)[e] \in Num
    BY <2>1, <2>2, Closed
  <2> QED BY <2>2, <2>3, Closed
<1> QED BY <1>1, <1>2, <1>3 DEF Delta

LEMMA StepStateIs ==
  ASSUME NEW s \in States, NEW t \in Inputs
  PROVE  /\ StepState(s, t) \in States
         /\ \A c \in Cells : StepState(s, t)[c]
              = s[c] \otimes exp(t.g_log) \oplus t.k[c[1]] \otimes Delta(s, t)[c[2]]
<1>1. StepState(s, t) = [c \in Cells |-> Decayed(s, t)[c] \oplus t.k[c[1]] \otimes Delta(s, t)[c[2]]]
  BY DEF StepState, Decayed, Delta
<1>2. ASSUME NEW c \in Cells
      PROVE  Decayed(s, t)[c] \oplus t.k[c[1]] \otimes Delta(s, t)[c[2]] \in Num
  <2>1. Decayed(s, t)[c] \in Num
    BY DeltaType DEF States
  <2>2. c[1] \in 1..KHd /\ c[2] \in 1..VHd
    BY DEF Cells
  <2>3. t.k[c[1]] \in Num /\ Delta(s, t)[c[2]] \in Num
    BY <2>2, InputTypes, DeltaType
  <2>4. t.k[c[1]] \otimes Delta(s, t)[c[2]] \in Num
    BY <2>3, Closed
  <2> QED BY <2>1, <2>4, Closed
<1>3. \A c \in Cells : Decayed(s, t)[c] = s[c] \otimes exp(t.g_log)
  BY DEF Decayed
<1> QED BY <1>1, <1>2, <1>3 DEF States

\* The states that the tokens leave, one after the other.
Run(s, ts, f) ==
  /\ f \in [0..Len(ts) -> States]
  /\ f[0] = s
  /\ \A i \in 1..Len(ts) : f[i] = StepState(f[i - 1], ts[i])

LEMMA Runs ==
  ASSUME NEW s \in States, NEW ts \in Seq(Inputs)
  PROVE  \E f : Run(s, ts, f)
<1> DEFINE n == Len(ts)
           F == [i \in 1..n |-> [x \in States |-> StepState(x, ts[i])]]
<1>1. n \in Nat /\ \A i \in 1..n : ts[i] \in Inputs
  OBVIOUS
<1>2. F \in [1..n -> [States -> States]]
  BY <1>1, StepStateIs
<1> HIDE DEF F
<1>3. PICK f \in [0..n -> States] : f[0] = s /\ \A i \in 1..n : f[i] = F[i][f[i - 1]]
  <2>1. IsDefined(n, States, s, F)
    BY <1>1, <1>2, Recursion
  <2> QED BY <2>1 DEF IsDefined
<1>4. ASSUME NEW i \in 1..n PROVE f[i] = StepState(f[i - 1], ts[i])
  <2>1. i - 1 \in 0..n
    BY <1>1
  <2>2. f[i - 1] \in States
    BY <2>1
  <2> QED BY <1>3, <2>2 DEF F
<1> QED BY <1>3, <1>4 DEF Run

\* The decays up to a token, and from one token to a later one.
Age(ts, i) == Sum([u \in DOMAIN ts |-> ts[u].g_log], i)
Fade(ts, i, j) == exp(Age(ts, i) \ominus Age(ts, j))

LEMMA Ages ==
  ASSUME NEW ts \in Seq(Inputs)
  PROVE  /\ Age(ts, 0) = Zero
         /\ \A i \in 0..Len(ts) : Age(ts, i) \in Num
         /\ \A i \in 1..Len(ts) : Age(ts, i) = Age(ts, i - 1) \oplus ts[i].g_log
         /\ \A i \in 1..Len(ts) : gcs(ts)[i] = Age(ts, i)
<1> DEFINE g == [u \in DOMAIN ts |-> ts[u].g_log]
<1>1. \A i \in 1..Len(ts) : ts[i] \in Inputs /\ g[i] = ts[i].g_log /\ g[i] \in Num
  BY InputTypes
<1>2. \A i \in 1..Len(ts) : gcs(ts)[i] = Age(ts, i)
  BY DEF gcs, Age
<1>3. \A i : Age(ts, i) = Sum(g, i)
  BY DEF Age
<1> HIDE DEF g
<1>4. \A i \in 0..Len(ts) : Nums(g, i) /\ i \in Nat
  BY <1>1 DEF Nums
<1>5. Age(ts, 0) = Zero /\ \A i \in 0..Len(ts) : Age(ts, i) \in Num
  BY <1>3, <1>4, SumSteps
<1>6. ASSUME NEW i \in 1..Len(ts) PROVE Age(ts, i) = Age(ts, i - 1) \oplus ts[i].g_log
  <2>1. i \in 0..Len(ts) /\ i # 0
    OBVIOUS
  <2>2. Sum(g, i) = Sum(g, i - 1) \oplus g[i]
    BY <1>4, <2>1, SumSteps
  <2> QED BY <1>1, <1>3, <2>2
<1> QED BY <1>2, <1>5, <1>6

LEMMA Fades ==
  ASSUME NEW ts \in Seq(Inputs)
  PROVE  /\ exp(Age(ts, 0)) = One
         /\ \A i \in 0..Len(ts) : exp(Age(ts, i)) \in Num /\ Fade(ts, i, i) = One
         /\ \A i, j \in 0..Len(ts) : Fade(ts, i, j) \in Num
         /\ \A i \in 1..Len(ts) :
              /\ exp(Age(ts, i)) = exp(Age(ts, i - 1)) \otimes exp(ts[i].g_log)
              /\ \A j \in 0..Len(ts) : Fade(ts, i, j) = Fade(ts, i - 1, j) \otimes exp(ts[i].g_log)
<1>1. exp(Age(ts, 0)) = One
  BY Ages, ExpAssumption
<1>2. ASSUME NEW i \in 0..Len(ts) PROVE exp(Age(ts, i)) \in Num /\ Fade(ts, i, i) = One
  <2>1. Age(ts, i) \in Num
    BY Ages
  <2>2. Age(ts, i) \ominus Age(ts, i) = Zero
    BY <2>1, TimesZero
  <2> QED BY <2>1, <2>2, ExpAssumption, Closed DEF Fade
<1>3. ASSUME NEW i \in 0..Len(ts), NEW j \in 0..Len(ts) PROVE Fade(ts, i, j) \in Num
  <2>1. Age(ts, i) \in Num /\ Age(ts, j) \in Num
    BY Ages
  <2>2. Age(ts, i) \ominus Age(ts, j) \in Num
    BY <2>1, Closed
  <2> QED BY <2>2, ExpAssumption DEF Fade
<1>4. ASSUME NEW i \in 1..Len(ts)
      PROVE  /\ exp(Age(ts, i)) = exp(Age(ts, i - 1)) \otimes exp(ts[i].g_log)
             /\ \A j \in 0..Len(ts) : Fade(ts, i, j) = Fade(ts, i - 1, j) \otimes exp(ts[i].g_log)
  <2>1. i - 1 \in 0..Len(ts) /\ i \in 0..Len(ts) /\ ts[i] \in Inputs
    OBVIOUS
  <2>2. Age(ts, i - 1) \in Num /\ ts[i].g_log \in Num /\ Age(ts, i) = Age(ts, i - 1) \oplus ts[i].g_log
    BY <2>1, Ages, InputTypes
  <2>3. exp(Age(ts, i)) = exp(Age(ts, i - 1)) \otimes exp(ts[i].g_log)
    BY <2>2, ExpAssumption
  <2>4. ASSUME NEW j \in 0..Len(ts)
        PROVE  Fade(ts, i, j) = Fade(ts, i - 1, j) \otimes exp(ts[i].g_log)
    <3>1. Age(ts, j) \in Num
      BY Ages
    <3>2. Age(ts, i) \ominus Age(ts, j) = (Age(ts, i - 1) \ominus Age(ts, j)) \oplus ts[i].g_log
      BY <2>2, <3>1, Differences
    <3>3. Age(ts, i - 1) \ominus Age(ts, j) \in Num
      BY <2>2, <3>1, Closed
    <3> QED BY <2>2, <3>2, <3>3, ExpAssumption DEF Fade
  <2> QED BY <2>3, <2>4
<1> QED BY <1>1, <1>2, <1>3, <1>4

-----------------------------------------------------------------------------
(* A state is the first one, faded, and what each token gained, faded.     *)

Gain(ts, f, u) == Delta(f[u - 1], ts[u])

Term(ts, f, i, c) ==
  [u \in 1..Len(ts) |-> (ts[u].k[c[1]] \otimes Fade(ts, i, u)) \otimes Gain(ts, f, u)[c[2]]]

LEMMA GainType ==
  ASSUME NEW s \in States, NEW ts \in Seq(Inputs), NEW f, Run(s, ts, f), NEW u \in 1..Len(ts)
  PROVE  /\ f[u - 1] \in States /\ ts[u] \in Inputs
         /\ \A e \in 1..VHd : Gain(ts, f, u)[e] \in Num
<1>1. u - 1 \in 0..Len(ts) /\ ts[u] \in Inputs
  OBVIOUS
<1>2. f[u - 1] \in States
  BY <1>1 DEF Run
<1> QED BY <1>1, <1>2, DeltaType DEF Gain

LEMMA TermType ==
  ASSUME NEW s \in States, NEW ts \in Seq(Inputs), NEW f, Run(s, ts, f),
         NEW i \in 0..Len(ts), NEW c \in Cells, NEW u \in 1..Len(ts)
  PROVE  /\ ts[u].k[c[1]] \in Num /\ Fade(ts, i, u) \in Num /\ Gain(ts, f, u)[c[2]] \in Num
         /\ Term(ts, f, i, c)[u] = (ts[u].k[c[1]] \otimes Fade(ts, i, u)) \otimes Gain(ts, f, u)[c[2]]
         /\ Term(ts, f, i, c)[u] \in Num
<1>1. c[1] \in 1..KHd /\ c[2] \in 1..VHd /\ ts[u] \in Inputs /\ u \in 0..Len(ts)
  BY DEF Cells
<1>2. ts[u].k[c[1]] \in Num
  BY <1>1, InputTypes
<1>3. Fade(ts, i, u) \in Num
  BY <1>1, Fades
<1>4. Gain(ts, f, u)[c[2]] \in Num
  BY <1>1, GainType
<1>5. ts[u].k[c[1]] \otimes Fade(ts, i, u) \in Num
  BY <1>2, <1>3, Closed
<1>6. (ts[u].k[c[1]] \otimes Fade(ts, i, u)) \otimes Gain(ts, f, u)[c[2]] \in Num
  BY <1>4, <1>5, Closed
<1> QED BY <1>2, <1>3, <1>4, <1>6 DEF Term

LEMMA TermsAreNums ==
  ASSUME NEW s \in States, NEW ts \in Seq(Inputs), NEW f, Run(s, ts, f),
         NEW i \in 0..Len(ts), NEW c \in Cells, NEW m \in 0..Len(ts)
  PROVE  Nums(Term(ts, f, i, c), m) /\ m \in Nat /\ Sum(Term(ts, f, i, c), m) \in Num
<1>1. \A u \in 1..m : u \in 1..Len(ts)
  OBVIOUS
<1>2. Nums(Term(ts, f, i, c), m) /\ m \in Nat
  BY <1>1, TermType DEF Nums
<1> QED BY <1>2, SumSteps

\* The state after i tokens.
After(s, ts, f, i, c) == s[c] \otimes exp(Age(ts, i)) \oplus Sum(Term(ts, f, i, c), i)

\* What is left of it when token i comes, before it gains.
Before(s, ts, f, i, c) == s[c] \otimes exp(Age(ts, i)) \oplus Sum(Term(ts, f, i, c), i - 1)

LEMMA FadedIs ==
  ASSUME NEW s \in States, NEW ts \in Seq(Inputs), NEW f, Run(s, ts, f),
         NEW i \in 1..Len(ts), NEW c \in Cells, f[i - 1][c] = After(s, ts, f, i - 1, c)
  PROVE  f[i - 1][c] \otimes exp(ts[i].g_log) = Before(s, ts, f, i, c)
<1> DEFINE x == exp(ts[i].g_log)
           old == Term(ts, f, i - 1, c)
           new == Term(ts, f, i, c)
           B == Sum(old, i - 1)
           scaled == [u \in 1..i - 1 |-> old[u] \otimes x]
<1>1. i - 1 \in 0..Len(ts) /\ i \in 0..Len(ts) /\ i - 1 \in Nat /\ ts[i] \in Inputs
  OBVIOUS
<1>2. x \in Num /\ s[c] \in Num /\ exp(Age(ts, i - 1)) \in Num
  BY <1>1, InputTypes, Fades DEF States
<1>3. Nums(old, i - 1) /\ Nums(new, i - 1) /\ B \in Num
  BY <1>1, TermsAreNums
<1>4. s[c] \otimes exp(Age(ts, i)) = (s[c] \otimes exp(Age(ts, i - 1))) \otimes x
  <2>1. exp(Age(ts, i)) = exp(Age(ts, i - 1)) \otimes x
    BY Fades
  <2> QED BY <1>2, <2>1, Associates
<1>5. \A u \in 1..i - 1 : new[u] = scaled[u]
  <2> SUFFICES ASSUME NEW u \in 1..i - 1 PROVE new[u] = old[u] \otimes x
    OBVIOUS
  <2> DEFINE k == ts[u].k[c[1]]
             a == Fade(ts, i - 1, u)
             g == Gain(ts, f, u)[c[2]]
  <2>1. u \in 1..Len(ts) /\ u \in 0..Len(ts)
    OBVIOUS
  <2>2. k \in Num /\ a \in Num /\ g \in Num /\ old[u] = (k \otimes a) \otimes g
    BY <1>1, <2>1, TermType
  <2>3. new[u] = (k \otimes Fade(ts, i, u)) \otimes g
    BY <1>1, <2>1, TermType
  <2>4. Fade(ts, i, u) = a \otimes x
    BY <2>1, Fades
  <2> HIDE DEF k, a, g, x, old, new
  <2>5. k \otimes a \in Num
    BY <2>2, Closed
  <2>6. ((k \otimes a) \otimes g) \otimes x = ((k \otimes a) \otimes x) \otimes g
    BY <1>2, <2>2, <2>5, Reorder
  <2>7. (k \otimes a) \otimes x = k \otimes (a \otimes x)
    BY <1>2, <2>2, Reorder
  <2> QED BY <2>2, <2>3, <2>4, <2>6, <2>7
<1>6. Sum(new, i - 1) = Sum(scaled, i - 1)
  <2> HIDE DEF new, scaled
  <2> QED BY <1>1, <1>3, <1>5, SumsAgree
<1>7. B \otimes x = Sum(scaled, i - 1)
  <2> HIDE DEF old, x
  <2> QED BY <1>1, <1>2, <1>3, SumScaled
<1>8. f[i - 1][c] = s[c] \otimes exp(Age(ts, i - 1)) \oplus B
  BY DEF After
<1>9. Before(s, ts, f, i, c) = s[c] \otimes exp(Age(ts, i)) \oplus Sum(new, i - 1)
  BY DEF Before
<1>10. s[c] \otimes exp(Age(ts, i - 1)) \in Num
  BY <1>2, Closed
<1> HIDE DEF x, old, new, B, scaled
<1>11. (s[c] \otimes exp(Age(ts, i - 1)) \oplus B) \otimes x
         = (s[c] \otimes exp(Age(ts, i - 1))) \otimes x \oplus B \otimes x
  BY <1>2, <1>3, <1>10, Distributes
<1>12. f[i - 1][c] \otimes x = Before(s, ts, f, i, c)
  BY <1>4, <1>6, <1>7, <1>8, <1>9, <1>11
<1> QED BY <1>12 DEF x

LEMMA StatesAre ==
  ASSUME NEW s \in States, NEW ts \in Seq(Inputs), NEW f, Run(s, ts, f)
  PROVE  \A i \in 0..Len(ts) : \A c \in Cells : f[i][c] = After(s, ts, f, i, c)
<1> DEFINE S == {i \in 0..Len(ts) : \A c \in Cells : f[i][c] = After(s, ts, f, i, c)}
<1>1. 0 \in S
  <2> SUFFICES ASSUME NEW c \in Cells PROVE f[0][c] = After(s, ts, f, 0, c)
    OBVIOUS
  <2>1. 0 \in 0..Len(ts) /\ s[c] \in Num
    BY DEF States
  <2>2. Sum(Term(ts, f, 0, c), 0) = Zero
    BY <2>1, TermsAreNums, SumSteps
  <2>3. s[c] \otimes exp(Age(ts, 0)) = s[c]
    BY <2>1, Fades, Neutral
  <2>4. f[0][c] = s[c]
    BY DEF Run
  <2> QED BY <2>1, <2>2, <2>3, <2>4, Neutral DEF After
<1>2. ASSUME NEW i \in 1..Len(ts), i - 1 \in S PROVE i \in S
  <2> SUFFICES ASSUME NEW c \in Cells PROVE f[i][c] = After(s, ts, f, i, c)
    OBVIOUS
  <2>1. i \in 0..Len(ts) /\ i # 0 /\ i - 1 \in 0..Len(ts) /\ ts[i] \in Inputs
    OBVIOUS
  <2>2. f[i - 1] \in States /\ f[i] = StepState(f[i - 1], ts[i])
    BY <2>1 DEF Run
  <2>3. f[i][c] = f[i - 1][c] \otimes exp(ts[i].g_log)
                    \oplus ts[i].k[c[1]] \otimes Gain(ts, f, i)[c[2]]
    <3>1. Gain(ts, f, i) = Delta(f[i - 1], ts[i])
      BY DEF Gain
    <3>2. \A x \in Cells : StepState(f[i - 1], ts[i])[x]
            = f[i - 1][x] \otimes exp(ts[i].g_log) \oplus ts[i].k[x[1]] \otimes Delta(f[i - 1], ts[i])[x[2]]
      BY <2>1, <2>2, StepStateIs
    <3> QED BY <2>2, <3>1, <3>2
  <2>4. f[i - 1][c] \otimes exp(ts[i].g_log) = Before(s, ts, f, i, c)
    BY <1>2, <2>1, FadedIs
  <2>5. Term(ts, f, i, c)[i] = ts[i].k[c[1]] \otimes Gain(ts, f, i)[c[2]]
    <3>1. /\ ts[i].k[c[1]] \in Num
          /\ Term(ts, f, i, c)[i] = (ts[i].k[c[1]] \otimes Fade(ts, i, i)) \otimes Gain(ts, f, i)[c[2]]
      BY <2>1, TermType
    <3>2. Fade(ts, i, i) = One
      BY <2>1, Fades
    <3> QED BY <3>1, <3>2, Neutral
  <2>6. Sum(Term(ts, f, i, c), i) = Sum(Term(ts, f, i, c), i - 1) \oplus Term(ts, f, i, c)[i]
    BY <2>1, TermsAreNums, SumSteps
  <2>7. /\ s[c] \otimes exp(Age(ts, i)) \in Num /\ Sum(Term(ts, f, i, c), i - 1) \in Num
        /\ Term(ts, f, i, c)[i] \in Num
    <3>1. s[c] \in Num /\ exp(Age(ts, i)) \in Num
      BY <2>1, Fades DEF States
    <3> QED BY <2>1, <3>1, Closed, TermsAreNums, TermType
  <2>8. (s[c] \otimes exp(Age(ts, i)) \oplus Sum(Term(ts, f, i, c), i - 1)) \oplus Term(ts, f, i, c)[i]
          = s[c] \otimes exp(Age(ts, i)) \oplus (Sum(Term(ts, f, i, c), i - 1) \oplus Term(ts, f, i, c)[i])
    BY <2>7, Associates
  <2> QED BY <2>3, <2>4, <2>5, <2>6, <2>8 DEF Before, After
<1> HIDE DEF S
<1>3. \A i \in 0..Len(ts) : i \in S
  <2>1. Len(ts) \in Nat
    OBVIOUS
  <2> QED BY <1>1, <1>2, <2>1, UpTo
<1> QED BY <1>3 DEF S

\* A column of the state after i tokens, or before the i-th gains, against a
\* row: what the first state gives, and what each token gained, by its key.
Scaled(x, c) == [d \in 1..KHd |-> x[d] \otimes c]
Learnt(ts, f, x, i, m, e) ==
  Sum([u \in 1..m |-> (dot(ts[u].k, x) \otimes Fade(ts, i, u)) \otimes Gain(ts, f, u)[e]], m)

LEMMA ReadBack ==
  ASSUME NEW s \in States, NEW ts \in Seq(Inputs), NEW f, Run(s, ts, f),
         NEW i \in 1..Len(ts), NEW m \in 0..Len(ts), NEW e \in 1..VHd, NEW x, Nums(x, KHd),
         NEW C, \A d \in 1..KHd : C[d] = s[<<d, e>>] \otimes exp(Age(ts, i))
                                           \oplus Sum(Term(ts, f, i, <<d, e>>), m)
  PROVE  dot(C, x) = times(s, Scaled(x, exp(Age(ts, i))))[e] \oplus Learnt(ts, f, x, i, m, e)
<1> DEFINE E == exp(Age(ts, i))
           g == [u \in 1..m |-> Gain(ts, f, u)[e]]
           M == [p \in (1..KHd) \X (1..m) |-> ts[p[2]].k[p[1]] \otimes Fade(ts, i, p[2])]
           inner(d) == [u \in 1..m |-> M[<<d, u>>] \otimes g[u]]
           byKey(u) == [d \in 1..KHd |-> M[<<d, u>>] \otimes x[d]]
           xE == [d \in 1..KHd |-> x[d] \otimes E]
           whole == [d \in 1..KHd |-> C[d] \otimes x[d]]
           first == [d \in 1..KHd |-> s[<<d, e>>] \otimes xE[d]]
           rest == [d \in 1..KHd |-> Sum(inner(d), m) \otimes x[d]]
           cols == [u \in 1..m |-> Sum(byKey(u), KHd) \otimes g[u]]
           want == [u \in 1..m |-> (dot(ts[u].k, x) \otimes Fade(ts, i, u)) \otimes Gain(ts, f, u)[e]]
<1>1. KHd \in Nat /\ m \in Nat /\ i \in 0..Len(ts) /\ E \in Num
  <2>1. KHd \in Nat /\ m \in Nat /\ i \in 0..Len(ts)
    BY InputsAssumption
  <2> QED BY <2>1, Fades
<1>2. \A d \in 1..KHd : <<d, e>> \in Cells /\ s[<<d, e>>] \in Num /\ x[d] \in Num
  BY DEF Cells, States, Nums
<1>3. \A u \in 1..m : /\ u \in 1..Len(ts) /\ ts[u] \in Inputs /\ Fade(ts, i, u) \in Num
                      /\ g[u] \in Num /\ g[u] = Gain(ts, f, u)[e]
  <2> SUFFICES ASSUME NEW u \in 1..m
               PROVE  /\ u \in 1..Len(ts) /\ ts[u] \in Inputs /\ Fade(ts, i, u) \in Num
                      /\ g[u] \in Num /\ g[u] = Gain(ts, f, u)[e]
    OBVIOUS
  <2>1. u \in 1..Len(ts) /\ u \in 0..Len(ts)
    OBVIOUS
  <2>2. ts[u] \in Inputs /\ Gain(ts, f, u)[e] \in Num
    BY <2>1, GainType
  <2>3. Fade(ts, i, u) \in Num
    BY <1>1, <2>1, Fades
  <2> QED BY <2>1, <2>2, <2>3
<1>4. \A d \in 1..KHd, u \in 1..m :
        /\ ts[u].k[d] \in Num
        /\ M[<<d, u>>] = ts[u].k[d] \otimes Fade(ts, i, u) /\ M[<<d, u>>] \in Num
  <2> SUFFICES ASSUME NEW d \in 1..KHd, NEW u \in 1..m
               PROVE  /\ ts[u].k[d] \in Num
                      /\ M[<<d, u>>] = ts[u].k[d] \otimes Fade(ts, i, u) /\ M[<<d, u>>] \in Num
    OBVIOUS
  <2>1. ts[u].k[d] \in Num /\ Fade(ts, i, u) \in Num
    BY <1>3, InputTypes
  <2>2. ts[u].k[d] \otimes Fade(ts, i, u) \in Num
    BY <2>1, Closed
  <2> QED BY <2>1, <2>2
<1> HIDE DEF M, g, E
<1>5. \A d \in 1..KHd : Nums(inner(d), m) /\ Sum(Term(ts, f, i, <<d, e>>), m) = Sum(inner(d), m)
                        /\ Sum(inner(d), m) \in Num
  <2> SUFFICES ASSUME NEW d \in 1..KHd
               PROVE  Nums(inner(d), m) /\ Sum(Term(ts, f, i, <<d, e>>), m) = Sum(inner(d), m)
                      /\ Sum(inner(d), m) \in Num
    OBVIOUS
  <2>1. \A u \in 1..m : M[<<d, u>>] \otimes g[u] \in Num
    BY <1>3, <1>4, Closed
  <2>2. \A u \in 1..m : inner(d)[u] = M[<<d, u>>] \otimes g[u]
    OBVIOUS
  <2> HIDE DEF inner
  <2>3. Nums(inner(d), m)
    BY <2>1, <2>2 DEF Nums
  <2>4. \A u \in 1..m : inner(d)[u] = Term(ts, f, i, <<d, e>>)[u]
    BY <1>3, <1>4, <2>2 DEF Term
  <2> QED BY <1>1, <2>3, <2>4, SumsAgree, SumSteps
<1>6. \A d \in 1..KHd : whole[d] = first[d] \oplus rest[d] /\ first[d] \in Num /\ rest[d] \in Num
  <2> SUFFICES ASSUME NEW d \in 1..KHd
               PROVE  C[d] \otimes x[d] = s[<<d, e>>] \otimes (x[d] \otimes E) \oplus Sum(inner(d), m) \otimes x[d]
                      /\ s[<<d, e>>] \otimes (x[d] \otimes E) \in Num /\ Sum(inner(d), m) \otimes x[d] \in Num
    OBVIOUS
  <2> HIDE DEF inner
  <2>1. s[<<d, e>>] \in Num /\ x[d] \in Num /\ Sum(inner(d), m) \in Num
    BY <1>2, <1>5
  <2>2. s[<<d, e>>] \otimes E \in Num /\ x[d] \otimes E \in Num
    BY <1>1, <2>1, Closed
  <2>3. C[d] = s[<<d, e>>] \otimes E \oplus Sum(inner(d), m)
    BY <1>5 DEF E
  <2>4. C[d] \otimes x[d] = (s[<<d, e>>] \otimes E) \otimes x[d] \oplus Sum(inner(d), m) \otimes x[d]
    BY <2>1, <2>2, <2>3, Distributes
  <2>5. (s[<<d, e>>] \otimes E) \otimes x[d] = s[<<d, e>>] \otimes (x[d] \otimes E)
    BY <1>1, <2>1, Reorder, Commutes
  <2>6. s[<<d, e>>] \otimes (x[d] \otimes E) \in Num /\ Sum(inner(d), m) \otimes x[d] \in Num
    BY <2>1, <2>2, Closed
  <2> QED BY <2>4, <2>5, <2>6
<1>7. Sum(first, KHd) = times(s, xE)[e]
  BY DEF times
<1>8. Sum(whole, KHd) = Sum(first, KHd) \oplus Sum(rest, KHd)
  <2> DEFINE both == [d \in 1..KHd |-> first[d] \oplus rest[d]]
  <2> HIDE DEF whole, first, rest
  <2>1. Nums(first, KHd) /\ Nums(rest, KHd)
    BY <1>6 DEF Nums
  <2>2. Sum(first, KHd) \oplus Sum(rest, KHd) = Sum(both, KHd)
    BY <1>1, <2>1, SumOfSums
  <2>3. \A d \in 1..KHd : both[d] = whole[d]
    BY <1>6
  <2>4. \A d \in 1..KHd : whole[d] \in Num
    BY <1>6, Closed
  <2> HIDE DEF both
  <2>5. Nums(whole, KHd)
    BY <2>4 DEF Nums
  <2>6. Sum(whole, KHd) = Sum(both, KHd)
    BY <1>1, <2>3, <2>5, SumsAgree
  <2> QED BY <2>2, <2>6
<1>9. Sum(rest, KHd) = Sum(cols, m)
  <2>1. Nums(g, m) /\ Nums(x, KHd)
    BY <1>3 DEF Nums
  <2>2. \A d \in 1..KHd, u \in 1..m : M[<<d, u>>] \in Num
    BY <1>4
  <2>3. ByRows(M, g, x, KHd, m) = ByColumns(M, g, x, KHd, m)
    BY <1>1, <2>1, <2>2, Exchange
  <2> QED BY <2>3 DEF ByRows, ByColumns
<1>10. \A u \in 1..m : cols[u] = want[u] /\ want[u] \in Num
  <2> SUFFICES ASSUME NEW u \in 1..m
               PROVE  /\ Sum(byKey(u), KHd) = dot(ts[u].k, x) \otimes Fade(ts, i, u)
                      /\ Sum(byKey(u), KHd) \otimes g[u] \in Num
    BY <1>3
  <2> DEFINE kx == [d \in 1..KHd |-> ts[u].k[d] \otimes x[d]]
             sc == [d \in 1..KHd |-> kx[d] \otimes Fade(ts, i, u)]
  <2>1. dot(ts[u].k, x) = Sum(kx, KHd)
    BY DEF dot
  <2>2. \A d \in 1..KHd : kx[d] \in Num
    BY <1>2, <1>4, Closed
  <2>3. \A d \in 1..KHd : byKey(u)[d] = sc[d] /\ byKey(u)[d] \in Num
    <3> SUFFICES ASSUME NEW d \in 1..KHd
                 PROVE  /\ M[<<d, u>>] \otimes x[d] = (ts[u].k[d] \otimes x[d]) \otimes Fade(ts, i, u)
                        /\ M[<<d, u>>] \otimes x[d] \in Num
      OBVIOUS
    <3>1. ts[u].k[d] \in Num /\ x[d] \in Num /\ Fade(ts, i, u) \in Num /\ M[<<d, u>>] \in Num
      BY <1>2, <1>3, <1>4
    <3>2. M[<<d, u>>] \otimes x[d] = (ts[u].k[d] \otimes x[d]) \otimes Fade(ts, i, u)
      BY <1>4, <3>1, Reorder
    <3>3. M[<<d, u>>] \otimes x[d] \in Num
      BY <3>1, Closed
    <3> QED BY <3>2, <3>3
  <2> HIDE DEF kx, byKey
  <2>4. Nums(kx, KHd) /\ Nums(byKey(u), KHd) /\ Fade(ts, i, u) \in Num /\ g[u] \in Num
    BY <1>3, <2>2, <2>3 DEF Nums
  <2>5. Sum(kx, KHd) \otimes Fade(ts, i, u) = Sum(sc, KHd)
    BY <1>1, <2>4, SumScaled
  <2> HIDE DEF sc
  <2>6. Sum(byKey(u), KHd) = Sum(sc, KHd) /\ Sum(byKey(u), KHd) \in Num
    BY <1>1, <2>3, <2>4, SumsAgree, SumSteps
  <2>7. Sum(byKey(u), KHd) \otimes g[u] \in Num
    BY <2>4, <2>6, Closed
  <2> QED BY <2>1, <2>5, <2>6, <2>7
<1> HIDE DEF cols, rest, first, want
<1>11. Nums(want, m)
  BY <1>10 DEF Nums
<1>12. Sum(cols, m) = Sum(want, m)
  BY <1>1, <1>10, <1>11, SumsAgree
<1>13. Sum(whole, KHd) = times(s, xE)[e] \oplus Sum(want, m)
  BY <1>7, <1>8, <1>9, <1>12
<1> QED BY <1>13 DEF whole, want, E, dot, Scaled, Learnt

-----------------------------------------------------------------------------
(* What a token gains, from what the earlier ones of its chunk gained: one *)
(* row of the triangular system.                                           *)

\* The right side: the token's value, less what the first state predicts.
Rhs(s, ts, t, e) ==
  ts[t].v[e] \otimes ts[t].beta
    \ominus times(s, Scaled(k_beta(ts, t), exp(Age(ts, t))))[e]

LEMMA KeyTypes ==
  ASSUME NEW ts \in Seq(Inputs), NEW t \in 1..Len(ts)
  PROVE  /\ ts[t] \in Inputs /\ ts[t].beta \in Num
         /\ \A d \in 1..KHd : /\ ts[t].k[d] \in Num /\ ts[t].q[d] \in Num
                              /\ k_beta(ts, t)[d] = ts[t].k[d] \otimes ts[t].beta
                              /\ k_beta(ts, t)[d] \in Num
         /\ Nums(k_beta(ts, t), KHd) /\ Nums(ts[t].k, KHd) /\ Nums(ts[t].q, KHd)
<1>1. ts[t] \in Inputs
  OBVIOUS
<1>2. /\ ts[t].beta \in Num
      /\ \A d \in 1..KHd : ts[t].k[d] \in Num /\ ts[t].q[d] \in Num
  BY <1>1, InputTypes
<1>3. ASSUME NEW d \in 1..KHd
      PROVE  k_beta(ts, t)[d] = ts[t].k[d] \otimes ts[t].beta /\ k_beta(ts, t)[d] \in Num
  <2>1. k_beta(ts, t)[d] = ts[t].k[d] \otimes ts[t].beta
    BY DEF k_beta
  <2>2. ts[t].k[d] \otimes ts[t].beta \in Num
    BY <1>2, Closed
  <2> QED BY <2>1, <2>2
<1> QED BY <1>1, <1>2, <1>3 DEF Nums

LEMMA DotType ==
  ASSUME NEW x, NEW y, Nums(x, KHd), Nums(y, KHd)
  PROVE  dot(x, y) \in Num
<1> DEFINE g == [d \in 1..KHd |-> x[d] \otimes y[d]]
<1>1. \A d \in 1..KHd : x[d] \in Num /\ y[d] \in Num
  BY DEF Nums
<1>2. \A d \in 1..KHd : g[d] \in Num
  BY <1>1, Closed
<1>3. dot(x, y) = Sum(g, KHd) /\ KHd \in Nat
  BY InputsAssumption DEF dot
<1> HIDE DEF g
<1> QED BY <1>2, <1>3, SumSteps DEF Nums

\* The lower triangle of the system, and the zeros above it.
LEMMA KkDots ==
  ASSUME NEW ts \in Seq(Inputs), NEW i \in 1..Len(ts), NEW j \in 1..Len(ts)
  PROVE  /\ kk_dot(ts, i, j) \in Num
         /\ j < i => kk_dot(ts, i, j) = dot(ts[j].k, k_beta(ts, i)) \otimes Fade(ts, i, j)
         /\ i <= j => kk_dot(ts, i, j) = Zero
<1>1. dot(ts[j].k, k_beta(ts, i)) \in Num
  BY KeyTypes, DotType
<1>2. i \in 0..Len(ts) /\ j \in 0..Len(ts) /\ Fade(ts, i, j) \in Num
  <2>1. i \in 0..Len(ts) /\ j \in 0..Len(ts)
    OBVIOUS
  <2> QED BY <2>1, Fades
<1>3. CASE j < i
  <2>1. decay_mask(ts, i, j) = Fade(ts, i, j)
    BY <1>3, Ages DEF decay_mask, Fade
  <2>2. dot(ts[j].k, k_beta(ts, i)) \otimes Fade(ts, i, j) \in Num
    BY <1>1, <1>2, Closed
  <2> QED BY <1>3, <2>1, <2>2 DEF kk_dot
<1>4. CASE i <= j
  <2>1. decay_mask(ts, i, j) = Zero
    BY <1>4 DEF decay_mask
  <2>2. dot(ts[j].k, k_beta(ts, i)) \otimes Zero = Zero /\ Zero \in Num
    BY <1>1, TimesZero, RingAssumption
  <2> QED BY <1>4, <2>1, <2>2 DEF kk_dot
<1> QED BY <1>3, <1>4

LEMMA RhsType ==
  ASSUME NEW s \in States, NEW ts \in Seq(Inputs), NEW t \in 1..Len(ts), NEW e \in 1..VHd
  PROVE  /\ ts[t].v[e] \in Num /\ ts[t].v[e] \otimes ts[t].beta \in Num
         /\ times(s, Scaled(k_beta(ts, t), exp(Age(ts, t))))[e] \in Num
         /\ Rhs(s, ts, t, e) \in Num
<1> DEFINE kE == Scaled(k_beta(ts, t), exp(Age(ts, t)))
<1>1. ts[t] \in Inputs /\ t \in 0..Len(ts)
  OBVIOUS
<1>2. exp(Age(ts, t)) \in Num
  BY <1>1, Fades
<1>3. \A d \in 1..KHd : k_beta(ts, t)[d] \otimes exp(Age(ts, t)) \in Num
  BY <1>2, KeyTypes, Closed
<1>4. Nums(kE, KHd)
  BY <1>3 DEF Nums, Scaled
<1>5. times(s, kE)[e] \in Num
  <2> HIDE DEF kE
  <2> QED BY <1>4, TimesType
<1>6. ts[t].v[e] \in Num /\ ts[t].beta \in Num
  BY <1>1, InputTypes
<1>7. ts[t].v[e] \otimes ts[t].beta \in Num
  BY <1>6, Closed
<1>8. (ts[t].v[e] \otimes ts[t].beta) \ominus times(s, kE)[e] \in Num
  <2> HIDE DEF kE
  <2> QED BY <1>5, <1>7, Closed
<1> QED BY <1>5, <1>6, <1>7, <1>8 DEF Rhs

LEMMA GainIs ==
  ASSUME NEW s \in States, NEW ts \in Seq(Inputs), NEW f, Run(s, ts, f),
         NEW t \in 1..Len(ts), NEW e \in 1..VHd
  PROVE  Gain(ts, f, t)[e]
           = Rhs(s, ts, t, e)
               \ominus Sum([u \in 1..t - 1 |-> kk_dot(ts, t, u) \otimes Gain(ts, f, u)[e]], t - 1)
<1> DEFINE st == Decayed(f[t - 1], ts[t])
           k == ts[t].k
           kb == k_beta(ts, t)
           b == ts[t].beta
           C == [d \in 1..KHd |-> st[<<d, e>>]]
           Ck == [d \in 1..KHd |-> st[<<d, e>>] \otimes k[d]]
           Ckb == [d \in 1..KHd |-> C[d] \otimes kb[d]]
           sc == [d \in 1..KHd |-> Ck[d] \otimes b]
           kE == Scaled(kb, exp(Age(ts, t)))
           by == [u \in 1..t - 1 |-> (dot(ts[u].k, kb) \otimes Fade(ts, t, u)) \otimes Gain(ts, f, u)[e]]
           kk == [u \in 1..t - 1 |-> kk_dot(ts, t, u) \otimes Gain(ts, f, u)[e]]
<1>1. /\ t \in 0..Len(ts) /\ t - 1 \in 0..Len(ts) /\ t - 1 \in Nat /\ KHd \in Nat
      /\ f[t - 1] \in States /\ ts[t] \in Inputs
  <2>1. t \in 0..Len(ts) /\ t - 1 \in 0..Len(ts) /\ t - 1 \in Nat /\ KHd \in Nat
    BY InputsAssumption
  <2> QED BY <2>1, GainType
<1>2. st \in States /\ \A d \in 1..KHd : <<d, e>> \in Cells /\ C[d] \in Num
  <2>1. st \in States
    BY <1>1, DeltaType
  <2>2. \A d \in 1..KHd : <<d, e>> \in Cells
    BY DEF Cells
  <2> HIDE DEF st
  <2> QED BY <2>1, <2>2 DEF States
<1>3. \A d \in 1..KHd : C[d] = s[<<d, e>>] \otimes exp(Age(ts, t)) \oplus Sum(Term(ts, f, t, <<d, e>>), t - 1)
  <2> SUFFICES ASSUME NEW d \in 1..KHd
               PROVE  st[<<d, e>>] = Before(s, ts, f, t, <<d, e>>)
    BY DEF Before
  <2>1. st[<<d, e>>] = f[t - 1][<<d, e>>] \otimes exp(ts[t].g_log)
    BY <1>2 DEF Decayed
  <2>2. f[t - 1][<<d, e>>] = After(s, ts, f, t - 1, <<d, e>>)
    BY <1>1, <1>2, StatesAre
  <2> QED BY <1>2, <2>1, <2>2, FadedIs
<1>4. \A d \in 1..KHd : /\ Ck[d] = C[d] \otimes k[d] /\ Ck[d] \in Num
                        /\ Ckb[d] = sc[d] /\ Ckb[d] \in Num
  <2> SUFFICES ASSUME NEW d \in 1..KHd
               PROVE  /\ C[d] \otimes k[d] \in Num
                      /\ C[d] \otimes kb[d] = (C[d] \otimes k[d]) \otimes b
                      /\ C[d] \otimes kb[d] \in Num
    OBVIOUS
  <2>1. C[d] \in Num /\ k[d] \in Num /\ b \in Num /\ kb[d] \in Num /\ kb[d] = k[d] \otimes b
    BY <1>2, KeyTypes
  <2> HIDE DEF C, k, b, kb
  <2>2. C[d] \otimes k[d] \in Num /\ C[d] \otimes kb[d] \in Num
    BY <2>1, Closed
  <2>3. C[d] \otimes (k[d] \otimes b) = (C[d] \otimes k[d]) \otimes b
    BY <2>1, Associates
  <2> QED BY <2>1, <2>2, <2>3
<1>5. times(st, k)[e] = Sum(Ck, KHd)
  BY DEF times
<1> HIDE DEF C, Ck, Ckb, sc, st
<1>6. Sum(Ck, KHd) \otimes b = Sum(Ckb, KHd) /\ Sum(Ck, KHd) \in Num
  <2>1. Nums(Ck, KHd) /\ Nums(Ckb, KHd) /\ b \in Num
    BY <1>4, KeyTypes DEF Nums
  <2>2. Sum(Ck, KHd) \otimes b = Sum(sc, KHd)
    BY <1>1, <2>1, SumScaled DEF sc
  <2> QED BY <1>1, <1>4, <2>1, <2>2, SumsAgree, SumSteps
<1>7. Sum(Ckb, KHd) = times(s, kE)[e] \oplus Sum(by, t - 1)
  <2>1. Nums(kb, KHd)
    BY KeyTypes
  <2>2. dot(C, kb) = times(s, kE)[e] \oplus Learnt(ts, f, kb, t, t - 1, e)
    BY <1>1, <1>3, <2>1, ReadBack
  <2>3. dot(C, kb) = Sum(Ckb, KHd)
    BY DEF Ckb, dot
  <2>4. Learnt(ts, f, kb, t, t - 1, e) = Sum(by, t - 1)
    BY DEF Learnt
  <2> QED BY <2>2, <2>3, <2>4
<1>8. \A u \in 1..t - 1 : /\ kk[u] = by[u] /\ kk[u] \in Num
  <2> SUFFICES ASSUME NEW u \in 1..t - 1
               PROVE  /\ kk_dot(ts, t, u) = dot(ts[u].k, kb) \otimes Fade(ts, t, u)
                      /\ kk_dot(ts, t, u) \otimes Gain(ts, f, u)[e] \in Num
    OBVIOUS
  <2>1. u \in 1..Len(ts) /\ u < t
    OBVIOUS
  <2>2. Gain(ts, f, u)[e] \in Num /\ kk_dot(ts, t, u) \in Num
    BY <2>1, GainType, KkDots
  <2> QED BY <2>1, <2>2, KkDots, Closed
<1> DEFINE V == ts[t].v[e]
           P == times(s, kE)[e]
           G == Sum(kk, t - 1)
<1>9. Sum(by, t - 1) = G /\ G \in Num
  <2> HIDE DEF kk, by
  <2>1. Nums(kk, t - 1)
    BY <1>8 DEF Nums
  <2> QED BY <1>1, <1>8, <2>1, SumsAgree, SumSteps
<1>10. V \in Num /\ P \in Num /\ b \in Num /\ V \otimes b \in Num
  BY RhsType, KeyTypes
<1>11. Gain(ts, f, t)[e] = (V \ominus times(st, k)[e]) \otimes b
  BY DEF Gain, Delta, st
<1>12. Rhs(s, ts, t, e) = (V \otimes b) \ominus P
  BY DEF Rhs
<1> HIDE DEF V, P, b, kk, by, k, kb
<1>13. (V \ominus Sum(Ck, KHd)) \otimes b = (V \otimes b) \ominus (Sum(Ck, KHd) \otimes b)
  BY <1>6, <1>10, Differences
<1>14. Sum(Ck, KHd) \otimes b = P \oplus G
  BY <1>6, <1>7, <1>9 DEF P
<1>15. (V \otimes b) \ominus (P \oplus G) = ((V \otimes b) \ominus P) \ominus G
  <2> HIDE DEF G
  <2> QED BY <1>9, <1>10, Differences
<1>16. Gain(ts, f, t)[e] = Rhs(s, ts, t, e) \ominus G
  BY <1>5, <1>11, <1>12, <1>13, <1>14, <1>15
<1> QED BY <1>16 DEF kk

-----------------------------------------------------------------------------
(* The solve.                                                              *)

\* solve_tri_lower_unit_f32 solves the system: the buffer it is computed in
\* has every number it reads by the time it reads it.
LEMMA Solves ==
  ASSUME NEW N \in Nat, NEW A, \A i, j \in 1..N : A[<<i, j>>] \in Num,
         NEW b \in [1..N -> Num]
  PROVE  /\ SolveTri(N, A, b) \in [1..N -> Num]
         /\ \A i \in 1..N : SolveTri(N, A, b)[i]
              = b[i] \ominus Sum([t \in 1..N |-> A[<<i, t>>] \otimes SolveTri(N, A, b)[t]], i - 1)
<1> DEFINE V == [1..N -> Num]
           row(i, x) == [t \in 1..N |-> A[<<i, t>>] \otimes x[t]]
           new(i, x) == b[i] \ominus Sum(row(i, x), i - 1)
           Def(g) == g = [i \in 0..N |-> IF i = 0 THEN b ELSE [g[i-1] EXCEPT ![i] = new(i, g[i-1])]]
           F == [i \in 1..N |-> [x \in V |-> [x EXCEPT ![i] = new(i, x)]]]
           h == CHOOSE g : Def(g)
<1>1. ASSUME NEW i \in 1..N, NEW x \in V
      PROVE  Nums(row(i, x), N) /\ Nums(row(i, x), i - 1) /\ i - 1 \in Nat /\ new(i, x) \in Num
  <2>1. \A t \in 1..N : A[<<i, t>>] \in Num /\ x[t] \in Num
    OBVIOUS
  <2>2. \A t \in 1..N : row(i, x)[t] \in Num
    BY <2>1, Closed
  <2> HIDE DEF row
  <2>3. Nums(row(i, x), N) /\ Nums(row(i, x), i - 1) /\ i - 1 \in Nat
    BY <2>2 DEF Nums
  <2>4. Sum(row(i, x), i - 1) \in Num /\ b[i] \in Num
    BY <2>3, SumSteps
  <2> QED BY <2>3, <2>4, Closed
<1> HIDE DEF new
<1>2. \A i \in 1..N, x \in V : [x EXCEPT ![i] = new(i, x)] \in V
  BY <1>1
<1>3. F \in [1..N -> [V -> V]]
  BY <1>2
<1> HIDE DEF F
<1>4. PICK g \in [0..N -> V] : g[0] = b /\ \A i \in 1..N : g[i] = F[i][g[i - 1]]
  <2>1. IsDefined(N, V, b, F)
    BY <1>3, Recursion
  <2> QED BY <2>1 DEF IsDefined
<1>5. \A i \in 1..N : i - 1 \in 0..N /\ g[i - 1] \in V /\ g[i] = [g[i - 1] EXCEPT ![i] = new(i, g[i - 1])]
  <2> SUFFICES ASSUME NEW i \in 1..N
               PROVE  i - 1 \in 0..N /\ g[i - 1] \in V /\ g[i] = [g[i - 1] EXCEPT ![i] = new(i, g[i - 1])]
    OBVIOUS
  <2>1. i - 1 \in 0..N
    OBVIOUS
  <2>2. g[i - 1] \in V
    BY <2>1
  <2> QED BY <1>4, <2>1, <2>2 DEF F
<1>6. Def(g)
  <2>1. ASSUME NEW i \in 0..N
        PROVE  g[i] = IF i = 0 THEN b ELSE [g[i-1] EXCEPT ![i] = new(i, g[i-1])]
    <3>1. CASE i = 0
      BY <1>4, <3>1
    <3>2. CASE i # 0
      <4>1. i \in 1..N
        BY <3>2
      <4> QED BY <1>5, <3>2, <4>1
    <3> QED BY <3>1, <3>2
  <2> HIDE DEF V
  <2> QED BY <2>1
<1>7. Def(h)
  <2> HIDE DEF Def
  <2> QED BY <1>6
<1>8. SolveTri(N, A, b) = h[N]
  BY DEF SolveTri, new
<1> HIDE DEF h
<1>9. h = g
  <2>1. h = [i \in 0..N |-> IF i = 0 THEN b ELSE [h[i-1] EXCEPT ![i] = new(i, h[i-1])]]
    BY <1>7
  <2> DEFINE S == {i \in 0..N : h[i] = g[i]}
  <2>2. 0 \in S
    BY <1>4, <2>1
  <2>3. ASSUME NEW i \in 1..N, i - 1 \in S PROVE i \in S
    <3>1. i \in 0..N /\ i # 0 /\ h[i - 1] = g[i - 1]
      BY <2>3
    <3>2. h[i] = [h[i-1] EXCEPT ![i] = new(i, h[i-1])]
      BY <2>1, <3>1
    <3> QED BY <1>5, <3>1, <3>2
  <2> HIDE DEF S
  <2>4. \A i \in 0..N : i \in S
    BY <2>2, <2>3, UpTo
  <2>5. \A i \in 0..N : h[i] = g[i]
    BY <2>4 DEF S
  <2> QED BY <2>1, <2>5
<1> DEFINE x == SolveTri(N, A, b)
<1>10. x = g[N] /\ x \in V /\ N \in 0..N
  BY <1>4, <1>8, <1>9
<1> HIDE DEF Def, x
\* A number that was computed stays.
<1>11. \A j \in 0..N : \A t \in 1..N : t <= j => g[j][t] = g[t][t]
  <2> DEFINE S == {j \in 0..N : \A t \in 1..N : t <= j => g[j][t] = g[t][t]}
  <2>1. 0 \in S
    OBVIOUS
  <2>2. ASSUME NEW j \in 1..N, j - 1 \in S PROVE j \in S
    <3>1. j \in 0..N
      OBVIOUS
    <3>2. ASSUME NEW t \in 1..N, t <= j PROVE g[j][t] = g[t][t]
      <4>1. CASE t = j
        BY <4>1
      <4>2. CASE t # j
        <5>1. t <= j - 1
          BY <3>2, <4>2
        <5>2. g[j - 1][t] = g[t][t]
          BY <2>2, <5>1
        <5>3. g[j][t] = g[j - 1][t]
          BY <1>5, <4>2
        <5> QED BY <5>2, <5>3
      <4> QED BY <4>1, <4>2
    <3> QED BY <3>1, <3>2
  <2> HIDE DEF S
  <2>3. \A j \in 0..N : j \in S
    BY <2>1, <2>2, UpTo
  <2> QED BY <2>3 DEF S
<1>12. ASSUME NEW i \in 1..N PROVE x[i] = new(i, x)
  <2>1. i \in 0..N /\ i <= N /\ i - 1 \in 0..N /\ g[i - 1] \in V
    BY <1>5
  <2>2. x[i] = g[i][i]
    BY <1>10, <1>11, <2>1
  <2>3. g[i][i] = new(i, g[i - 1])
    BY <1>5, <2>1
  <2>4. \A t \in 1..i - 1 : g[i - 1][t] = x[t]
    <3> SUFFICES ASSUME NEW t \in 1..i - 1 PROVE g[i - 1][t] = x[t]
      OBVIOUS
    <3>1. t \in 1..N /\ t <= i - 1 /\ t <= N
      OBVIOUS
    <3> QED BY <1>10, <1>11, <2>1, <3>1
  <2>5. \A t \in 1..i - 1 : row(i, g[i - 1])[t] = row(i, x)[t]
    BY <2>4
  <2>6. Nums(row(i, g[i - 1]), i - 1) /\ i - 1 \in Nat
    BY <1>1, <2>1
  <2> HIDE DEF row
  <2>7. Sum(row(i, g[i - 1]), i - 1) = Sum(row(i, x), i - 1)
    BY <2>5, <2>6, SumsAgree
  <2> QED BY <2>2, <2>3, <2>7 DEF new
<1> QED BY <1>10, <1>12 DEF x, new

\* A sum with one term that another has as Zero.
LEMMA SumWithOneMore ==
  ASSUME NEW n \in Nat, NEW j \in 1..n, NEW f, NEW g, Nums(f, n), Nums(g, n),
         g[j] = Zero, \A i \in 1..n : i # j => f[i] = g[i]
  PROVE  Sum(f, n) = Sum(g, n) \oplus f[j]
<1> DEFINE p == [i \in 1..n |-> IF i = j THEN f[j] ELSE Zero]
           both == [i \in 1..n |-> g[i] \oplus p[i]]
<1>1. f[j] \in Num /\ Zero \in Num /\ \A i \in 1..n : f[i] \in Num /\ g[i] \in Num
  BY RingAssumption DEF Nums
<1>2. \A i \in 1..n : p[i] \in Num /\ (i # j => p[i] = Zero) /\ (i = j => p[i] = f[j])
  BY <1>1
<1>3. \A i \in 1..n : both[i] = g[i] \oplus p[i]
  OBVIOUS
<1> HIDE DEF p, both
<1>4. \A i \in 1..n : f[i] = both[i]
  <2> SUFFICES ASSUME NEW i \in 1..n PROVE f[i] = g[i] \oplus p[i]
    BY <1>3
  <2>1. CASE i = j
    BY <1>1, <1>2, <2>1, Neutral
  <2>2. CASE i # j
    BY <1>1, <1>2, <2>2, Neutral
  <2> QED BY <2>1, <2>2
<1>5. Nums(p, n) /\ Nums(p, j) /\ Nums(p, j - 1) /\ Nums(p, 0) /\ j \in Nat /\ j - 1 \in Nat /\ j \in 0..n
  BY <1>2 DEF Nums
<1>6. Sum(f, n) = Sum(both, n)
  BY <1>4, SumsAgree
<1>7. Sum(g, n) \oplus Sum(p, n) = Sum(both, n)
  BY <1>5, SumOfSums DEF both
<1>8. Sum(p, n) = Sum(p, j)
  <2>1. \A i \in j + 1..n : p[i] = Zero
    BY <1>2
  <2> QED BY <1>5, <2>1, SumOfZeros
<1>9. Sum(p, j - 1) = Zero
  <2>1. \A i \in 0 + 1..j - 1 : p[i] = Zero
    BY <1>2
  <2>2. 0 \in 0..j - 1
    BY <1>5
  <2>3. Sum(p, j - 1) = Sum(p, 0)
    BY <1>5, <2>1, <2>2, SumOfZeros
  <2> QED BY <1>5, <2>3, SumSteps
<1>10. Sum(p, j) = Sum(p, j - 1) \oplus p[j]
  <2>1. j # 0
    OBVIOUS
  <2> QED BY <1>5, <2>1, SumSteps
<1>11. Zero \oplus p[j] = f[j]
  BY <1>1, <1>2, Neutral
<1> QED BY <1>6, <1>7, <1>8, <1>9, <1>10, <1>11

\* attn is the inverse of the unit triangle: the identity, less what the rows
\* above give.
LEMMA AttnIs ==
  ASSUME NEW ts \in Seq(Inputs), NEW i \in 1..Len(ts), NEW j \in 1..Len(ts)
  PROVE  /\ attn(ts)[<<i, j>>] \in Num
         /\ i = j => attn(ts)[<<i, j>>] = One
         /\ i < j => attn(ts)[<<i, j>>] = Zero
         /\ j < i => attn(ts)[<<i, j>>] = Zero \ominus
              Sum([w \in 1..i - 1 |-> attn(ts)[<<w, j>>] \otimes kk_dot(ts, i, w)], i - 1)
<1> DEFINE N == Len(ts)
           lhs == [p \in (1..N) \X (1..N) |-> IF p[1] = p[2] THEN One ELSE kk_dot(ts, p[1], p[2])]
           rhs == [m \in 1..N |-> Zero \ominus kk_dot(ts, m, j)]
           x == SolveTri(N, lhs, rhs)
           row(m) == [t \in 1..N |-> lhs[<<m, t>>] \otimes x[t]]
           at == attn(ts)
           wanted_row == [w \in 1..i - 1 |-> at[<<w, j>>] \otimes kk_dot(ts, i, w)]
<1>1. N \in Nat /\ Zero \in Num /\ One \in Num
  BY RingAssumption
<1>2. \A m, t \in 1..N : /\ lhs[<<m, t>>] \in Num
                         /\ m # t => lhs[<<m, t>>] = kk_dot(ts, m, t)
  BY <1>1, KkDots
<1>3. \A m \in 1..N : rhs[m] = Zero \ominus kk_dot(ts, m, j) /\ rhs[m] \in Num
  BY <1>1, KkDots, Closed
<1>4. /\ at[<<i, j>>] = IF j < i THEN x[i] ELSE IF j = i THEN One ELSE Zero
      /\ \A w \in 1..N : at[<<w, j>>] = IF j < w THEN x[w] ELSE IF j = w THEN One ELSE Zero
  BY DEF attn
<1>5. rhs \in [1..N -> Num]
  BY <1>3
<1> HIDE DEF lhs, rhs
<1>6. x \in [1..N -> Num] /\ \A m \in 1..N : x[m] = rhs[m] \ominus Sum(row(m), m - 1)
  BY <1>1, <1>2, <1>5, Solves
<1> HIDE DEF x, at
<1>7. \A m, t \in 1..N : row(m)[t] = lhs[<<m, t>>] \otimes x[t] /\ row(m)[t] \in Num
  <2> SUFFICES ASSUME NEW m \in 1..N, NEW t \in 1..N PROVE lhs[<<m, t>>] \otimes x[t] \in Num
    OBVIOUS
  <2>1. lhs[<<m, t>>] \in Num /\ x[t] \in Num
    BY <1>2, <1>6
  <2> QED BY <2>1, Closed
<1> HIDE DEF row
\* Down to the diagonal the column is zero.
<1>8. \A m \in 1..N : m <= j => x[m] = Zero
  <2> DEFINE S == {m \in 0..N : \A t \in 1..m : t <= j => x[t] = Zero}
  <2>1. 0 \in S
    OBVIOUS
  <2>2. ASSUME NEW m \in 1..N, m - 1 \in S PROVE m \in S
    <3>1. m \in 0..N /\ \A t \in 1..m - 1 : t \in 1..N /\ (t <= j => x[t] = Zero)
      BY <2>2
    <3>2. ASSUME m <= j PROVE x[m] = Zero
      <4>1. rhs[m] = Zero
        <5>1. kk_dot(ts, m, j) = Zero
          BY <3>2, KkDots
        <5>2. Zero \ominus Zero = Zero
          BY <1>1, TimesZero
        <5> QED BY <1>3, <5>1, <5>2
      <4>2. \A t \in 0 + 1..m - 1 : row(m)[t] = Zero
        <5> SUFFICES ASSUME NEW t \in 1..m - 1 PROVE row(m)[t] = Zero
          OBVIOUS
        <5>1. t \in 1..N /\ x[t] = Zero /\ lhs[<<m, t>>] \in Num
          BY <1>2, <3>1, <3>2
        <5> QED BY <1>7, <5>1, TimesZero
      <4>3. Nums(row(m), 0) /\ 0 \in 0..m - 1 /\ m - 1 \in Nat /\ 0 \in Nat
        BY DEF Nums
      <4>4. Sum(row(m), m - 1) = Sum(row(m), 0) /\ Sum(row(m), 0) = Zero
        BY <4>2, <4>3, SumOfZeros, SumSteps
      <4>5. Zero \ominus Zero = Zero
        BY <1>1, TimesZero
      <4> QED BY <1>6, <4>1, <4>4, <4>5
    <3>3. \A t \in 1..m : t \in 1..m - 1 \/ t = m
      OBVIOUS
    <3> QED BY <3>1, <3>2, <3>3
  <2> HIDE DEF S
  <2>3. \A m \in 0..N : m \in S
    BY <1>1, <2>1, <2>2, UpTo
  <2>4. N \in S
    BY <1>1, <2>3
  <2> QED BY <2>4 DEF S
<1>9. at[<<i, j>>] \in Num
  BY <1>1, <1>4, <1>6
<1>10. ASSUME j < i PROVE at[<<i, j>>] = Zero \ominus Sum(wanted_row, i - 1)
  <2> DEFINE k == kk_dot(ts, i, j)
             R == Sum(row(i), i - 1)
  <2>1. i - 1 \in Nat /\ j \in 1..i - 1 /\ \A w \in 1..i - 1 : w \in 1..N /\ w # i
    BY <1>10
  <2>2. k \in Num /\ Zero \in Num
    BY <1>1, KkDots
  <2>3. Nums(row(i), i - 1) /\ R \in Num
    <3>1. Nums(row(i), i - 1)
      BY <1>7, <2>1 DEF Nums
    <3> QED BY <2>1, <3>1, SumSteps
  <2>4. \A w \in 1..i - 1 : /\ wanted_row[w] \in Num
                            /\ w # j => wanted_row[w] = row(i)[w]
    <3> SUFFICES ASSUME NEW w \in 1..i - 1
                 PROVE  /\ at[<<w, j>>] \otimes kk_dot(ts, i, w) \in Num
                        /\ w # j => at[<<w, j>>] \otimes kk_dot(ts, i, w) = row(i)[w]
      OBVIOUS
    <3>1. w \in 1..N /\ w # i /\ lhs[<<i, w>>] = kk_dot(ts, i, w) /\ kk_dot(ts, i, w) \in Num /\ x[w] \in Num
      BY <1>2, <1>6, <2>1, KkDots
    <3>2. at[<<w, j>>] \in Num /\ (w # j => at[<<w, j>>] = x[w])
      BY <1>1, <1>4, <1>6, <1>8, <3>1
    <3>3. at[<<w, j>>] \otimes kk_dot(ts, i, w) \in Num
      BY <3>1, <3>2, Closed
    <3>4. row(i)[w] = x[w] \otimes kk_dot(ts, i, w)
      BY <1>7, <3>1, Commutes
    <3> QED BY <3>2, <3>3, <3>4
  <2>5. wanted_row[j] = k
    <3>1. at[<<j, j>>] = One
      BY <1>4
    <3> QED BY <2>1, <2>2, <3>1, Neutral
  <2>6. row(i)[j] = Zero
    <3>1. x[j] = Zero /\ lhs[<<i, j>>] \in Num
      BY <1>2, <1>8
    <3> QED BY <1>7, <3>1, TimesZero
  <2> HIDE DEF wanted_row, k, R
  <2>7. Nums(wanted_row, i - 1)
    BY <2>4 DEF Nums
  <2>8. Sum(wanted_row, i - 1) = R \oplus k
    BY <2>1, <2>3, <2>4, <2>5, <2>6, <2>7, SumWithOneMore DEF R
  <2>9. at[<<i, j>>] = (Zero \ominus k) \ominus R
    BY <1>3, <1>4, <1>6, <1>10 DEF k, R
  <2>10. (Zero \ominus k) \ominus R = Zero \ominus (k \oplus R) /\ k \oplus R = R \oplus k
    BY <2>2, <2>3, Differences, Commutes
  <2> QED BY <2>8, <2>9, <2>10
<1> QED BY <1>4, <1>9, <1>10 DEF at

\* A column mixed by attn solves the triangular system for that column.
LEMMA MixedSolves ==
  ASSUME NEW ts \in Seq(Inputs), NEW col \in [1..Len(ts) -> Num], NEW t \in 1..Len(ts)
  PROVE  /\ Mixed(attn(ts), t, col) \in Num
         /\ Mixed(attn(ts), t, col) = col[t] \ominus
              Sum([w \in 1..t - 1 |-> kk_dot(ts, t, w) \otimes Mixed(attn(ts), w, col)], t - 1)
<1> DEFINE N == Len(ts)
           n == t - 1
           at == attn(ts)
           mix(w) == [u \in DOMAIN col |-> at[<<w, u>>] \otimes col[u]]
           kk == [w \in 1..n |-> kk_dot(ts, t, w)]
           part(w) == [u \in 1..n |-> at[<<w, u>>] \otimes col[u]]
           above(u) == [w \in 1..n |-> at[<<w, u>>] \otimes kk[w]]
           rows == [w \in 1..n |-> Sum(part(w), n) \otimes kk[w]]
           cols == [u \in 1..n |-> Sum(above(u), n) \otimes col[u]]
           want == [w \in 1..n |-> kk_dot(ts, t, w) \otimes Mixed(at, w, col)]
           none == [u \in 1..n |-> mix(t)[u] \oplus cols[u]]
<1>1. /\ n \in Nat /\ t \in Nat /\ t # 0 /\ Zero \in Num /\ \A w \in 1..n : w \in 1..N /\ w < t /\ w \in Nat
      /\ DOMAIN col = 1..N
  <2>1. n \in Nat /\ t \in Nat /\ t # 0 /\ \A w \in 1..n : w \in 1..N /\ w < t /\ w \in Nat
    OBVIOUS
  <2>2. Zero \in Num
    BY RingAssumption
  <2> HIDE DEF n
  <2> QED BY <2>1, <2>2
<1>2. \A w \in 1..N : col[w] \in Num
  OBVIOUS
<1>3. \A w, u \in 1..N : /\ at[<<w, u>>] \in Num
                         /\ w = u => at[<<w, u>>] = One
                         /\ w < u => at[<<w, u>>] = Zero
  BY AttnIs
<1>4. ASSUME NEW w \in 1..N
      PROVE  /\ Mixed(at, w, col) = Sum(mix(w), w)
             /\ \A u \in 1..N : mix(w)[u] = at[<<w, u>>] \otimes col[u] /\ mix(w)[u] \in Num
  <2>1. Mixed(at, w, col) = Sum(mix(w), w)
    BY DEF Mixed
  <2>2. \A u \in 1..N : at[<<w, u>>] \otimes col[u] \in Num
    BY <1>2, <1>3, Closed
  <2> QED BY <1>1, <2>1, <2>2
<1>5. \A w \in 1..n : kk[w] = kk_dot(ts, t, w) /\ kk[w] \in Num
  BY <1>1, KkDots
<1>6. \A u \in 1..n : at[<<t, u>>] = Zero \ominus Sum(above(u), n) /\ Sum(above(u), n) \in Num
  <2> SUFFICES ASSUME NEW u \in 1..n
               PROVE  at[<<t, u>>] = Zero \ominus Sum(above(u), n) /\ Sum(above(u), n) \in Num
    OBVIOUS
  <2> DEFINE x == [w \in 1..t - 1 |-> attn(ts)[<<w, u>>] \otimes kk_dot(ts, t, w)]
  <2>1. at[<<t, u>>] = Zero \ominus Sum(x, n)
    BY <1>1, AttnIs
  <2>2. \A w \in 1..n : above(u)[w] = x[w] /\ above(u)[w] = at[<<w, u>>] \otimes kk[w]
    BY <1>5
  <2>3. \A w \in 1..n : at[<<w, u>>] \otimes kk[w] \in Num
    BY <1>1, <1>3, <1>5, Closed
  <2> HIDE DEF x, above
  <2>4. Nums(above(u), n)
    BY <2>2, <2>3 DEF Nums
  <2>5. Sum(above(u), n) = Sum(x, n) /\ Sum(above(u), n) \in Num
    BY <1>1, <2>2, <2>4, SumsAgree, SumSteps
  <2> QED BY <2>1, <2>5
<1>7. Sum(rows, n) = Sum(cols, n)
  <2>1. \A w \in 1..n, u \in 1..n : at[<<w, u>>] \in Num
    BY <1>1, <1>3
  <2>2. Nums(kk, n) /\ Nums(col, n)
    BY <1>1, <1>2, <1>5 DEF Nums
  <2> HIDE DEF at, kk, n
  <2>3. ByRows(at, col, kk, n, n) = ByColumns(at, col, kk, n, n)
    BY <1>1, <2>1, <2>2, Exchange
  <2> QED BY <2>3 DEF ByRows, ByColumns
<1> HIDE DEF mix, above, at, kk
<1>8. \A w \in 1..n : Sum(part(w), n) = Mixed(at, w, col) /\ Mixed(at, w, col) \in Num
  <2> SUFFICES ASSUME NEW w \in 1..n
               PROVE  Sum(part(w), n) = Mixed(at, w, col) /\ Mixed(at, w, col) \in Num
    OBVIOUS
  <2>1. w \in 1..N /\ w \in 0..n /\ w \in Nat /\ \A u \in 1..n : u \in 1..N
    BY <1>1
  <2>2. \A u \in 1..n : part(w)[u] = mix(w)[u] /\ part(w)[u] \in Num
    BY <1>4, <2>1
  <2>3. \A u \in w + 1..n : part(w)[u] = Zero
    <3> SUFFICES ASSUME NEW u \in w + 1..n PROVE at[<<w, u>>] \otimes col[u] = Zero
      BY <2>1
    <3>1. u \in 1..N /\ w < u
      BY <2>1
    <3>2. at[<<w, u>>] = Zero /\ col[u] \in Num
      BY <1>2, <1>3, <2>1, <3>1
    <3> QED BY <3>2, TimesZero
  <2> HIDE DEF part
  <2>4. Nums(part(w), n) /\ Nums(part(w), w)
    BY <2>1, <2>2 DEF Nums
  <2>5. Sum(part(w), n) = Sum(part(w), w)
    BY <1>1, <2>1, <2>3, <2>4, SumOfZeros
  <2>6. Sum(part(w), w) = Sum(mix(w), w) /\ Sum(part(w), w) \in Num
    BY <2>1, <2>2, <2>4, SumsAgree, SumSteps
  <2> QED BY <1>4, <2>1, <2>5, <2>6
<1>9. \A w \in 1..n : rows[w] = want[w] /\ want[w] \in Num
  <2> SUFFICES ASSUME NEW w \in 1..n
               PROVE  /\ Sum(part(w), n) \otimes kk[w] = kk_dot(ts, t, w) \otimes Mixed(at, w, col)
                      /\ kk_dot(ts, t, w) \otimes Mixed(at, w, col) \in Num
    OBVIOUS
  <2> HIDE DEF part
  <2>1. Sum(part(w), n) = Mixed(at, w, col) /\ Mixed(at, w, col) \in Num /\ kk[w] = kk_dot(ts, t, w) /\ kk[w] \in Num
    BY <1>5, <1>8
  <2> QED BY <2>1, Closed, Commutes
<1> HIDE DEF rows, want
<1>10. Sum(want, n) = Sum(cols, n) /\ Sum(want, n) \in Num
  <2>1. Nums(want, n)
    BY <1>9 DEF Nums
  <2> QED BY <1>1, <1>7, <1>9, <2>1, SumsAgree, SumSteps
<1>11. \A u \in 1..n : cols[u] \in Num /\ mix(t)[u] \in Num /\ mix(t)[u] \oplus cols[u] = Zero
  <2> SUFFICES ASSUME NEW u \in 1..n
               PROVE  /\ Sum(above(u), n) \otimes col[u] \in Num /\ mix(t)[u] \in Num
                      /\ mix(t)[u] \oplus Sum(above(u), n) \otimes col[u] = Zero
    OBVIOUS
  <2> DEFINE R == Sum(above(u), n)
  <2>1. u \in 1..N /\ col[u] \in Num /\ R \in Num /\ at[<<t, u>>] = Zero \ominus R
    BY <1>1, <1>2, <1>6
  <2>2. mix(t)[u] = at[<<t, u>>] \otimes col[u] /\ mix(t)[u] \in Num /\ at[<<t, u>>] \in Num
    BY <1>3, <1>4, <2>1
  <2> HIDE DEF R
  <2>3. R \otimes col[u] \in Num
    BY <2>1, Closed
  <2>4. at[<<t, u>>] \otimes col[u] \oplus R \otimes col[u] = (at[<<t, u>>] \oplus R) \otimes col[u]
    BY <2>1, <2>2, Distributes
  <2>5. at[<<t, u>>] \oplus R = Zero
    BY <1>1, <2>1, Difference
  <2>6. Zero \otimes col[u] = Zero
    BY <2>1, TimesZero
  <2>7. mix(t)[u] \oplus R \otimes col[u] = Zero
    BY <2>2, <2>4, <2>5, <2>6
  <2> QED BY <2>2, <2>3, <2>7 DEF R
<1> HIDE DEF cols
<1>12. Sum(mix(t), n) \oplus Sum(cols, n) = Zero /\ Sum(mix(t), n) \in Num /\ Sum(cols, n) \in Num
  <2>1. Nums(mix(t), n) /\ Nums(cols, n)
    BY <1>11 DEF Nums
  <2>2. Sum(mix(t), n) \oplus Sum(cols, n) = Sum(none, n)
    BY <1>1, <2>1, SumOfSums
  <2>3. \A u \in 0 + 1..n : none[u] = Zero
    BY <1>11
  <2>4. 0 \in 0..n /\ 0 \in Nat /\ Nums(none, 0)
    BY <1>1 DEF Nums
  <2> HIDE DEF none
  <2>5. Sum(none, n) = Zero
    BY <1>1, <2>3, <2>4, SumOfZeros, SumSteps
  <2> QED BY <1>1, <2>1, <2>2, <2>5, SumSteps
<1>13. Mixed(at, t, col) = Sum(mix(t), n) \oplus col[t]
  <2>1. mix(t)[t] = col[t]
    <3>1. at[<<t, t>>] = One /\ col[t] \in Num /\ mix(t)[t] = at[<<t, t>>] \otimes col[t]
      BY <1>2, <1>3, <1>4
    <3> QED BY <3>1, Neutral
  <2>2. Nums(mix(t), t)
    <3>1. \A u \in 1..t : u \in 1..N
      OBVIOUS
    <3>2. \A u \in 1..N : mix(t)[u] \in Num
      BY <1>4
    <3> QED BY <3>1, <3>2 DEF Nums
  <2>3. Sum(mix(t), t) = Sum(mix(t), n) \oplus mix(t)[t]
    BY <1>1, <2>2, SumSteps
  <2> QED BY <1>4, <2>1, <2>3
<1> DEFINE A == Sum(mix(t), n)
           Z == Sum(want, n)
<1>14. A \in Num /\ Z \in Num /\ A \oplus Z = Zero /\ col[t] \in Num /\ Mixed(at, t, col) = A \oplus col[t]
  BY <1>2, <1>10, <1>12, <1>13
<1> HIDE DEF A, Z
<1>15. A \oplus col[t] \in Num
  BY <1>14, Closed
<1>16. (A \oplus col[t]) \oplus Z = col[t]
  <2>1. (A \oplus col[t]) \oplus Z = (A \oplus Z) \oplus col[t]
    BY <1>14, Associates, Commutes
  <2> QED BY <1>14, <2>1, Neutral
<1>17. A \oplus col[t] = col[t] \ominus Z
  BY <1>14, <1>15, <1>16, Difference
<1> QED BY <1>14, <1>15, <1>17 DEF Z, want, at

\* v_new is the right side mixed by attn: what the state predicts may be
\* taken off before the mixing or, as the kernel does, after it.
LEMMA VNewIsMixed ==
  ASSUME NEW s \in States, NEW ts \in Seq(Inputs), NEW t \in 1..Len(ts), NEW e \in 1..VHd
  PROVE  v_new(s, ts)[t][e] = Mixed(attn(ts), t, [u \in 1..Len(ts) |-> Rhs(s, ts, u, e)])
<1> DEFINE N == Len(ts)
           at == attn(ts)
           vb == [u \in DOMAIN ts |-> ts[u].v[e] \otimes ts[u].beta]
           kbg(d) == [u \in DOMAIN ts |-> k_beta(ts, u)[d] \otimes exp(gcs(ts)[u])]
           kcd == [d \in 1..KHd |-> Mixed(at, t, kbg(d))]
           R == [u \in 1..N |-> Rhs(s, ts, u, e)]
           P == [u \in 1..t |-> times(s, Scaled(k_beta(ts, u), exp(Age(ts, u))))[e]]
           M == [p \in (1..KHd) \X (1..t) |-> kbg(p[1])[p[2]]]
           x == [u \in 1..t |-> at[<<t, u>>]]
           y == [d \in 1..KHd |-> s[<<d, e>>]]
           mixed(d) == [u \in 1..t |-> M[<<d, u>>] \otimes x[u]]
           read(u) == [d \in 1..KHd |-> M[<<d, u>>] \otimes y[d]]
           rows == [d \in 1..KHd |-> Sum(mixed(d), t) \otimes y[d]]
           cols == [u \in 1..t |-> Sum(read(u), KHd) \otimes x[u]]
           atV == [u \in DOMAIN vb |-> at[<<t, u>>] \otimes vb[u]]
           atR == [u \in DOMAIN R |-> at[<<t, u>>] \otimes R[u]]
           both == [u \in 1..t |-> atR[u] \oplus cols[u]]
<1>1. /\ KHd \in Nat /\ t \in Nat /\ DOMAIN ts = 1..N
      /\ \A u \in 1..t : u \in 1..N /\ u \in 0..N
  BY InputsAssumption
<1>2. v_new(s, ts)[t][e] = Mixed(at, t, vb) \ominus times(s, kcd)[e]
  BY <1>1 DEF v_new
<1>3. Mixed(at, t, vb) = Sum(atV, t) /\ Mixed(at, t, R) = Sum(atR, t)
  BY DEF Mixed
<1>4. \A u \in 1..t : /\ x[u] = at[<<t, u>>] /\ x[u] \in Num
                      /\ vb[u] = ts[u].v[e] \otimes ts[u].beta /\ vb[u] \in Num
                      /\ P[u] = times(s, Scaled(k_beta(ts, u), exp(Age(ts, u))))[e] /\ P[u] \in Num
                      /\ R[u] = vb[u] \ominus P[u] /\ R[u] \in Num
                      /\ atV[u] = x[u] \otimes vb[u] /\ atR[u] = x[u] \otimes R[u]
  <2> SUFFICES ASSUME NEW u \in 1..t
               PROVE  /\ x[u] = at[<<t, u>>] /\ x[u] \in Num
                      /\ vb[u] = ts[u].v[e] \otimes ts[u].beta /\ vb[u] \in Num
                      /\ P[u] = times(s, Scaled(k_beta(ts, u), exp(Age(ts, u))))[e] /\ P[u] \in Num
                      /\ R[u] = vb[u] \ominus P[u] /\ R[u] \in Num
                      /\ atV[u] = x[u] \otimes vb[u] /\ atR[u] = x[u] \otimes R[u]
    OBVIOUS
  <2>1. u \in 1..N
    BY <1>1
  <2>2. x[u] = at[<<t, u>>] /\ x[u] \in Num
    BY <2>1, AttnIs
  <2>3. vb[u] = ts[u].v[e] \otimes ts[u].beta /\ vb[u] \in Num
    BY <1>1, <2>1, RhsType
  <2>4. P[u] = times(s, Scaled(k_beta(ts, u), exp(Age(ts, u))))[e] /\ P[u] \in Num
    BY <2>1, RhsType
  <2>5. R[u] = Rhs(s, ts, u, e) /\ R[u] \in Num
    BY <2>1, RhsType
  <2>6. atV[u] = x[u] \otimes vb[u] /\ atR[u] = x[u] \otimes R[u]
    BY <1>1, <2>1
  <2> HIDE DEF P, R, vb, atV, atR, x
  <2> QED BY <2>2, <2>3, <2>4, <2>5, <2>6 DEF Rhs
<1>5. \A d \in 1..KHd, u \in 1..t :
        /\ M[<<d, u>>] = k_beta(ts, u)[d] \otimes exp(Age(ts, u)) /\ M[<<d, u>>] \in Num
        /\ M[<<d, u>>] = kbg(d)[u]
  <2> SUFFICES ASSUME NEW d \in 1..KHd, NEW u \in 1..t
               PROVE  /\ kbg(d)[u] = k_beta(ts, u)[d] \otimes exp(Age(ts, u))
                      /\ k_beta(ts, u)[d] \otimes exp(Age(ts, u)) \in Num
    OBVIOUS
  <2>1. u \in 1..N /\ u \in 0..N /\ k_beta(ts, u)[d] \in Num /\ exp(Age(ts, u)) \in Num
    BY <1>1, KeyTypes, Fades
  <2>2. gcs(ts)[u] = Age(ts, u)
    BY <2>1, Ages
  <2>3. k_beta(ts, u)[d] \otimes exp(Age(ts, u)) \in Num
    BY <2>1, Closed
  <2> QED BY <1>1, <2>1, <2>2, <2>3
<1>6. \A d \in 1..KHd : y[d] = s[<<d, e>>] /\ y[d] \in Num
  BY DEF States, Cells
<1>7. Sum(rows, KHd) = Sum(cols, t)
  <2>1. \A d \in 1..KHd, u \in 1..t : M[<<d, u>>] \in Num
    BY <1>5
  <2>2. Nums(x, t) /\ Nums(y, KHd)
    BY <1>4, <1>6 DEF Nums
  <2> HIDE DEF M, x, y
  <2>3. ByRows(M, x, y, KHd, t) = ByColumns(M, x, y, KHd, t)
    BY <1>1, <2>1, <2>2, Exchange
  <2> QED BY <2>3 DEF ByRows, ByColumns
<1>8. times(s, kcd)[e] = Sum(cols, t)
  <2> DEFINE sk == [d \in 1..KHd |-> s[<<d, e>>] \otimes kcd[d]]
  <2>1. times(s, kcd)[e] = Sum(sk, KHd)
    BY DEF times
  <2>2. \A d \in 1..KHd : rows[d] = sk[d] /\ rows[d] \in Num
    <3> SUFFICES ASSUME NEW d \in 1..KHd
                 PROVE  /\ Sum(mixed(d), t) \otimes y[d] = s[<<d, e>>] \otimes Mixed(at, t, kbg(d))
                        /\ Sum(mixed(d), t) \otimes y[d] \in Num
      OBVIOUS
    <3> DEFINE mk == [u \in DOMAIN kbg(d) |-> at[<<t, u>>] \otimes kbg(d)[u]]
    <3>1. Mixed(at, t, kbg(d)) = Sum(mk, t)
      BY DEF Mixed
    <3>2. \A u \in 1..t : mk[u] = x[u] \otimes M[<<d, u>>]
      BY <1>1, <1>4, <1>5
    <3>3. \A u \in 1..t : mixed(d)[u] = M[<<d, u>>] \otimes x[u]
      OBVIOUS
    <3> HIDE DEF mk, mixed, M, x, y, kbg
    <3>4. \A u \in 1..t : M[<<d, u>>] \otimes x[u] = x[u] \otimes M[<<d, u>>] /\ M[<<d, u>>] \otimes x[u] \in Num
      BY <1>4, <1>5, Commutes, Closed
    <3>5. Nums(mixed(d), t)
      BY <3>3, <3>4 DEF Nums
    <3>6. \A u \in 1..t : mixed(d)[u] = mk[u]
      BY <3>2, <3>3, <3>4
    <3>7. Sum(mixed(d), t) = Sum(mk, t) /\ Sum(mixed(d), t) \in Num
      BY <1>1, <3>5, <3>6, SumsAgree, SumSteps
    <3>8. y[d] = s[<<d, e>>] /\ y[d] \in Num
      BY <1>6
    <3>9. Sum(mixed(d), t) \otimes y[d] = y[d] \otimes Sum(mixed(d), t) /\ Sum(mixed(d), t) \otimes y[d] \in Num
      BY <3>7, <3>8, Commutes, Closed
    <3> QED BY <3>1, <3>7, <3>8, <3>9
  <2> HIDE DEF rows, sk, cols, kcd
  <2>3. Nums(rows, KHd)
    BY <2>2 DEF Nums
  <2>4. Sum(rows, KHd) = Sum(sk, KHd)
    BY <1>1, <2>2, <2>3, SumsAgree
  <2> QED BY <1>7, <2>1, <2>4
<1>9. \A u \in 1..t : cols[u] = P[u] \otimes x[u] /\ cols[u] \in Num
  <2> SUFFICES ASSUME NEW u \in 1..t
               PROVE  Sum(read(u), KHd) = P[u] /\ P[u] \otimes x[u] \in Num
    OBVIOUS
  <2> DEFINE kE == Scaled(k_beta(ts, u), exp(Age(ts, u)))
             sk == [d \in 1..KHd |-> s[<<d, e>>] \otimes kE[d]]
  <2>1. P[u] = Sum(sk, KHd)
    BY <1>4 DEF times
  <2>2. \A d \in 1..KHd : sk[d] = y[d] \otimes M[<<d, u>>]
    BY <1>5, <1>6 DEF Scaled
  <2>3. \A d \in 1..KHd : read(u)[d] = M[<<d, u>>] \otimes y[d]
    OBVIOUS
  <2> HIDE DEF sk, read, M, x, y, P
  <2>4. \A d \in 1..KHd : M[<<d, u>>] \otimes y[d] = y[d] \otimes M[<<d, u>>] /\ M[<<d, u>>] \otimes y[d] \in Num
    BY <1>5, <1>6, Commutes, Closed
  <2>5. Nums(read(u), KHd)
    BY <2>3, <2>4 DEF Nums
  <2>6. \A d \in 1..KHd : read(u)[d] = sk[d]
    BY <2>2, <2>3, <2>4
  <2>7. Sum(read(u), KHd) = Sum(sk, KHd)
    BY <1>1, <2>5, <2>6, SumsAgree
  <2>8. P[u] \in Num /\ x[u] \in Num
    BY <1>4
  <2>9. P[u] \otimes x[u] \in Num
    BY <2>8, Closed
  <2> QED BY <2>1, <2>7, <2>9
<1> HIDE DEF x, vb, P, R, atV, atR, cols
<1>10. \A u \in 1..t : atR[u] \in Num /\ atV[u] \in Num /\ atR[u] \oplus cols[u] = atV[u]
  <2> SUFFICES ASSUME NEW u \in 1..t
               PROVE  atR[u] \in Num /\ atV[u] \in Num /\ atR[u] \oplus cols[u] = atV[u]
    OBVIOUS
  <2>1. /\ x[u] \in Num /\ vb[u] \in Num /\ P[u] \in Num /\ R[u] \in Num /\ R[u] = vb[u] \ominus P[u]
        /\ atV[u] = x[u] \otimes vb[u] /\ atR[u] = x[u] \otimes R[u] /\ cols[u] = P[u] \otimes x[u]
    BY <1>4, <1>9
  <2>2. x[u] \otimes vb[u] \in Num /\ x[u] \otimes R[u] \in Num
    BY <2>1, Closed
  <2>3. R[u] \oplus P[u] = vb[u]
    BY <2>1, Difference
  <2>4. x[u] \otimes (R[u] \oplus P[u]) = x[u] \otimes R[u] \oplus x[u] \otimes P[u]
    BY <2>1, Distributes
  <2>5. P[u] \otimes x[u] = x[u] \otimes P[u]
    BY <2>1, Commutes
  <2> QED BY <2>1, <2>2, <2>3, <2>4, <2>5
<1>11. Sum(atR, t) \oplus Sum(cols, t) = Sum(atV, t) /\ Sum(atR, t) \in Num /\ Sum(cols, t) \in Num
       /\ Sum(atV, t) \in Num
  <2>1. Nums(atR, t) /\ Nums(cols, t) /\ Nums(atV, t)
    BY <1>9, <1>10 DEF Nums
  <2>2. Sum(atR, t) \oplus Sum(cols, t) = Sum(both, t)
    BY <1>1, <2>1, SumOfSums
  <2>3. \A u \in 1..t : atV[u] = both[u]
    BY <1>10
  <2> HIDE DEF both
  <2>4. Sum(atV, t) = Sum(both, t)
    BY <1>1, <2>1, <2>3, SumsAgree
  <2> QED BY <1>1, <2>1, <2>2, <2>4, SumSteps
<1>12. Sum(atR, t) = Sum(atV, t) \ominus Sum(cols, t)
  BY <1>11, Difference
<1> QED BY <1>2, <1>3, <1>8, <1>12 DEF R, at

\* What the kernel adds to the state is what the tokens gained one by one.
LEMMA VNewIsGain ==
  ASSUME NEW s \in States, NEW ts \in Seq(Inputs), NEW f, Run(s, ts, f), NEW e \in 1..VHd
  PROVE  \A t \in 1..Len(ts) : v_new(s, ts)[t][e] = Gain(ts, f, t)[e]
<1> DEFINE N == Len(ts)
           R == [u \in 1..N |-> Rhs(s, ts, u, e)]
           y(t) == Mixed(attn(ts), t, R)
           S == {m \in 0..N : \A t \in 1..m : y(t) = Gain(ts, f, t)[e]}
<1>1. R \in [1..N -> Num] /\ \A u \in 1..N : R[u] = Rhs(s, ts, u, e)
  BY RhsType
<1> HIDE DEF R
<1>2. 0 \in S
  OBVIOUS
<1>3. ASSUME NEW m \in 1..N, m - 1 \in S PROVE m \in S
  <2> DEFINE a == [w \in 1..m - 1 |-> kk_dot(ts, m, w) \otimes y(w)]
             b == [w \in 1..m - 1 |-> kk_dot(ts, m, w) \otimes Gain(ts, f, w)[e]]
  <2>1. m \in 0..N /\ m - 1 \in Nat /\ \A w \in 1..m - 1 : w \in 1..N /\ y(w) = Gain(ts, f, w)[e]
    BY <1>3
  <2>2. y(m) = R[m] \ominus Sum(a, m - 1)
    BY <1>1, MixedSolves
  <2>3. Gain(ts, f, m)[e] = R[m] \ominus Sum(b, m - 1)
    BY <1>1, GainIs
  <2>4. \A w \in 1..m - 1 : a[w] = b[w] /\ a[w] \in Num
    <3> SUFFICES ASSUME NEW w \in 1..m - 1 PROVE a[w] = b[w] /\ kk_dot(ts, m, w) \otimes y(w) \in Num
      OBVIOUS
    <3>1. kk_dot(ts, m, w) \in Num /\ y(w) \in Num
      BY <1>1, <2>1, KkDots, MixedSolves
    <3>2. a[w] = b[w]
      BY <2>1
    <3> QED BY <3>1, <3>2, Closed
  <2> HIDE DEF a, b
  <2>5. Nums(a, m - 1)
    BY <2>4 DEF Nums
  <2>6. Sum(a, m - 1) = Sum(b, m - 1)
    BY <2>1, <2>4, <2>5, SumsAgree
  <2>7. y(m) = Gain(ts, f, m)[e]
    BY <2>2, <2>3, <2>6
  <2>8. \A t \in 1..m : t \in 1..m - 1 \/ t = m
    OBVIOUS
  <2> HIDE DEF y
  <2> QED BY <2>1, <2>7, <2>8
<1> HIDE DEF S
<1>4. \A m \in 0..N : m \in S
  <2>1. N \in Nat
    OBVIOUS
  <2> QED BY <1>2, <1>3, <2>1, UpTo
<1>5. \A t \in 1..N : y(t) = Gain(ts, f, t)[e]
  <2>1. N \in S
    BY <1>4
  <2> QED BY <2>1 DEF S
<1> QED BY <1>5, VNewIsMixed DEF R

\* A chunk leaves the state its tokens leave.
LEMMA ChunkStateIs ==
  ASSUME NEW s \in States, NEW ts \in Seq(Inputs), NEW f, Run(s, ts, f), ts # <<>>
  PROVE  ChunkState(s, ts) = f[Len(ts)]
<1> DEFINE N == Len(ts)
           last == gcs(ts)[N]
           vn == v_new(s, ts)
           added(c) == [t \in DOMAIN ts |-> (ts[t].k[c[1]] \otimes exp(last \ominus gcs(ts)[t])) \otimes vn[t][c[2]]]
<1>1. N \in 1..N /\ N \in 0..N /\ N \in Nat /\ DOMAIN ts = 1..N
  <2>1. N \in Nat /\ DOMAIN ts = 1..N
    OBVIOUS
  <2>2. N # 0
    BY EmptySeq
  <2> QED BY <2>1, <2>2
<1>2. ChunkState(s, ts) = [c \in Cells |-> s[c] \otimes exp(last) \oplus Sum(added(c), N)]
  BY DEF ChunkState
<1>3. f[N] \in States
  BY <1>1 DEF Run
<1>4. ASSUME NEW c \in Cells PROVE s[c] \otimes exp(last) \oplus Sum(added(c), N) = f[N][c]
  <2>1. last = Age(ts, N) /\ \A t \in 1..N : t \in 0..N /\ gcs(ts)[t] = Age(ts, t)
    BY <1>1, Ages
  <2>2. c[2] \in 1..VHd
    BY DEF Cells
  <2>3. \A t \in 1..N : added(c)[t] = Term(ts, f, N, c)[t]
    <3> SUFFICES ASSUME NEW t \in 1..N PROVE added(c)[t] = Term(ts, f, N, c)[t]
      OBVIOUS
    <3>1. vn[t][c[2]] = Gain(ts, f, t)[c[2]]
      BY <2>2, VNewIsGain
    <3>2. added(c)[t] = (ts[t].k[c[1]] \otimes exp(last \ominus gcs(ts)[t])) \otimes vn[t][c[2]]
      BY <1>1
    <3>3. exp(last \ominus gcs(ts)[t]) = Fade(ts, N, t)
      BY <2>1 DEF Fade
    <3>4. Term(ts, f, N, c)[t] = (ts[t].k[c[1]] \otimes Fade(ts, N, t)) \otimes Gain(ts, f, t)[c[2]]
      BY DEF Term
    <3> HIDE DEF added, vn, last
    <3> QED BY <3>1, <3>2, <3>3, <3>4
  <2>4. Nums(Term(ts, f, N, c), N)
    BY <1>1, TermsAreNums
  <2> HIDE DEF added, last
  <2>5. Sum(added(c), N) = Sum(Term(ts, f, N, c), N)
    BY <1>1, <2>3, <2>4, SumsAgree
  <2>6. f[N][c] = After(s, ts, f, N, c)
    BY <1>1, StatesAre
  <2> QED BY <2>1, <2>5, <2>6 DEF After
<1> HIDE DEF added, last
<1>5. [c \in Cells |-> s[c] \otimes exp(last) \oplus Sum(added(c), N)] = [c \in Cells |-> f[N][c]]
  BY <1>4
<1>6. f[N] = [c \in Cells |-> f[N][c]]
  BY <1>3 DEF States
<1> QED BY <1>2, <1>5, <1>6

\* A chunk gives each of its tokens the output it gets by itself.
LEMMA ChunkOutIs ==
  ASSUME NEW s \in States, NEW ts \in Seq(Inputs), NEW f, Run(s, ts, f), NEW t \in 1..Len(ts)
  PROVE  ChunkOut(s, ts)[t] = StepOut(f[t - 1], ts[t])
<1> DEFINE N == Len(ts)
           q == ts[t].q
           E == exp(Age(ts, t))
           vn == v_new(s, ts)
           inter == [d \in 1..KHd |-> ts[t].q[d] \otimes exp(gcs(ts)[t])]
           av(e) == [u \in DOMAIN ts |-> attn_kq(ts, t, u) \otimes vn[u][e]]
           learnt(e) == [u \in 1..t |-> (dot(ts[u].k, q) \otimes Fade(ts, t, u)) \otimes Gain(ts, f, u)[e]]
<1>1. /\ t \in 0..N /\ t \in Nat /\ N \in Nat /\ DOMAIN ts = 1..N /\ KHd \in Nat
      /\ \A u \in 1..t : u \in 1..N /\ u \in 0..N
  BY InputsAssumption
<1>2. ChunkOut(s, ts)[t] = [e \in 1..VHd |-> times(s, inter)[e] \oplus Sum(av(e), N)]
  BY <1>1 DEF ChunkOut
<1>3. inter = Scaled(q, E)
  BY Ages DEF Scaled
<1>4. f[t] \in States /\ StepOut(f[t - 1], ts[t]) = times(f[t], q)
  BY <1>1 DEF StepOut, Run
<1>5. \A u \in 1..t : dot(ts[u].k, q) \in Num /\ Fade(ts, t, u) \in Num
                      /\ dot(ts[u].k, q) \otimes Fade(ts, t, u) \in Num
  <2> SUFFICES ASSUME NEW u \in 1..t
               PROVE  dot(ts[u].k, q) \in Num /\ Fade(ts, t, u) \in Num
                      /\ dot(ts[u].k, q) \otimes Fade(ts, t, u) \in Num
    OBVIOUS
  <2>1. dot(ts[u].k, q) \in Num
    BY <1>1, KeyTypes, DotType
  <2>2. Fade(ts, t, u) \in Num
    BY <1>1, Fades
  <2> QED BY <2>1, <2>2, Closed
<1>6. \A u \in 1..t : attn_kq(ts, t, u) = dot(ts[u].k, q) \otimes Fade(ts, t, u)
  <2> SUFFICES ASSUME NEW u \in 1..t
               PROVE  attn_kq(ts, t, u) = dot(ts[u].k, q) \otimes Fade(ts, t, u)
    OBVIOUS
  <2>1. CASE u = t
    BY <1>1, <2>1, Fades DEF attn_kq
  <2>2. CASE u # t
    <3>1. u < t /\ u \in 1..N
      BY <1>1, <2>2
    <3>2. decay_mask(ts, t, u) = Fade(ts, t, u)
      BY <3>1, Ages DEF decay_mask, Fade
    <3> QED BY <3>1, <3>2 DEF attn_kq
  <2> QED BY <2>1, <2>2
<1>7. ASSUME NEW e \in 1..VHd
      PROVE  times(s, inter)[e] \oplus Sum(av(e), N) = times(f[t], q)[e]
  <2> DEFINE C == [d \in 1..KHd |-> f[t][<<d, e>>]]
  <2>1. \A u \in 1..N : vn[u][e] = Gain(ts, f, u)[e] /\ vn[u][e] \in Num
    BY VNewIsGain, GainType
  <2>2. \A u \in 1..t : av(e)[u] = learnt(e)[u] /\ av(e)[u] \in Num
    <3> SUFFICES ASSUME NEW u \in 1..t
                 PROVE  /\ attn_kq(ts, t, u) \otimes vn[u][e]
                             = (dot(ts[u].k, q) \otimes Fade(ts, t, u)) \otimes Gain(ts, f, u)[e]
                        /\ attn_kq(ts, t, u) \otimes vn[u][e] \in Num
      BY <1>1
    <3>1. vn[u][e] = Gain(ts, f, u)[e] /\ vn[u][e] \in Num
      BY <1>1, <2>1
    <3>2. attn_kq(ts, t, u) = dot(ts[u].k, q) \otimes Fade(ts, t, u) /\ attn_kq(ts, t, u) \in Num
      BY <1>5, <1>6
    <3> HIDE DEF vn, q
    <3> QED BY <3>1, <3>2, Closed
  <2>3. \A u \in t + 1..N : av(e)[u] = Zero
    <3> SUFFICES ASSUME NEW u \in t + 1..N PROVE attn_kq(ts, t, u) \otimes vn[u][e] = Zero
      BY <1>1
    <3>1. u \in 1..N /\ t < u
      BY <1>1
    <3>2. attn_kq(ts, t, u) = Zero
      BY <3>1 DEF attn_kq
    <3>3. vn[u][e] \in Num
      BY <2>1, <3>1
    <3> HIDE DEF vn
    <3> QED BY <3>2, <3>3, TimesZero
  <2> HIDE DEF av, learnt
  <2>4. Nums(av(e), t)
    BY <2>2 DEF Nums
  <2>5. Sum(av(e), N) = Sum(av(e), t)
    BY <1>1, <2>3, <2>4, SumOfZeros
  <2>6. Sum(av(e), t) = Sum(learnt(e), t)
    BY <1>1, <2>2, <2>4, SumsAgree
  <2>7. Learnt(ts, f, q, t, t, e) = Sum(learnt(e), t)
    BY DEF Learnt, learnt
  <2>8. \A d \in 1..KHd : C[d] = s[<<d, e>>] \otimes exp(Age(ts, t)) \oplus Sum(Term(ts, f, t, <<d, e>>), t)
    <3> SUFFICES ASSUME NEW d \in 1..KHd
                 PROVE  f[t][<<d, e>>] = After(s, ts, f, t, <<d, e>>)
      BY DEF After
    <3>1. <<d, e>> \in Cells
      BY DEF Cells
    <3> QED BY <1>1, <3>1, StatesAre
  <2>9. times(f[t], q)[e] = dot(C, q)
    <3>1. times(f[t], q)[e] = Sum([d \in 1..KHd |-> f[t][<<d, e>>] \otimes q[d]], KHd)
      BY DEF times
    <3> QED BY <3>1 DEF dot
  <2>10. Nums(q, KHd)
    BY KeyTypes
  <2> HIDE DEF C, q
  <2>11. dot(C, q) = times(s, Scaled(q, exp(Age(ts, t))))[e] \oplus Learnt(ts, f, q, t, t, e)
    BY <1>1, <2>8, <2>10, ReadBack
  <2> HIDE DEF inter
  <2> QED BY <1>3, <2>5, <2>6, <2>7, <2>9, <2>11
<1>8. times(f[t], q) = [e \in 1..VHd |-> times(f[t], q)[e]]
  BY DEF times
<1> HIDE DEF q, inter, av
<1>9. [e \in 1..VHd |-> times(s, inter)[e] \oplus Sum(av(e), N)] = [e \in 1..VHd |-> times(f[t], q)[e]]
  BY <1>7
<1> QED BY <1>2, <1>4, <1>8, <1>9

-----------------------------------------------------------------------------
(* A batch cut into chunks.                                                *)

\* No chunk starts past the end, and together they reach it.
LEMMA ChunkStarts ==
  ASSUME NEW N \in Nat
  PROVE  /\ ChunksOf(N) \in Nat /\ ChunksOf(N) * CHUNK_SIZE >= N
         /\ \A ck \in 0..ChunksOf(N) - 1 : /\ ck * CHUNK_SIZE \in Nat /\ ck * CHUNK_SIZE < N
                                           /\ (ck + 1) * CHUNK_SIZE = ck * CHUNK_SIZE + CHUNK_SIZE
         /\ \A ck \in Nat : ck * CHUNK_SIZE < N => ck < ChunksOf(N)
<1> DEFINE C == CHUNK_SIZE
           n == ChunksOf(N)
<1>1. C \in Nat \ {0}
  BY InputsAssumption
<1>2. PICK q \in Int, r \in 0..C - 1 : N + C - 1 = q * C + r /\ (N + C - 1) \div C = q
  <2>1. N + C - 1 \in Int
    BY <1>1
  <2> QED BY <1>1, <2>1, DivMod
<1>3. n = q /\ q * C >= N /\ q * C <= N + C - 1 /\ q * C \in Int
  BY <1>1, <1>2 DEF ChunksOf
<1> HIDE DEF n, C
<1>4. \A k \in Nat : k * C \in Nat
  BY <1>1
\* Fewer multiples reach less far.
<1>5. \A a, b \in Int : a * C < b * C + C => a <= b
  <2> SUFFICES ASSUME NEW a \in Int, NEW b \in Int, a * C < b * C + C, ~(a <= b) PROVE FALSE
    OBVIOUS
  <2>1. a - b - 1 \in Nat /\ a - b \in Int
    OBVIOUS
  <2>2. (a - b - 1) * C = (a - b) * C - C /\ (a - b) * C = a * C - b * C /\ a * C \in Int /\ b * C \in Int
    BY <1>1, <2>1, Distribute
  <2>3. (a - b - 1) * C >= 0
    BY <1>4, <2>1
  <2> QED BY <1>1, <2>2, <2>3
<1>6. q \in Nat
  <2>1. 0 * C < q * C + C
    BY <1>1, <1>3
  <2>2. 0 <= q
    BY <1>5, <2>1
  <2> QED BY <2>2
<1>7. ASSUME NEW ck \in 0..q - 1
      PROVE  ck * C \in Nat /\ ck * C < N /\ (ck + 1) * C = ck * C + C
  <2>1. ck \in Nat /\ ck * C \in Nat /\ (ck + 1) * C = ck * C + C
    BY <1>1, <1>4, Distribute
  <2>2. ASSUME ~(ck * C < N) PROVE FALSE
    <3>1. q * C < ck * C + C
      BY <1>1, <1>3, <2>1, <2>2
    <3>2. q <= ck
      BY <1>5, <2>1, <3>1
    <3> QED BY <3>2
  <2> QED BY <2>1, <2>2
<1>8. ASSUME NEW ck \in Nat, ck * C < N, ~(ck < q) PROVE FALSE
  <2>1. ck - q \in Nat /\ ck \in Int
    BY <1>6, <1>8
  <2>2. (ck - q) * C = ck * C - q * C /\ (ck - q) * C >= 0 /\ ck * C \in Int
    BY <1>1, <1>4, <2>1, Distribute
  <2> QED BY <1>3, <1>8, <2>2
<1> QED BY <1>3, <1>6, <1>7, <1>8 DEF n, C

\* Where chunk ck starts, and the one after the last ends
Cut(N, ck) == IF ck * CHUNK_SIZE <= N THEN ck * CHUNK_SIZE ELSE N

LEMMA ChunkIs ==
  ASSUME NEW ts \in Seq(Inputs), NEW ck \in 0..ChunksOf(Len(ts)) - 1
  PROVE  /\ Chunk(ts, ck) \in Seq(Inputs) /\ Chunk(ts, ck) # <<>>
         /\ ck * CHUNK_SIZE \in Nat /\ Cut(Len(ts), ck) = ck * CHUNK_SIZE
         /\ Cut(Len(ts), ck + 1) = ck * CHUNK_SIZE + Len(Chunk(ts, ck))
         /\ Cut(Len(ts), ck + 1) <= Len(ts)
         /\ Len(Chunk(ts, ck)) = CHUNK_SIZE \/ Cut(Len(ts), ck + 1) = Len(ts)
         /\ \A i \in 1..Len(Chunk(ts, ck)) : Chunk(ts, ck)[i] = ts[ck * CHUNK_SIZE + i]
<1> DEFINE N == Len(ts)
           C == CHUNK_SIZE
           start == ck * CHUNK_SIZE
           end == IF N - start > C THEN start + C ELSE N
           c == Chunk(ts, ck)
<1>1. N \in Nat /\ C \in Nat \ {0} /\ start \in Nat /\ start < N /\ (ck + 1) * C = start + C
  <2>1. N \in Nat
    OBVIOUS
  <2> QED BY <2>1, ChunkStarts, InputsAssumption
<1>2. c = SubSeq(ts, start + 1, end)
  BY <1>1 DEF Chunk
<1> HIDE DEF start, c, C
<1>3. end \in Nat /\ end <= N /\ start < end /\ end - start <= C
  BY <1>1
<1>4. start + 1 \in 1..N + 1 /\ end \in start..N
  BY <1>1, <1>3
<1> HIDE DEF end
<1>5. /\ c \in Seq(Inputs) /\ Len(c) = end - start
      /\ \A i \in 1..Len(c) : c[i] = ts[start + i]
  <2>1. \A i \in start + 1..end : i \in 1..N
    BY <1>1, <1>3
  <2>2. \A i \in start + 1..end : ts[i] \in Inputs
    BY <2>1
  <2>3. start + 1 \in Int /\ end \in Int /\ start + 1 <= end /\ end - (start + 1) + 1 = end - start
    BY <1>1, <1>3
  <2>4. /\ c \in Seq(Inputs) /\ Len(c) = end - start
        /\ \A i \in 1..end - start : c[i] = ts[start + 1 + i - 1]
    <3>1. /\ c \in Seq(Inputs)
          /\ Len(c) = IF start + 1 <= end THEN end - (start + 1) + 1 ELSE 0
          /\ \A i \in 1..end - (start + 1) + 1 : c[i] = ts[start + 1 + i - 1]
      BY <1>2, <2>2, <2>3, SubSeqProperties
    <3> QED BY <2>3, <3>1
  <2>5. \A i \in 1..end - start : start + 1 + i - 1 = start + i
    BY <1>1, <1>3
  <2> QED BY <2>4, <2>5
<1>6. c # <<>>
  <2>1. Len(c) # 0
    BY <1>1, <1>3, <1>5
  <2> QED BY <2>1, EmptySeq
<1>7. Cut(N, ck) = start /\ Cut(N, ck + 1) = end
  <2>1. Cut(N, ck) = IF start <= N THEN start ELSE N
    BY DEF Cut, start
  <2>2. Cut(N, ck + 1) = IF start + C <= N THEN start + C ELSE N
    BY <1>1 DEF Cut, C
  <2> QED BY <1>1, <2>1, <2>2 DEF end
<1>8. end = start + Len(c) /\ (Len(c) = C \/ end = N)
  BY <1>1, <1>3, <1>5 DEF end
<1> QED BY <1>1, <1>3, <1>5, <1>6, <1>7, <1>8 DEF start, c, C

\* A run over a batch, from a chunk's start, is a run over the chunk.
LEMMA RunOfChunk ==
  ASSUME NEW s \in States, NEW ts \in Seq(Inputs), NEW f, Run(s, ts, f),
         NEW ck \in 0..ChunksOf(Len(ts)) - 1
  PROVE  /\ f[Cut(Len(ts), ck)] \in States
         /\ ChunkState(f[Cut(Len(ts), ck)], Chunk(ts, ck)) = f[Cut(Len(ts), ck + 1)]
         /\ \A i \in 1..Len(Chunk(ts, ck)) :
              ChunkOut(f[Cut(Len(ts), ck)], Chunk(ts, ck))[i]
                = StepOut(f[ck * CHUNK_SIZE + i - 1], ts[ck * CHUNK_SIZE + i])
<1> DEFINE N == Len(ts)
           start == ck * CHUNK_SIZE
           c == Chunk(ts, ck)
           L == Len(c)
           g == [i \in 0..L |-> f[start + i]]
<1>1. /\ c \in Seq(Inputs) /\ c # <<>> /\ start \in Nat /\ Cut(N, ck) = start
      /\ Cut(N, ck + 1) = start + L /\ start + L <= N
      /\ \A i \in 1..L : c[i] = ts[start + i]
  BY ChunkIs
<1> HIDE DEF start, c
<1>2. L \in Nat /\ N \in Nat
  BY <1>1
<1>3. \A i \in 0..L : start + i \in 0..N
  BY <1>1, <1>2
<1>4. \A i \in 1..L : start + i \in 1..N /\ i - 1 \in 0..L /\ start + i - 1 = start + (i - 1)
  BY <1>1, <1>2
<1>5. f[start] \in States
  <2>1. start \in 0..N
    BY <1>1, <1>2
  <2> QED BY <2>1 DEF Run
<1>6. Run(f[start], c, g)
  <2>1. \A i \in 0..L : g[i] = f[start + i] /\ g[i] \in States
    BY <1>3 DEF Run
  <2>2. g \in [0..L -> States]
    BY <2>1
  <2>3. g[0] = f[start]
    BY <1>1, <1>2, <2>1
  <2>4. ASSUME NEW i \in 1..L PROVE g[i] = StepState(g[i - 1], c[i])
    <3>0. \A j \in 1..N : f[j] = StepState(f[j - 1], ts[j])
      BY DEF Run
    <3>1. f[start + i] = StepState(f[start + i - 1], ts[start + i])
      <4> DEFINE j == start + i
      <4>1. j \in 1..N
        BY <1>4
      <4> HIDE DEF j
      <4>2. f[j] = StepState(f[j - 1], ts[j])
        BY <3>0, <4>1
      <4> QED BY <1>1, <1>2, <4>2 DEF j
    <3>2. g[i] = f[start + i] /\ g[i - 1] = f[start + i - 1]
      BY <1>4, <2>1
    <3>3. c[i] = ts[start + i]
      BY <1>1
    <3> QED BY <3>1, <3>2, <3>3
  <2> HIDE DEF g
  <2> QED BY <2>2, <2>3, <2>4 DEF Run
<1>7. ChunkState(f[start], c) = g[L]
  <2> HIDE DEF g
  <2> QED BY <1>1, <1>5, <1>6, ChunkStateIs
<1>8. g[L] = f[start + L]
  BY <1>2
<1>9. ASSUME NEW i \in 1..L
      PROVE  ChunkOut(f[start], c)[i] = StepOut(f[start + i - 1], ts[start + i])
  <2>1. ChunkOut(f[start], c)[i] = StepOut(g[i - 1], c[i])
    <3> HIDE DEF g
    <3> QED BY <1>1, <1>5, <1>6, ChunkOutIs
  <2>2. g[i - 1] = f[start + i - 1] /\ c[i] = ts[start + i]
    BY <1>1, <1>4
  <2> QED BY <2>1, <2>2
<1> QED BY <1>1, <1>5, <1>7, <1>8, <1>9 DEF c, start

\* The states a batch is in between its chunks
LEMMA CarriedIs ==
  ASSUME NEW s \in States, NEW ts \in Seq(Inputs), NEW f, Run(s, ts, f)
  PROVE  \A ck \in 0..ChunksOf(Len(ts)) : Carried(s, ts)[ck] = f[Cut(Len(ts), ck)]
<1> DEFINE N == Len(ts)
           n == ChunksOf(N)
           Def(g) == g = [ck \in 0..n |-> IF ck = 0 THEN s ELSE ChunkState(g[ck-1], Chunk(ts, ck-1))]
           h == CHOOSE g : Def(g)
           g == [ck \in 0..n |-> f[Cut(N, ck)]]
<1>1. N \in Nat /\ n \in Nat
  <2>1. N \in Nat
    OBVIOUS
  <2> QED BY <2>1, ChunkStarts
<1>2. Carried(s, ts) = h
  BY DEF Carried
<1>3. f[Cut(N, 0)] = s
  <2>1. 0 * CHUNK_SIZE = 0
    BY InputsAssumption
  <2>2. Cut(N, 0) = 0
    BY <1>1, <2>1 DEF Cut
  <2> QED BY <2>2 DEF Run
<1> HIDE DEF n
<1>4. \A ck \in 1..n : /\ ck - 1 \in 0..n
                        /\ f[Cut(N, ck)] = ChunkState(f[Cut(N, ck - 1)], Chunk(ts, ck - 1))
  <2> SUFFICES ASSUME NEW ck \in 1..n
               PROVE  /\ ck - 1 \in 0..n
                      /\ f[Cut(N, ck)] = ChunkState(f[Cut(N, ck - 1)], Chunk(ts, ck - 1))
    OBVIOUS
  <2> DEFINE m == ck - 1
  <2>1. m \in 0..n - 1 /\ m \in 0..n /\ m + 1 = ck
    BY <1>1
  <2> HIDE DEF m
  <2>2. ChunkState(f[Cut(N, m)], Chunk(ts, m)) = f[Cut(N, m + 1)]
    BY <2>1, RunOfChunk DEF n
  <2> QED BY <2>1, <2>2 DEF m
<1>5. Def(g)
  <2>1. ASSUME NEW ck \in 0..n
        PROVE  g[ck] = IF ck = 0 THEN s ELSE ChunkState(g[ck-1], Chunk(ts, ck-1))
    <3>1. CASE ck = 0
      BY <1>3, <3>1
    <3>2. CASE ck # 0
      <4>1. ck \in 1..n
        BY <1>1, <3>2
      <4>2. g[ck] = f[Cut(N, ck)] /\ g[ck - 1] = f[Cut(N, ck - 1)]
        BY <1>4, <4>1
      <4> HIDE DEF g
      <4> QED BY <1>4, <3>2, <4>1, <4>2
    <3> QED BY <3>1, <3>2
  <2>2. DOMAIN g = 0..n /\ g = [ck \in 0..n |-> g[ck]]
    OBVIOUS
  <2> HIDE DEF g
  <2> QED BY <2>1, <2>2
<1>6. Def(h)
  <2> HIDE DEF Def, g
  <2> QED BY <1>5
<1> HIDE DEF h
<1>7. \A ck \in 0..n : h[ck] = g[ck]
  <2>1. h = [ck \in 0..n |-> IF ck = 0 THEN s ELSE ChunkState(h[ck-1], Chunk(ts, ck-1))]
    BY <1>6
  <2>2. g = [ck \in 0..n |-> IF ck = 0 THEN s ELSE ChunkState(g[ck-1], Chunk(ts, ck-1))]
    BY <1>5
  <2> HIDE DEF g, Def
  <2> DEFINE S == {ck \in 0..n : h[ck] = g[ck]}
  <2>3. 0 \in S
    <3>1. 0 \in 0..n
      BY <1>1
    <3> QED BY <2>1, <2>2, <3>1
  <2>4. ASSUME NEW ck \in 1..n, ck - 1 \in S PROVE ck \in S
    <3>1. ck \in 0..n /\ ck # 0 /\ h[ck - 1] = g[ck - 1]
      BY <1>1, <2>4
    <3>2. h[ck] = ChunkState(h[ck-1], Chunk(ts, ck-1)) /\ g[ck] = ChunkState(g[ck-1], Chunk(ts, ck-1))
      BY <2>1, <2>2, <3>1
    <3> QED BY <3>1, <3>2
  <2> HIDE DEF S
  <2>5. \A ck \in 0..n : ck \in S
    BY <1>1, <2>3, <2>4, UpTo
  <2> QED BY <2>5 DEF S
<1> QED BY <1>2, <1>7 DEF n

\* A batch is its tokens one by one.
LEMMA BatchIs ==
  ASSUME NEW s \in States, NEW ts \in Seq(Inputs), NEW f, Run(s, ts, f)
  PROVE  /\ BatchState(s, ts) = f[Len(ts)]
         /\ BatchOut(s, ts) = [i \in 1..Len(ts) |-> StepOut(f[i - 1], ts[i])]
<1> DEFINE N == Len(ts)
           n == ChunksOf(N)
           C == CHUNK_SIZE
<1>1. N \in Nat /\ n \in Nat /\ n * C >= N /\ C \in Nat \ {0} /\ DOMAIN ts = 1..N
  <2>1. N \in Nat /\ DOMAIN ts = 1..N
    OBVIOUS
  <2> QED BY <2>1, ChunkStarts, InputsAssumption
<1>2. BatchState(s, ts) = f[N]
  <2>1. n \in 0..n
    BY <1>1
  <2>2. Carried(s, ts)[n] = f[Cut(N, n)]
    BY <2>1, CarriedIs
  <2>3. n * C \in Nat
    BY <1>1
  <2>4. Cut(N, n) = N
    BY <1>1, <2>3 DEF Cut
  <2> QED BY <2>2, <2>4 DEF BatchState
<1>3. ASSUME NEW i \in 1..N
      PROVE  LET ck == (i - 1) \div C
             IN  ChunkOut(Carried(s, ts)[ck], Chunk(ts, ck))[i - ck * C] = StepOut(f[i - 1], ts[i])
  <2> DEFINE ck == (i - 1) \div C
             start == ck * C
             c == Chunk(ts, ck)
  <2>1. PICK q \in Int, r \in 0..C - 1 : i - 1 = q * C + r /\ (i - 1) \div C = q
    <3>1. i - 1 \in Int
      BY <1>1
    <3> QED BY <1>1, <3>1, DivMod
  <2>2. q \in Nat /\ q * C \in Nat
    <3>1. ASSUME q < 0 PROVE FALSE
      <4>1. -q - 1 \in Nat /\ (-q - 1) * C \in Nat
        BY <1>1, <3>1
      <4>2. (-q - 1) * C = -(q * C) - C /\ q * C \in Int
        BY <1>1
      <4> QED BY <1>1, <2>1, <4>1, <4>2
    <3>2. q \in Nat
      BY <3>1
    <3> QED BY <1>1, <3>2
  <2>3. ck = q /\ start = q * C
    BY <2>1
  <2> HIDE DEF ck, start
  <2>4. start \in Nat /\ start < N /\ i - 1 = start + r /\ r \in 0..C - 1
    BY <1>1, <2>1, <2>2, <2>3
  <2>5. ck \in 0..n - 1 /\ ck \in 0..n
    <3>1. q * C < N
      BY <2>3, <2>4
    <3>2. q < n
      BY <1>1, <2>2, <3>1, ChunkStarts
    <3> QED BY <1>1, <2>2, <2>3, <3>2
  <2> HIDE DEF n
  <2>6. /\ Cut(N, ck) = start /\ c \in Seq(Inputs)
        /\ Cut(N, ck + 1) = start + Len(c) /\ (Len(c) = C \/ Cut(N, ck + 1) = N)
    BY <2>5, ChunkIs DEF n, start
  <2>7. r + 1 \in 1..Len(c) /\ start + (r + 1) = i /\ start + (r + 1) - 1 = i - 1 /\ i - start = r + 1
    <3>1. Len(c) \in Nat
      BY <2>6
    <3>2. Len(c) = C \/ start + Len(c) = N
      BY <2>6
    <3> DEFINE L == Len(c)
    <3>3. N \in Nat /\ C \in Nat /\ L \in Nat /\ start \in Nat /\ r \in Nat /\ i \in Nat /\ i <= N
      <4>1. N \in Nat /\ C \in Nat
        BY <1>1
      <4>2. start \in Nat /\ r \in 0..C - 1
        BY <2>4
      <4>3. i \in Nat /\ i <= N
        BY <4>1
      <4>4. L \in Nat
        BY <3>1
      <4> HIDE DEF L, C, N
      <4>5. r \in Nat
        BY <4>1, <4>2
      <4> QED BY <4>1, <4>2, <4>3, <4>4, <4>5
    <3>4. i - 1 = start + r /\ r + 1 <= C /\ (L = C \/ start + L = N)
      <4>1. i - 1 = start + r /\ r \in 0..C - 1
        BY <2>4
      <4>2. C \in Nat
        BY <1>1
      <4> HIDE DEF C
      <4>3. r + 1 <= C
        BY <4>1, <4>2
      <4> HIDE DEF N, L
      <4> QED BY <3>2, <4>1, <4>3 DEF N, L, C
    <3> HIDE DEF L, C, N
    <3>5. r + 1 \in 1..L /\ start + (r + 1) = i /\ start + (r + 1) - 1 = i - 1 /\ i - start = r + 1
      BY <3>3, <3>4
    <3> QED BY <3>5 DEF L
  <2>8. ChunkOut(f[start], c)[r + 1] = StepOut(f[start + (r + 1) - 1], ts[start + (r + 1)])
    <3>1. ChunkOut(f[Cut(N, ck)], c)[r + 1] = StepOut(f[ck * CHUNK_SIZE + (r + 1) - 1], ts[ck * CHUNK_SIZE + (r + 1)])
      BY <2>5, <2>7, RunOfChunk DEF n
    <3> QED BY <2>6, <3>1 DEF start
  <2>9. Carried(s, ts)[ck] = f[start]
    BY <2>5, <2>6, CarriedIs DEF n
  <2>10. ChunkOut(Carried(s, ts)[ck], c)[i - start] = StepOut(f[i - 1], ts[i])
    BY <2>7, <2>8, <2>9
  <2> QED BY <2>10 DEF ck, start
<1>4. BatchOut(s, ts) = [i \in 1..N |-> LET ck == (i - 1) \div C
                                       IN  ChunkOut(Carried(s, ts)[ck], Chunk(ts, ck))[i - ck * C]]
  BY <1>1 DEF BatchOut
<1> QED BY <1>2, <1>3, <1>4

-----------------------------------------------------------------------------
(* The invariant: the histories are what the tokens of the batch, one by   *)
(* one, make of the state.                                                 *)

HeadTypes == ssm_state \in States /\ batch \in Seq(Inputs)

RunsFrom(f) ==
  /\ Run(ssm_state, batch, f)
  /\ recur = f[Len(batch)]
  /\ wanted = [i \in 1..Len(batch) |-> StepOut(f[i - 1], batch[i])]

HeadInv == HeadTypes /\ \E f : RunsFrom(f)

LEMMA HeadStart == HeadInit => HeadInv
<1> SUFFICES ASSUME HeadInit PROVE HeadInv
  OBVIOUS
<1> DEFINE zero == [c \in Cells |-> Zero]
<1>0. PICK f : f = [i \in 0..0 |-> zero]
  OBVIOUS
<1>1. zero \in States
  BY RingAssumption DEF States
<1> HIDE DEF zero
<1>2. ssm_state = zero /\ recur = zero /\ batch = <<>> /\ wanted = <<>> /\ Len(batch) = 0
  BY DEF HeadInit, zero
<1>3. HeadTypes
  BY <1>1, <1>2 DEF HeadTypes
<1>4. RunsFrom(f)
  BY <1>0, <1>1, <1>2 DEF RunsFrom, Run
<1> QED BY <1>3, <1>4 DEF HeadInv

\* A token more: the run goes on.
LEMMA Feeds ==
  ASSUME HeadInv, NEW t \in Inputs, Feed(t)
  PROVE  HeadInv'
<1>a. PICK n, m : n = Len(batch) /\ m = n + 1
  OBVIOUS
<1>1. PICK f : RunsFrom(f)
  BY DEF HeadInv
<1>0. PICK g : g = [i \in 0..m |-> IF i = m THEN StepState(f[n], t) ELSE f[i]]
  OBVIOUS
<1>2. /\ ssm_state \in States /\ batch \in Seq(Inputs) /\ n \in Nat
      /\ f \in [0..n -> States] /\ f[0] = ssm_state /\ recur = f[n]
      /\ \A i \in 1..n : f[i] = StepState(f[i - 1], batch[i])
      /\ wanted = [i \in 1..n |-> StepOut(f[i - 1], batch[i])]
      /\ m \in Nat /\ m = n + 1 /\ m - 1 = n /\ n \in 0..n /\ 0 \in 0..n /\ m \in 1..m
      /\ \A i \in 0..n : i \in 0..m /\ i # m
      /\ \A i \in 1..n : i \in 1..m /\ i # m /\ i \in 0..n
      /\ \A i \in 1..m : i - 1 \in 0..n /\ (i = m \/ i \in 1..n)
      /\ \A i \in 0..m : i = m \/ i \in 0..n
  <2>1. /\ ssm_state \in States /\ batch \in Seq(Inputs)
        /\ f \in [0..Len(batch) -> States] /\ f[0] = ssm_state /\ recur = f[Len(batch)]
        /\ \A i \in 1..Len(batch) : f[i] = StepState(f[i - 1], batch[i])
        /\ wanted = [i \in 1..Len(batch) |-> StepOut(f[i - 1], batch[i])]
    BY <1>1 DEF HeadInv, HeadTypes, RunsFrom, Run
  <2>2. n \in Nat
    BY <1>a, <2>1
  <2> QED BY <1>a, <2>1, <2>2
<1>3. /\ batch' = Append(batch, t) /\ batch' \in Seq(Inputs) /\ Len(batch') = m
      /\ batch'[m] = t /\ \A i \in 1..n : batch'[i] = batch[i]
      /\ ssm_state' = ssm_state
      /\ recur' = StepState(f[n], t) /\ wanted' = Append(wanted, StepOut(f[n], t))
  <2>1. batch' = Append(batch, t) /\ ssm_state' = ssm_state /\ recur' = StepState(recur, t)
        /\ wanted' = Append(wanted, StepOut(recur, t))
    BY DEF Feed
  <2>2. Append(batch, t) \in Seq(Inputs) /\ Len(Append(batch, t)) = Len(batch) + 1
        /\ Append(batch, t)[Len(batch) + 1] = t
        /\ \A i \in 1..Len(batch) : Append(batch, t)[i] = batch[i]
    BY <1>2, AppendProperties
  <2> QED BY <1>a, <1>2, <2>1, <2>2
<1>4. /\ g[m] = StepState(f[n], t) /\ \A i \in 0..n : g[i] = f[i]
      /\ g = [i \in 0..m |-> g[i]]
  BY <1>0, <1>2
<1>5. g \in [0..m -> States]
  <2>1. n \in 0..n
    BY <1>2
  <2>2. f[n] \in States
    BY <1>2, <2>1
  <2>3. StepState(f[n], t) \in States
    BY <2>2, StepStateIs
  <2>4. ASSUME NEW i \in 0..m PROVE g[i] \in States
    <3>1. i = m \/ i \in 0..n
      BY <1>2
    <3> QED BY <1>2, <1>4, <2>3, <3>1
  <2> QED BY <1>4, <2>4
<1>6. \A i \in 1..m : i - 1 \in 0..n /\ g[i - 1] = f[i - 1] /\ (i = m \/ i \in 1..n)
  BY <1>2, <1>4
<1>7. m - 1 = n /\ m \in Nat /\ 0 \in 0..n /\ g[m - 1] = f[n]
  BY <1>2, <1>4
<1>8. \A i \in 1..m : g[i] = StepState(g[i - 1], batch'[i])
  <2> SUFFICES ASSUME NEW i \in 1..m PROVE g[i] = StepState(g[i - 1], batch'[i])
    OBVIOUS
  <2>1. CASE i = m
    <3>1. g[i] = StepState(f[n], t) /\ batch'[i] = t
      BY <1>3, <1>4, <2>1
    <3>2. g[i - 1] = f[n]
      BY <1>7, <2>1
    <3> QED BY <3>1, <3>2
  <2>2. CASE i \in 1..n
    <3>1. g[i] = f[i] /\ batch'[i] = batch[i] /\ g[i - 1] = f[i - 1]
      BY <1>2, <1>3, <1>4, <1>6, <2>2
    <3> QED BY <1>2, <2>2, <3>1
  <2> QED BY <1>6, <2>1, <2>2
<1>9. wanted' = [i \in 1..m |-> StepOut(g[i - 1], batch'[i])]
  <2> DEFINE v == StepOut(f[n], t)
             w == [i \in 1..m |-> IF i = m THEN v ELSE wanted[i]]
  <2>1. Len(wanted) = n /\ \A i \in 1..n : wanted[i] = StepOut(f[i - 1], batch[i])
    BY <1>2
  <2>2. Append(wanted, v) = w
    <3> HIDE DEF v
    <3> QED BY <1>2, <2>1
  <2>3. \A i \in 1..m : w[i] = StepOut(g[i - 1], batch'[i])
    <3> SUFFICES ASSUME NEW i \in 1..m PROVE w[i] = StepOut(g[i - 1], batch'[i])
      OBVIOUS
    <3>1. CASE i = m
      <4>1. batch'[i] = t /\ g[i - 1] = f[n]
        BY <1>3, <1>7, <3>1
      <4>2. w[i] = v
        BY <3>1
      <4> HIDE DEF w
      <4> QED BY <4>1, <4>2
    <3>2. CASE i # m
      <4>0. w[i] = wanted[i]
        BY <3>2
      <4> HIDE DEF w
      <4>1. i \in 1..n /\ w[i] = wanted[i]
        BY <1>6, <3>2, <4>0
      <4>2. batch'[i] = batch[i]
        BY <1>3, <4>1
      <4>3. g[i - 1] = f[i - 1]
        <5> DEFINE k == i - 1
        <5>1. k \in 0..n
          BY <1>2
        <5> HIDE DEF k
        <5>2. g[k] = f[k]
          BY <1>4, <5>1
        <5> QED BY <5>2 DEF k
      <4>4. wanted[i] = StepOut(f[i - 1], batch[i])
        BY <2>1, <4>1
      <4> HIDE DEF v
      <4> QED BY <4>1, <4>2, <4>3, <4>4
    <3> QED BY <3>1, <3>2
  <2>4. w = [i \in 1..m |-> w[i]]
    OBVIOUS
  <2> HIDE DEF w
  <2> QED BY <1>3, <2>2, <2>3, <2>4
<1>10. RunsFrom(g)'
  <2>1. g[0] = ssm_state'
    BY <1>2, <1>3, <1>4, <1>7
  <2>2. recur' = g[m]
    BY <1>3, <1>4
  <2>3. Run(ssm_state', batch', g)
    BY <1>3, <1>5, <1>8, <2>1 DEF Run
  <2> QED BY <1>3, <1>9, <2>2, <2>3 DEF RunsFrom
<1>11. HeadTypes'
  BY <1>2, <1>3 DEF HeadTypes
<1> QED BY <1>10, <1>11 DEF HeadInv

\* The kernel takes the whole batch.
LEMMA TakesBatch ==
  ASSUME HeadInv, slm_forward_ssm_batch
  PROVE  HeadInv'
<1>1. PICK f : RunsFrom(f)
  BY DEF HeadInv
<1>0. PICK g : g = [i \in 0..0 |-> f[Len(batch)]]
  OBVIOUS
<1>2. ssm_state \in States /\ batch \in Seq(Inputs) /\ Run(ssm_state, batch, f) /\ recur = f[Len(batch)]
  BY <1>1 DEF HeadInv, HeadTypes, RunsFrom
<1>3. ssm_state' = f[Len(batch)]
  BY <1>2, BatchIs DEF slm_forward_ssm_batch
<1>4. f[Len(batch)] \in States
  <2>1. Len(batch) \in 0..Len(batch)
    BY <1>2
  <2> QED BY <1>2, <2>1 DEF Run
<1>5. batch' = <<>> /\ Len(batch') = 0 /\ wanted' = <<>> /\ recur' = f[Len(batch)]
  BY <1>2 DEF slm_forward_ssm_batch
<1>6. batch' \in Seq(Inputs)
  BY <1>5
<1> DEFINE x == f[Len(batch)]
<1> HIDE DEF x
<1>7. g = [i \in 0..0 |-> x] /\ x \in States /\ ssm_state' = x /\ recur' = x
  BY <1>0, <1>3, <1>4, <1>5 DEF x
<1>8. RunsFrom(g)'
  BY <1>5, <1>7 DEF RunsFrom, Run
<1>9. HeadTypes'
  BY <1>6, <1>7 DEF HeadTypes
<1> QED BY <1>8, <1>9 DEF HeadInv

\* One token is taken by itself.
LEMMA TakesToken ==
  ASSUME HeadInv, slm_forward_ssm
  PROVE  HeadInv'
<1> DEFINE n == Len(batch)
<1>1. PICK f : RunsFrom(f)
  BY DEF HeadInv
<1>0. PICK g : g = [i \in 0..n - 1 |-> f[i + 1]]
  OBVIOUS
<1>2. /\ ssm_state \in States /\ batch \in Seq(Inputs) /\ n \in Nat
      /\ f \in [0..n -> States] /\ f[0] = ssm_state /\ recur = f[n]
      /\ \A i \in 1..n : f[i] = StepState(f[i - 1], batch[i])
      /\ wanted = [i \in 1..n |-> StepOut(f[i - 1], batch[i])]
  BY <1>1 DEF HeadInv, HeadTypes, RunsFrom, Run
<1>3. /\ batch # <<>> /\ ssm_state' = StepState(ssm_state, Head(batch))
      /\ batch' = Tail(batch) /\ wanted' = Tail(wanted) /\ recur' = recur
  BY DEF slm_forward_ssm
<1>4. n # 0 /\ Head(batch) = batch[1]
  BY <1>2, <1>3, EmptySeq
<1>5. /\ batch' \in Seq(Inputs) /\ Len(batch') = n - 1
      /\ \A i \in 1..n - 1 : batch'[i] = batch[i + 1]
  BY <1>2, <1>3, <1>4, HeadTailProperties
<1> HIDE DEF n
<1>6. /\ n - 1 \in Nat /\ 1 \in 1..n
      /\ \A i \in 0..n - 1 : i + 1 \in 0..n /\ g[i] = f[i + 1]
      /\ \A i \in 1..n - 1 : i + 1 \in 1..n /\ i - 1 \in 0..n - 1 /\ (i - 1) + 1 = i /\ (i + 1) - 1 = i
  BY <1>0, <1>2, <1>4
<1>7. g \in [0..n - 1 -> States]
  BY <1>0, <1>2, <1>6
<1>8. \A i \in 1..n - 1 : g[i - 1] = f[i] /\ g[i] = f[i + 1]
  <2> SUFFICES ASSUME NEW i \in 1..n - 1 PROVE g[i - 1] = f[i] /\ g[i] = f[i + 1]
    OBVIOUS
  <2>1. g[i - 1] = f[(i - 1) + 1]
    BY <1>6
  <2>2. i \in 0..n - 1
    BY <1>6
  <2> QED BY <1>6, <2>1, <2>2
<1>9. \A i \in 1..n - 1 : g[i] = StepState(g[i - 1], batch'[i])
  <2> SUFFICES ASSUME NEW i \in 1..n - 1 PROVE g[i] = StepState(g[i - 1], batch'[i])
    OBVIOUS
  <2> DEFINE j == i + 1
  <2>1. j \in 1..n /\ j - 1 = i
    BY <1>6
  <2>2. g[i] = f[j] /\ g[i - 1] = f[i] /\ batch'[i] = batch[j]
    BY <1>5, <1>8
  <2> HIDE DEF j
  <2>3. f[j] = StepState(f[j - 1], batch[j])
    BY <1>2, <2>1
  <2> QED BY <2>1, <2>2, <2>3
<1>10. ssm_state' = g[0]
  <2>1. f[1] = StepState(f[1 - 1], batch[1]) /\ 1 - 1 = 0
    BY <1>2, <1>6
  <2>2. 0 \in 0..n - 1
    BY <1>6
  <2>3. g[0] = f[1]
    BY <1>6, <2>2
  <2> QED BY <1>2, <1>3, <1>4, <2>1, <2>3
<1>11. recur' = g[n - 1]
  <2>1. n - 1 \in 0..n - 1 /\ (n - 1) + 1 = n
    BY <1>2, <1>6
  <2>2. g[n - 1] = f[(n - 1) + 1]
    BY <1>6, <2>1
  <2> QED BY <1>2, <1>3, <2>1, <2>2
<1>12. wanted' = [i \in 1..n - 1 |-> StepOut(g[i - 1], batch'[i])]
  <2> DEFINE w == [i \in 1..n - 1 |-> wanted[i + 1]]
  <2>1. Len(wanted) = n /\ \A i \in 1..n : wanted[i] = StepOut(f[i - 1], batch[i])
    BY <1>2
  <2>2. Tail(wanted) = w
    BY <1>2, <1>4, <2>1
  <2>3. \A i \in 1..n - 1 : w[i] = StepOut(g[i - 1], batch'[i])
    <3> SUFFICES ASSUME NEW i \in 1..n - 1 PROVE wanted[i + 1] = StepOut(g[i - 1], batch'[i])
      OBVIOUS
    <3> DEFINE j == i + 1
    <3>1. j \in 1..n /\ j - 1 = i
      BY <1>6
    <3>2. batch'[i] = batch[j] /\ g[i - 1] = f[i]
      BY <1>5, <1>8
    <3> HIDE DEF j
    <3>3. wanted[j] = StepOut(f[j - 1], batch[j])
      BY <2>1, <3>1
    <3> QED BY <3>1, <3>2, <3>3 DEF j
  <2>4. w = [i \in 1..n - 1 |-> w[i]]
    OBVIOUS
  <2> HIDE DEF w
  <2> QED BY <1>3, <2>2, <2>3, <2>4
<1>13. RunsFrom(g)'
  <2>1. Run(ssm_state', batch', g)
    BY <1>5, <1>7, <1>9, <1>10 DEF Run
  <2> QED BY <1>5, <1>11, <1>12, <2>1 DEF RunsFrom
<1>14. HeadTypes'
  <2>1. 0 \in 0..n - 1
    BY <1>6
  <2> QED BY <1>5, <1>7, <1>10, <2>1 DEF HeadTypes
<1> QED BY <1>13, <1>14 DEF HeadInv

LEMMA HeadSteps == HeadInv /\ [HeadNext]_head => HeadInv'
<1> SUFFICES ASSUME HeadInv, [HeadNext]_head PROVE HeadInv'
  OBVIOUS
<1>1. CASE \E t \in Inputs : Feed(t)
  BY <1>1, Feeds
<1>2. CASE slm_forward_ssm_batch
  BY <1>2, TakesBatch
<1>3. CASE slm_forward_ssm
  BY <1>3, TakesToken
<1>4. CASE UNCHANGED head
  BY <1>4 DEF head, HeadInv, HeadTypes, RunsFrom, Run
<1> QED BY <1>1, <1>2, <1>3, <1>4 DEF HeadNext

LEMMA HeadAlways == HeadSpec => []HeadInv
BY HeadStart, HeadSteps, PTL DEF HeadSpec

\* Whatever the ring, the sizes of a head and of a chunk, and the prompt: the
\* chunked kernel leaves the state the recurrence leaves.
THEOREM KernelKeepsState == HeadSpec => []ChunkedStateIsRecurrent
<1>1. HeadInv => ChunkedStateIsRecurrent
  <2> SUFFICES ASSUME HeadInv PROVE ChunkedStateIsRecurrent
    OBVIOUS
  <2>1. PICK f : RunsFrom(f)
    BY DEF HeadInv
  <2>2. ssm_state \in States /\ batch \in Seq(Inputs) /\ Run(ssm_state, batch, f) /\ recur = f[Len(batch)]
    BY <2>1 DEF HeadInv, HeadTypes, RunsFrom
  <2>3. BatchState(ssm_state, batch) = f[Len(batch)]
    BY <2>2, BatchIs
  <2> QED BY <2>2, <2>3 DEF ChunkedStateIsRecurrent, States
<1> QED BY <1>1, HeadAlways, PTL

\* ... and gives each token the output the recurrence gives it.
THEOREM KernelGivesOutputs == HeadSpec => []ChunkedOutputIsRecurrent
<1>1. HeadInv => ChunkedOutputIsRecurrent
  <2> SUFFICES ASSUME HeadInv PROVE ChunkedOutputIsRecurrent
    OBVIOUS
  <2>1. PICK f : RunsFrom(f)
    BY DEF HeadInv
  <2>2. /\ ssm_state \in States /\ batch \in Seq(Inputs) /\ Run(ssm_state, batch, f)
        /\ wanted = [i \in 1..Len(batch) |-> StepOut(f[i - 1], batch[i])]
    BY <2>1 DEF HeadInv, HeadTypes, RunsFrom
  <2>3. BatchOut(ssm_state, batch) = [i \in 1..Len(batch) |-> StepOut(f[i - 1], batch[i])]
    BY <2>2, BatchIs
  <2> QED BY <2>2, <2>3 DEF ChunkedOutputIsRecurrent
<1> QED BY <1>1, HeadAlways, PTL

-----------------------------------------------------------------------------
(* Totals.                                                                 *)

CountsUp(f, n, g) ==
  /\ g \in [0..n -> Int]
  /\ g[0] = 0
  /\ \A k \in 1..n : g[k] = g[k - 1] + f[k - 1]

\* The function that Total takes its last value of
LEMMA TotalIs ==
  ASSUME NEW n \in Nat, NEW f, Numbers(f, n)
  PROVE  \E g : CountsUp(f, n, g) /\ Total(f, n) = g[n]
<1> DEFINE Def(g) == g = [k \in 0..n |-> IF k = 0 THEN 0 ELSE g[k - 1] + f[k - 1]]
           F == [k \in 1..n |-> [x \in Int |-> x + f[k - 1]]]
           h == CHOOSE g : Def(g)
<1>1. F \in [1..n -> [Int -> Int]]
  <2>1. \A k \in 1..n : k - 1 \in 0..n - 1
    OBVIOUS
  <2> QED BY <2>1 DEF Numbers
<1> HIDE DEF F
<1>2. PICK g \in [0..n -> Int] : g[0] = 0 /\ \A k \in 1..n : g[k] = F[k][g[k - 1]]
  <2>1. PICK V, v : V = Int /\ v = 0
    OBVIOUS
  <2>2. F \in [1..n -> [V -> V]] /\ v \in V
    BY <1>1, <2>1
  <2>3. IsDefined(n, V, v, F)
    BY <2>2, Recursion
  <2> QED BY <2>1, <2>3 DEF IsDefined
<1>3. ASSUME NEW k \in 1..n PROVE g[k] = g[k - 1] + f[k - 1]
  <2>1. k - 1 \in 0..n
    OBVIOUS
  <2>2. g[k - 1] \in Int
    BY <2>1
  <2> QED BY <1>2, <2>2 DEF F
<1>4. Def(g)
  <2>1. ASSUME NEW k \in 0..n PROVE g[k] = IF k = 0 THEN 0 ELSE g[k - 1] + f[k - 1]
    <3>1. CASE k = 0
      BY <1>2, <3>1
    <3>2. CASE k # 0
      <4>1. k \in 1..n
        BY <3>2
      <4> QED BY <1>3, <3>2, <4>1
    <3> QED BY <3>1, <3>2
  <2> QED BY <2>1
<1>5. Def(h)
  <2> HIDE DEF Def
  <2> QED BY <1>4
<1>6. Total(f, n) = h[n]
  BY DEF Total
<1> HIDE DEF h
<1>7. h = g
  <2>1. h = [k \in 0..n |-> IF k = 0 THEN 0 ELSE h[k - 1] + f[k - 1]]
    BY <1>5
  <2> DEFINE S == {k \in 0..n : h[k] = g[k]}
  <2>2. 0 \in S
    BY <1>2, <2>1
  <2>3. ASSUME NEW k \in 1..n, k - 1 \in S PROVE k \in S
    <3>1. k \in 0..n /\ k # 0 /\ h[k - 1] = g[k - 1]
      BY <2>3
    <3>2. h[k] = h[k - 1] + f[k - 1]
      BY <2>1, <3>1
    <3> QED BY <1>3, <3>1, <3>2
  <2> HIDE DEF S
  <2>4. \A k \in 0..n : k \in S
    BY <2>2, <2>3, UpTo
  <2>5. \A k \in 0..n : h[k] = g[k]
    BY <2>4 DEF S
  <2> QED BY <2>1, <2>5
<1> QED BY <1>2, <1>3, <1>6, <1>7 DEF CountsUp

LEMMA TotalOfNone ==
  ASSUME NEW f
  PROVE  Total(f, 0) = 0
<1>1. Numbers(f, 0)
  BY DEF Numbers
<1>2. PICK g : CountsUp(f, 0, g) /\ Total(f, 0) = g[0]
  BY <1>1, TotalIs
<1> QED BY <1>2 DEF CountsUp

\* A total is a number; it ends with its last term
LEMMA TotalSteps ==
  ASSUME NEW n \in Nat, NEW f, Numbers(f, n + 1)
  PROVE  /\ Total(f, n) \in Int /\ f[n] \in Int
         /\ Total(f, n + 1) = Total(f, n) + f[n]
<1>1. n + 1 \in Nat /\ Numbers(f, n) /\ f[n] \in Int
  BY DEF Numbers
<1>2. PICK g : CountsUp(f, n + 1, g) /\ Total(f, n + 1) = g[n + 1]
  BY <1>1, TotalIs
<1>3. PICK p : CountsUp(f, n, p) /\ Total(f, n) = p[n]
  BY <1>1, TotalIs
<1> DEFINE S == {k \in 0..n : p[k] = g[k]}
<1>4. 0 \in S
  BY <1>2, <1>3 DEF CountsUp
<1>5. ASSUME NEW k \in 1..n, k - 1 \in S PROVE k \in S
  <2>1. k \in 1..n + 1 /\ k \in 0..n /\ p[k - 1] = g[k - 1]
    BY <1>5
  <2> QED BY <1>2, <1>3, <2>1 DEF CountsUp
<1> HIDE DEF S
<1>6. \A k \in 0..n : k \in S
  BY <1>4, <1>5, UpTo
<1>7. p[n] = g[n] /\ n + 1 \in 1..n + 1 /\ (n + 1) - 1 = n
  BY <1>6 DEF S
<1>8. g[n + 1] = g[n] + f[n]
  BY <1>2, <1>7 DEF CountsUp
<1>9. p[n] \in Int
  BY <1>3 DEF CountsUp
<1> QED BY <1>1, <1>2, <1>3, <1>7, <1>8, <1>9

LEMMA TotalType ==
  ASSUME NEW n \in Nat, NEW f, Numbers(f, n)
  PROVE  Total(f, n) \in Int
<1>1. PICK g : CountsUp(f, n, g) /\ Total(f, n) = g[n]
  BY TotalIs
<1> QED BY <1>1 DEF CountsUp

\* What is true of no terms, and of one more if it is of some, is true of all
LEMMA TermByTerm ==
  ASSUME NEW n \in Nat, NEW S, 0 \in S, \A k \in 0..n - 1 : k \in S => k + 1 \in S
  PROVE  n \in S
<1>1. ASSUME NEW k \in 1..n, k - 1 \in S PROVE k \in S
  <2>1. k - 1 \in 0..n - 1 /\ (k - 1) + 1 = k
    OBVIOUS
  <2> QED BY <1>1, <2>1
<1>2. \A k \in 0..n : k \in S
  BY <1>1, UpTo
<1> QED BY <1>2

\* The terms up to the k-th of more are numbers too
LEMMA FewerNumbers ==
  ASSUME NEW n \in Nat, NEW f, Numbers(f, n), NEW k \in 0..n
  PROVE  Numbers(f, k)
BY DEF Numbers

LEMMA TotalsAgree ==
  ASSUME NEW n \in Nat, NEW f, NEW g, Numbers(f, n), \A k \in 0..n - 1 : f[k] = g[k]
  PROVE  Total(f, n) = Total(g, n)
<1> DEFINE S == {k \in 0..n : Total(f, k) = Total(g, k)}
<1>1. 0 \in S
  BY TotalOfNone
<1>2. ASSUME NEW k \in 0..n - 1, k \in S PROVE k + 1 \in S
  <2>1. k + 1 \in 0..n /\ k \in Nat /\ Total(f, k) = Total(g, k)
    BY <1>2
  <2>2. Numbers(f, k + 1) /\ Numbers(g, k + 1)
    BY <2>1 DEF Numbers
  <2>3. Total(f, k + 1) = Total(f, k) + f[k] /\ Total(g, k + 1) = Total(g, k) + g[k]
    BY <2>1, <2>2, TotalSteps
  <2> QED BY <2>1, <2>3
<1> HIDE DEF S
<1>3. n \in S
  BY <1>1, <1>2, TermByTerm
<1> QED BY <1>3 DEF S

LEMMA TotalAdds ==
  ASSUME NEW n \in Nat, NEW f, NEW g, Numbers(f, n), Numbers(g, n),
         NEW h, \A k \in 0..n - 1 : h[k] = f[k] + g[k]
  PROVE  Total(h, n) = Total(f, n) + Total(g, n)
<1> DEFINE S == {k \in 0..n : Total(h, k) = Total(f, k) + Total(g, k)}
<1>1. 0 \in S
  BY TotalOfNone
<1>2. ASSUME NEW k \in 0..n - 1, k \in S PROVE k + 1 \in S
  <2>1. k + 1 \in 0..n /\ k \in Nat /\ Total(h, k) = Total(f, k) + Total(g, k) /\ h[k] = f[k] + g[k]
    BY <1>2
  <2>2. Numbers(f, k + 1) /\ Numbers(g, k + 1) /\ Numbers(h, k + 1)
    <3>1. \A j \in 0..(k + 1) - 1 : j \in 0..n - 1
      BY <2>1
    <3>2. \A j \in 0..(k + 1) - 1 : f[j] \in Int /\ g[j] \in Int /\ h[j] = f[j] + g[j]
      BY <3>1 DEF Numbers
    <3> QED BY <3>2 DEF Numbers
  <2>3. /\ Total(f, k + 1) = Total(f, k) + f[k] /\ Total(f, k) \in Int /\ f[k] \in Int
        /\ Total(g, k + 1) = Total(g, k) + g[k] /\ Total(g, k) \in Int /\ g[k] \in Int
        /\ Total(h, k + 1) = Total(h, k) + h[k]
    BY <2>1, <2>2, TotalSteps
  <2> QED BY <2>1, <2>3
<1> HIDE DEF S
<1>3. n \in S
  BY <1>1, <1>2, TermByTerm
<1> QED BY <1>3 DEF S

LEMMA Spread ==
  ASSUME NEW c \in Int, NEW a \in Int, NEW b \in Int
  PROVE  c*(a + b) = c*a + c*b /\ c*a \in Int
OBVIOUS

LEMMA TotalScaled ==
  ASSUME NEW n \in Nat, NEW f, Numbers(f, n), NEW c \in Int,
         NEW h, \A k \in 0..n - 1 : h[k] = c * f[k]
  PROVE  Total(h, n) = c * Total(f, n)
<1> DEFINE S == {k \in 0..n : Total(h, k) = c * Total(f, k)}
<1>1. 0 \in S
  BY TotalOfNone
<1>2. ASSUME NEW k \in 0..n - 1, k \in S PROVE k + 1 \in S
  <2>1. k + 1 \in 0..n /\ k \in Nat /\ Total(h, k) = c * Total(f, k) /\ h[k] = c * f[k]
    BY <1>2
  <2>2. Numbers(f, k + 1) /\ Numbers(h, k + 1)
    <3>1. \A j \in 0..(k + 1) - 1 : j \in 0..n - 1
      BY <2>1
    <3>2. \A j \in 0..(k + 1) - 1 : f[j] \in Int /\ h[j] = c * f[j]
      BY <3>1 DEF Numbers
    <3>3. \A j \in 0..(k + 1) - 1 : h[j] \in Int
      BY <3>2, Spread
    <3> QED BY <3>2, <3>3 DEF Numbers
  <2>3. /\ Total(f, k + 1) = Total(f, k) + f[k] /\ Total(f, k) \in Int /\ f[k] \in Int
        /\ Total(h, k + 1) = Total(h, k) + h[k]
    BY <2>1, <2>2, TotalSteps
  <2>4. c * Total(f, k + 1) = c * Total(f, k) + c * f[k]
    BY <2>3, Spread
  <2> QED BY <2>1, <2>3, <2>4
<1> HIDE DEF S
<1>3. n \in S
  BY <1>1, <1>2, TermByTerm
<1> QED BY <1>3 DEF S

LEMMA TotalSplit ==
  ASSUME NEW n \in Nat, NEW m \in Nat, NEW f, Numbers(f, n + m)
  PROVE  /\ Numbers(f, n) /\ Numbers(Load(f, n, m), m)
         /\ Total(f, n) \in Int /\ Total(Load(f, n, m), m) \in Int
         /\ Total(f, n + m) = Total(f, n) + Total(Load(f, n, m), m)
<1> DEFINE g == Load(f, n, m)
           S == {k \in 0..m : Total(f, n + k) = Total(f, n) + Total(g, k)}
<1>1. \A k \in 0..m - 1 : g[k] = f[n + k]
  BY DEF Load
<1> HIDE DEF g
<1>2. Numbers(f, n)
  <2>1. \A k \in 0..n - 1 : k \in 0..(n + m) - 1
    OBVIOUS
  <2> QED BY <2>1 DEF Numbers
<1>3. Numbers(g, m)
  <2>1. \A k \in 0..m - 1 : n + k \in 0..(n + m) - 1
    OBVIOUS
  <2> QED BY <1>1, <2>1 DEF Numbers
<1>4. Total(f, n) \in Int /\ Total(g, m) \in Int
  BY <1>2, <1>3, TotalType
<1>5. 0 \in S
  BY <1>4, TotalOfNone
<1>6. ASSUME NEW k \in 0..m - 1, k \in S PROVE k + 1 \in S
  <2>1. /\ k + 1 \in 0..m /\ k \in Nat /\ n + k \in Nat /\ n + (k + 1) = (n + k) + 1
        /\ Total(f, n + k) = Total(f, n) + Total(g, k)
    BY <1>6
  <2>2. Numbers(f, (n + k) + 1) /\ Numbers(g, k + 1)
    <3>1. \A j \in 0..((n + k) + 1) - 1 : j \in 0..(n + m) - 1
      BY <2>1
    <3>2. Numbers(f, (n + k) + 1)
      BY <3>1 DEF Numbers
    <3>3. Numbers(g, k + 1)
      BY <1>3, <2>1, FewerNumbers
    <3> QED BY <3>2, <3>3
  <2>3. /\ Total(f, (n + k) + 1) = Total(f, n + k) + f[n + k] /\ f[n + k] \in Int
        /\ Total(g, k + 1) = Total(g, k) + g[k] /\ Total(g, k) \in Int
    BY <2>1, <2>2, TotalSteps
  <2>4. g[k] = f[n + k]
    BY <1>1
  <2> QED BY <1>4, <2>1, <2>3, <2>4
<1> HIDE DEF S
<1>7. m \in S
  BY <1>5, <1>6, TermByTerm
<1> QED BY <1>2, <1>3, <1>4, <1>7 DEF S, g

\* The k-th run of n terms
Sub(f, n, k) == Total(Load(f, n*k, n), n)

IsSub(f, n, a, k) ==
  /\ n*k \in Nat /\ Numbers(Load(f, n*k, n), n) /\ Sub(f, n, k) \in Int
  /\ \A l \in 0..n - 1 : n*k + l \in 0..n*a - 1 /\ Load(f, n*k, n)[l] = f[n*k + l]

LEMMA SubIs ==
  ASSUME NEW n \in Nat, NEW a \in Nat, NEW f, Numbers(f, n*a), NEW k \in 0..a - 1
  PROVE  IsSub(f, n, a, k)
<1>1. n*k \in Nat /\ n*a \in Nat /\ n*k + n <= n*a
  <2>1. k + 1 <= a /\ n*(k + 1) = n*k + n
    OBVIOUS
  <2>2. n*(k + 1) <= n*a
    BY <2>1
  <2>3. n*k \in Nat /\ n*a \in Nat
    OBVIOUS
  <2> QED BY <2>1, <2>2, <2>3
<1> DEFINE p == n*k
           q == n*a
<1>2. p \in Nat /\ q \in Nat /\ p + n <= q
  BY <1>1
<1> HIDE DEF p, q
<1>3. \A l \in 0..n - 1 : p + l \in 0..q - 1 /\ Load(f, p, n)[l] = f[p + l]
  BY <1>2 DEF Load
<1>4. Numbers(Load(f, p, n), n)
  <2>1. Numbers(f, q)
    BY DEF q
  <2> QED BY <1>3, <2>1 DEF Numbers
<1>5. Total(Load(f, p, n), n) \in Int
  BY <1>4, TotalType
<1> QED BY <1>2, <1>3, <1>4, <1>5 DEF p, q, Sub, IsSub

\* A total taken run by run
LEMMA TotalNested ==
  ASSUME NEW n \in Nat, NEW a \in Nat, NEW f, Numbers(f, n*a),
         NEW g, \A k \in 0..a - 1 : g[k] = Sub(f, n, k)
  PROVE  Numbers(g, a) /\ Total(f, n*a) = Total(g, a)
<1> DEFINE S == {k \in 0..a : Total(f, n*k) = Total(g, k)}
<1>1. Numbers(g, a)
  <2>1. \A k \in 0..a - 1 : Sub(f, n, k) \in Int
    BY SubIs DEF IsSub
  <2> QED BY <2>1 DEF Numbers
<1>2. 0 \in S
  <2>1. n*0 = 0 /\ 0 \in 0..a
    OBVIOUS
  <2> QED BY <2>1, TotalOfNone
<1>3. ASSUME NEW k \in 0..a - 1, k \in S PROVE k + 1 \in S
  <2>1. k + 1 \in 0..a /\ k \in Nat /\ Total(f, n*k) = Total(g, k)
    BY <1>3
  <2>2. /\ n*k \in Nat /\ n*(k + 1) = n*k + n
        /\ \A l \in 0..n - 1 : n*k + l \in 0..n*a - 1
    BY <2>1, SubIs DEF IsSub
  <2>3. Numbers(f, n*k + n)
    <3> DEFINE p == n*k
    <3>1. p \in Nat /\ \A l \in 0..n - 1 : p + l \in 0..n*a - 1
      BY <2>2
    <3> HIDE DEF p
    <3>2. p + n <= n*a \/ n = 0
      <4>1. CASE n # 0
        <5>1. n - 1 \in 0..n - 1
          BY <4>1
        <5>2. p + (n - 1) \in 0..n*a - 1
          BY <3>1, <5>1
        <5> QED BY <3>1, <5>2
      <4> QED BY <4>1
    <3>3. CASE n = 0
      <4>1. p = 0
        BY <3>3 DEF p
      <4> QED BY <3>3, <4>1 DEF Numbers, p
    <3>4. CASE p + n <= n*a
      <4>1. \A j \in 0..(p + n) - 1 : j \in 0..n*a - 1
        BY <3>1, <3>4
      <4>2. Numbers(f, p + n)
        BY <4>1 DEF Numbers
      <4> QED BY <4>2 DEF p
    <3> QED BY <3>2, <3>3, <3>4
  <2>4. Total(f, n*k + n) = Total(f, n*k) + Sub(f, n, k)
    <3> DEFINE p == n*k
    <3>1. p \in Nat /\ Numbers(f, p + n)
      BY <2>2, <2>3
    <3> HIDE DEF p
    <3>2. Total(f, p + n) = Total(f, p) + Total(Load(f, p, n), n)
      BY <3>1, TotalSplit
    <3> QED BY <3>2 DEF p, Sub
  <2>5. Numbers(g, k + 1)
    BY <1>1, <2>1, FewerNumbers
  <2>6. Total(g, k + 1) = Total(g, k) + g[k]
    BY <2>1, <2>5, TotalSteps
  <2>7. Total(f, n*(k + 1)) = Total(g, k + 1)
    BY <2>1, <2>2, <2>4, <2>6
  <2> QED BY <2>1, <2>7
<1> HIDE DEF S
<1>4. a \in S
  BY <1>2, <1>3, TermByTerm
<1> QED BY <1>1, <1>4 DEF S

\* Runs of terms, each under a factor of its own
UnderFactors(f, n, a, c, p) ==
  \A k \in 0..a - 1 : \A l \in 0..n - 1 : f[n*k + l] = c[k] * p[n*k + l]

LEMMA RunScaled ==
  ASSUME NEW n \in Nat, NEW a \in Nat, NEW p, Numbers(p, n*a), NEW c, Numbers(c, a),
         NEW f, UnderFactors(f, n, a, c, p), Numbers(f, n*a), NEW k \in 0..a - 1
  PROVE  Sub(f, n, k) = c[k] * Sub(p, n, k)
<1>0. IsSub(f, n, a, k) /\ IsSub(p, n, a, k)
  BY SubIs
<1>1. \A l \in 0..n - 1 : Load(f, n*k, n)[l] = f[n*k + l]
  BY <1>0 DEF IsSub
<1>2. /\ n*k \in Nat /\ Numbers(Load(p, n*k, n), n)
      /\ \A l \in 0..n - 1 : Load(p, n*k, n)[l] = p[n*k + l]
  BY <1>0 DEF IsSub
<1>3. c[k] \in Int
  BY DEF Numbers
<1>4. \A l \in 0..n - 1 : Load(f, n*k, n)[l] = c[k] * Load(p, n*k, n)[l]
  BY <1>1, <1>2 DEF UnderFactors
<1>5. Total(Load(f, n*k, n), n) = c[k] * Total(Load(p, n*k, n), n)
  BY <1>2, <1>3, <1>4, TotalScaled
<1> QED BY <1>5 DEF Sub

LEMMA TotalOfRuns ==
  ASSUME NEW n \in Nat, NEW a \in Nat, NEW p, Numbers(p, n*a), NEW c, Numbers(c, a),
         NEW f, UnderFactors(f, n, a, c, p), Numbers(f, n*a),
         NEW g, \A k \in 0..a - 1 : g[k] = c[k] * Sub(p, n, k)
  PROVE  Numbers(g, a) /\ Total(f, n*a) = Total(g, a)
<1>1. ASSUME NEW k \in 0..a - 1 PROVE g[k] = Sub(f, n, k)
  <2>1. Sub(f, n, k) = c[k] * Sub(p, n, k)
    BY RunScaled
  <2> QED BY <2>1
<1> QED BY <1>1, TotalNested

\* What is at most c each is at most n times c together
LEMMA TotalBounded ==
  ASSUME NEW n \in Nat, NEW c \in Nat, NEW f, \A k \in 0..n - 1 : f[k] \in -c..c
  PROVE  Numbers(f, n) /\ Total(f, n) \in Int /\ -(n*c) <= Total(f, n) /\ Total(f, n) <= n*c
<1> DEFINE S == {k \in 0..n : -(k*c) <= Total(f, k) /\ Total(f, k) <= k*c}
<1>1. Numbers(f, n)
  BY DEF Numbers
<1>2. 0 \in S
  <2>1. 0*c = 0 /\ 0 \in 0..n
    OBVIOUS
  <2> QED BY <2>1, TotalOfNone
<1>3. ASSUME NEW k \in 0..n - 1, k \in S PROVE k + 1 \in S
  <2>1. k + 1 \in 0..n /\ k \in Nat
    OBVIOUS
  <2>2. Numbers(f, k + 1)
    BY <1>1, <2>1, FewerNumbers
  <2>3. Total(f, k + 1) = Total(f, k) + f[k] /\ Total(f, k) \in Int
    BY <2>1, <2>2, TotalSteps
  <2>4. k*c \in Int /\ (k + 1)*c = k*c + c /\ -(k*c) <= Total(f, k) /\ Total(f, k) <= k*c
    BY <1>3, <2>1
  <2> DEFINE d == k*c
  <2>5. d \in Int /\ (k + 1)*c = d + c /\ -d <= Total(f, k) /\ Total(f, k) <= d
    BY <2>4
  <2> HIDE DEF d
  <2>6. -(d + c) <= Total(f, k + 1) /\ Total(f, k + 1) <= d + c
    BY <2>3, <2>5
  <2> QED BY <2>1, <2>5, <2>6
<1> HIDE DEF S
<1>4. n \in S
  BY <1>2, <1>3, TermByTerm
<1>5. Total(f, n) \in Int
  BY <1>1, TotalType
<1> QED BY <1>1, <1>4, <1>5 DEF S

-----------------------------------------------------------------------------
(* A few terms.                                                            *)

LEMMA TotalOfTwo ==
  ASSUME NEW f, Numbers(f, 2)
  PROVE  f[0] \in Int /\ f[1] \in Int /\ Total(f, 2) = f[0] + f[1]
<1>1. Numbers(f, 1)
  BY DEF Numbers
<1>2. Total(f, 0 + 1) = Total(f, 0) + f[0] /\ f[0] \in Int
  BY <1>1, TotalSteps
<1>3. Total(f, 1 + 1) = Total(f, 1) + f[1] /\ f[1] \in Int
  BY TotalSteps
<1> QED BY <1>2, <1>3, TotalOfNone

LEMMA TotalOfFour ==
  ASSUME NEW f, Numbers(f, 4)
  PROVE  /\ f[0] \in Int /\ f[1] \in Int /\ f[2] \in Int /\ f[3] \in Int
         /\ Total(f, 4) = f[0] + f[1] + f[2] + f[3]
<1>1. Numbers(f, 2) /\ Numbers(f, 3)
  BY DEF Numbers
<1>2. Total(f, 2 + 1) = Total(f, 2) + f[2] /\ f[2] \in Int
  BY <1>1, TotalSteps
<1>3. Total(f, 3 + 1) = Total(f, 3) + f[3] /\ f[3] \in Int
  BY TotalSteps
<1> QED BY <1>1, <1>2, <1>3, TotalOfTwo

LEMMA TotalOfEight ==
  ASSUME NEW f, Numbers(f, 8)
  PROVE  /\ f[0] \in Int /\ f[1] \in Int /\ f[2] \in Int /\ f[3] \in Int
         /\ f[4] \in Int /\ f[5] \in Int /\ f[6] \in Int /\ f[7] \in Int
         /\ Total(f, 8) = (f[0] + f[1] + f[2] + f[3]) + (f[4] + f[5] + f[6] + f[7])
<1>1. Numbers(f, 4) /\ Numbers(f, 5) /\ Numbers(f, 6) /\ Numbers(f, 7)
  BY DEF Numbers
<1>2. Total(f, 4 + 1) = Total(f, 4) + f[4] /\ f[4] \in Int
  BY <1>1, TotalSteps
<1>3. Total(f, 5 + 1) = Total(f, 5) + f[5] /\ f[5] \in Int
  BY <1>1, TotalSteps
<1>4. Total(f, 6 + 1) = Total(f, 6) + f[6] /\ f[6] \in Int
  BY <1>1, TotalSteps
<1>5. Total(f, 7 + 1) = Total(f, 7) + f[7] /\ f[7] \in Int
  BY TotalSteps
<1> QED BY <1>1, <1>2, <1>3, <1>4, <1>5, TotalOfFour

-----------------------------------------------------------------------------
(* Fields of bytes.                                                        *)

IsBytes(v, n) == DOMAIN v = 0..n - 1 /\ \A i \in 0..n - 1 : v[i] \in 0..255

\* Two bytes shifted to the right by k: what the low bits of the first are then
LowField(v, a, k) == (((v + 256*a) \div 2^k) % 256) % 2 = (v \div 2^k) % 2

LowFields(v, a, k) == (((v + 256*a) \div 2^k) % 256) % 4 = (v \div 2^k) % 4

LEMMA PowerPositive ==
  ASSUME NEW z \in 0..255, NEW k \in 0..7
  PROVE  2^k \in Nat \ {0} /\ z \div 2^k \in Int
<1>1. k = 0 \/ k = 1 \/ k = 2 \/ k = 3 \/ k = 4 \/ k = 5 \/ k = 6 \/ k = 7
  OBVIOUS
<1>2. /\ 2^0 = 1 /\ 2^1 = 2 /\ 2^2 = 4 /\ 2^3 = 8 /\ 2^4 = 16 /\ 2^5 = 32
      /\ 2^6 = 64 /\ 2^7 = 128
  OBVIOUS
<1>3. PICK d : d = 2^k
  OBVIOUS
<1>4. d \in {1, 2, 4, 8, 16, 32, 64, 128}
  BY <1>1, <1>2, <1>3
<1> QED BY <1>3, <1>4

LEMMA OneBit ==
  ASSUME NEW v \in 0..255, NEW a \in 0..255, NEW k \in 0..7
  PROVE  LowField(v, a, k)
<1>1. k = 0 \/ k = 1 \/ k = 2 \/ k = 3 \/ k = 4 \/ k = 5 \/ k = 6 \/ k = 7
  OBVIOUS
<1>2. LowField(v, a, 0) /\ LowField(v, a, 1) /\ LowField(v, a, 2) /\ LowField(v, a, 3)
  BY DEF LowField
<1>3. LowField(v, a, 4) /\ LowField(v, a, 5) /\ LowField(v, a, 6) /\ LowField(v, a, 7)
  BY DEF LowField
<1> QED BY <1>1, <1>2, <1>3

LEMMA TwoBits ==
  ASSUME NEW v \in 0..255, NEW a \in 0..255, NEW k \in {0, 2, 4, 6}
  PROVE  LowFields(v, a, k)
<1>1. LowFields(v, a, 0) /\ LowFields(v, a, 2)
  BY DEF LowFields
<1>2. LowFields(v, a, 4) /\ LowFields(v, a, 6)
  BY DEF LowFields
<1> QED BY <1>1, <1>2

\* What a shift to the right of two bytes leaves of each
ShiftedRight(u, v, k, n) ==
  /\ DOMAIN u = 0..n - 1
  /\ \A i \in 0..n - 1 : \E a \in 0..255 : u[i] = ((v[i] + 256*a) \div 2^k) % 256

LEMMA Srl2Is ==
  ASSUME NEW n \in Nat, n % 2 = 0, NEW v, IsBytes(v, n), NEW k
  PROVE  ShiftedRight(Srl(v, 2, k), v, k, n)
<1>1. DOMAIN Srl(v, 2, k) = 0..n - 1
  BY DEF Srl, Lanes, IsBytes
<1>2. ASSUME NEW i \in 0..n - 1
      PROVE  \E a \in 0..255 : Srl(v, 2, k)[i] = ((v[i] + 256*a) \div 2^k) % 256
  <2>1. PICK a : a = IF (i + 1) % 2 = 0 THEN 0 ELSE v[i + 1]
    OBVIOUS
  <2>2. Srl(v, 2, k)[i] = ((v[i] + 256*a) \div 2^k) % 256
    BY <2>1 DEF Srl, Lanes, IsBytes
  <2>3. a \in 0..255
    <3>1. CASE (i + 1) % 2 = 0
      BY <2>1, <3>1
    <3>2. CASE (i + 1) % 2 # 0
      <4>1. i + 1 # n /\ i \in Int
        BY <3>2
      <4>2. i + 1 \in 0..n - 1
        BY <4>1
      <4> QED BY <2>1, <3>2, <4>2 DEF IsBytes
    <3> QED BY <3>1, <3>2
  <2> QED BY <2>2, <2>3
<1> QED BY <1>1, <1>2 DEF ShiftedRight

LEMMA LowNibbles ==
  ASSUME NEW n \in Nat, NEW v, IsBytes(v, n)
  PROVE  /\ DOMAIN LowBits(v, 4) = 0..n - 1
         /\ \A i \in 0..n - 1 : LowBits(v, 4)[i] = v[i] % 16
<1>1. 2^4 = 16
  OBVIOUS
<1> QED BY <1>1 DEF LowBits, Lanes, IsBytes

LEMMA HighNibblesAre ==
  ASSUME NEW n \in Nat, n % 2 = 0, NEW v, IsBytes(v, n)
  PROVE  /\ DOMAIN HighNibbles(v) = 0..n - 1
         /\ \A i \in 0..n - 1 : HighNibbles(v)[i] = v[i] \div 16
<1>0. ShiftedRight(Srl(v, 2, 4), v, 4, n)
  BY Srl2Is
<1>1. DOMAIN HighNibbles(v) = 0..n - 1
  BY <1>0 DEF HighNibbles, LowBits, Lanes, ShiftedRight
<1>2. ASSUME NEW i \in 0..n - 1 PROVE HighNibbles(v)[i] = v[i] \div 16
  <2>1. PICK a \in 0..255 : Srl(v, 2, 4)[i] = ((v[i] + 256*a) \div 2^4) % 256
    BY <1>0 DEF ShiftedRight
  <2>2. HighNibbles(v)[i] = (((v[i] + 256*a) \div 2^4) % 256) % 2^4
    BY <1>0, <2>1 DEF HighNibbles, LowBits, Lanes, ShiftedRight
  <2>3. PICK z \in 0..255 : z = v[i]
    BY DEF IsBytes
  <2>4. (((z + 256*a) \div 2^4) % 256) % 2^4 = z \div 16
    OBVIOUS
  <2> QED BY <2>2, <2>3, <2>4
<1> QED BY <1>1, <1>2

LEMMA Moved ==
  ASSUME NEW t \in 0..3, NEW b \in 0..3
  PROVE  (t * 2^4 + (b * 2^4) \div 256) % 256 = 16*t
OBVIOUS

\* Fields of up to two bits moved four up: none reaches the next byte
LEMMA MovedUp ==
  ASSUME NEW n \in Nat, NEW t, DOMAIN t = 0..n - 1, \A i \in 0..n - 1 : t[i] \in 0..3,
         NEW size \in Nat \ {0}
  PROVE  /\ DOMAIN Sll(t, size, 4) = 0..n - 1
         /\ \A i \in 0..n - 1 : Sll(t, size, 4)[i] = 16 * t[i]
<1>1. DOMAIN Sll(t, size, 4) = 0..n - 1
  BY DEF Sll, Lanes
<1>2. ASSUME NEW i \in 0..n - 1 PROVE Sll(t, size, 4)[i] = 16 * t[i]
  <2>1. PICK b : b = IF i % size = 0 THEN 0 ELSE t[i - 1]
    OBVIOUS
  <2>2. Sll(t, size, 4)[i] = (t[i] * 2^4 + (b * 2^4) \div 256) % 256
    BY <2>1 DEF Sll, Lanes
  <2>3. b \in 0..3
    <3>1. CASE i % size = 0
      BY <2>1, <3>1
    <3>2. CASE i % size # 0
      <4>1. i # 0
        <5>1. 0 % size = 0
          BY ModSmall
        <5> QED BY <3>2, <5>1
      <4>2. i - 1 \in 0..n - 1
        BY <4>1
      <4> QED BY <2>1, <3>2, <4>2
    <3> QED BY <3>1, <3>2
  <2>4. t[i] \in 0..3
    OBVIOUS
  <2> QED BY <2>2, <2>3, <2>4, Moved
<1> QED BY <1>1, <1>2

LEMMA FifthBitIs ==
  ASSUME NEW n \in Nat, n % 2 = 0, NEW v, IsBytes(v, n), NEW k \in 0..7
  PROVE  /\ DOMAIN FifthBit(v, k) = 0..n - 1
         /\ \A i \in 0..n - 1 : FifthBit(v, k)[i] = 16 * ((v[i] \div 2^k) % 2)
<1>1. PICK t : t = LowBits(Srl(v, 2, k), 1)
  OBVIOUS
<1>0. ShiftedRight(Srl(v, 2, k), v, k, n)
  BY Srl2Is
<1>2. DOMAIN t = 0..n - 1
  BY <1>0, <1>1 DEF LowBits, Lanes, ShiftedRight
<1>3. ASSUME NEW i \in 0..n - 1 PROVE t[i] = (v[i] \div 2^k) % 2 /\ t[i] \in 0..3
  <2>1. PICK a \in 0..255 : Srl(v, 2, k)[i] = ((v[i] + 256*a) \div 2^k) % 256
    BY <1>0 DEF ShiftedRight
  <2>2. t[i] = (((v[i] + 256*a) \div 2^k) % 256) % 2^1 /\ 2^1 = 2
    BY <1>0, <1>1, <2>1 DEF LowBits, Lanes, ShiftedRight
  <2>3. PICK z \in 0..255 : z = v[i]
    BY DEF IsBytes
  <2>4. LowField(z, a, k)
    BY OneBit
  <2>5. t[i] = (z \div 2^k) % 2
    BY <2>2, <2>3, <2>4 DEF LowField
  <2>6. z \div 2^k \in Int
    BY PowerPositive
  <2>7. t[i] \in 0..3
    BY <2>5, <2>6
  <2> QED BY <2>3, <2>5, <2>7
<1>4. FifthBit(v, k) = Sll(t, 2, 4)
  BY <1>1 DEF FifthBit
<1>5. DOMAIN Sll(t, 2, 4) = 0..n - 1 /\ \A i \in 0..n - 1 : Sll(t, 2, 4)[i] = 16 * t[i]
  BY <1>2, <1>3, MovedUp
<1> QED BY <1>3, <1>4, <1>5

LEMMA TopBitsAre ==
  ASSUME NEW n \in Nat, n % 2 = 0, NEW v, IsBytes(v, n), NEW k \in {0, 2, 4, 6}
  PROVE  /\ DOMAIN TopBits(v, k) = 0..n - 1
         /\ \A i \in 0..n - 1 : TopBits(v, k)[i] = 16 * ((v[i] \div 2^k) % 4)
<1>1. PICK t : t = LowBits(Srl(v, 2, k), 2)
  OBVIOUS
<1>0. ShiftedRight(Srl(v, 2, k), v, k, n)
  BY Srl2Is
<1>2. DOMAIN t = 0..n - 1
  BY <1>0, <1>1 DEF LowBits, Lanes, ShiftedRight
<1>3. ASSUME NEW i \in 0..n - 1 PROVE t[i] = (v[i] \div 2^k) % 4 /\ t[i] \in 0..3
  <2>1. PICK a \in 0..255 : Srl(v, 2, k)[i] = ((v[i] + 256*a) \div 2^k) % 256
    BY <1>0 DEF ShiftedRight
  <2>2. t[i] = (((v[i] + 256*a) \div 2^k) % 256) % 2^2 /\ 2^2 = 4
    BY <1>0, <1>1, <2>1 DEF LowBits, Lanes, ShiftedRight
  <2>3. PICK z \in 0..255 : z = v[i]
    BY DEF IsBytes
  <2>4. LowFields(z, a, k)
    BY TwoBits
  <2>5. t[i] = (z \div 2^k) % 4
    BY <2>2, <2>3, <2>4 DEF LowFields
  <2>8. k \in 0..7
    OBVIOUS
  <2>6. z \div 2^k \in Int
    BY <2>8, PowerPositive
  <2>7. t[i] \in 0..3
    BY <2>5, <2>6
  <2> QED BY <2>3, <2>5, <2>7
<1>4. TopBits(v, k) = Sll(t, 2, 4)
  BY <1>1 DEF TopBits
<1>5. DOMAIN Sll(t, 2, 4) = 0..n - 1 /\ \A i \in 0..n - 1 : Sll(t, 2, 4)[i] = 16 * t[i]
  BY <1>2, <1>3, MovedUp
<1> QED BY <1>3, <1>4, <1>5

-----------------------------------------------------------------------------
(* Fields of bytes that are shifted by themselves.                         *)

LEMMA Srl1Is ==
  ASSUME NEW n \in Nat, NEW v, IsBytes(v, n), NEW k \in 0..7
  PROVE  /\ DOMAIN Srl(v, 1, k) = 0..n - 1
         /\ \A i \in 0..n - 1 : Srl(v, 1, k)[i] = v[i] \div 2^k /\ Srl(v, 1, k)[i] \in 0..255
<1>1. DOMAIN Srl(v, 1, k) = 0..n - 1
  BY DEF Srl, Lanes, IsBytes
<1>2. ASSUME NEW i \in 0..n - 1
      PROVE  Srl(v, 1, k)[i] = v[i] \div 2^k /\ Srl(v, 1, k)[i] \in 0..255
  <2>1. (i + 1) % 1 = 0
    OBVIOUS
  <2>2. Srl(v, 1, k)[i] = ((v[i] + 256*0) \div 2^k) % 256
    BY <2>1 DEF Srl, Lanes, IsBytes
  <2>3. PICK z \in 0..255 : z = v[i]
    BY DEF IsBytes
  <2>4. z + 256*0 = z
    OBVIOUS
  <2>5. z \div 2^k \in 0..255
    <3>1. k = 0 \/ k = 1 \/ k = 2 \/ k = 3 \/ k = 4 \/ k = 5 \/ k = 6 \/ k = 7
      OBVIOUS
    <3>2. /\ z \div 2^0 \in 0..255 /\ z \div 2^1 \in 0..255 /\ z \div 2^2 \in 0..255
          /\ z \div 2^3 \in 0..255
      OBVIOUS
    <3>3. /\ z \div 2^4 \in 0..255 /\ z \div 2^5 \in 0..255 /\ z \div 2^6 \in 0..255
          /\ z \div 2^7 \in 0..255
      OBVIOUS
    <3> QED BY <3>1, <3>2, <3>3
  <2>6. \A w \in 0..255 : w % 256 = w
    OBVIOUS
  <2> QED BY <2>2, <2>3, <2>4, <2>5, <2>6
<1> QED BY <1>1, <1>2

\* The fifth bits as NEON takes them: the byte is shifted by two bits a step
LEMMA FirstOfTwo ==
  ASSUME NEW z \in 0..255, NEW j \in 0..3
  PROVE  /\ (z \div 2^(2*j)) % 2^1 = (z \div 2^(2*j)) % 2
         /\ (z \div 2^(2*j)) % 2^1 \in 0..3
<1>1. j = 0 \/ j = 1 \/ j = 2 \/ j = 3
  OBVIOUS
<1>2. PICK k \in 0..7 : k = 2*j
  BY <1>1
<1>3. PICK w \in Int : w = z \div 2^k
  BY PowerPositive
<1>4. w % 2^1 = w % 2 /\ w % 2 \in 0..3
  OBVIOUS
<1> QED BY <1>2, <1>3, <1>4

SecondOf(z, j) ==
  LET w == z \div 2^(2*j)
  IN  /\ w \in Int /\ (w % 4) - (w % 2) = 2 * ((z \div 2^(2*j + 1)) % 2)
      /\ (z \div 2^(2*j + 1)) % 2 \in 0..1

LEMMA SecondOfTwo ==
  ASSUME NEW z \in 0..255, NEW j \in 0..3
  PROVE  SecondOf(z, j)
<1>1. j = 0 \/ j = 1 \/ j = 2 \/ j = 3
  OBVIOUS
<1>2. SecondOf(z, 0)
  BY DEF SecondOf
<1>3. SecondOf(z, 1)
  BY DEF SecondOf
<1>4. SecondOf(z, 2)
  BY DEF SecondOf
<1>5. SecondOf(z, 3)
  BY DEF SecondOf
<1> QED BY <1>1, <1>2, <1>3, <1>4, <1>5

\* Bit 1 moved up by three
LEMMA BitMovedUp ==
  ASSUME NEW n \in Nat, NEW t, DOMAIN t = 0..n - 1, \A i \in 0..n - 1 : t[i] \in {0, 2}
  PROVE  /\ DOMAIN Sll(t, 1, 3) = 0..n - 1
         /\ \A i \in 0..n - 1 : Sll(t, 1, 3)[i] = 8 * t[i]
<1>1. DOMAIN Sll(t, 1, 3) = 0..n - 1
  BY DEF Sll, Lanes
<1>2. ASSUME NEW i \in 0..n - 1 PROVE Sll(t, 1, 3)[i] = 8 * t[i]
  <2>1. i % 1 = 0
    OBVIOUS
  <2>2. Sll(t, 1, 3)[i] = (t[i] * 2^3 + (0 * 2^3) \div 256) % 256
    BY <2>1 DEF Sll, Lanes
  <2>3. PICK z \in {0, 2} : z = t[i]
    OBVIOUS
  <2>4. (z * 2^3 + (0 * 2^3) \div 256) % 256 = 8 * z
    OBVIOUS
  <2> QED BY <2>2, <2>3, <2>4
<1> QED BY <1>1, <1>2

-----------------------------------------------------------------------------
(* Scales.                                                                 *)

LEMMA ScaleTypes ==
  ASSUME NEW x, IsBytes(x.scales, 12), NEW j \in 0..7
  PROVE  /\ Scales(x)[j] \in 0..63 /\ Mins(x)[j] \in 0..63
         /\ Scales(x)[j] = GetScaleMin(x.scales, j).d
         /\ Mins(x)[j] = GetScaleMin(x.scales, j).m
<1>1. Scales(x)[j] = GetScaleMin(x.scales, j).d /\ Mins(x)[j] = GetScaleMin(x.scales, j).m
  BY DEF Scales, Mins
<1>2. CASE j < 4
  <2>1. PICK a \in 0..255, b \in 0..255 : a = x.scales[j] /\ b = x.scales[j + 4]
    <3>1. j \in 0..12 - 1 /\ j + 4 \in 0..12 - 1
      BY <1>2
    <3> QED BY <3>1 DEF IsBytes
  <2>2. GetScaleMin(x.scales, j) = [d |-> a % 64, m |-> b % 64]
    BY <1>2, <2>1 DEF GetScaleMin
  <2>3. a % 64 \in 0..63 /\ b % 64 \in 0..63
    OBVIOUS
  <2> QED BY <1>1, <2>2, <2>3
<1>3. CASE ~(j < 4)
  <2>1. PICK a \in 0..255, b \in 0..255, c \in 0..255 :
          a = x.scales[j] /\ b = x.scales[j + 4] /\ c = x.scales[j - 4]
    <3>1. j \in 0..12 - 1 /\ j + 4 \in 0..12 - 1 /\ j - 4 \in 0..12 - 1
      BY <1>3
    <3> QED BY <3>1 DEF IsBytes
  <2>2. GetScaleMin(x.scales, j) =
          [d |-> (b % 16) + (c \div 64) * 16, m |-> (b \div 16) + (a \div 64) * 16]
    BY <1>3, <2>1 DEF GetScaleMin
  <2>3. (b % 16) + (c \div 64) * 16 \in 0..63 /\ (b \div 16) + (a \div 64) * 16 \in 0..63
    OBVIOUS
  <2> QED BY <1>1, <2>2, <2>3
<1> QED BY <1>2, <1>3

\* Two high bits of each byte of a word of four, moved down to bit 4
LEMMA TopOfWord ==
  ASSUME NEW v, IsBytes(v, 4)
  PROVE  LET u == Sll(LowBits(Srl(v, 4, 6), 2), 4, 4)
         IN  DOMAIN u = 0..3 /\ \A i \in 0..3 : u[i] = 16 * (v[i] \div 64)
<1>1. PICK s, t : s = Srl(v, 4, 6) /\ t = LowBits(s, 2)
  OBVIOUS
<1>2. DOMAIN s = 0..3 /\ DOMAIN t = 0..3
  BY <1>1 DEF Srl, LowBits, Lanes, IsBytes
<1>3. ASSUME NEW i \in 0..3 PROVE t[i] = v[i] \div 64 /\ t[i] \in 0..3
  <2>1. PICK a : a = IF (i + 1) % 4 = 0 THEN 0 ELSE v[i + 1]
    OBVIOUS
  <2>2. a \in 0..255
    <3>1. (i + 1) % 4 # 0 => i + 1 \in 0..3
      OBVIOUS
    <3> QED BY <2>1, <3>1 DEF IsBytes
  <2>3. t[i] = (((v[i] + 256*a) \div 2^6) % 256) % 2^2
    BY <1>1, <1>2, <2>1 DEF Srl, LowBits, Lanes, IsBytes
  <2>4. PICK z \in 0..255 : z = v[i]
    BY DEF IsBytes
  <2>5. (((z + 256*a) \div 2^6) % 256) % 2^2 = z \div 64 /\ z \div 64 \in 0..3
    BY <2>2
  <2> QED BY <2>3, <2>4, <2>5
<1>4. DOMAIN Sll(t, 4, 4) = 0..4 - 1 /\ \A i \in 0..4 - 1 : Sll(t, 4, 4)[i] = 16 * t[i]
  <2>1. DOMAIN t = 0..4 - 1 /\ \A i \in 0..4 - 1 : t[i] \in 0..3
    BY <1>2, <1>3
  <2>2. PICK m \in Nat \ {0} : m = 4
    OBVIOUS
  <2>3. DOMAIN t = 0..m - 1 /\ \A i \in 0..m - 1 : t[i] \in 0..3
    BY <2>1, <2>2
  <2>4. DOMAIN Sll(t, m, 4) = 0..m - 1 /\ \A i \in 0..m - 1 : Sll(t, m, 4)[i] = 16 * t[i]
    BY <2>3, MovedUp
  <2> QED BY <2>2, <2>4
<1>5. 0..4 - 1 = 0..3 /\ Sll(LowBits(Srl(v, 4, 6), 2), 4, 4) = Sll(t, 4, 4)
  BY <1>1
<1> QED BY <1>3, <1>4, <1>5

\* The high half of each byte of a word of four
LEMMA HighOfWord ==
  ASSUME NEW v, IsBytes(v, 4), NEW i \in 0..3
  PROVE  LowBits(Srl(v, 4, 4), 4)[i] = v[i] \div 16 /\ DOMAIN LowBits(Srl(v, 4, 4), 4) = 0..3
<1>1. PICK a : a = IF (i + 1) % 4 = 0 THEN 0 ELSE v[i + 1]
  OBVIOUS
<1>2. a \in 0..255
  <2>1. (i + 1) % 4 # 0 => i + 1 \in 0..3
    OBVIOUS
  <2> QED BY <1>1, <2>1 DEF IsBytes
<1>3. /\ LowBits(Srl(v, 4, 4), 4)[i] = (((v[i] + 256*a) \div 2^4) % 256) % 2^4
      /\ DOMAIN LowBits(Srl(v, 4, 4), 4) = 0..3
  BY <1>1 DEF Srl, LowBits, Lanes, IsBytes
<1>4. PICK z \in 0..255 : z = v[i]
  BY DEF IsBytes
<1>5. (((z + 256*a) \div 2^4) % 256) % 2^4 = z \div 16
  BY <1>2
<1> QED BY <1>3, <1>4, <1>5

LEMMA WordIs ==
  ASSUME NEW v, IsBytes(v, 12), NEW k \in 0..2
  PROVE  IsBytes(Load(v, 4*k, 4), 4) /\ \A i \in 0..3 : Load(v, 4*k, 4)[i] = v[4*k + i]
<1>1. DOMAIN Load(v, 4*k, 4) = 0..3 /\ \A i \in 0..3 : Load(v, 4*k, 4)[i] = v[4*k + i]
  BY DEF Load
<1>2. \A i \in 0..3 : 4*k + i \in 0..11
  OBVIOUS
<1> QED BY <1>1, <1>2 DEF IsBytes

LEMMA WordScalesAre ==
  ASSUME NEW x, IsBytes(x.scales, 12), NEW j \in 0..7
  PROVE  WordScales(x)[j] = Scales(x)[j]
<1>1. PICK w0, w2 : w0 = Load(x.scales, 4*0, 4) /\ w2 = Load(x.scales, 4*2, 4)
  OBVIOUS
<1>2. /\ IsBytes(w0, 4) /\ IsBytes(w2, 4)
      /\ \A i \in 0..3 : w0[i] = x.scales[i] /\ w2[i] = x.scales[8 + i]
  BY <1>1, WordIs
<1>3. PICK h : h = Sll(LowBits(Srl(w0, 4, 6), 2), 4, 4)
  OBVIOUS
<1>4. DOMAIN h = 0..3 /\ \A i \in 0..3 : h[i] = 16 * (w0[i] \div 64)
  BY <1>2, <1>3, TopOfWord
<1>5. WordScales(x)[j] = IF j < 4 THEN LowBits(w0, 6)[j] ELSE Join(LowBits(w2, 4), h)[j - 4]
  BY <1>1, <1>3 DEF WordScales
<1>6. CASE j < 4
  <2>1. LowBits(w0, 6)[j] = w0[j] % 2^6 /\ 2^6 = 64
    BY <1>2, <1>6 DEF LowBits, Lanes, IsBytes
  <2>2. Scales(x)[j] = x.scales[j] % 64
    BY <1>6 DEF Scales, GetScaleMin
  <2> QED BY <1>2, <1>5, <1>6, <2>1, <2>2
<1>7. CASE ~(j < 4)
  <2>1. PICK i \in 0..3 : i = j - 4
    BY <1>7
  <2>2. LowBits(w2, 4)[i] = w2[i] % 2^4 /\ 2^4 = 16 /\ DOMAIN LowBits(w2, 4) = 0..3
    BY <1>2 DEF LowBits, Lanes, IsBytes
  <2>3. Join(LowBits(w2, 4), h)[i] = (w2[i] % 16) + 16 * (w0[i] \div 64)
    BY <1>4, <2>2 DEF Join, Lanes
  <2>4. j + 4 = 8 + i
    BY <2>1
  <2>5. Scales(x)[j] = (x.scales[8 + i] % 16) + (x.scales[i] \div 64) * 16
    BY <1>7, <2>1, <2>4 DEF Scales, GetScaleMin
  <2>6. PICK a \in 0..255, b \in 0..255 : a = x.scales[8 + i] /\ b = x.scales[i]
    <3>1. 8 + i \in 0..12 - 1 /\ i \in 0..12 - 1
      OBVIOUS
    <3> QED BY <3>1 DEF IsBytes
  <2>7. w2[i] = a /\ w0[i] = b
    BY <1>2, <2>6
  <2>8. WordScales(x)[j] = (a % 16) + 16 * (b \div 64)
    BY <1>5, <1>7, <2>1, <2>3, <2>7
  <2>9. Scales(x)[j] = (a % 16) + (b \div 64) * 16
    BY <2>5, <2>6
  <2> QED BY <2>8, <2>9
<1> QED BY <1>6, <1>7

\* The mins as WordMins has them in its words
WordMinsAt(x, j) ==
  LET word(k) == Load(x.scales, 4*k, 4)
      low4  == LowBits(word(1), 6)
      high4 == Join(LowBits(Srl(word(2), 4, 4), 4),
                    Sll(LowBits(Srl(word(1), 4, 6), 2), 4, 4))
  IN  IF j < 4 THEN low4[j] ELSE high4[j - 4]

LEMMA WordMinsAre ==
  ASSUME NEW x, IsBytes(x.scales, 12), NEW j \in 0..7
  PROVE  WordMinsAt(x, j) = Mins(x)[j]
<1>1. PICK w1, w2 : w1 = Load(x.scales, 4*1, 4) /\ w2 = Load(x.scales, 4*2, 4)
  OBVIOUS
<1>2. /\ IsBytes(w1, 4) /\ IsBytes(w2, 4)
      /\ \A i \in 0..3 : w1[i] = x.scales[4 + i] /\ w2[i] = x.scales[8 + i]
  BY <1>1, WordIs
<1>3. PICK h, g : h = Sll(LowBits(Srl(w1, 4, 6), 2), 4, 4) /\ g = LowBits(Srl(w2, 4, 4), 4)
  OBVIOUS
<1>4. DOMAIN h = 0..3 /\ \A i \in 0..3 : h[i] = 16 * (w1[i] \div 64)
  BY <1>2, <1>3, TopOfWord
<1>5. WordMinsAt(x, j) = IF j < 4 THEN LowBits(w1, 6)[j] ELSE Join(g, h)[j - 4]
  BY <1>1, <1>3 DEF WordMinsAt
<1>6. CASE j < 4
  <2>1. LowBits(w1, 6)[j] = w1[j] % 2^6 /\ 2^6 = 64
    BY <1>2, <1>6 DEF LowBits, Lanes, IsBytes
  <2>2. Mins(x)[j] = x.scales[4 + j] % 64
    BY <1>6 DEF Mins, GetScaleMin
  <2> QED BY <1>2, <1>5, <1>6, <2>1, <2>2
<1>7. CASE ~(j < 4)
  <2>1. PICK i \in 0..3 : i = j - 4
    BY <1>7
  <2>2. g[i] = w2[i] \div 16 /\ DOMAIN g = 0..3
    BY <1>2, <1>3, HighOfWord
  <2>3. Join(g, h)[i] = w2[i] \div 16 + 16 * (w1[i] \div 64)
    BY <1>4, <2>2 DEF Join, Lanes
  <2>4. j + 4 = 8 + i /\ j = 4 + i
    BY <2>1
  <2>5. Mins(x)[j] = (x.scales[8 + i] \div 16) + (x.scales[4 + i] \div 64) * 16
    BY <1>7, <2>4 DEF Mins, GetScaleMin
  <2>6. PICK a \in 0..255, b \in 0..255 : a = x.scales[8 + i] /\ b = x.scales[4 + i]
    <3>1. 8 + i \in 0..12 - 1 /\ 4 + i \in 0..12 - 1
      OBVIOUS
    <3> QED BY <3>1 DEF IsBytes
  <2>7. w2[i] = a /\ w1[i] = b
    BY <1>2, <2>6
  <2>8. WordMinsAt(x, j) = a \div 16 + 16 * (b \div 64)
    BY <1>5, <1>7, <2>1, <2>3, <2>7
  <2>9. Mins(x)[j] = (a \div 16) + (b \div 64) * 16
    BY <2>5, <2>6
  <2> QED BY <2>8, <2>9
<1> QED BY <1>6, <1>7

-----------------------------------------------------------------------------
(* Dot products.                                                           *)

Products(u, s, n) == [i \in 0..n - 1 |-> u[i] * s[i]]

\* Bytes whose products, two by two, fit in 16 bits
Small(u, s, n) == \A i \in 0..n - 1 : u[i] \in 0..128 /\ s[i] \in -127..127

\* A register of m lanes, each with four of the products
FourEach(p, f, m) == Numbers(f, 4*m) /\ \A l \in 0..m - 1 : p[l] = Sub(f, 4, l)

\* A product of two such bytes: two of them fit
Half16(x) == x \in Int /\ -16256 <= x /\ x <= 16256

LEMMA ProductSmall ==
  ASSUME NEW u \in 0..128, NEW s \in -127..127
  PROVE  Half16(u*s)
<1>1. s*u <= 127*u /\ (-127)*u <= s*u /\ u*s = s*u /\ u*s \in Int
  <2>1. CASE u = 0
    BY <2>1
  <2>2. CASE u # 0
    <3>1. u \in Nat \ {0} /\ s \in Int /\ 127 \in Int /\ -127 \in Int /\ s <= 127 /\ -127 <= s
      BY <2>2
    <3>2. s*u <= 127*u /\ (-127)*u <= s*u
      BY <3>1, Increasing
    <3> QED BY <3>1, <3>2
  <2> QED BY <2>1, <2>2
<1> QED BY <1>1 DEF Half16

LEMMA Fits ==
  ASSUME NEW a, NEW b, Half16(a), Half16(b)
  PROVE  Saturate16(a + b) = a + b
<1>1. PICK c \in Int : c = a + b
  BY DEF Half16
<1>2. ~(c > 32767) /\ ~(c < -32768)
  BY <1>1 DEF Half16
<1> QED BY <1>1, <1>2 DEF Saturate16

LEMMA RunOfFour ==
  ASSUME NEW m \in Nat, NEW f, Numbers(f, 4*m), NEW l \in 0..m - 1
  PROVE  /\ 4*l \in 0..4*m - 1 /\ 4*l + 1 \in 0..4*m - 1
         /\ 4*l + 2 \in 0..4*m - 1 /\ 4*l + 3 \in 0..4*m - 1
         /\ Sub(f, 4, l) = f[4*l] + f[4*l + 1] + f[4*l + 2] + f[4*l + 3]
<1>1. /\ 4*l \in 0..4*m - 1 /\ 4*l + 1 \in 0..4*m - 1
      /\ 4*l + 2 \in 0..4*m - 1 /\ 4*l + 3 \in 0..4*m - 1
  OBVIOUS
<1>2. PICK g : g = Load(f, 4*l, 4)
  OBVIOUS
<1>3. g[0] = f[4*l] /\ g[1] = f[4*l + 1] /\ g[2] = f[4*l + 2] /\ g[3] = f[4*l + 3]
  BY <1>2 DEF Load
<1>4. Numbers(g, 4)
  <2>1. \A k \in 0..4 - 1 : k = 0 \/ k = 1 \/ k = 2 \/ k = 3
    OBVIOUS
  <2>2. f[4*l] \in Int /\ f[4*l + 1] \in Int /\ f[4*l + 2] \in Int /\ f[4*l + 3] \in Int
    BY <1>1 DEF Numbers
  <2> QED BY <1>3, <2>1, <2>2 DEF Numbers
<1>5. Total(g, 4) = g[0] + g[1] + g[2] + g[3]
  BY <1>4, TotalOfFour
<1> QED BY <1>1, <1>2, <1>3, <1>5 DEF Sub

LEMMA Quarter ==
  ASSUME NEW m \in Nat
  PROVE  (4*m) \div 4 = m /\ (4*m) \div 2 = 2*m
<1>1. 4*m = m*4 + 0 /\ 4*m = (2*m)*2 + 0
  OBVIOUS
<1>2. PICK n : n = 4*m
  OBVIOUS
<1>3. PICK k : k = 2*m
  OBVIOUS
<1>4. n \in Int /\ k \in Int /\ n = m*4 + 0 /\ n = k*2 + 0 /\ 0 \in 0..4 - 1 /\ 0 \in 0..2 - 1
      /\ 4 \in Nat \ {0} /\ 2 \in Nat \ {0} /\ m \in Int
  BY <1>1, <1>2, <1>3
<1>5. n \div 4 = m
  BY <1>4, DivModUnique
<1>6. n \div 2 = k
  BY <1>4, DivModUnique
<1> QED BY <1>2, <1>3, <1>5, <1>6

\* No pair saturates
LEMMA MaddLanes ==
  ASSUME NEW m \in Nat, NEW u, NEW s, Small(u, s, 4*m)
  PROVE  FourEach(MaddDot(u, s, 4*m), Products(u, s, 4*m), m)
<1> DEFINE f == Products(u, s, 4*m)
<1>1. \A i \in 0..4*m - 1 : f[i] = u[i]*s[i] /\ Half16(f[i])
  <2>1. \A i \in 0..4*m - 1 : f[i] = u[i]*s[i]
    BY DEF Products
  <2>2. ASSUME NEW i \in 0..4*m - 1 PROVE Half16(u[i]*s[i])
    <3>1. u[i] \in 0..128 /\ s[i] \in -127..127
      BY DEF Small
    <3> QED BY <3>1, ProductSmall
  <2> QED BY <2>1, <2>2
<1> HIDE DEF f
<1>2. Numbers(f, 4*m)
  BY <1>1 DEF Numbers, Half16
<1>3. ASSUME NEW l \in 0..m - 1 PROVE MaddDot(u, s, 4*m)[l] = Sub(f, 4, l)
  <2> DEFINE p16 == [i \in 0 .. ((4*m) \div 2) - 1 |->
                       Saturate16(u[2*i] * s[2*i] + u[2*i + 1] * s[2*i + 1])]
  <2>1. MaddDot(u, s, 4*m)[l] = p16[2*l] + p16[2*l + 1]
    <3>1. (4*m) \div 4 = m
      BY Quarter
    <3> QED BY <3>1 DEF MaddDot
  <2>2. 2*l \in 0..2*m - 1 /\ 2*l + 1 \in 0..2*m - 1
    OBVIOUS
  <2>3. (4*m) \div 2 = 2*m
    BY Quarter
  <2>4. /\ p16[2*l] = Saturate16(u[2*(2*l)] * s[2*(2*l)] + u[2*(2*l) + 1] * s[2*(2*l) + 1])
        /\ p16[2*l + 1] = Saturate16(u[2*(2*l + 1)] * s[2*(2*l + 1)]
                                     + u[2*(2*l + 1) + 1] * s[2*(2*l + 1) + 1])
    BY <2>2, <2>3
  <2>5. 2*(2*l) = 4*l /\ 2*(2*l) + 1 = 4*l + 1 /\ 2*(2*l + 1) = 4*l + 2 /\ 2*(2*l + 1) + 1 = 4*l + 3
    OBVIOUS
  <2>6. /\ 4*l \in 0..4*m - 1 /\ 4*l + 1 \in 0..4*m - 1
        /\ 4*l + 2 \in 0..4*m - 1 /\ 4*l + 3 \in 0..4*m - 1
        /\ Sub(f, 4, l) = f[4*l] + f[4*l + 1] + f[4*l + 2] + f[4*l + 3]
    BY <1>2, RunOfFour
  <2> HIDE DEF p16
  <2>7. p16[2*l] = Saturate16(f[4*l] + f[4*l + 1]) /\ p16[2*l + 1] = Saturate16(f[4*l + 2] + f[4*l + 3])
    BY <1>1, <2>4, <2>5, <2>6
  <2>8. /\ Half16(f[4*l]) /\ Half16(f[4*l + 1]) /\ Half16(f[4*l + 2]) /\ Half16(f[4*l + 3])
        /\ f[4*l] \in Int /\ f[4*l + 1] \in Int /\ f[4*l + 2] \in Int /\ f[4*l + 3] \in Int
    BY <1>1, <2>6 DEF Half16
  <2>9. p16[2*l] = f[4*l] + f[4*l + 1] /\ p16[2*l + 1] = f[4*l + 2] + f[4*l + 3]
    BY <2>7, <2>8, Fits
  <2> QED BY <2>1, <2>6, <2>8, <2>9
<1> QED BY <1>2, <1>3 DEF FourEach, f

LEMMA FourLanes ==
  ASSUME NEW m \in Nat, NEW u, NEW s, Numbers(Products(u, s, 4*m), 4*m)
  PROVE  FourEach(FourDot(u, s, 4*m), Products(u, s, 4*m), m)
<1> DEFINE f == Products(u, s, 4*m)
<1>1. \A i \in 0..4*m - 1 : f[i] = u[i]*s[i]
  BY DEF Products
<1> HIDE DEF f
<1>2. Numbers(f, 4*m)
  BY DEF f
<1>3. ASSUME NEW l \in 0..m - 1 PROVE FourDot(u, s, 4*m)[l] = Sub(f, 4, l)
  <2>1. FourDot(u, s, 4*m)[l] = u[4*l] * s[4*l] + u[4*l + 1] * s[4*l + 1]
                                + u[4*l + 2] * s[4*l + 2] + u[4*l + 3] * s[4*l + 3]
    <3>1. (4*m) \div 4 = m
      BY Quarter
    <3> QED BY <3>1 DEF FourDot
  <2>2. /\ 4*l \in 0..4*m - 1 /\ 4*l + 1 \in 0..4*m - 1
        /\ 4*l + 2 \in 0..4*m - 1 /\ 4*l + 3 \in 0..4*m - 1
        /\ Sub(f, 4, l) = f[4*l] + f[4*l + 1] + f[4*l + 2] + f[4*l + 3]
    BY <1>2, RunOfFour
  <2> QED BY <1>1, <2>1, <2>2
<1> QED BY <1>2, <1>3 DEF FourEach, f

\* The lanes of the four each together have all the products
LEMMA LanesTotal ==
  ASSUME NEW m \in Nat, NEW p, NEW f, FourEach(p, f, m), NEW k \in 0..m
  PROVE  Numbers(p, m) /\ Total(p, k) = Total(f, 4*k)
<1>1. Numbers(f, 4*m) /\ \A l \in 0..m - 1 : p[l] = Sub(f, 4, l)
  BY DEF FourEach
<1>2. PICK n \in Nat : n = 4
  OBVIOUS
<1>3. Numbers(p, m)
  BY <1>1, <1>2, TotalNested
<1>4. Numbers(f, 4*k)
  BY <1>1 DEF Numbers
<1>5. Total(f, 4*k) = Total(p, k)
  <2>1. \A l \in 0..k - 1 : p[l] = Sub(f, n, l)
    BY <1>1, <1>2
  <2> QED BY <1>2, <1>4, <2>1, TotalNested
<1> QED BY <1>3, <1>5

LEMMA NeonLanesTotal ==
  ASSUME NEW m \in Nat, NEW u, NEW s, Numbers(Products(u, s, 4*m), 4*m)
  PROVE  Total(NeonVdotBaseline(u, s, 4*m), m) = Total(Products(u, s, 4*m), 4*m)
<1> DEFINE f == Products(u, s, 4*m)
           g == [k \in 0..2*m - 1 |-> Sub(f, 2, k)]
           p == NeonVdotBaseline(u, s, 4*m)
<1>1. \A i \in 0..4*m - 1 : f[i] = u[i]*s[i]
  BY DEF Products
<1> HIDE DEF f
<1>2. Numbers(f, 4*m)
  BY DEF f
<1>3. PICK n \in Nat, c \in Nat : n = 2 /\ c = 2*m
  OBVIOUS
<1>4. n*c = 4*m
  BY <1>3
<1>5. Numbers(g, c) /\ Total(f, 4*m) = Total(g, c)
  <2>1. Numbers(f, n*c)
    BY <1>2, <1>4
  <2>2. \A k \in 0..c - 1 : g[k] = Sub(f, n, k)
    BY <1>3
  <2> HIDE DEF g
  <2>3. Numbers(g, c) /\ Total(f, n*c) = Total(g, c)
    BY <2>1, <2>2, TotalNested
  <2> QED BY <1>4, <2>3
<1>6. ASSUME NEW k \in 0..2*m - 1
      PROVE  g[k] = u[2*k] * s[2*k] + u[2*k + 1] * s[2*k + 1]
  <2>1. 2*k \in 0..4*m - 1 /\ 2*k + 1 \in 0..4*m - 1
    OBVIOUS
  <2>2. PICK h : h = Load(f, 2*k, 2)
    OBVIOUS
  <2>3. h[0] = f[2*k] /\ h[1] = f[2*k + 1]
    BY <2>2 DEF Load
  <2>4. Numbers(h, 2)
    <3>1. \A j \in 0..2 - 1 : j = 0 \/ j = 1
      OBVIOUS
    <3>2. f[2*k] \in Int /\ f[2*k + 1] \in Int
      BY <1>2, <2>1 DEF Numbers
    <3> QED BY <2>3, <3>1, <3>2 DEF Numbers
  <2>5. Total(h, 2) = h[0] + h[1]
    BY <2>4, TotalOfTwo
  <2> QED BY <1>1, <2>1, <2>2, <2>3, <2>5 DEF Sub
<1>7. ASSUME NEW l \in 0..m - 1
      PROVE  p[l] = g[l] + Load(g, m, m)[l]
  <2>1. (4*m) \div 4 = m /\ (4*m) \div 2 = 2*m
    BY Quarter
  <2>2. p[l] = (u[2*l] * s[2*l] + u[2*l + 1] * s[2*l + 1])
               + (u[2*m + 2*l] * s[2*m + 2*l] + u[2*m + 2*l + 1] * s[2*m + 2*l + 1])
    BY <2>1 DEF NeonVdotBaseline
  <2>3. l \in 0..2*m - 1 /\ m + l \in 0..2*m - 1 /\ 2*(m + l) = 2*m + 2*l
    OBVIOUS
  <2>4. Load(g, m, m)[l] = g[m + l]
    BY DEF Load
  <2> HIDE DEF g, p
  <2> QED BY <1>6, <2>2, <2>3, <2>4
<1> HIDE DEF g, p
<1>8. Numbers(g, m + m) /\ c = m + m
  BY <1>3, <1>5
<1>9. /\ Numbers(g, m) /\ Numbers(Load(g, m, m), m)
      /\ Total(g, m + m) = Total(g, m) + Total(Load(g, m, m), m)
  BY <1>8, TotalSplit
<1>10. Total(p, m) = Total(g, m) + Total(Load(g, m, m), m)
  BY <1>7, <1>9, TotalAdds
<1> QED BY <1>5, <1>8, <1>9, <1>10 DEF f, p

Isas == {"avx1", "avx2", "avxvnni", "dotprod", "baseline"}

\* Every instruction gives the whole sum
LEMMA DotIs ==
  ASSUME NEW m \in Nat, NEW u, NEW s, Small(u, s, 4*m), NEW isa \in Isas
  PROVE  /\ Numbers(Products(u, s, 4*m), 4*m)
         /\ Hsum(Dot(isa, u, s, 4*m), (4*m) \div 4) = Total(Products(u, s, 4*m), 4*m)
<1>0. FourEach(MaddDot(u, s, 4*m), Products(u, s, 4*m), m)
  BY MaddLanes
<1>1. Numbers(Products(u, s, 4*m), 4*m)
  BY <1>0 DEF FourEach
<1>2. (4*m) \div 4 = m /\ m \in 0..m
  BY Quarter
<1>3. CASE isa \in {"avx1", "avx2"}
  <2>1. Dot(isa, u, s, 4*m) = MaddDot(u, s, 4*m)
    BY <1>3 DEF Dot
  <2>2. Total(MaddDot(u, s, 4*m), m) = Total(Products(u, s, 4*m), 4*m)
    BY <1>0, <1>2, LanesTotal
  <2> QED BY <1>1, <1>2, <2>1, <2>2 DEF Hsum
<1>4. CASE isa \in {"avxvnni", "dotprod"}
  <2>1. Dot(isa, u, s, 4*m) = FourDot(u, s, 4*m)
    BY <1>4 DEF Dot
  <2>2. FourEach(FourDot(u, s, 4*m), Products(u, s, 4*m), m)
    BY <1>1, FourLanes
  <2>3. Total(FourDot(u, s, 4*m), m) = Total(Products(u, s, 4*m), 4*m)
    BY <1>2, <2>2, LanesTotal
  <2> QED BY <1>1, <1>2, <2>1, <2>3 DEF Hsum
<1>5. CASE isa = "baseline"
  <2>1. Dot(isa, u, s, 4*m) = NeonVdotBaseline(u, s, 4*m)
    BY <1>5 DEF Dot
  <2>2. Total(NeonVdotBaseline(u, s, 4*m), m) = Total(Products(u, s, 4*m), 4*m)
    BY <1>1, NeonLanesTotal
  <2> QED BY <1>1, <1>2, <2>1, <2>2 DEF Hsum
<1> QED BY <1>3, <1>4, <1>5 DEF Isas

-----------------------------------------------------------------------------
(* The numbers of a scratch row.                                           *)

\* Bytes that are no less than -127
Quantised(qs, n) == \A i \in 0..n - 1 : qs[i] \in -127..127

\* The sums that go with a super-block: of each run of H numbers
Summed(y) == \A j \in 0..15 : y.bsums[j] = Sub(y.qs, H, j)

LEMMA Q8KInRange ==
  ASSUME NEW s, Numbers(s, Q)
  PROVE  Quantised(QuantizeQ8K(s).qs, Q) /\ Summed(QuantizeQ8K(s))
<1>1. ASSUME NEW i \in 0..Q - 1 PROVE QuantizeQ8K(s).qs[i] \in -127..127
  <2> DEFINE big == s[MaxAbsAt(s, Q)]
             sgn == IF big < 0 THEN -1 ELSE 1
             q == Abs(big)
             p == -127 * s[i] * sgn
             v == RoundEven(p, q)
             z == QuantizeQ8K(s).qs[i]
  <2>1. MaxAbsAt(s, Q) \in 0..Q - 1 /\ Abs(s[i]) <= q
    BY Widths, LargestFound DEF WIs, Numbers, IsLargest
  <2>2. big \in Int /\ s[i] \in Int
    BY <2>1 DEF Numbers
  <2>3. z = IF big = 0 THEN 0 ELSE Clip(v)
    BY DEF QuantizeQ8K
  <2> HIDE DEF big, z
  <2>4. CASE big = 0
    BY <2>3, <2>4 DEF z
  <2>5. CASE big # 0
    <3>1. q \in Nat \ {0} /\ p \in Int /\ -(127*q) <= p /\ p <= 127*q
      BY <2>1, <2>2, <2>5 DEF Abs
    <3> HIDE DEF sgn, p, q
    <3>2. Near(v, q, p)
      BY <3>1, EvenIsNear
    <3>3. -127 <= v /\ v <= 127 /\ v \in Int
      BY <3>1, <3>2, NearIsSmall DEF Near
    <3> HIDE DEF v
    <3>4. z = v
      BY <2>3, <2>5, <3>3 DEF Clip
    <3> QED BY <3>3, <3>4 DEF z
  <2> QED BY <2>4, <2>5
<1>2. ASSUME NEW j \in 0..15
      PROVE  QuantizeQ8K(s).bsums[j] = Sub(QuantizeQ8K(s).qs, H, j)
  <2>1. QuantizeQ8K(s).bsums[j] = Total(Load(QuantizeQ8K(s).qs, j * H, H), H)
    BY DEF QuantizeQ8K
  <2>2. j * H = H * j
    BY Widths DEF WIs
  <2> QED BY <2>1, <2>2 DEF Sub
<1> QED BY <1>1, <1>2 DEF Quantised, Summed

LEMMA Q8_0InRange ==
  ASSUME NEW s, Numbers(s, W)
  PROVE  DOMAIN QuantizeQ8_0(s).qs = 0..W - 1 /\ Quantised(QuantizeQ8_0(s).qs, W)
<1>1. DOMAIN QuantizeQ8_0(s).qs = 0..W - 1
  BY DEF QuantizeQ8_0
<1>2. ASSUME NEW i \in 0..W - 1 PROVE QuantizeQ8_0(s).qs[i] \in -127..127
  <2> DEFINE a == Abs(s[MaxAbsAt(s, W)])
             v == RoundAway(127 * s[i], a)
             z == QuantizeQ8_0(s).qs[i]
  <2>1. MaxAbsAt(s, W) \in 0..W - 1 /\ Abs(s[i]) <= a
    BY Widths, LargestFound DEF WIs, Numbers, IsLargest
  <2>2. a \in Nat /\ s[i] \in Int
    BY <2>1, SizeOf DEF Numbers
  <2>3. z = IF a = 0 THEN 0 ELSE Clip(v)
    BY DEF QuantizeQ8_0
  <2> HIDE DEF a, z
  <2>4. CASE a = 0
    BY <2>3, <2>4 DEF z
  <2>5. CASE a # 0
    <3>1. v \in Int /\ -127 <= v /\ v <= 127
      BY <2>1, <2>2, <2>5, AwayInRange
    <3> HIDE DEF v
    <3>2. z = v
      BY <2>3, <2>5, <3>1 DEF Clip
    <3> QED BY <3>1, <3>2 DEF z
  <2> QED BY <2>4, <2>5
<1> QED BY <1>1, <1>2 DEF Quantised

LEMMA QuantisedAre ==
  ASSUME NEW n \in Nat, NEW qs, Quantised(qs, n)
  PROVE  Numbers(qs, n)
BY DEF Quantised, Numbers

-----------------------------------------------------------------------------
(* Runs and the widths of a block.                                         *)

Eighths(m) == m \in Nat \ {0} /\ H = 4*m /\ W = 8*m /\ Q = 64*m /\ W <= 256

LEMMA WidthInEighths == \E m : Eighths(m)
<1>1. PICK q \in Int, r \in 0..7 : W = q*8 + r /\ W % 8 = r
  BY KernelsAssumption, DivMod
<1>2. W = 8*q /\ q \in Nat \ {0} /\ W <= 256
  BY <1>1, KernelsAssumption
<1>3. H = 4*q /\ Q = 64*q
  BY <1>2, Widths DEF WIs
<1> QED BY <1>2, <1>3 DEF Eighths

\* Numbers in a runs of n
InRuns(f, n, a) == n \in Nat /\ a \in Nat /\ Numbers(f, n*a)

\* A run is its two halves
LEMMA RunOfTwoHalves ==
  ASSUME NEW h \in Nat, NEW n, n = 2*h, NEW a \in Nat, NEW f, InRuns(f, n, a),
         NEW j \in 0..a - 1
  PROVE  /\ Sub(f, n, j) = Sub(f, h, 2*j) + Sub(f, h, 2*j + 1)
         /\ Sub(f, n, j) \in Int /\ Sub(f, h, 2*j) \in Int /\ Sub(f, h, 2*j + 1) \in Int
<1> DEFINE g == Load(f, n*j, n)
<1>1. n \in Nat /\ IsSub(f, n, a, j)
  BY SubIs DEF InRuns
<1>2. /\ n*j \in Nat /\ Numbers(g, n) /\ Sub(f, n, j) \in Int
      /\ \A l \in 0..n - 1 : g[l] = f[n*j + l]
  BY <1>1 DEF IsSub
<1>3. Sub(f, n, j) = Total(g, n)
  BY DEF Sub
<1> HIDE DEF g
<1>4. n = h + h
  OBVIOUS
<1>5. /\ Numbers(g, h) /\ Numbers(Load(g, h, h), h)
      /\ Total(g, h) \in Int /\ Total(Load(g, h, h), h) \in Int
      /\ Total(g, n) = Total(g, h) + Total(Load(g, h, h), h)
  BY <1>2, <1>4, TotalSplit
<1>6. PICK e \in Nat : e = n*j
  BY <1>2
<1>7. h*(2*j) = e /\ h*(2*j + 1) = e + h
  BY <1>4, <1>6
<1>8. \A l \in 0..h - 1 : /\ Load(f, e, h)[l] = f[e + l] /\ g[l] = f[e + l]
                         /\ Load(f, e + h, h)[l] = f[(e + h) + l]
                         /\ Load(g, h, h)[l] = f[e + (h + l)]
                         /\ e + (h + l) = (e + h) + l
  <2>1. \A l \in 0..h - 1 : l \in 0..n - 1 /\ h + l \in 0..n - 1
    BY <1>4
  <2>2. \A l \in 0..h - 1 : Load(g, h, h)[l] = g[h + l]
    BY DEF Load
  <2>3. \A l \in 0..h - 1 : Load(f, e, h)[l] = f[e + l] /\ Load(f, e + h, h)[l] = f[(e + h) + l]
    BY DEF Load
  <2>4. \A l \in 0..h - 1 : e + (h + l) = (e + h) + l
    OBVIOUS
  <2> QED BY <1>2, <1>6, <2>1, <2>2, <2>3, <2>4
<1>9. Total(g, h) = Total(Load(f, e, h), h)
  BY <1>5, <1>8, TotalsAgree
<1>10. Total(Load(g, h, h), h) = Total(Load(f, e + h, h), h)
  BY <1>5, <1>8, TotalsAgree
<1> QED BY <1>2, <1>3, <1>5, <1>7, <1>9, <1>10 DEF Sub

\* A register has the k-th run of n numbers
Holds(r, v, n, k) == \A l \in 0..n - 1 : r[l] = v[n*k + l]

\* Numbers of a register times the bytes loaded at its place: a run of the row
\* t numbers in a runs of n, n a multiple of four
InRows(t, n, a) == n \in Nat /\ a \in Nat /\ t = n*a /\ \E m \in Nat : n = 4*m

LEMMA RegisterDot ==
  ASSUME NEW t, NEW n, NEW a, InRows(t, n, a), NEW v, NEW q, Small(v, q, t),
         NEW k \in 0..a - 1, NEW e, e = n*k, NEW r, Holds(r, v, n, k), NEW isa \in Isas
  PROVE  /\ Small(r, Load(q, e, n), n)
         /\ \A l \in 0..n - 1 : Products(r, Load(q, e, n), n)[l] = Load(Products(v, q, t), n*k, n)[l]
         /\ Hsum(Dot(isa, r, Load(q, e, n), n), n \div 4) = Sub(Products(v, q, t), n, k)
<1> DEFINE f == Products(v, q, t)
           s == Load(q, e, n)
<1>0. n \in Nat /\ a \in Nat /\ t = n*a
  BY DEF InRows
<1>11. PICK m \in Nat : n = 4*m
  BY DEF InRows
<1>1. Numbers(f, t)
  <2>1. t \in Nat
    BY <1>0
  <2>2. \A i \in 0..t - 1 : v[i] \in 0..128 /\ q[i] \in -127..127
    BY DEF Small
  <2>3. \A i \in 0..t - 1 : Half16(v[i] * q[i])
    BY <2>2, ProductSmall
  <2> QED BY <2>3 DEF Numbers, Products, Half16
<1> HIDE DEF f
<1>10. IsSub(f, n, a, k)
  BY <1>0, <1>1, SubIs
<1>2. /\ n*k \in Nat /\ Numbers(Load(f, n*k, n), n)
      /\ \A l \in 0..n - 1 : n*k + l \in 0..t - 1 /\ Load(f, n*k, n)[l] = f[n*k + l]
  BY <1>0, <1>10 DEF IsSub
<1>3. \A l \in 0..n - 1 : s[l] = q[n*k + l]
  BY DEF Load
<1>4. Small(r, s, n)
  BY <1>0, <1>2, <1>3 DEF Small, Holds
<1>5. \A i \in 0..t - 1 : f[i] = v[i] * q[i]
  BY DEF Products, f
<1> HIDE DEF s
<1>6. \A l \in 0..n - 1 : Products(r, s, n)[l] = r[l] * s[l]
  BY DEF Products
<1>7. \A l \in 0..n - 1 : Products(r, s, n)[l] = Load(f, n*k, n)[l]
  BY <1>2, <1>3, <1>5, <1>6 DEF Holds
<1>8. /\ Numbers(Products(r, s, 4*m), 4*m)
      /\ Hsum(Dot(isa, r, s, 4*m), (4*m) \div 4) = Total(Products(r, s, 4*m), 4*m)
  <2>1. Small(r, s, 4*m)
    BY <1>4, <1>11
  <2> QED BY <2>1, DotIs
<1>9. Total(Products(r, s, n), n) = Total(Load(f, n*k, n), n)
  BY <1>0, <1>7, <1>8, <1>11, TotalsAgree
<1> QED BY <1>4, <1>7, <1>8, <1>9, <1>11 DEF f, s, Sub

-----------------------------------------------------------------------------
(* The part of the minimums.                                               *)

\* The sum of each sub-block times its minimum
MinsOf(x, y) == Total([j \in 0..7 |-> Mins(x)[j] * Sub(y.qs, W, j)], 8)

LEMMA BsumPair ==
  ASSUME NEW y, Quantised(y.qs, Q), Summed(y), NEW j \in 0..7
  PROVE  /\ y.bsums[2*j] + y.bsums[2*j + 1] = Sub(y.qs, W, j)
         /\ Sub(y.qs, W, j) \in Int
         /\ Wrap(y.bsums[2*j] + y.bsums[2*j + 1], 16) = Sub(y.qs, W, j)
<1>1. PICK m : Eighths(m)
  BY WidthInEighths
<1>2. H \in Nat /\ W = 2*H /\ W \in Nat /\ W*8 = Q /\ W <= 256 /\ Q \in Nat
  BY <1>1 DEF Eighths
<1>3. Numbers(y.qs, W*8)
  BY <1>2, QuantisedAre
<1>4. y.bsums[2*j] = Sub(y.qs, H, 2*j) /\ y.bsums[2*j + 1] = Sub(y.qs, H, 2*j + 1)
  BY DEF Summed
<1>5. /\ Sub(y.qs, W, j) = Sub(y.qs, H, 2*j) + Sub(y.qs, H, 2*j + 1)
      /\ Sub(y.qs, W, j) \in Int
  <2>1. PICK c, h, n, f : c = 8 /\ h = H /\ n = W /\ f = y.qs
    OBVIOUS
  <2>2. c \in Nat /\ h \in Nat /\ n = 2*h /\ InRuns(f, n, c) /\ j \in 0..c - 1
    BY <1>2, <1>3, <2>1 DEF InRuns
  <2>3. /\ Sub(f, n, j) = Sub(f, h, 2*j) + Sub(f, h, 2*j + 1)
        /\ Sub(f, n, j) \in Int
    BY <2>2, RunOfTwoHalves
  <2> QED BY <2>1, <2>3
<1>6. -32512 <= Sub(y.qs, W, j) /\ Sub(y.qs, W, j) <= 32512
  <2> DEFINE g == Load(y.qs, W*j, W)
  <2>1. \A l \in 0..W - 1 : W*j + l \in 0..W*8 - 1 /\ g[l] = y.qs[W*j + l]
    <3>1. PICK c, f : c = 8 /\ f = y.qs
      OBVIOUS
    <3>2. IsSub(f, W, c, j)
      <4>1. c \in Nat /\ Numbers(f, W*c) /\ j \in 0..c - 1
        BY <1>3, <3>1
      <4> QED BY <1>2, <4>1, SubIs
    <3> QED BY <3>1, <3>2 DEF IsSub
  <2>2. \A l \in 0..W - 1 : g[l] \in -127..127
    BY <1>2, <2>1 DEF Quantised
  <2> HIDE DEF g
  <2>3. -(W*127) <= Total(g, W) /\ Total(g, W) <= W*127 /\ Total(g, W) \in Int
    BY <1>2, <2>2, TotalBounded
  <2>4. Total(g, W) = Sub(y.qs, W, j)
    BY DEF g, Sub
  <2> QED BY <1>2, <2>3, <2>4
<1>7. ASSUME NEW z \in Int, -32512 <= z, z <= 32512 PROVE Wrap(z, 16) = z
  <2>1. 2^(16 - 1) = 32768 /\ 2^16 = 65536
    OBVIOUS
  <2>2. PICK d, t : d = 65536 /\ t = z + 32768
    OBVIOUS
  <2>3. d \in Nat \ {0} /\ t \in Int /\ 0 <= t /\ t <= d - 1
    BY <1>7, <2>2
  <2>4. t % d = t
    BY <2>3, ModSmall
  <2>5. Wrap(z, 16) = (t % d) - 32768
    BY <2>1, <2>2 DEF Wrap
  <2> QED BY <2>2, <2>4, <2>5
<1> QED BY <1>4, <1>5, <1>6, <1>7

LEMMA MinsTerms ==
  ASSUME NEW x, IsBytes(x.scales, 12), NEW y, Quantised(y.qs, Q), Summed(y)
  PROVE  /\ Numbers([j \in 0..7 |-> Mins(x)[j] * Sub(y.qs, W, j)], 8)
         /\ \A j \in 0..7 : /\ Mins(x)[j] \in Int /\ Sub(y.qs, W, j) \in Int
                            /\ Sub(y.qs, W, j) * Mins(x)[j] = Mins(x)[j] * Sub(y.qs, W, j)
<1>1. ASSUME NEW j \in 0..7
      PROVE  /\ Mins(x)[j] \in Int /\ Sub(y.qs, W, j) \in Int
             /\ Sub(y.qs, W, j) * Mins(x)[j] = Mins(x)[j] * Sub(y.qs, W, j)
             /\ Mins(x)[j] * Sub(y.qs, W, j) \in Int
  <2>1. Mins(x)[j] \in 0..63
    BY ScaleTypes
  <2>2. Sub(y.qs, W, j) \in Int
    BY BsumPair
  <2>3. PICK a \in Int, b \in Int : a = Mins(x)[j] /\ b = Sub(y.qs, W, j)
    BY <2>1, <2>2
  <2> QED BY <2>3
<1>2. \A j \in 0..8 - 1 : j \in 0..7
  OBVIOUS
<1> QED BY <1>1, <1>2 DEF Numbers

LEMMA MinsAgree ==
  ASSUME NEW x, IsBytes(x.scales, 12), NEW y, Quantised(y.qs, Q), Summed(y)
  PROVE  PairMins(x, y) = MinsOf(x, y) /\ HaddMins(x, y) = MinsOf(x, y) /\ WordMins(x, y) = MinsOf(x, y)
<1> DEFINE g == [j \in 0..7 |-> Mins(x)[j] * Sub(y.qs, W, j)]
           p == [j \in 0..7 |-> (y.bsums[2*j] + y.bsums[2*j + 1]) * Mins(x)[j]]
           h == [j \in 0..7 |-> PairSums16(y.bsums, 8)[j] * Mins(x)[j]]
           w == [j \in 0..7 |-> PairSums16(y.bsums, 8)[j] * WordMinsAt(x, j)]
<1>1. Numbers(g, 8)
  BY MinsTerms
<1>2. ASSUME NEW j \in 0..7 PROVE g[j] = p[j] /\ g[j] = h[j] /\ g[j] = w[j]
  <2>1. /\ y.bsums[2*j] + y.bsums[2*j + 1] = Sub(y.qs, W, j)
        /\ Wrap(y.bsums[2*j] + y.bsums[2*j + 1], 16) = Sub(y.qs, W, j)
    BY BsumPair
  <2>2. PairSums16(y.bsums, 8)[j] = Sub(y.qs, W, j)
    BY <2>1 DEF PairSums16
  <2>3. WordMinsAt(x, j) = Mins(x)[j]
    BY WordMinsAre
  <2>4. Sub(y.qs, W, j) * Mins(x)[j] = Mins(x)[j] * Sub(y.qs, W, j)
    BY MinsTerms
  <2> QED BY <2>1, <2>2, <2>3, <2>4
<1>3. \A j \in 0..8 - 1 : j \in 0..7
  OBVIOUS
<1>4. PairMins(x, y) = Total(p, 8) /\ HaddMins(x, y) = Total(h, 8) /\ MinsOf(x, y) = Total(g, 8)
  BY DEF PairMins, HaddMins, MinsOf
<1>5. WordMins(x, y) = Total(w, 8)
  BY DEF WordMins, WordMinsAt
<1> HIDE DEF g, p, h, w
<1>6. Total(g, 8) = Total(p, 8) /\ Total(g, 8) = Total(h, 8) /\ Total(g, 8) = Total(w, 8)
  BY <1>1, <1>2, <1>3, TotalsAgree
<1> QED BY <1>4, <1>5, <1>6

-----------------------------------------------------------------------------
(* Sums of runs under their scales.                                        *)

SumOf(c, p, n, a) == Total([k \in 0..a - 1 |-> c[k] * Sub(p, n, k)], a)

LEMMA PlaceIs ==
  ASSUME NEW n \in Nat \ {0}, NEW k \in Nat, NEW l \in 0..n - 1
  PROVE  (n*k + l) \div n = k /\ (n*k + l) % n = l
<1>1. n*k = k*n /\ n*k \in Nat
  OBVIOUS
<1>2. PICK x \in Int : x = n*k + l
  BY <1>1
<1>3. x = k*n + l /\ k \in Int
  BY <1>1, <1>2
<1>4. x % n = l /\ x \div n = k
  BY <1>2, <1>3, DivModUnique
<1> QED BY <1>2, <1>4

\* Each run of n under a factor of its own
ByRun(f, c, p, n, m) == \A i \in 0..m - 1 : f[i] = c[i \div n] * p[i]

Spans(m, n, a) == m = n*a

LEMMA FactorsByRun ==
  ASSUME NEW n, n \in Nat \ {0}, NEW a \in Nat, NEW p, InRuns(p, n, a), NEW c, Numbers(c, a),
         NEW m, Spans(m, n, a),
         NEW f, ByRun(f, c, p, n, m)
  PROVE  Numbers(f, m) /\ Total(f, m) = SumOf(c, p, n, a)
<1>0. Numbers(p, m) /\ Numbers(p, n*a) /\ m \in Nat /\ m = n*a /\ a*n = m
  BY DEF InRuns, Spans
<1>1. ASSUME NEW k \in 0..a - 1, NEW l \in 0..n - 1
      PROVE  n*k + l \in 0..m - 1 /\ f[n*k + l] = c[k] * p[n*k + l]
  <2>1. IsSub(p, n, a, k)
    <3>1. n \in Nat /\ Numbers(p, n*a)
      BY <1>0
    <3> QED BY <3>1, SubIs
  <2>2. n*k + l \in 0..m - 1
    BY <1>0, <2>1 DEF IsSub
  <2>3. (n*k + l) \div n = k
    BY PlaceIs
  <2> QED BY <2>2, <2>3 DEF ByRun
<1>2. UnderFactors(f, n, a, c, p)
  BY <1>1 DEF UnderFactors
<1>3. ASSUME NEW i \in 0..m - 1 PROVE f[i] \in Int
  <2>1. PICK k \in Int, l \in 0..n - 1 : i = k*n + l /\ i \div n = k
    BY <1>0, DivMod
  <2>2. k \in 0..a - 1
    <3>1. ~(k < 0)
      <4> SUFFICES ASSUME k < 0 PROVE FALSE
        OBVIOUS
      <4>1. k*n <= (-1)*n
        <5>1. k <= -1 /\ -1 \in Int
          OBVIOUS
        <5> QED BY <5>1, Increasing
      <4>2. (-1)*n = -n
        OBVIOUS
      <4>3. PICK x \in Int : x = k*n
        OBVIOUS
      <4> QED BY <2>1, <4>1, <4>2, <4>3
    <3>2. ~(k >= a)
      <4> SUFFICES ASSUME k >= a PROVE FALSE
        OBVIOUS
      <4>1. a*n <= k*n
        <5>1. a <= k /\ a \in Int
          OBVIOUS
        <5> QED BY <5>1, Increasing
      <4>2. a*n = m
        BY <1>0
      <4>3. PICK x \in Int : x = k*n
        OBVIOUS
      <4> QED BY <1>0, <2>1, <4>1, <4>2, <4>3
    <3> QED BY <3>1, <3>2
  <2>3. PICK u \in Int, v \in Int : u = c[k] /\ v = p[i]
    BY <1>0, <2>2 DEF Numbers
  <2> QED BY <2>1, <2>3 DEF ByRun
<1>4. Numbers(f, m)
  BY <1>3 DEF Numbers
<1> DEFINE g == [k \in 0..a - 1 |-> c[k] * Sub(p, n, k)]
<1>5. \A k \in 0..a - 1 : g[k] = c[k] * Sub(p, n, k)
  OBVIOUS
<1>6. SumOf(c, p, n, a) = Total(g, a)
  BY DEF SumOf
<1> HIDE DEF g
<1>7. Total(f, n*a) = Total(g, a)
  <2>1. n \in Nat /\ Numbers(p, n*a) /\ Numbers(f, n*a)
    BY <1>0, <1>4
  <2> QED BY <1>2, <1>5, <2>1, TotalOfRuns
<1> QED BY <1>0, <1>4, <1>6, <1>7

\* The same by super-block: eight runs of W, or sixteen of H
LEMMA WideFactors ==
  ASSUME NEW p, Numbers(p, Q), NEW c, Numbers(c, 8),
         NEW f, ByRun(f, c, p, W, Q)
  PROVE  Total(f, Q) = SumOf(c, p, W, 8)
<1>1. PICK m : Eighths(m)
  BY WidthInEighths
<1>2. PICK n, a : n = W /\ a = 8
  OBVIOUS
<1>3. n \in Nat \ {0} /\ a \in Nat /\ Q = n*a
  BY <1>1, <1>2 DEF Eighths
<1>4. InRuns(p, n, a) /\ Numbers(c, a) /\ Spans(Q, n, a)
  BY <1>2, <1>3 DEF InRuns, Spans
<1>5. ByRun(f, c, p, n, Q)
  BY <1>2
<1>6. Total(f, Q) = SumOf(c, p, n, a)
  <2>1. n \in Nat \ {0} /\ a \in Nat
    BY <1>3
  <2> QED BY <1>4, <1>5, <2>1, FactorsByRun
<1> QED BY <1>2, <1>6

LEMMA HalfFactors ==
  ASSUME NEW p, Numbers(p, Q), NEW c, Numbers(c, 16),
         NEW f, ByRun(f, c, p, H, Q)
  PROVE  Total(f, Q) = SumOf(c, p, H, 16)
<1>1. PICK m : Eighths(m)
  BY WidthInEighths
<1>2. PICK n, a : n = H /\ a = 16
  OBVIOUS
<1>3. n \in Nat \ {0} /\ a \in Nat /\ Q = n*a
  BY <1>1, <1>2 DEF Eighths
<1>4. InRuns(p, n, a) /\ Numbers(c, a) /\ Spans(Q, n, a)
  BY <1>2, <1>3 DEF InRuns, Spans
<1>5. ByRun(f, c, p, n, Q)
  BY <1>2
<1>6. Total(f, Q) = SumOf(c, p, n, a)
  <2>1. n \in Nat \ {0} /\ a \in Nat
    BY <1>3
  <2> QED BY <1>4, <1>5, <2>1, FactorsByRun
<1> QED BY <1>2, <1>6

\* The runs of a super-block
Parts(p) ==
  /\ Numbers(p, Q)
  /\ \A k \in 0..7 : /\ Sub(p, W, k) = Sub(p, H, 2*k) + Sub(p, H, 2*k + 1)
                     /\ Sub(p, W, k) \in Int
  /\ \A k \in 0..15 : Sub(p, H, k) \in Int

LEMMA PartsAre ==
  ASSUME NEW p, Numbers(p, Q)
  PROVE  Parts(p)
<1>1. PICK m : Eighths(m)
  BY WidthInEighths
<1>2. PICK h, n, a, b : h = H /\ n = W /\ a = 8 /\ b = 16
  OBVIOUS
<1>3. h \in Nat /\ n = 2*h /\ a \in Nat /\ b \in Nat /\ n*a = Q /\ h*b = Q /\ n \in Nat
  BY <1>1, <1>2 DEF Eighths
<1>4. InRuns(p, n, a)
  BY <1>3 DEF InRuns
<1>5. ASSUME NEW k \in 0..7
      PROVE  Sub(p, W, k) = Sub(p, H, 2*k) + Sub(p, H, 2*k + 1) /\ Sub(p, W, k) \in Int
  <2>1. k \in 0..a - 1
    BY <1>2
  <2>2. Sub(p, n, k) = Sub(p, h, 2*k) + Sub(p, h, 2*k + 1) /\ Sub(p, n, k) \in Int
    BY <1>3, <1>4, <2>1, RunOfTwoHalves
  <2> QED BY <1>2, <2>2
<1>6. ASSUME NEW k \in 0..15 PROVE Sub(p, H, k) \in Int
  <2>1. k \in 0..b - 1 /\ Numbers(p, h*b)
    BY <1>2, <1>3
  <2>2. IsSub(p, h, b, k)
    BY <1>3, <2>1, SubIs
  <2> QED BY <1>2, <2>2 DEF IsSub
<1> QED BY <1>5, <1>6 DEF Parts

LEMMA SumTerms ==
  ASSUME NEW p, Parts(p), NEW c, Numbers(c, 8)
  PROVE  LET g == [k \in 0..8 - 1 |-> c[k] * Sub(p, W, k)]
         IN  Numbers(g, 8) /\ Total(g, 8) = SumOf(c, p, W, 8)
<1> DEFINE g == [k \in 0..8 - 1 |-> c[k] * Sub(p, W, k)]
<1>1. ASSUME NEW k \in 0..8 - 1 PROVE g[k] \in Int
  <2>1. PICK a \in Int, b \in Int : a = c[k] /\ b = Sub(p, W, k)
    BY DEF Parts, Numbers
  <2> QED BY <2>1
<1>2. Total(g, 8) = SumOf(c, p, W, 8)
  BY DEF SumOf
<1> QED BY <1>1, <1>2 DEF Numbers

LEMMA TwoByTwo ==
  ASSUME NEW g, Numbers(g, 8), NEW h, \A j \in 0..3 : h[j] = g[2*j] + g[2*j + 1]
  PROVE  Total(h, 4) = Total(g, 8)
<1>1. h[0] = g[0] + g[1] /\ h[1] = g[2] + g[3] /\ h[2] = g[4] + g[5] /\ h[3] = g[6] + g[7]
  <2>1. /\ 0 \in 0..3 /\ 1 \in 0..3 /\ 2 \in 0..3 /\ 3 \in 0..3
        /\ 2*0 = 0 /\ 2*0 + 1 = 1 /\ 2*1 = 2 /\ 2*1 + 1 = 3 /\ 2*2 = 4 /\ 2*2 + 1 = 5
        /\ 2*3 = 6 /\ 2*3 + 1 = 7
    OBVIOUS
  <2>2. h[0] = g[2*0] + g[2*0 + 1] /\ h[1] = g[2*1] + g[2*1 + 1]
    BY <2>1
  <2>3. h[2] = g[2*2] + g[2*2 + 1] /\ h[3] = g[2*3] + g[2*3 + 1]
    BY <2>1
  <2> QED BY <2>1, <2>2, <2>3
<1>2. /\ g[0] \in Int /\ g[1] \in Int /\ g[2] \in Int /\ g[3] \in Int
      /\ g[4] \in Int /\ g[5] \in Int /\ g[6] \in Int /\ g[7] \in Int
      /\ Total(g, 8) = (g[0] + g[1] + g[2] + g[3]) + (g[4] + g[5] + g[6] + g[7])
  BY TotalOfEight
<1>3. Numbers(h, 4)
  <2>1. \A j \in 0..4 - 1 : j = 0 \/ j = 1 \/ j = 2 \/ j = 3
    OBVIOUS
  <2>2. h[0] \in Int /\ h[1] \in Int /\ h[2] \in Int /\ h[3] \in Int
    BY <1>1, <1>2
  <2> QED BY <2>1, <2>2 DEF Numbers
<1>4. Total(h, 4) = h[0] + h[1] + h[2] + h[3]
  BY <1>3, TotalOfFour
<1> QED BY <1>1, <1>2, <1>4

\* Registers of W: two scales a step
LEMMA WideSteps ==
  ASSUME NEW p, Parts(p), NEW c, Numbers(c, 8),
         NEW h, \A j \in 0..3 : h[j] = c[2*j] * Sub(p, W, 2*j) + c[2*j + 1] * Sub(p, W, 2*j + 1)
  PROVE  Total(h, 4) = SumOf(c, p, W, 8)
<1> DEFINE g == [k \in 0..8 - 1 |-> c[k] * Sub(p, W, k)]
<1>1. Numbers(g, 8) /\ Total(g, 8) = SumOf(c, p, W, 8)
  BY SumTerms
<1>2. \A j \in 0..3 : h[j] = g[2*j] + g[2*j + 1]
  <2>1. \A j \in 0..3 : 2*j \in 0..8 - 1 /\ 2*j + 1 \in 0..8 - 1
    OBVIOUS
  <2> QED BY <2>1
<1> HIDE DEF g
<1> QED BY <1>1, <1>2, TwoByTwo

\* Registers of H: two steps for the same two scales
LEMMA HalfSteps ==
  ASSUME NEW p, Parts(p), NEW c, Numbers(c, 8),
         NEW h, \A j \in 0..3 : \A b \in 0..1 :
                  h[2*j + b] = c[2*j] * Sub(p, H, 4*j + b) + c[2*j + 1] * Sub(p, H, 4*j + 2 + b)
  PROVE  Total(h, 8) = SumOf(c, p, W, 8)
<1> DEFINE g == [k \in 0..3 |-> c[2*k] * Sub(p, W, 2*k) + c[2*k + 1] * Sub(p, W, 2*k + 1)]
<1>1. ASSUME NEW j \in 0..3
      PROVE  h[2*j] \in Int /\ h[2*j + 1] \in Int /\ g[j] = h[2*j] + h[2*j + 1]
  <2>1. /\ 2*j \in 0..7 /\ 2*j + 1 \in 0..7
        /\ 4*j \in 0..15 /\ 4*j + 1 \in 0..15 /\ 4*j + 2 \in 0..15 /\ 4*j + 3 \in 0..15
        /\ 2*(2*j) = 4*j /\ 2*(2*j) + 1 = 4*j + 1
        /\ 2*(2*j + 1) = 4*j + 2 /\ 2*(2*j + 1) + 1 = 4*j + 3
    OBVIOUS
  <2>2. PICK s, t, u, v : s = Sub(p, H, 4*j) /\ t = Sub(p, H, 4*j + 1)
                          /\ u = Sub(p, H, 4*j + 2) /\ v = Sub(p, H, 4*j + 3)
    OBVIOUS
  <2>3. s \in Int /\ t \in Int /\ u \in Int /\ v \in Int
    BY <2>1, <2>2 DEF Parts
  <2>4. Sub(p, W, 2*j) = s + t /\ Sub(p, W, 2*j + 1) = u + v
    BY <2>1, <2>2 DEF Parts
  <2>5. PICK a \in Int, b \in Int : a = c[2*j] /\ b = c[2*j + 1]
    BY <2>1 DEF Numbers
  <2>6. h[2*j + 0] = a * s + b * u /\ h[2*j + 1] = a * t + b * v
    <3>1. 0 \in 0..1 /\ 1 \in 0..1 /\ 4*j + 0 = 4*j /\ 4*j + 2 + 0 = 4*j + 2 /\ 4*j + 2 + 1 = 4*j + 3
      OBVIOUS
    <3>2. h[2*j + 0] = c[2*j] * Sub(p, H, 4*j + 0) + c[2*j + 1] * Sub(p, H, 4*j + 2 + 0)
      BY <3>1
    <3>3. h[2*j + 1] = c[2*j] * Sub(p, H, 4*j + 1) + c[2*j + 1] * Sub(p, H, 4*j + 2 + 1)
      BY <3>1
    <3> QED BY <2>2, <2>5, <3>1, <3>2, <3>3
  <2>7. g[j] = a * (s + t) + b * (u + v)
    BY <2>4, <2>5
  <2>8. /\ a * (s + t) = a*s + a*t /\ b * (u + v) = b*u + b*v
        /\ a*s \in Int /\ a*t \in Int /\ b*u \in Int /\ b*v \in Int
    BY <2>3, Spread
  <2>9. 2*j + 0 = 2*j
    OBVIOUS
  <2> QED BY <2>6, <2>7, <2>8, <2>9
<1>2. \A j \in 0..3 : g[j] = c[2*j] * Sub(p, W, 2*j) + c[2*j + 1] * Sub(p, W, 2*j + 1)
  OBVIOUS
<1> HIDE DEF g
<1>3. Total(g, 4) = SumOf(c, p, W, 8)
  BY <1>2, WideSteps
<1>4. Numbers(h, 8)
  <2>1. ASSUME NEW i \in 0..8 - 1 PROVE h[i] \in Int
    <3>1. \E j \in 0..3 : i = 2*j \/ i = 2*j + 1
      <4>1. i = 2*0 \/ i = 2*0 + 1 \/ i = 2*1 \/ i = 2*1 + 1
            \/ i = 2*2 \/ i = 2*2 + 1 \/ i = 2*3 \/ i = 2*3 + 1
        OBVIOUS
      <4> QED BY <4>1
    <3> QED BY <1>1, <3>1
  <2> QED BY <2>1 DEF Numbers
<1>5. Total(g, 4) = Total(h, 8)
  BY <1>1, <1>4, TwoByTwo
<1> QED BY <1>3, <1>5

-----------------------------------------------------------------------------
(* Registers.                                                              *)

LEMMA WideDot ==
  ASSUME NEW v, NEW q, Small(v, q, Q), NEW k \in 0..7, NEW e, e = W*k,
         NEW r, Holds(r, v, W, k), NEW isa \in Isas
  PROVE  Hsum(Dot(isa, r, Load(q, e, W), W), W \div 4) = Sub(Products(v, q, Q), W, k)
<1>1. PICK m : Eighths(m)
  BY WidthInEighths
<1>2. PICK n, a, d : n = W /\ a = 8 /\ d = 2*m
  OBVIOUS
<1>3. d \in Nat /\ n = 4*d /\ a \in Nat /\ n*a = Q /\ n \in Nat
  BY <1>1, <1>2 DEF Eighths
<1>4. InRows(Q, n, a) /\ k \in 0..a - 1 /\ e = n*k /\ Holds(r, v, n, k)
  BY <1>2, <1>3 DEF InRows
<1>5. Hsum(Dot(isa, r, Load(q, e, n), n), n \div 4) = Sub(Products(v, q, Q), n, k)
  BY <1>4, RegisterDot
<1> QED BY <1>2, <1>5

LEMMA HalfDot ==
  ASSUME NEW v, NEW q, Small(v, q, Q), NEW k \in 0..15, NEW e, e = H*k,
         NEW r, Holds(r, v, H, k), NEW isa \in Isas
  PROVE  Hsum(Dot(isa, r, Load(q, e, H), H), H \div 4) = Sub(Products(v, q, Q), H, k)
<1>1. PICK m : Eighths(m)
  BY WidthInEighths
<1>2. PICK n, a, d : n = H /\ a = 16 /\ d = m
  OBVIOUS
<1>3. d \in Nat /\ n = 4*d /\ a \in Nat /\ n*a = Q /\ n \in Nat
  BY <1>1, <1>2 DEF Eighths
<1>4. InRows(Q, n, a) /\ k \in 0..a - 1 /\ e = n*k /\ Holds(r, v, n, k)
  BY <1>2, <1>3 DEF InRows
<1>5. Hsum(Dot(isa, r, Load(q, e, n), n), n \div 4) = Sub(Products(v, q, Q), n, k)
  BY <1>4, RegisterDot
<1> QED BY <1>2, <1>5

LEMMA ProductsAre ==
  ASSUME NEW v, NEW q, Small(v, q, Q)
  PROVE  Parts(Products(v, q, Q)) /\ \A i \in 0..Q - 1 : Products(v, q, Q)[i] = v[i] * q[i]
<1>1. \A i \in 0..Q - 1 : Products(v, q, Q)[i] = v[i] * q[i]
  BY DEF Products
<1>2. \A i \in 0..Q - 1 : Half16(v[i] * q[i])
  <2>1. \A i \in 0..Q - 1 : v[i] \in 0..128 /\ q[i] \in -127..127
    BY DEF Small
  <2> QED BY <2>1, ProductSmall
<1>3. Numbers(Products(v, q, Q), Q)
  BY <1>1, <1>2 DEF Numbers, Half16
<1> QED BY <1>1, <1>3, PartsAre

-----------------------------------------------------------------------------
(* Products of whole blocks, by the width of the registers.                *)

WideStepOf(isa, lo, hi, q, c, j) ==
  ScaledDot(isa, lo, Load(q, 2*W*j, W), W, c[2*j])
  + ScaledDot(isa, hi, Load(q, 2*W*j + W, W), W, c[2*j + 1])

LEMMA WideProduct ==
  ASSUME NEW v, NEW q, Small(v, q, Q), NEW c, Numbers(c, 8), NEW isa \in Isas, NEW lo, NEW hi,
         \A j \in 0..3 : Holds(lo[j], v, W, 2*j) /\ Holds(hi[j], v, W, 2*j + 1),
         NEW h, \A j \in 0..3 : h[j] = WideStepOf(isa, lo[j], hi[j], q, c, j)
  PROVE  Total(h, 4) = SumOf(c, Products(v, q, Q), W, 8)
<1> DEFINE p == Products(v, q, Q)
<1>1. ASSUME NEW j \in 0..3
      PROVE  h[j] = c[2*j] * Sub(p, W, 2*j) + c[2*j + 1] * Sub(p, W, 2*j + 1)
  <2>1. 2*j \in 0..7 /\ 2*j + 1 \in 0..7
    OBVIOUS
  <2>2. PICK m : Eighths(m)
    BY WidthInEighths
  <2>3. 2*W*j = W*(2*j) /\ 2*W*j + W = W*(2*j + 1)
    BY <2>2 DEF Eighths
  <2>4. Hsum(Dot(isa, lo[j], Load(q, 2*W*j, W), W), W \div 4) = Sub(p, W, 2*j)
    <3>1. PICK k, e : k = 2*j /\ e = 2*W*j
      OBVIOUS
    <3>2. k \in 0..7 /\ e = W*k /\ Holds(lo[j], v, W, k)
      BY <2>1, <2>3, <3>1
    <3>3. Hsum(Dot(isa, lo[j], Load(q, e, W), W), W \div 4) = Sub(p, W, k)
      BY <3>2, WideDot
    <3> QED BY <3>1, <3>3
  <2>5. Hsum(Dot(isa, hi[j], Load(q, 2*W*j + W, W), W), W \div 4) = Sub(p, W, 2*j + 1)
    <3>1. PICK k, e : k = 2*j + 1 /\ e = 2*W*j + W
      OBVIOUS
    <3>2. k \in 0..7 /\ e = W*k /\ Holds(hi[j], v, W, k)
      BY <2>1, <2>3, <3>1
    <3>3. Hsum(Dot(isa, hi[j], Load(q, e, W), W), W \div 4) = Sub(p, W, k)
      BY <3>2, WideDot
    <3> QED BY <3>1, <3>3
  <2>6. h[j] = WideStepOf(isa, lo[j], hi[j], q, c, j)
    OBVIOUS
  <2> QED BY <2>4, <2>5, <2>6 DEF WideStepOf, ScaledDot
<1>2. Parts(p)
  BY ProductsAre
<1> HIDE DEF p
<1>3. Total(h, 4) = SumOf(c, p, W, 8)
  BY <1>1, <1>2, WideSteps
<1> QED BY <1>3 DEF p

HalfStepOf(isa, lo, hi, q, c, j, a) ==
  ScaledDot(isa, lo, Load(q, 2*W*j + H*a, H), H, c[2*j])
  + ScaledDot(isa, hi, Load(q, 2*W*j + W + H*a, H), H, c[2*j + 1])

LEMMA HalfProduct ==
  ASSUME NEW v, NEW q, Small(v, q, Q), NEW c, Numbers(c, 8), NEW isa \in Isas, NEW lo, NEW hi,
         \A j \in 0..3 : \A a \in 0..1 : /\ Holds(lo[2*j + a], v, H, 4*j + a)
                                         /\ Holds(hi[2*j + a], v, H, 4*j + 2 + a),
         NEW h, \A j \in 0..3 : \A a \in 0..1 :
                  h[2*j + a] = HalfStepOf(isa, lo[2*j + a], hi[2*j + a], q, c, j, a)
  PROVE  Total(h, 8) = SumOf(c, Products(v, q, Q), W, 8)
<1> DEFINE p == Products(v, q, Q)
<1>1. ASSUME NEW j \in 0..3, NEW a \in 0..1
      PROVE  h[2*j + a] = c[2*j] * Sub(p, H, 4*j + a) + c[2*j + 1] * Sub(p, H, 4*j + 2 + a)
  <2>1. 4*j + a \in 0..15 /\ 4*j + 2 + a \in 0..15
    OBVIOUS
  <2>2. PICK m : Eighths(m)
    BY WidthInEighths
  <2>3. 2*W*j + H*a = H*(4*j + a) /\ 2*W*j + W + H*a = H*(4*j + 2 + a)
    <3>1. j = 0 \/ j = 1 \/ j = 2 \/ j = 3
      OBVIOUS
    <3>2. a = 0 \/ a = 1
      OBVIOUS
    <3>3. H \in Nat /\ W = 2*H
      BY <2>2 DEF Eighths
    <3> QED BY <3>1, <3>2, <3>3
  <2>4. Hsum(Dot(isa, lo[2*j + a], Load(q, 2*W*j + H*a, H), H), H \div 4) = Sub(p, H, 4*j + a)
    <3>1. PICK k, e, r : k = 4*j + a /\ e = 2*W*j + H*a /\ r = lo[2*j + a]
      OBVIOUS
    <3>2. k \in 0..15 /\ e = H*k /\ Holds(r, v, H, k)
      BY <2>1, <2>3, <3>1
    <3>3. Hsum(Dot(isa, r, Load(q, e, H), H), H \div 4) = Sub(p, H, k)
      BY <3>2, HalfDot
    <3> QED BY <3>1, <3>3
  <2>5. Hsum(Dot(isa, hi[2*j + a], Load(q, 2*W*j + W + H*a, H), H), H \div 4)
          = Sub(p, H, 4*j + 2 + a)
    <3>1. PICK k, e, r : k = 4*j + 2 + a /\ e = 2*W*j + W + H*a /\ r = hi[2*j + a]
      OBVIOUS
    <3>2. k \in 0..15 /\ e = H*k /\ Holds(r, v, H, k)
      BY <2>1, <2>3, <3>1
    <3>3. Hsum(Dot(isa, r, Load(q, e, H), H), H \div 4) = Sub(p, H, k)
      BY <3>2, HalfDot
    <3> QED BY <3>1, <3>3
  <2>6. h[2*j + a] = HalfStepOf(isa, lo[2*j + a], hi[2*j + a], q, c, j, a)
    OBVIOUS
  <2> QED BY <2>4, <2>5, <2>6 DEF HalfStepOf, ScaledDot
<1>2. Parts(p)
  BY ProductsAre
<1> HIDE DEF p
<1>3. Total(h, 8) = SumOf(c, p, W, 8)
  BY <1>1, <1>2, HalfSteps
<1> QED BY <1>3 DEF p

\* The scalar loops: a sub-block at a time
LEMMA ScalarProduct ==
  ASSUME NEW v, NEW q, Small(v, q, Q), NEW c, Numbers(c, 8),
         NEW t, \A s \in 0..7 : \A l \in 0..W - 1 : t[s][l] = v[W*s + l] * q[W*s + l],
         NEW h, \A s \in 0..7 : h[s] = c[s] * Total(t[s], W)
  PROVE  Total(h, 8) = SumOf(c, Products(v, q, Q), W, 8)
<1> DEFINE p == Products(v, q, Q)
<1>1. Parts(p) /\ \A i \in 0..Q - 1 : p[i] = v[i] * q[i]
  BY ProductsAre
<1> HIDE DEF p
<1>2. PICK m : Eighths(m)
  BY WidthInEighths
<1>3. PICK n, a : n = W /\ a = 8
  OBVIOUS
<1>4. n \in Nat /\ a \in Nat /\ n*a = Q /\ Numbers(p, n*a)
  BY <1>1, <1>2, <1>3 DEF Eighths, Parts
<1>5. ASSUME NEW s \in 0..7 PROVE h[s] = c[s] * Sub(p, W, s)
  <2>1. IsSub(p, n, a, s)
    <3>1. s \in 0..a - 1
      BY <1>3
    <3> QED BY <1>4, <3>1, SubIs
  <2>2. /\ Numbers(Load(p, n*s, n), n)
        /\ \A l \in 0..n - 1 : n*s + l \in 0..Q - 1 /\ Load(p, n*s, n)[l] = p[n*s + l]
    BY <1>4, <2>1 DEF IsSub
  <2>3. \A l \in 0..n - 1 : Load(p, n*s, n)[l] = t[s][l]
    BY <1>1, <1>3, <2>2
  <2>4. Total(Load(p, n*s, n), n) = Total(t[s], n)
    BY <1>4, <2>2, <2>3, TotalsAgree
  <2> QED BY <1>3, <2>4 DEF Sub
<1> DEFINE g == [k \in 0..8 - 1 |-> c[k] * Sub(p, W, k)]
<1>6. Numbers(g, 8) /\ Total(g, 8) = SumOf(c, p, W, 8)
  BY <1>1, SumTerms
<1>7. \A k \in 0..8 - 1 : g[k] = h[k]
  BY <1>5
<1> HIDE DEF g
<1>8. Total(g, 8) = Total(h, 8)
  BY <1>6, <1>7, TotalsAgree
<1> QED BY <1>6, <1>8 DEF p

-----------------------------------------------------------------------------
(* Nibbles.                                                                *)

\* The four low bits of each weight of a super-block
Nibbles(qs) ==
  [i \in 0..Q - 1 |->
     LET b == qs[W * (i \div (2*W)) + (i % W)]
     IN  IF (i \div W) % 2 = 0 THEN b % 16 ELSE b \div 16]

NibbleAt(qs, s, l) ==
  /\ W*s + l \in 0..Q - 1 /\ W*(s \div 2) + l \in 0..4*W - 1
  /\ (W*s + l) \div W = s /\ (W*s + l) % W = l
  /\ qs[W*(s \div 2) + l] \in 0..255 /\ Nibbles(qs)[W*s + l] \in 0..15
  /\ Nibbles(qs)[W*s + l] = IF s % 2 = 0 THEN qs[W*(s \div 2) + l] % 16
                            ELSE qs[W*(s \div 2) + l] \div 16

LEMMA NibbleIs ==
  ASSUME NEW qs, IsBytes(qs, 4*W), NEW s \in 0..7, NEW l \in 0..W - 1
  PROVE  NibbleAt(qs, s, l)
<1>1. PICK m : Eighths(m)
  BY WidthInEighths
<1>2. W \in Nat \ {0} /\ Q = 8*W /\ 2*W \in Nat \ {0}
  BY <1>1 DEF Eighths
<1>3. (W*s + l) \div W = s /\ (W*s + l) % W = l
  BY <1>2, PlaceIs
<1>4. PICK i, w, u : i = W*s + l /\ w = 2*W /\ u = W*(s % 2) + l
  OBVIOUS
<1>5. /\ s \div 2 \in 0..3 /\ s % 2 \in 0..1 /\ s = 2*(s \div 2) + (s % 2)
  OBVIOUS
<1>6. i = w*(s \div 2) + u /\ u \in 0..w - 1
  <2>1. s = 0 \/ s = 1 \/ s = 2 \/ s = 3 \/ s = 4 \/ s = 5 \/ s = 6 \/ s = 7
    OBVIOUS
  <2> QED BY <1>2, <1>4, <2>1
<1>7. i \div w = s \div 2
  <2>1. PICK k : k = s \div 2
    OBVIOUS
  <2>2. w \in Nat \ {0} /\ k \in Nat /\ i = w*k + u
    BY <1>2, <1>4, <1>5, <1>6, <2>1
  <2>3. (w*k + u) \div w = k
    BY <1>6, <2>2, PlaceIs
  <2> QED BY <2>1, <2>2, <2>3
<1>8. i \in 0..Q - 1 /\ W*(s \div 2) + l \in 0..4*W - 1
  <2>1. s = 0 \/ s = 1 \/ s = 2 \/ s = 3 \/ s = 4 \/ s = 5 \/ s = 6 \/ s = 7
    OBVIOUS
  <2> QED BY <1>2, <1>4, <2>1
<1>9. Nibbles(qs)[i] = IF s % 2 = 0 THEN qs[W*(s \div 2) + l] % 16
                       ELSE qs[W*(s \div 2) + l] \div 16
  BY <1>3, <1>4, <1>7, <1>8 DEF Nibbles
<1>10. PICK z \in 0..255 : z = qs[W*(s \div 2) + l]
  BY <1>8 DEF IsBytes
<1>11. z % 16 \in 0..15 /\ z \div 16 \in 0..15
  OBVIOUS
<1> QED BY <1>3, <1>4, <1>8, <1>9, <1>10, <1>11 DEF NibbleAt

LEMMA NibblesSmall ==
  ASSUME NEW qs, IsBytes(qs, 4*W), NEW i \in 0..Q - 1
  PROVE  Nibbles(qs)[i] \in 0..15 /\ i \div W \in 0..7 /\ i % W \in 0..W - 1
<1>1. PICK m : Eighths(m)
  BY WidthInEighths
<1>2. W \in Nat \ {0} /\ Q = 8*W
  BY <1>1 DEF Eighths
<1>3. PICK s \in Int, l \in 0..W - 1 : i = s*W + l /\ i % W = l /\ i \div W = s
  BY <1>2, DivMod
<1>4. s \in 0..7
  <2>1. ~(s <= -1)
    <3> SUFFICES ASSUME s <= -1 PROVE FALSE
      OBVIOUS
    <3>1. s*W <= (-1)*W
      BY <1>2, Increasing
    <3>2. PICK x \in Int : x = s*W
      BY <1>2
    <3> QED BY <1>2, <1>3, <3>1, <3>2
  <2>2. ~(8 <= s)
    <3> SUFFICES ASSUME 8 <= s PROVE FALSE
      OBVIOUS
    <3>1. 8*W <= s*W
      BY <1>2, Increasing
    <3>2. PICK x \in Int : x = s*W
      BY <1>2
    <3> QED BY <1>2, <1>3, <3>1, <3>2
  <2> QED BY <2>1, <2>2
<1>5. i = W*s + l
  BY <1>2, <1>3
<1> QED BY <1>3, <1>4, <1>5, NibbleIs DEF NibbleAt

LEMMA BytesLoaded ==
  ASSUME NEW v, NEW t \in Nat, IsBytes(v, t), NEW e \in Nat, NEW n \in Nat, e + n <= t
  PROVE  IsBytes(Load(v, e, n), n) /\ \A l \in 0..n - 1 : Load(v, e, n)[l] = v[e + l]
<1>1. DOMAIN Load(v, e, n) = 0..n - 1 /\ \A l \in 0..n - 1 : Load(v, e, n)[l] = v[e + l]
  BY DEF Load
<1>2. \A l \in 0..n - 1 : e + l \in 0..t - 1
  OBVIOUS
<1> QED BY <1>1, <1>2 DEF IsBytes

\* A register of the wide loops: low nibbles of one sub-block, high of the next
WideRegister(r, qs, j) ==
  /\ IsBytes(r, W)
  /\ DOMAIN LowBits(r, 4) = 0..W - 1 /\ DOMAIN HighNibbles(r) = 0..W - 1
  /\ Holds(LowBits(r, 4), Nibbles(qs), W, 2*j)
  /\ Holds(HighNibbles(r), Nibbles(qs), W, 2*j + 1)

LEMMA WideNibbles ==
  ASSUME NEW qs, IsBytes(qs, 4*W), NEW j \in 0..3
  PROVE  WideRegister(Load(qs, W*j, W), qs, j)
<1>1. PICK m : Eighths(m)
  BY WidthInEighths
<1>2. W \in Nat /\ W % 2 = 0 /\ 4*W \in Nat
  <2>1. W = (4*m)*2 + 0 /\ W \in Nat
    BY <1>1 DEF Eighths
  <2>2. PICK k : k = 4*m
    OBVIOUS
  <2>3. W % 2 = 0
    <3>1. k \in Int /\ W = k*2 + 0 /\ W \in Int /\ 2 \in Nat \ {0} /\ 0 \in 0..2 - 1
      BY <1>1, <2>1, <2>2 DEF Eighths
    <3> QED BY <3>1, DivModUnique
  <2> QED BY <2>1, <2>3
<1>3. PICK e, t, r : e = W*j /\ t = 4*W /\ r = Load(qs, W*j, W)
  OBVIOUS
<1>4. e \in Nat /\ t \in Nat /\ e + W <= t
  <2>1. j = 0 \/ j = 1 \/ j = 2 \/ j = 3
    OBVIOUS
  <2> QED BY <1>2, <1>3, <2>1
<1>5. IsBytes(r, W) /\ \A l \in 0..W - 1 : r[l] = qs[e + l]
  BY <1>2, <1>3, <1>4, BytesLoaded
<1>6. /\ DOMAIN LowBits(r, 4) = 0..W - 1
      /\ \A l \in 0..W - 1 : LowBits(r, 4)[l] = r[l] % 16
  BY <1>2, <1>5, LowNibbles
<1>7. /\ DOMAIN HighNibbles(r) = 0..W - 1
      /\ \A l \in 0..W - 1 : HighNibbles(r)[l] = r[l] \div 16
  BY <1>2, <1>5, HighNibblesAre
<1>8. /\ 2*j \in 0..7 /\ 2*j + 1 \in 0..7 /\ (2*j) \div 2 = j /\ (2*j) % 2 = 0
      /\ (2*j + 1) \div 2 = j /\ (2*j + 1) % 2 = 1
  OBVIOUS
<1>9. ASSUME NEW l \in 0..W - 1
      PROVE  /\ LowBits(r, 4)[l] = Nibbles(qs)[W*(2*j) + l]
             /\ HighNibbles(r)[l] = Nibbles(qs)[W*(2*j + 1) + l]
  <2>1. NibbleAt(qs, 2*j, l) /\ NibbleAt(qs, 2*j + 1, l)
    BY <1>8, NibbleIs
  <2>2. Nibbles(qs)[W*(2*j) + l] = qs[W*j + l] % 16
    BY <1>8, <2>1 DEF NibbleAt
  <2>3. Nibbles(qs)[W*(2*j + 1) + l] = qs[W*j + l] \div 16
    BY <1>8, <2>1 DEF NibbleAt
  <2> QED BY <1>3, <1>5, <1>6, <1>7, <2>2, <2>3
<1> QED BY <1>3, <1>5, <1>6, <1>7, <1>9 DEF WideRegister, Holds

\* A register of half the width
HalfRegister(r, qs, j, a) ==
  /\ IsBytes(r, H)
  /\ DOMAIN LowBits(r, 4) = 0..H - 1 /\ DOMAIN HighNibbles(r) = 0..H - 1
  /\ DOMAIN Srl(r, 1, 4) = 0..H - 1
  /\ Holds(LowBits(r, 4), Nibbles(qs), H, 4*j + a)
  /\ Holds(HighNibbles(r), Nibbles(qs), H, 4*j + 2 + a)
  /\ Holds(Srl(r, 1, 4), Nibbles(qs), H, 4*j + 2 + a)

HalfPlaces(j, a, l) ==
  /\ H*a + l \in 0..W - 1
  /\ W*(2*j) + (H*a + l) = H*(4*j + a) + l
  /\ W*(2*j + 1) + (H*a + l) = H*(4*j + 2 + a) + l
  /\ W*j + (H*a + l) = (W*j + H*a) + l

LEMMA HalfPlacesAre ==
  ASSUME NEW j \in 0..3, NEW a \in 0..1, NEW l \in 0..H - 1
  PROVE  HalfPlaces(j, a, l)
<1>1. PICK m : Eighths(m)
  BY WidthInEighths
<1>2. H \in Nat /\ W = 2*H
  BY <1>1 DEF Eighths
<1>3. j = 0 \/ j = 1 \/ j = 2 \/ j = 3
  OBVIOUS
<1>4. a = 0 \/ a = 1
  OBVIOUS
<1>5. H*a + l \in 0..W - 1
  BY <1>2, <1>4
<1>6. W*(2*j) + (H*a + l) = H*(4*j + a) + l
  BY <1>2, <1>3, <1>4
<1>7. W*(2*j + 1) + (H*a + l) = H*(4*j + 2 + a) + l
  BY <1>2, <1>3, <1>4
<1>8. W*j + (H*a + l) = (W*j + H*a) + l
  BY <1>2, <1>3, <1>4
<1> QED BY <1>5, <1>6, <1>7, <1>8 DEF HalfPlaces

LEMMA HalfNibbles ==
  ASSUME NEW qs, IsBytes(qs, 4*W), NEW j \in 0..3, NEW a \in 0..1
  PROVE  HalfRegister(Load(qs, W*j + H*a, H), qs, j, a)
<1>1. PICK m : Eighths(m)
  BY WidthInEighths
<1>2. H \in Nat /\ W = 2*H /\ H % 2 = 0
  <2>1. H = (2*m)*2 + 0 /\ H \in Nat /\ W = 2*H
    BY <1>1 DEF Eighths
  <2>2. PICK k : k = 2*m
    OBVIOUS
  <2>3. H % 2 = 0
    <3>1. k \in Int /\ H = k*2 + 0 /\ H \in Int /\ 2 \in Nat \ {0} /\ 0 \in 0..2 - 1
      BY <1>1, <2>1, <2>2 DEF Eighths
    <3> QED BY <3>1, DivModUnique
  <2> QED BY <2>1, <2>3
<1>3. PICK e, t, r : e = W*j + H*a /\ t = 4*W /\ r = Load(qs, W*j + H*a, H)
  OBVIOUS
<1>4. e \in Nat /\ t \in Nat /\ e + H <= t
  <2>1. j = 0 \/ j = 1 \/ j = 2 \/ j = 3
    OBVIOUS
  <2>2. a = 0 \/ a = 1
    OBVIOUS
  <2> QED BY <1>2, <1>3, <2>1, <2>2
<1>5. IsBytes(r, H) /\ \A l \in 0..H - 1 : r[l] = qs[e + l]
  <2>1. IsBytes(qs, t) /\ r = Load(qs, e, H) /\ H \in Nat
    BY <1>2, <1>3
  <2> QED BY <1>4, <2>1, BytesLoaded
<1>6. /\ DOMAIN LowBits(r, 4) = 0..H - 1
      /\ \A l \in 0..H - 1 : LowBits(r, 4)[l] = r[l] % 16
  BY <1>2, <1>5, LowNibbles
<1>7. /\ DOMAIN HighNibbles(r) = 0..H - 1
      /\ \A l \in 0..H - 1 : HighNibbles(r)[l] = r[l] \div 16
  BY <1>2, <1>5, HighNibblesAre
<1>10. /\ DOMAIN Srl(r, 1, 4) = 0..H - 1
       /\ \A l \in 0..H - 1 : Srl(r, 1, 4)[l] = r[l] \div 16
  <2>1. PICK k : k = 4
    OBVIOUS
  <2>2. k \in 0..7 /\ 2^4 = 16
    BY <2>1
  <2>3. /\ DOMAIN Srl(r, 1, k) = 0..H - 1
        /\ \A l \in 0..H - 1 : Srl(r, 1, k)[l] = r[l] \div 2^k
    BY <1>2, <1>5, <2>2, Srl1Is
  <2> QED BY <2>1, <2>2, <2>3
<1>8. /\ 2*j \in 0..7 /\ 2*j + 1 \in 0..7 /\ (2*j) \div 2 = j /\ (2*j) % 2 = 0
      /\ (2*j + 1) \div 2 = j /\ (2*j + 1) % 2 = 1
  OBVIOUS
<1>9. ASSUME NEW l \in 0..H - 1
      PROVE  /\ LowBits(r, 4)[l] = Nibbles(qs)[H*(4*j + a) + l]
             /\ HighNibbles(r)[l] = Nibbles(qs)[H*(4*j + 2 + a) + l]
             /\ Srl(r, 1, 4)[l] = Nibbles(qs)[H*(4*j + 2 + a) + l]
  <2>0. HalfPlaces(j, a, l)
    BY HalfPlacesAre
  <2>4. PICK i : i = H*a + l
    OBVIOUS
  <2>5. /\ i \in 0..W - 1 /\ W*(2*j) + i = H*(4*j + a) + l
        /\ W*(2*j + 1) + i = H*(4*j + 2 + a) + l /\ W*j + i = e + l
    BY <1>3, <2>0, <2>4 DEF HalfPlaces
  <2>1. NibbleAt(qs, 2*j, i) /\ NibbleAt(qs, 2*j + 1, i)
    BY <1>8, <2>5, NibbleIs
  <2>2. Nibbles(qs)[W*(2*j) + i] = qs[W*j + i] % 16
    BY <1>8, <2>1 DEF NibbleAt
  <2>3. Nibbles(qs)[W*(2*j + 1) + i] = qs[W*j + i] \div 16
    BY <1>8, <2>1 DEF NibbleAt
  <2> QED BY <1>5, <1>6, <1>7, <1>10, <2>2, <2>3, <2>5
<1> QED BY <1>3, <1>5, <1>6, <1>7, <1>9, <1>10 DEF HalfRegister, Holds

-----------------------------------------------------------------------------
(* Q4_K.                                                                   *)

\* A version's result: the sum of each sub-block under its scale, and of each
\* under its minimum
IsProduct(r, x, y, v) ==
  r.isum = SumOf(Scales(x), Products(v, y.qs, Q), W, 8) /\ r.mins = MinsOf(x, y)

Q4Blocks(x, y) ==
  IsBytes(x.scales, 12) /\ IsBytes(x.qs, 4*W) /\ Quantised(y.qs, Q) /\ Summed(y)

LEMMA Q4Small ==
  ASSUME NEW x, NEW y, Q4Blocks(x, y)
  PROVE  Small(Nibbles(x.qs), y.qs, Q) /\ Numbers(Scales(x), 8)
<1>1. ASSUME NEW i \in 0..Q - 1 PROVE Nibbles(x.qs)[i] \in 0..128 /\ y.qs[i] \in -127..127
  <2>1. Nibbles(x.qs)[i] \in 0..15
    BY NibblesSmall DEF Q4Blocks
  <2> QED BY <2>1 DEF Q4Blocks, Quantised
<1>2. ASSUME NEW j \in 0..8 - 1 PROVE Scales(x)[j] \in Int
  <2>1. j \in 0..7 /\ IsBytes(x.scales, 12)
    BY DEF Q4Blocks
  <2>2. Scales(x)[j] \in 0..63
    BY <2>1, ScaleTypes
  <2> QED BY <2>2
<1> QED BY <1>1, <1>2 DEF Small, Numbers

LEMMA ScalarQ4KIs ==
  ASSUME NEW x, NEW y, Q4Blocks(x, y)
  PROVE  IsProduct(ScalarQ4K(x, y), x, y, Nibbles(x.qs))
<1> DEFINE t == [s \in 0..7 |-> [l \in 0 .. W - 1 |->
                  LET b == x.qs[W * (s \div 2) + l]
                  IN  (IF s % 2 = 0 THEN b % 16 ELSE b \div 16) * y.qs[W * s + l]]]
           h == [s \in 0..7 |-> Scales(x)[s] * Total(t[s], W)]
           v == Nibbles(x.qs)
<1>1. ScalarQ4K(x, y).isum = Total(h, 8) /\ ScalarQ4K(x, y).mins = PairMins(x, y)
  <2>1. h = [s \in 0..7 |-> Scales(x)[s] * Total([l \in 0 .. W - 1 |->
                  LET b == x.qs[W * (s \div 2) + l]
                  IN  (IF s % 2 = 0 THEN b % 16 ELSE b \div 16) * y.qs[W * s + l]], W)]
    OBVIOUS
  <2> HIDE DEF h
  <2> QED BY <2>1 DEF ScalarQ4K
<1>2. ASSUME NEW s \in 0..7, NEW l \in 0..W - 1
      PROVE  t[s][l] = v[W*s + l] * y.qs[W*s + l]
  <2>1. NibbleAt(x.qs, s, l)
    BY NibbleIs DEF Q4Blocks
  <2>2. v[W*s + l] = IF s % 2 = 0 THEN x.qs[W*(s \div 2) + l] % 16
                     ELSE x.qs[W*(s \div 2) + l] \div 16
    BY <2>1 DEF NibbleAt
  <2> QED BY <2>2
<1>3. \A s \in 0..7 : h[s] = Scales(x)[s] * Total(t[s], W)
  OBVIOUS
<1>4. Small(v, y.qs, Q) /\ Numbers(Scales(x), 8)
  BY Q4Small
<1> HIDE DEF t, h, v
<1>5. Total(h, 8) = SumOf(Scales(x), Products(v, y.qs, Q), W, 8)
  BY <1>2, <1>3, <1>4, ScalarProduct
<1>6. PairMins(x, y) = MinsOf(x, y)
  BY MinsAgree DEF Q4Blocks
<1> QED BY <1>1, <1>5, <1>6 DEF IsProduct, v

LEMMA AvxQ4KIs ==
  ASSUME NEW x, NEW y, Q4Blocks(x, y), NEW isa \in Isas
  PROVE  IsProduct(AvxQ4K(isa, x, y), x, y, Nibbles(x.qs))
<1> DEFINE lo == [j \in 0..3 |-> LowBits(Load(x.qs, W*j, W), 4)]
           hi == [j \in 0..3 |-> HighNibbles(Load(x.qs, W*j, W))]
           h == [j \in 0..3 |->
                  ScaledDot(isa, LowBits(Load(x.qs, W*j, W), 4), Load(y.qs, 2*W*j, W), W, Scales(x)[2*j])
                  + ScaledDot(isa, HighNibbles(Load(x.qs, W*j, W)), Load(y.qs, 2*W*j + W, W), W,
                              Scales(x)[2*j + 1])]
           v == Nibbles(x.qs)
<1>1. AvxQ4K(isa, x, y).isum = Total(h, 4) /\ AvxQ4K(isa, x, y).mins = HaddMins(x, y)
  BY DEF AvxQ4K
<1>2. \A j \in 0..3 : h[j] = WideStepOf(isa, lo[j], hi[j], y.qs, Scales(x), j)
  BY DEF WideStepOf
<1>3. \A j \in 0..3 : Holds(lo[j], v, W, 2*j) /\ Holds(hi[j], v, W, 2*j + 1)
  <2>1. ASSUME NEW j \in 0..3
        PROVE  /\ Holds(LowBits(Load(x.qs, W*j, W), 4), v, W, 2*j)
               /\ Holds(HighNibbles(Load(x.qs, W*j, W)), v, W, 2*j + 1)
    BY WideNibbles DEF Q4Blocks, WideRegister
  <2> QED BY <2>1
<1>4. Small(v, y.qs, Q) /\ Numbers(Scales(x), 8)
  BY Q4Small
<1> HIDE DEF lo, hi, h, v
<1>5. Total(h, 4) = SumOf(Scales(x), Products(v, y.qs, Q), W, 8)
  BY <1>2, <1>3, <1>4, WideProduct
<1>6. HaddMins(x, y) = MinsOf(x, y)
  BY MinsAgree DEF Q4Blocks
<1> QED BY <1>1, <1>5, <1>6 DEF IsProduct, v

LEMMA EightHalves ==
  ASSUME NEW j \in 0..3, NEW a \in 0..1
  PROVE  2*j + a \in 0..7 /\ (2*j + a) \div 2 = j /\ (2*j + a) % 2 = a
OBVIOUS

LEMMA SseQ4KIs ==
  ASSUME NEW x, NEW y, Q4Blocks(x, y)
  PROVE  IsProduct(SseQ4K(x, y), x, y, Nibbles(x.qs))
<1> DEFINE q(j, a) == Load(x.qs, W*j + H*a, H)
           step(j, a) ==
             ScaledDot("avx1", LowBits(q(j, a), 4), Load(y.qs, 2*W*j + H*a, H), H, Scales(x)[2*j])
             + ScaledDot("avx1", HighNibbles(q(j, a)), Load(y.qs, 2*W*j + W + H*a, H), H,
                         Scales(x)[2*j + 1])
           lo == [i \in 0..7 |-> LowBits(q(i \div 2, i % 2), 4)]
           hi == [i \in 0..7 |-> HighNibbles(q(i \div 2, i % 2))]
           h == [i \in 0..7 |-> step(i \div 2, i % 2)]
           v == Nibbles(x.qs)
<1>1. SseQ4K(x, y).isum = Total(h, 8) /\ SseQ4K(x, y).mins = HaddMins(x, y)
  BY DEF SseQ4K
<1>2. ASSUME NEW j \in 0..3, NEW a \in 0..1
      PROVE  /\ h[2*j + a] = HalfStepOf("avx1", lo[2*j + a], hi[2*j + a], y.qs, Scales(x), j, a)
             /\ Holds(lo[2*j + a], v, H, 4*j + a) /\ Holds(hi[2*j + a], v, H, 4*j + 2 + a)
  <2>1. 2*j + a \in 0..7 /\ (2*j + a) \div 2 = j /\ (2*j + a) % 2 = a
    BY EightHalves
  <2>2. PICK i : i = 2*j + a
    OBVIOUS
  <2>3. /\ lo[i] = LowBits(q(j, a), 4) /\ hi[i] = HighNibbles(q(j, a)) /\ h[i] = step(j, a)
    BY <2>1, <2>2
  <2>4. HalfRegister(q(j, a), x.qs, j, a)
    BY HalfNibbles DEF Q4Blocks
  <2> HIDE DEF lo, hi, h
  <2>5. Holds(lo[i], v, H, 4*j + a) /\ Holds(hi[i], v, H, 4*j + 2 + a)
    BY <2>3, <2>4 DEF HalfRegister
  <2>6. h[i] = HalfStepOf("avx1", lo[i], hi[i], y.qs, Scales(x), j, a)
    BY <2>3 DEF HalfStepOf
  <2> QED BY <2>2, <2>5, <2>6
<1>4. Small(v, y.qs, Q) /\ Numbers(Scales(x), 8) /\ "avx1" \in Isas
  BY Q4Small DEF Isas
<1> HIDE DEF lo, hi, h, v
<1>5. Total(h, 8) = SumOf(Scales(x), Products(v, y.qs, Q), W, 8)
  BY <1>2, <1>4, HalfProduct
<1>6. HaddMins(x, y) = MinsOf(x, y)
  BY MinsAgree DEF Q4Blocks
<1> QED BY <1>1, <1>5, <1>6 DEF IsProduct, v

\* Scales unpacked in words are the scales
LEMMA NeonScales ==
  ASSUME NEW x, IsBytes(x.scales, 12), NEW j \in 0..3
  PROVE  WordScales(x)[2*j] = Scales(x)[2*j] /\ WordScales(x)[2*j + 1] = Scales(x)[2*j + 1]
<1>1. 2*j \in 0..7 /\ 2*j + 1 \in 0..7
  OBVIOUS
<1> QED BY <1>1, WordScalesAre

LEMMA NeonQ4KIs ==
  ASSUME NEW x, NEW y, Q4Blocks(x, y), NEW isa \in Isas
  PROVE  IsProduct(NeonQ4K(isa, x, y), x, y, Nibbles(x.qs))
<1> DEFINE q(j, a) == Load(x.qs, W*j + H*a, H)
           step(j, a) ==
             ScaledDot(isa, LowBits(q(j, a), 4), Load(y.qs, 2*W*j + H*a, H), H, WordScales(x)[2*j])
             + ScaledDot(isa, Srl(q(j, a), 1, 4), Load(y.qs, 2*W*j + W + H*a, H), H,
                         WordScales(x)[2*j + 1])
           lo == [i \in 0..7 |-> LowBits(q(i \div 2, i % 2), 4)]
           hi == [i \in 0..7 |-> Srl(q(i \div 2, i % 2), 1, 4)]
           h == [i \in 0..7 |-> step(i \div 2, i % 2)]
           v == Nibbles(x.qs)
<1>1. NeonQ4K(isa, x, y).isum = Total(h, 8) /\ NeonQ4K(isa, x, y).mins = WordMins(x, y)
  BY DEF NeonQ4K
<1>2. ASSUME NEW j \in 0..3, NEW a \in 0..1
      PROVE  /\ h[2*j + a] = HalfStepOf(isa, lo[2*j + a], hi[2*j + a], y.qs, Scales(x), j, a)
             /\ Holds(lo[2*j + a], v, H, 4*j + a) /\ Holds(hi[2*j + a], v, H, 4*j + 2 + a)
  <2>1. 2*j + a \in 0..7 /\ (2*j + a) \div 2 = j /\ (2*j + a) % 2 = a
    BY EightHalves
  <2>2. PICK i : i = 2*j + a
    OBVIOUS
  <2>3. /\ lo[i] = LowBits(q(j, a), 4) /\ hi[i] = Srl(q(j, a), 1, 4) /\ h[i] = step(j, a)
    BY <2>1, <2>2
  <2>4. HalfRegister(q(j, a), x.qs, j, a)
    BY HalfNibbles DEF Q4Blocks
  <2> HIDE DEF lo, hi, h
  <2>5. Holds(lo[i], v, H, 4*j + a) /\ Holds(hi[i], v, H, 4*j + 2 + a)
    BY <2>3, <2>4 DEF HalfRegister
  <2>7. WordScales(x)[2*j] = Scales(x)[2*j] /\ WordScales(x)[2*j + 1] = Scales(x)[2*j + 1]
    BY NeonScales DEF Q4Blocks
  <2>6. h[i] = HalfStepOf(isa, lo[i], hi[i], y.qs, Scales(x), j, a)
    BY <2>3, <2>7 DEF HalfStepOf
  <2> QED BY <2>2, <2>5, <2>6
<1>4. Small(v, y.qs, Q) /\ Numbers(Scales(x), 8)
  BY Q4Small
<1> HIDE DEF lo, hi, h, v
<1>5. Total(h, 8) = SumOf(Scales(x), Products(v, y.qs, Q), W, 8)
  BY <1>2, <1>4, HalfProduct
<1>6. WordMins(x, y) = MinsOf(x, y)
  BY MinsAgree DEF Q4Blocks
<1> QED BY <1>1, <1>5, <1>6 DEF IsProduct, v

-----------------------------------------------------------------------------
(* Q5_K.                                                                   *)

Fifth(qh, s, l) == (qh[l] \div 2^s) % 2

\* The five bits of each weight
Fives(x) == [i \in 0..Q - 1 |-> Nibbles(x.qs)[i] + 16 * Fifth(x.qh, i \div W, i % W)]

Q5Blocks(x, y) ==
  /\ IsBytes(x.scales, 12) /\ IsBytes(x.qs, 4*W) /\ IsBytes(x.qh, W)
  /\ Quantised(y.qs, Q) /\ Summed(y)

LEMMA FifthType ==
  ASSUME NEW qh, IsBytes(qh, W), NEW s \in 0..7, NEW l \in 0..W - 1
  PROVE  Fifth(qh, s, l) \in 0..1
<1>1. PICK z \in 0..255 : z = qh[l]
  BY DEF IsBytes
<1>2. PICK w \in Int : w = z \div 2^s
  BY PowerPositive
<1>3. w % 2 \in 0..1
  OBVIOUS
<1> QED BY <1>1, <1>2, <1>3 DEF Fifth

LEMMA FivesAt ==
  ASSUME NEW x, IsBytes(x.qs, 4*W), NEW s \in 0..7, NEW l \in 0..W - 1
  PROVE  /\ NibbleAt(x.qs, s, l)
         /\ Fives(x)[W*s + l] = Nibbles(x.qs)[W*s + l] + 16 * Fifth(x.qh, s, l)
<1>1. NibbleAt(x.qs, s, l)
  BY NibbleIs
<1>2. PICK i : i = W*s + l
  OBVIOUS
<1>3. i \in 0..Q - 1 /\ i \div W = s /\ i % W = l
  BY <1>1, <1>2 DEF NibbleAt
<1>4. Fives(x)[i] = Nibbles(x.qs)[i] + 16 * Fifth(x.qh, i \div W, i % W)
  BY <1>3 DEF Fives
<1> QED BY <1>1, <1>2, <1>3, <1>4

LEMMA Q5Small ==
  ASSUME NEW x, NEW y, Q5Blocks(x, y)
  PROVE  Small(Fives(x), y.qs, Q) /\ Numbers(Scales(x), 8)
<1>1. ASSUME NEW i \in 0..Q - 1 PROVE Fives(x)[i] \in 0..128 /\ y.qs[i] \in -127..127
  <2>1. Nibbles(x.qs)[i] \in 0..15 /\ i \div W \in 0..7 /\ i % W \in 0..W - 1
    BY NibblesSmall DEF Q5Blocks
  <2>2. Fifth(x.qh, i \div W, i % W) \in 0..1
    BY <2>1, FifthType DEF Q5Blocks
  <2>3. Fives(x)[i] = Nibbles(x.qs)[i] + 16 * Fifth(x.qh, i \div W, i % W)
    BY DEF Fives
  <2> QED BY <2>1, <2>2, <2>3 DEF Q5Blocks, Quantised
<1>2. ASSUME NEW j \in 0..8 - 1 PROVE Scales(x)[j] \in Int
  <2>1. j \in 0..7 /\ IsBytes(x.scales, 12)
    BY DEF Q5Blocks
  <2>2. Scales(x)[j] \in 0..63
    BY <2>1, ScaleTypes
  <2> QED BY <2>2
<1> QED BY <1>1, <1>2 DEF Small, Numbers

LEMMA ScalarQ5KIs ==
  ASSUME NEW x, NEW y, Q5Blocks(x, y)
  PROVE  IsProduct(ScalarQ5K(x, y), x, y, Fives(x))
<1> DEFINE t == [s \in 0..7 |-> [l \in 0 .. W - 1 |->
                  LET b == x.qs[W * (s \div 2) + l]
                      u == (x.qh[l] \div 2^s) % 2
                  IN  ((IF s % 2 = 0 THEN b % 16 ELSE b \div 16) + 16 * u)
                      * y.qs[W * s + l]]]
           h == [s \in 0..7 |-> Scales(x)[s] * Total(t[s], W)]
           v == Fives(x)
<1>1. ScalarQ5K(x, y).isum = Total(h, 8) /\ ScalarQ5K(x, y).mins = PairMins(x, y)
  <2>1. h = [s \in 0..7 |-> Scales(x)[s] * Total([l \in 0 .. W - 1 |->
                  LET b == x.qs[W * (s \div 2) + l]
                      u == (x.qh[l] \div 2^s) % 2
                  IN  ((IF s % 2 = 0 THEN b % 16 ELSE b \div 16) + 16 * u)
                      * y.qs[W * s + l]], W)]
    OBVIOUS
  <2> HIDE DEF h
  <2> QED BY <2>1 DEF ScalarQ5K
<1>2. ASSUME NEW s \in 0..7, NEW l \in 0..W - 1
      PROVE  t[s][l] = v[W*s + l] * y.qs[W*s + l]
  <2>1. /\ NibbleAt(x.qs, s, l)
        /\ v[W*s + l] = Nibbles(x.qs)[W*s + l] + 16 * Fifth(x.qh, s, l)
    BY FivesAt DEF Q5Blocks
  <2>2. Nibbles(x.qs)[W*s + l] = IF s % 2 = 0 THEN x.qs[W*(s \div 2) + l] % 16
                                 ELSE x.qs[W*(s \div 2) + l] \div 16
    BY <2>1 DEF NibbleAt
  <2>3. t[s][l] = ((IF s % 2 = 0 THEN x.qs[W*(s \div 2) + l] % 16
                    ELSE x.qs[W*(s \div 2) + l] \div 16) + 16 * Fifth(x.qh, s, l))
                  * y.qs[W*s + l]
    BY DEF Fifth
  <2> HIDE DEF t, v
  <2> QED BY <2>1, <2>2, <2>3
<1>3. \A s \in 0..7 : h[s] = Scales(x)[s] * Total(t[s], W)
  OBVIOUS
<1>4. Small(v, y.qs, Q) /\ Numbers(Scales(x), 8)
  BY Q5Small
<1> HIDE DEF t, h, v
<1>5. Total(h, 8) = SumOf(Scales(x), Products(v, y.qs, Q), W, 8)
  BY <1>2, <1>3, <1>4, ScalarProduct
<1>6. PairMins(x, y) = MinsOf(x, y)
  BY MinsAgree DEF Q5Blocks
<1> QED BY <1>1, <1>5, <1>6 DEF IsProduct, v

\* The fifth bits of a register of n weights, from the place e of the row's
FifthsOf(f, qh, n, e, s) ==
  DOMAIN f = 0..n - 1 /\ \A l \in 0..n - 1 : f[l] = 16 * Fifth(qh, s, e + l)

LEMMA WideFives ==
  ASSUME NEW x, IsBytes(x.qs, 4*W), NEW j \in 0..3, NEW r, WideRegister(r, x.qs, j),
         NEW f, FifthsOf(f, x.qh, W, 0, 2*j), NEW g, FifthsOf(g, x.qh, W, 0, 2*j + 1)
  PROVE  /\ Holds(Join(LowBits(r, 4), f), Fives(x), W, 2*j)
         /\ Holds(Join(HighNibbles(r), g), Fives(x), W, 2*j + 1)
<1>1. 2*j \in 0..7 /\ 2*j + 1 \in 0..7
  OBVIOUS
<1>2. ASSUME NEW l \in 0..W - 1
      PROVE  /\ Join(LowBits(r, 4), f)[l] = Fives(x)[W*(2*j) + l]
             /\ Join(HighNibbles(r), g)[l] = Fives(x)[W*(2*j + 1) + l]
  <2>1. Fives(x)[W*(2*j) + l] = Nibbles(x.qs)[W*(2*j) + l] + 16 * Fifth(x.qh, 2*j, l)
    BY <1>1, FivesAt
  <2>2. Fives(x)[W*(2*j + 1) + l] = Nibbles(x.qs)[W*(2*j + 1) + l] + 16 * Fifth(x.qh, 2*j + 1, l)
    BY <1>1, FivesAt
  <2>3. 0 + l = l
    OBVIOUS
  <2>4. f[l] = 16 * Fifth(x.qh, 2*j, l) /\ g[l] = 16 * Fifth(x.qh, 2*j + 1, l)
    BY <2>3 DEF FifthsOf
  <2>5. /\ LowBits(r, 4)[l] = Nibbles(x.qs)[W*(2*j) + l]
        /\ HighNibbles(r)[l] = Nibbles(x.qs)[W*(2*j + 1) + l]
    BY DEF WideRegister, Holds
  <2>6. /\ Join(LowBits(r, 4), f)[l] = LowBits(r, 4)[l] + f[l]
        /\ Join(HighNibbles(r), g)[l] = HighNibbles(r)[l] + g[l]
    BY DEF WideRegister, Join, Lanes
  <2> QED BY <2>1, <2>2, <2>4, <2>5, <2>6
<1> QED BY <1>2 DEF Holds

LEMMA HalfFives ==
  ASSUME NEW x, IsBytes(x.qs, 4*W), NEW j \in 0..3, NEW a \in 0..1,
         NEW r, HalfRegister(r, x.qs, j, a),
         NEW f, FifthsOf(f, x.qh, H, H*a, 2*j), NEW g, FifthsOf(g, x.qh, H, H*a, 2*j + 1)
  PROVE  /\ Holds(Join(LowBits(r, 4), f), Fives(x), H, 4*j + a)
         /\ Holds(Join(HighNibbles(r), g), Fives(x), H, 4*j + 2 + a)
         /\ Holds(Join(Srl(r, 1, 4), g), Fives(x), H, 4*j + 2 + a)
<1>1. 2*j \in 0..7 /\ 2*j + 1 \in 0..7
  OBVIOUS
<1>2. ASSUME NEW l \in 0..H - 1
      PROVE  /\ Join(LowBits(r, 4), f)[l] = Fives(x)[H*(4*j + a) + l]
             /\ Join(HighNibbles(r), g)[l] = Fives(x)[H*(4*j + 2 + a) + l]
             /\ Join(Srl(r, 1, 4), g)[l] = Fives(x)[H*(4*j + 2 + a) + l]
  <2>0. HalfPlaces(j, a, l)
    BY HalfPlacesAre
  <2>7. PICK i : i = H*a + l
    OBVIOUS
  <2>8. /\ i \in 0..W - 1 /\ W*(2*j) + i = H*(4*j + a) + l
        /\ W*(2*j + 1) + i = H*(4*j + 2 + a) + l
    BY <2>0, <2>7 DEF HalfPlaces
  <2>1. Fives(x)[W*(2*j) + i] = Nibbles(x.qs)[W*(2*j) + i] + 16 * Fifth(x.qh, 2*j, i)
    BY <1>1, <2>8, FivesAt
  <2>2. Fives(x)[W*(2*j + 1) + i] = Nibbles(x.qs)[W*(2*j + 1) + i] + 16 * Fifth(x.qh, 2*j + 1, i)
    BY <1>1, <2>8, FivesAt
  <2>4. f[l] = 16 * Fifth(x.qh, 2*j, i) /\ g[l] = 16 * Fifth(x.qh, 2*j + 1, i)
    BY <2>7 DEF FifthsOf
  <2>5. /\ LowBits(r, 4)[l] = Nibbles(x.qs)[H*(4*j + a) + l]
        /\ HighNibbles(r)[l] = Nibbles(x.qs)[H*(4*j + 2 + a) + l]
        /\ Srl(r, 1, 4)[l] = Nibbles(x.qs)[H*(4*j + 2 + a) + l]
    BY DEF HalfRegister, Holds
  <2>6. /\ Join(LowBits(r, 4), f)[l] = LowBits(r, 4)[l] + f[l]
        /\ Join(HighNibbles(r), g)[l] = HighNibbles(r)[l] + g[l]
        /\ Join(Srl(r, 1, 4), g)[l] = Srl(r, 1, 4)[l] + g[l]
    BY DEF HalfRegister, Join, Lanes
  <2> QED BY <2>1, <2>2, <2>4, <2>5, <2>6, <2>8
<1> QED BY <1>2 DEF Holds

\* Shifted in pairs of bytes, in whole rows and in halves
LEMMA WidthsAreEven == W \in Nat /\ W % 2 = 0 /\ H \in Nat /\ H % 2 = 0 /\ W = 2*H
<1>1. PICK m : Eighths(m)
  BY WidthInEighths
<1>2. PICK k, d : k = 2*m /\ d = 4*m
  OBVIOUS
<1>3. k \in Int /\ d \in Int /\ H = k*2 + 0 /\ W = d*2 + 0 /\ H \in Nat /\ W \in Nat /\ W = 2*H
  BY <1>1, <1>2 DEF Eighths
<1>4. H % 2 = 0
  <2>1. H \in Int /\ 2 \in Nat \ {0} /\ 0 \in 0..2 - 1
    BY <1>3
  <2> QED BY <1>3, <2>1, DivModUnique
<1>5. W % 2 = 0
  <2>1. W \in Int /\ 2 \in Nat \ {0} /\ 0 \in 0..2 - 1
    BY <1>3
  <2> QED BY <1>3, <2>1, DivModUnique
<1> QED BY <1>3, <1>4, <1>5

LEMMA WideFifths ==
  ASSUME NEW qh, IsBytes(qh, W), NEW s \in 0..7
  PROVE  FifthsOf(FifthBit(qh, s), qh, W, 0, s)
<1>1. /\ DOMAIN FifthBit(qh, s) = 0..W - 1
      /\ \A i \in 0..W - 1 : FifthBit(qh, s)[i] = 16 * ((qh[i] \div 2^s) % 2)
  BY WidthsAreEven, FifthBitIs
<1>2. \A i \in 0..W - 1 : 0 + i = i
  OBVIOUS
<1> QED BY <1>1, <1>2 DEF FifthsOf, Fifth

HalfOf(u, qh, a) == IsBytes(u, H) /\ \A l \in 0..H - 1 : u[l] = qh[H*a + l]

LEMMA HalfLoaded ==
  ASSUME NEW qh, IsBytes(qh, W), NEW a \in 0..1
  PROVE  HalfOf(Load(qh, H*a, H), qh, a)
<1>1. PICK e : e = H*a
  OBVIOUS
<1>2. e \in Nat /\ H \in Nat /\ W \in Nat /\ e + H <= W
  <2>1. a = 0 \/ a = 1
    OBVIOUS
  <2> QED BY <1>1, <2>1, WidthsAreEven
<1>3. IsBytes(Load(qh, e, H), H) /\ \A l \in 0..H - 1 : Load(qh, e, H)[l] = qh[e + l]
  BY <1>2, BytesLoaded
<1> QED BY <1>1, <1>3 DEF HalfOf

LEMMA HalfFifths ==
  ASSUME NEW qh, NEW a \in 0..1, NEW u, HalfOf(u, qh, a), NEW s \in 0..7
  PROVE  FifthsOf(FifthBit(u, s), qh, H, H*a, s)
<1>1. IsBytes(u, H)
  BY DEF HalfOf
<1>2. /\ DOMAIN FifthBit(u, s) = 0..H - 1
      /\ \A i \in 0..H - 1 : FifthBit(u, s)[i] = 16 * ((u[i] \div 2^s) % 2)
  BY <1>1, WidthsAreEven, FifthBitIs
<1> QED BY <1>2 DEF FifthsOf, Fifth, HalfOf

\* NEON's two ways with the bits
LEMMA NeonFirst ==
  ASSUME NEW qh, NEW a \in 0..1, NEW u, HalfOf(u, qh, a), NEW j \in 0..3
  PROVE  FifthsOf(Sll(LowBits(Srl(u, 1, 2*j), 1), 1, 4), qh, H, H*a, 2*j)
<1>1. IsBytes(u, H) /\ H \in Nat
  BY WidthsAreEven DEF HalfOf
<1>3. PICK k \in 0..7 : k = 2*j
  OBVIOUS
<1>2. PICK v, t : v = Srl(u, 1, 2*j) /\ v = Srl(u, 1, k) /\ t = LowBits(Srl(u, 1, 2*j), 1)
  BY <1>3
<1>4. DOMAIN v = 0..H - 1 /\ \A i \in 0..H - 1 : v[i] = u[i] \div 2^k
  <2>1. /\ DOMAIN Srl(u, 1, k) = 0..H - 1
        /\ \A i \in 0..H - 1 : Srl(u, 1, k)[i] = u[i] \div 2^k
    BY <1>1, Srl1Is
  <2>2. v = Srl(u, 1, k)
    BY <1>2
  <2> QED BY <2>1, <2>2
<1>5. DOMAIN t = 0..H - 1 /\ \A i \in 0..H - 1 : t[i] = v[i] % 2^1
  BY <1>2, <1>4 DEF LowBits, Lanes
<1>6. ASSUME NEW i \in 0..H - 1 PROVE t[i] = (u[i] \div 2^k) % 2 /\ t[i] \in 0..3
  <2>1. PICK z \in 0..255 : z = u[i]
    BY <1>1 DEF IsBytes
  <2>2. (z \div 2^(2*j)) % 2^1 = (z \div 2^(2*j)) % 2 /\ (z \div 2^(2*j)) % 2^1 \in 0..3
    BY FirstOfTwo
  <2> QED BY <1>3, <1>4, <1>5, <2>1, <2>2
<1>7. PICK o : o = 1
  OBVIOUS
<1>8. o \in Nat \ {0}
  BY <1>7
<1>9. DOMAIN Sll(t, o, 4) = 0..H - 1 /\ \A i \in 0..H - 1 : Sll(t, o, 4)[i] = 16 * t[i]
  BY <1>1, <1>5, <1>6, <1>8, MovedUp
<1>10. \A i \in 0..H - 1 : Sll(t, 1, 4)[i] = 16 * ((qh[H*a + i] \div 2^k) % 2)
  BY <1>6, <1>7, <1>9 DEF HalfOf
<1> QED BY <1>2, <1>3, <1>7, <1>9, <1>10 DEF FifthsOf, Fifth

SecondBits(v) == [i \in Lanes(v) |-> (v[i] % 4) - (v[i] % 2)]

LEMMA NeonSecond ==
  ASSUME NEW qh, NEW a \in 0..1, NEW u, HalfOf(u, qh, a), NEW j \in 0..3
  PROVE  FifthsOf(Sll(SecondBits(Srl(u, 1, 2*j)), 1, 3), qh, H, H*a, 2*j + 1)
<1>1. IsBytes(u, H) /\ H \in Nat
  BY WidthsAreEven DEF HalfOf
<1>3. PICK k \in 0..7 : k = 2*j
  OBVIOUS
<1>2. PICK v, t : v = Srl(u, 1, 2*j) /\ v = Srl(u, 1, k) /\ t = SecondBits(Srl(u, 1, 2*j))
  BY <1>3
<1>4. DOMAIN v = 0..H - 1 /\ \A i \in 0..H - 1 : v[i] = u[i] \div 2^k
  <2>1. /\ DOMAIN Srl(u, 1, k) = 0..H - 1
        /\ \A i \in 0..H - 1 : Srl(u, 1, k)[i] = u[i] \div 2^k
    BY <1>1, Srl1Is
  <2>2. v = Srl(u, 1, k)
    BY <1>2
  <2> QED BY <2>1, <2>2
<1>5. DOMAIN t = 0..H - 1 /\ \A i \in 0..H - 1 : t[i] = (v[i] % 4) - (v[i] % 2)
  BY <1>2, <1>4 DEF SecondBits, Lanes
<1>6. ASSUME NEW i \in 0..H - 1
      PROVE  t[i] = 2 * ((u[i] \div 2^(2*j + 1)) % 2) /\ t[i] \in {0, 2}
             /\ 8 * t[i] = 16 * ((u[i] \div 2^(2*j + 1)) % 2)
  <2>1. PICK z \in 0..255 : z = u[i]
    BY <1>1 DEF IsBytes
  <2>2. SecondOf(z, j)
    BY SecondOfTwo
  <2>3. PICK b \in 0..1 : b = (z \div 2^(2*j + 1)) % 2
    BY <2>2 DEF SecondOf
  <2>4. t[i] = 2*b
    BY <1>3, <1>4, <1>5, <2>1, <2>2, <2>3 DEF SecondOf
  <2>5. 2*b \in {0, 2} /\ 8*(2*b) = 16*b
    OBVIOUS
  <2> QED BY <2>1, <2>3, <2>4, <2>5
<1>9. DOMAIN Sll(t, 1, 3) = 0..H - 1 /\ \A i \in 0..H - 1 : Sll(t, 1, 3)[i] = 8 * t[i]
  BY <1>1, <1>5, <1>6, BitMovedUp
<1>10. \A i \in 0..H - 1 : Sll(t, 1, 3)[i] = 16 * ((qh[H*a + i] \div 2^(2*j + 1)) % 2)
  BY <1>6, <1>9 DEF HalfOf
<1> QED BY <1>2, <1>9, <1>10 DEF FifthsOf, Fifth

LEMMA AvxQ5KIs ==
  ASSUME NEW x, NEW y, Q5Blocks(x, y), NEW isa \in Isas
  PROVE  IsProduct(AvxQ5K(isa, x, y), x, y, Fives(x))
<1> DEFINE q(j) == Load(x.qs, W*j, W)
           low(j) == Join(LowBits(q(j), 4), FifthBit(x.qh, 2*j))
           high(j) == Join(HighNibbles(q(j)), FifthBit(x.qh, 2*j + 1))
           lo == [j \in 0..3 |-> low(j)]
           hi == [j \in 0..3 |-> high(j)]
           h == [j \in 0..3 |->
                  ScaledDot(isa, low(j), Load(y.qs, 2*W*j, W), W, Scales(x)[2*j])
                  + ScaledDot(isa, high(j), Load(y.qs, 2*W*j + W, W), W, Scales(x)[2*j + 1])]
           v == Fives(x)
<1>1. AvxQ5K(isa, x, y).isum = Total(h, 4) /\ AvxQ5K(isa, x, y).mins = HaddMins(x, y)
  BY DEF AvxQ5K
<1>2. \A j \in 0..3 : h[j] = WideStepOf(isa, lo[j], hi[j], y.qs, Scales(x), j)
  BY DEF WideStepOf
<1>3. \A j \in 0..3 : Holds(lo[j], v, W, 2*j) /\ Holds(hi[j], v, W, 2*j + 1)
  <2>1. ASSUME NEW j \in 0..3
        PROVE  Holds(low(j), v, W, 2*j) /\ Holds(high(j), v, W, 2*j + 1)
    <3>1. 2*j \in 0..7 /\ 2*j + 1 \in 0..7
      OBVIOUS
    <3>2. WideRegister(q(j), x.qs, j)
      BY WideNibbles DEF Q5Blocks
    <3>3. /\ FifthsOf(FifthBit(x.qh, 2*j), x.qh, W, 0, 2*j)
          /\ FifthsOf(FifthBit(x.qh, 2*j + 1), x.qh, W, 0, 2*j + 1)
      BY <3>1, WideFifths DEF Q5Blocks
    <3> HIDE DEF q
    <3> QED BY <3>2, <3>3, WideFives DEF Q5Blocks
  <2> QED BY <2>1
<1>4. Small(v, y.qs, Q) /\ Numbers(Scales(x), 8)
  BY Q5Small
<1> HIDE DEF lo, hi, h, v
<1>5. Total(h, 4) = SumOf(Scales(x), Products(v, y.qs, Q), W, 8)
  BY <1>2, <1>3, <1>4, WideProduct
<1>6. HaddMins(x, y) = MinsOf(x, y)
  BY MinsAgree DEF Q5Blocks
<1> QED BY <1>1, <1>5, <1>6 DEF IsProduct, v

LEMMA SseQ5KIs ==
  ASSUME NEW x, NEW y, Q5Blocks(x, y)
  PROVE  IsProduct(SseQ5K(x, y), x, y, Fives(x))
<1> DEFINE q(j, a) == Load(x.qs, W*j + H*a, H)
           qh(a) == Load(x.qh, H*a, H)
           low(j, a) == Join(LowBits(q(j, a), 4), FifthBit(qh(a), 2*j))
           high(j, a) == Join(HighNibbles(q(j, a)), FifthBit(qh(a), 2*j + 1))
           step(j, a) ==
             ScaledDot("avx1", low(j, a), Load(y.qs, 2*W*j + H*a, H), H, Scales(x)[2*j])
             + ScaledDot("avx1", high(j, a), Load(y.qs, 2*W*j + W + H*a, H), H, Scales(x)[2*j + 1])
           lo == [i \in 0..7 |-> low(i \div 2, i % 2)]
           hi == [i \in 0..7 |-> high(i \div 2, i % 2)]
           h == [i \in 0..7 |-> step(i \div 2, i % 2)]
           v == Fives(x)
<1>1. SseQ5K(x, y).isum = Total(h, 8) /\ SseQ5K(x, y).mins = HaddMins(x, y)
  BY DEF SseQ5K
<1>2. ASSUME NEW j \in 0..3, NEW a \in 0..1
      PROVE  /\ h[2*j + a] = HalfStepOf("avx1", lo[2*j + a], hi[2*j + a], y.qs, Scales(x), j, a)
             /\ Holds(lo[2*j + a], v, H, 4*j + a) /\ Holds(hi[2*j + a], v, H, 4*j + 2 + a)
  <2>1. 2*j + a \in 0..7 /\ (2*j + a) \div 2 = j /\ (2*j + a) % 2 = a
    BY EightHalves
  <2>2. PICK i : i = 2*j + a
    OBVIOUS
  <2>3. lo[i] = low(j, a) /\ hi[i] = high(j, a) /\ h[i] = step(j, a)
    BY <2>1, <2>2
  <2>4. HalfRegister(q(j, a), x.qs, j, a) /\ HalfOf(qh(a), x.qh, a)
    BY HalfNibbles, HalfLoaded DEF Q5Blocks
  <2> HIDE DEF lo, hi, h, q, qh
  <2>7. /\ FifthsOf(FifthBit(qh(a), 2*j), x.qh, H, H*a, 2*j)
        /\ FifthsOf(FifthBit(qh(a), 2*j + 1), x.qh, H, H*a, 2*j + 1)
    <3>1. 2*j \in 0..7 /\ 2*j + 1 \in 0..7
      OBVIOUS
    <3> QED BY <2>4, <3>1, HalfFifths
  <2>5. Holds(lo[i], v, H, 4*j + a) /\ Holds(hi[i], v, H, 4*j + 2 + a)
    BY <2>3, <2>4, <2>7, HalfFives DEF Q5Blocks
  <2>6. h[i] = HalfStepOf("avx1", lo[i], hi[i], y.qs, Scales(x), j, a)
    BY <2>3 DEF HalfStepOf
  <2> QED BY <2>2, <2>5, <2>6
<1>4. Small(v, y.qs, Q) /\ Numbers(Scales(x), 8) /\ "avx1" \in Isas
  BY Q5Small DEF Isas
<1> HIDE DEF lo, hi, h, v
<1>5. Total(h, 8) = SumOf(Scales(x), Products(v, y.qs, Q), W, 8)
  BY <1>2, <1>4, HalfProduct
<1>6. HaddMins(x, y) = MinsOf(x, y)
  BY MinsAgree DEF Q5Blocks
<1> QED BY <1>1, <1>5, <1>6 DEF IsProduct, v

LEMMA NeonQ5KIs ==
  ASSUME NEW x, NEW y, Q5Blocks(x, y), NEW isa \in Isas
  PROVE  IsProduct(NeonQ5K(isa, x, y), x, y, Fives(x))
<1> DEFINE q(j, a) == Load(x.qs, W*j + H*a, H)
           qhbits(j, a) == Srl(Load(x.qh, H*a, H), 1, 2*j)
           low(j, a) == Join(LowBits(q(j, a), 4), Sll(LowBits(qhbits(j, a), 1), 1, 4))
           high(j, a) == Join(Srl(q(j, a), 1, 4), Sll(SecondBits(qhbits(j, a)), 1, 3))
           step(j, a) ==
             ScaledDot(isa, low(j, a), Load(y.qs, 2*W*j + H*a, H), H, WordScales(x)[2*j])
             + ScaledDot(isa, high(j, a), Load(y.qs, 2*W*j + W + H*a, H), H, WordScales(x)[2*j + 1])
           lo == [i \in 0..7 |-> low(i \div 2, i % 2)]
           hi == [i \in 0..7 |-> high(i \div 2, i % 2)]
           h == [i \in 0..7 |-> step(i \div 2, i % 2)]
           v == Fives(x)
<1>1. NeonQ5K(isa, x, y).isum = Total(h, 8) /\ NeonQ5K(isa, x, y).mins = WordMins(x, y)
  BY DEF NeonQ5K, SecondBits
<1>2. ASSUME NEW j \in 0..3, NEW a \in 0..1
      PROVE  /\ h[2*j + a] = HalfStepOf(isa, lo[2*j + a], hi[2*j + a], y.qs, Scales(x), j, a)
             /\ Holds(lo[2*j + a], v, H, 4*j + a) /\ Holds(hi[2*j + a], v, H, 4*j + 2 + a)
  <2>1. 2*j + a \in 0..7 /\ (2*j + a) \div 2 = j /\ (2*j + a) % 2 = a
    BY EightHalves
  <2>2. PICK i : i = 2*j + a
    OBVIOUS
  <2>3. lo[i] = low(j, a) /\ hi[i] = high(j, a) /\ h[i] = step(j, a)
    BY <2>1, <2>2
  <2>4. HalfRegister(q(j, a), x.qs, j, a) /\ HalfOf(Load(x.qh, H*a, H), x.qh, a)
    BY HalfNibbles, HalfLoaded DEF Q5Blocks
  <2>7. /\ FifthsOf(Sll(LowBits(qhbits(j, a), 1), 1, 4), x.qh, H, H*a, 2*j)
        /\ FifthsOf(Sll(SecondBits(qhbits(j, a)), 1, 3), x.qh, H, H*a, 2*j + 1)
    BY <2>4, NeonFirst, NeonSecond
  <2> HIDE DEF lo, hi, h, q, qhbits
  <2>5. Holds(lo[i], v, H, 4*j + a) /\ Holds(hi[i], v, H, 4*j + 2 + a)
    BY <2>3, <2>4, <2>7, HalfFives DEF Q5Blocks
  <2>8. WordScales(x)[2*j] = Scales(x)[2*j] /\ WordScales(x)[2*j + 1] = Scales(x)[2*j + 1]
    BY NeonScales DEF Q5Blocks
  <2>6. h[i] = HalfStepOf(isa, lo[i], hi[i], y.qs, Scales(x), j, a)
    BY <2>3, <2>8 DEF HalfStepOf
  <2> QED BY <2>2, <2>5, <2>6
<1>4. Small(v, y.qs, Q) /\ Numbers(Scales(x), 8)
  BY Q5Small
<1> HIDE DEF lo, hi, h, v
<1>5. Total(h, 8) = SumOf(Scales(x), Products(v, y.qs, Q), W, 8)
  BY <1>2, <1>4, HalfProduct
<1>6. WordMins(x, y) = MinsOf(x, y)
  BY MinsAgree DEF Q5Blocks
<1> QED BY <1>1, <1>5, <1>6 DEF IsProduct, v

-----------------------------------------------------------------------------
(* Q6_K.                                                                   *)

\* The four low bits and the two high ones of weight l of sub-block s
LowSix(x, s, l) ==
  LET b == x.ql[2*W*(s \div 4) + W*(s % 2) + l]
  IN  IF s % 4 < 2 THEN b % 16 ELSE b \div 16

TopSix(x, s, l) == (x.qh[W*(s \div 4) + l] \div 4^(s % 4)) % 4

Sixes(x) == [i \in 0..Q - 1 |-> LowSix(x, i \div W, i % W) + 16 * TopSix(x, i \div W, i % W)]

Q6Blocks(x, y) ==
  /\ IsBytes(x.ql, 4*W) /\ IsBytes(x.qh, 2*W) /\ Numbers(x.scales, 16)
  /\ Quantised(y.qs, Q) /\ Summed(y)

SixPlaces(s, l) ==
  /\ W*s + l \in 0..Q - 1 /\ (W*s + l) \div W = s /\ (W*s + l) % W = l
  /\ 2*W*(s \div 4) + W*(s % 2) + l \in 0..4*W - 1
  /\ W*(s \div 4) + l \in 0..2*W - 1

LEMMA SixPlacesAre ==
  ASSUME NEW s \in 0..7, NEW l \in 0..W - 1
  PROVE  SixPlaces(s, l)
<1>1. PICK m : Eighths(m)
  BY WidthInEighths
<1>2. W \in Nat \ {0} /\ Q = 8*W
  BY <1>1 DEF Eighths
<1>3. (W*s + l) \div W = s /\ (W*s + l) % W = l
  BY <1>2, PlaceIs
<1>4. s = 0 \/ s = 1 \/ s = 2 \/ s = 3 \/ s = 4 \/ s = 5 \/ s = 6 \/ s = 7
  OBVIOUS
<1>5. W*s + l \in 0..Q - 1
  BY <1>2, <1>4
<1>6. 2*W*(s \div 4) + W*(s % 2) + l \in 0..4*W - 1
  BY <1>2, <1>4
<1>7. W*(s \div 4) + l \in 0..2*W - 1
  BY <1>2, <1>4
<1> QED BY <1>3, <1>5, <1>6, <1>7 DEF SixPlaces

LEMMA FoursAreTwos == 4^0 = 2^(2*0) /\ 4^1 = 2^(2*1) /\ 4^2 = 2^(2*2) /\ 4^3 = 2^(2*3)
<1>1. 2*0 = 0 /\ 2*1 = 2 /\ 2*2 = 4 /\ 2*3 = 6
  OBVIOUS
<1>2. 2^0 = 1 /\ 2^2 = 4 /\ 2^4 = 16 /\ 2^6 = 64 /\ 4^0 = 1 /\ 4^1 = 4 /\ 4^2 = 16 /\ 4^3 = 64
  OBVIOUS
<1> QED BY <1>1, <1>2

LEMMA FourIsTwoTwos ==
  ASSUME NEW c \in 0..3
  PROVE  4^c = 2^(2*c) /\ 2*c \in {0, 2, 4, 6}
<1>1. c = 0 \/ c = 1 \/ c = 2 \/ c = 3
  OBVIOUS
<1>2. 2*c \in {0, 2, 4, 6}
  BY <1>1
<1>3. CASE c = 0
  BY <1>2, <1>3, FoursAreTwos
<1>4. CASE c = 1
  BY <1>2, <1>4, FoursAreTwos
<1>5. CASE c = 2
  BY <1>2, <1>5, FoursAreTwos
<1>6. CASE c = 3
  BY <1>2, <1>6, FoursAreTwos
<1> QED BY <1>1, <1>3, <1>4, <1>5, <1>6

LEMMA SixParts ==
  ASSUME NEW x, IsBytes(x.ql, 4*W), IsBytes(x.qh, 2*W), NEW s \in 0..7, NEW l \in 0..W - 1
  PROVE  /\ LowSix(x, s, l) \in 0..15 /\ TopSix(x, s, l) \in 0..3
         /\ Sixes(x)[W*s + l] = LowSix(x, s, l) + 16 * TopSix(x, s, l)
<1>1. SixPlaces(s, l)
  BY SixPlacesAre
<1>2. PICK b \in 0..255 : b = x.ql[2*W*(s \div 4) + W*(s % 2) + l]
  BY <1>1 DEF SixPlaces, IsBytes
<1>3. PICK z \in 0..255 : z = x.qh[W*(s \div 4) + l]
  BY <1>1 DEF SixPlaces, IsBytes
<1>4. b % 16 \in 0..15 /\ b \div 16 \in 0..15
  OBVIOUS
<1>5. LowSix(x, s, l) \in 0..15
  BY <1>2, <1>4 DEF LowSix
<1>6. TopSix(x, s, l) \in 0..3
  <2>1. PICK c \in 0..3 : c = s % 4
    OBVIOUS
  <2>2. 4^c = 2^(2*c)
    BY FourIsTwoTwos
  <2>5. PICK k \in 0..7 : k = 2*c
    OBVIOUS
  <2>6. z \div 2^k \in Int
    BY PowerPositive
  <2>3. PICK w \in Int : w = z \div 2^(2*c)
    BY <2>5, <2>6
  <2>4. w % 4 \in 0..3
    OBVIOUS
  <2> QED BY <1>3, <2>1, <2>2, <2>3, <2>4 DEF TopSix
<1>7. PICK i : i = W*s + l
  OBVIOUS
<1>8. i \in 0..Q - 1 /\ i \div W = s /\ i % W = l
  BY <1>1, <1>7 DEF SixPlaces
<1>9. Sixes(x)[i] = LowSix(x, i \div W, i % W) + 16 * TopSix(x, i \div W, i % W)
  BY <1>8 DEF Sixes
<1> QED BY <1>5, <1>6, <1>7, <1>8, <1>9

\* Every place is one of a sub-block
LEMMA EveryPlace ==
  ASSUME NEW i \in 0..Q - 1
  PROVE  \E s \in 0..7 : \E l \in 0..W - 1 : i = W*s + l /\ i \div W = s /\ i % W = l
<1>1. PICK m : Eighths(m)
  BY WidthInEighths
<1>2. W \in Nat \ {0} /\ Q = 8*W
  BY <1>1 DEF Eighths
<1>3. PICK s \in Int, l \in 0..W - 1 : i = s*W + l /\ i % W = l /\ i \div W = s
  BY <1>2, DivMod
<1>4. s \in 0..7
  <2>1. ~(s <= -1)
    <3> SUFFICES ASSUME s <= -1 PROVE FALSE
      OBVIOUS
    <3>1. s*W <= (-1)*W
      BY <1>2, Increasing
    <3>2. PICK x \in Int : x = s*W
      BY <1>2
    <3> QED BY <1>2, <1>3, <3>1, <3>2
  <2>2. ~(8 <= s)
    <3> SUFFICES ASSUME 8 <= s PROVE FALSE
      OBVIOUS
    <3>1. 8*W <= s*W
      BY <1>2, Increasing
    <3>2. PICK x \in Int : x = s*W
      BY <1>2
    <3> QED BY <1>2, <1>3, <3>1, <3>2
  <2> QED BY <2>1, <2>2
<1>5. s*W = W*s
  BY <1>2
<1> QED BY <1>3, <1>4, <1>5

LEMMA Q6Small ==
  ASSUME NEW x, NEW y, Q6Blocks(x, y)
  PROVE  Small(Sixes(x), y.qs, Q) /\ Numbers(x.scales, 16)
<1>1. ASSUME NEW i \in 0..Q - 1 PROVE Sixes(x)[i] \in 0..128 /\ y.qs[i] \in -127..127
  <2>1. PICK s \in 0..7 : \E l \in 0..W - 1 : i = W*s + l
    BY EveryPlace
  <2>2. PICK l \in 0..W - 1 : i = W*s + l
    BY <2>1
  <2>3. PICK a \in 0..15 : a = LowSix(x, s, l)
    BY SixParts DEF Q6Blocks
  <2>4. PICK b \in 0..3 : b = TopSix(x, s, l)
    BY SixParts DEF Q6Blocks
  <2>5. Sixes(x)[i] = a + 16*b
    <3>1. Sixes(x)[W*s + l] = LowSix(x, s, l) + 16 * TopSix(x, s, l)
      BY SixParts DEF Q6Blocks
    <3> QED BY <2>2, <2>3, <2>4, <3>1
  <2>6. a + 16*b \in 0..128
    OBVIOUS
  <2> QED BY <2>5, <2>6 DEF Q6Blocks, Quantised
<1> QED BY <1>1 DEF Small, Q6Blocks

\* Half j, quarter c of it: a sub-block
LEMMA FourInHalf ==
  ASSUME NEW j \in 0..1, NEW c \in 0..3
  PROVE  /\ 4*j + c \in 0..7 /\ (4*j + c) \div 4 = j /\ (4*j + c) % 4 = c
         /\ (4*j + c) % 2 = c % 2 /\ c % 2 \in 0..1
OBVIOUS

LEMMA WideSixes ==
  ASSUME NEW x, IsBytes(x.ql, 4*W), IsBytes(x.qh, 2*W), NEW j \in 0..1, NEW c \in 0..3
  PROVE  LET q == Load(x.ql, 2*W*j + W * (c % 2), W)
             w == Join(IF c < 2 THEN LowBits(q, 4) ELSE HighNibbles(q),
                       TopBits(Load(x.qh, W*j, W), 2*c))
         IN  Holds(w, Sixes(x), W, 4*j + c)
<1>1. PICK e, f, q, r : /\ e = 2*W*j + W * (c % 2) /\ q = Load(x.ql, 2*W*j + W * (c % 2), W)
                        /\ f = W*j /\ r = Load(x.qh, W*j, W)
  OBVIOUS
<1>2. PICK s : s = 4*j + c
  OBVIOUS
<1>3. s \in 0..7 /\ s \div 4 = j /\ s % 4 = c /\ s % 2 = c % 2
  BY <1>2, FourInHalf
<1>4. PICK t, u : t = 4*W /\ u = 2*W
  OBVIOUS
<1>5. /\ e \in Nat /\ t \in Nat /\ e + W <= t /\ f \in Nat /\ u \in Nat /\ f + W <= u
      /\ IsBytes(x.ql, t) /\ IsBytes(x.qh, u)
  <2>1. j = 0 \/ j = 1
    OBVIOUS
  <2>2. c % 2 = 0 \/ c % 2 = 1
    OBVIOUS
  <2>3. e \in Nat /\ e + W <= t
    BY <1>1, <1>4, <2>1, <2>2, WidthsAreEven
  <2>4. t \in Nat /\ f \in Nat /\ u \in Nat /\ f + W <= u
    BY <1>1, <1>4, <2>1, WidthsAreEven
  <2> QED BY <1>4, <2>3, <2>4
<1>6. IsBytes(q, W) /\ \A l \in 0..W - 1 : q[l] = x.ql[e + l]
  <2>1. q = Load(x.ql, e, W) /\ W \in Nat
    BY <1>1, WidthsAreEven
  <2> QED BY <1>5, <2>1, BytesLoaded
<1>7. IsBytes(r, W) /\ \A l \in 0..W - 1 : r[l] = x.qh[f + l]
  <2>1. r = Load(x.qh, f, W) /\ W \in Nat
    BY <1>1, WidthsAreEven
  <2> QED BY <1>5, <2>1, BytesLoaded
<1>8. /\ DOMAIN LowBits(q, 4) = 0..W - 1 /\ DOMAIN HighNibbles(q) = 0..W - 1
      /\ \A l \in 0..W - 1 : LowBits(q, 4)[l] = q[l] % 16 /\ HighNibbles(q)[l] = q[l] \div 16
  BY <1>6, WidthsAreEven, LowNibbles, HighNibblesAre
<1>9. 4^c = 2^(2*c) /\ 2*c \in {0, 2, 4, 6}
  BY FourIsTwoTwos
<1>10. /\ DOMAIN TopBits(r, 2*c) = 0..W - 1
       /\ \A l \in 0..W - 1 : TopBits(r, 2*c)[l] = 16 * ((r[l] \div 4^c) % 4)
  <2>1. PICK k \in {0, 2, 4, 6} : k = 2*c
    BY <1>9
  <2>2. /\ DOMAIN TopBits(r, k) = 0..W - 1
        /\ \A l \in 0..W - 1 : TopBits(r, k)[l] = 16 * ((r[l] \div 2^k) % 4)
    BY <1>7, WidthsAreEven, TopBitsAre
  <2> QED BY <1>9, <2>1, <2>2
<1> DEFINE low == IF c < 2 THEN LowBits(q, 4) ELSE HighNibbles(q)
           w == Join(low, TopBits(r, 2*c))
<1>11. ASSUME NEW l \in 0..W - 1 PROVE w[l] = Sixes(x)[W*s + l]
  <2>1. Sixes(x)[W*s + l] = LowSix(x, s, l) + 16 * TopSix(x, s, l)
    BY <1>3, SixParts
  <2>2. low[l] = LowSix(x, s, l) /\ DOMAIN low = 0..W - 1
    BY <1>1, <1>3, <1>6, <1>8 DEF LowSix
  <2>3. TopBits(r, 2*c)[l] = 16 * TopSix(x, s, l)
    BY <1>1, <1>3, <1>7, <1>10 DEF TopSix
  <2> HIDE DEF low
  <2>4. w[l] = low[l] + TopBits(r, 2*c)[l]
    BY <2>2 DEF Join, Lanes
  <2> QED BY <2>1, <2>2, <2>3, <2>4
<1> QED BY <1>1, <1>2, <1>11 DEF Holds

\* A run of H of half j: its place in sub-blocks
HalfSixPlaces(j, c, l) ==
  /\ H*(c % 2) + l \in 0..W - 1
  /\ W*(4*j + c \div 2) + (H*(c % 2) + l) = H*(8*j + c) + l
  /\ 2*W*j + W*((c \div 2) % 2) + (H*(c % 2) + l) = (2*W*j + H*(c % 4)) + l
  /\ W*j + (H*(c % 2) + l) = (W*j + H*(c % 2)) + l
  /\ 2*W*j + H*(c % 4) \in Nat /\ (2*W*j + H*(c % 4)) + H <= 4*W
  /\ W*j + H*(c % 2) \in Nat /\ (W*j + H*(c % 2)) + H <= 2*W
  /\ c \div 2 \in 0..3 /\ (c < 4 <=> c \div 2 < 2)
  /\ 4*j + c \div 2 \in 0..7 /\ (4*j + c \div 2) \div 4 = j /\ (4*j + c \div 2) % 4 = c \div 2
  /\ (4*j + c \div 2) % 2 = (c \div 2) % 2

LEMMA HalfSixPlacesAre ==
  ASSUME NEW j \in 0..1, NEW c \in 0..7, NEW l \in 0..H - 1
  PROVE  HalfSixPlaces(j, c, l)
<1>1. H \in Nat /\ W = 2*H
  BY WidthsAreEven
<1>2. j = 0 \/ j = 1
  OBVIOUS
<1>3. c = 0 \/ c = 1 \/ c = 2 \/ c = 3 \/ c = 4 \/ c = 5 \/ c = 6 \/ c = 7
  OBVIOUS
<1>4. PICK h \in 0..3, a \in 0..1, d \in 0..3, b \in 0..1 :
        h = c \div 2 /\ a = c % 2 /\ d = c % 4 /\ b = (c \div 2) % 2
  OBVIOUS
<1>5. c = 2*h + a /\ d = 2*b + a /\ (c < 4 <=> h < 2)
  BY <1>4
<1>6. a = 0 \/ a = 1
  OBVIOUS
<1>7. b = 0 \/ b = 1
  OBVIOUS
<1>8. H*a + l \in 0..W - 1
  BY <1>1, <1>6
<1>9. W*(4*j + h) + (H*a + l) = H*(8*j + c) + l
  <2>1. h = 0 \/ h = 1 \/ h = 2 \/ h = 3
    OBVIOUS
  <2> QED BY <1>1, <1>2, <1>5, <1>6, <2>1
<1>10. 2*W*j + W*b + (H*a + l) = (2*W*j + H*d) + l
  BY <1>1, <1>2, <1>5, <1>6, <1>7
<1>11. W*j + (H*a + l) = (W*j + H*a) + l
  BY <1>1, <1>2, <1>6
<1>12. 2*W*j + H*d \in Nat /\ (2*W*j + H*d) + H <= 4*W
  BY <1>1, <1>2, <1>5, <1>6, <1>7
<1>13. W*j + H*a \in Nat /\ (W*j + H*a) + H <= 2*W
  BY <1>1, <1>2, <1>6
<1>14. 4*j + h \in 0..7 /\ (4*j + h) \div 4 = j /\ (4*j + h) % 4 = h /\ (4*j + h) % 2 = h % 2
  BY FourInHalf
<1> QED BY <1>4, <1>5, <1>8, <1>9, <1>10, <1>11, <1>12, <1>13, <1>14 DEF HalfSixPlaces

\* A half register with the fields of its run apart
HalfSixes(x, q, r, j, c) ==
  /\ IsBytes(q, H) /\ IsBytes(r, H)
  /\ \A l \in 0..H - 1 :
       /\ LowSix(x, 4*j + c \div 2, H*(c % 2) + l) = (IF c < 4 THEN q[l] % 16 ELSE q[l] \div 16)
       /\ TopSix(x, 4*j + c \div 2, H*(c % 2) + l) = (r[l] \div 4^(c \div 2)) % 4
       /\ Sixes(x)[H*(8*j + c) + l] = LowSix(x, 4*j + c \div 2, H*(c % 2) + l)
                                      + 16 * TopSix(x, 4*j + c \div 2, H*(c % 2) + l)

LEMMA HalfSixesAre ==
  ASSUME NEW x, IsBytes(x.ql, 4*W), IsBytes(x.qh, 2*W), NEW j \in 0..1, NEW c \in 0..7
  PROVE  HalfSixes(x, Load(x.ql, 2*W*j + H*(c % 4), H), Load(x.qh, W*j + H*(c % 2), H), j, c)
<1>1. PICK e, f, t, u : e = 2*W*j + H*(c % 4) /\ f = W*j + H*(c % 2) /\ t = 4*W /\ u = 2*W
  OBVIOUS
<1>2. W \in Nat /\ H \in Nat /\ 0 \in 0..H - 1 /\ t \in Nat /\ u \in Nat
  <2>1. PICK m : Eighths(m)
    BY WidthInEighths
  <2> QED BY <1>1, <2>1 DEF Eighths
<1>3. e \in Nat /\ e + H <= t /\ f \in Nat /\ f + H <= u
  BY <1>1, <1>2, HalfSixPlacesAre DEF HalfSixPlaces
<1>4. PICK q, r : q = Load(x.ql, e, H) /\ r = Load(x.qh, f, H)
  OBVIOUS
<1>5. IsBytes(x.ql, t) /\ IsBytes(x.qh, u)
  BY <1>1
<1>6. IsBytes(q, H) /\ \A l \in 0..H - 1 : q[l] = x.ql[e + l]
  BY <1>2, <1>3, <1>4, <1>5, BytesLoaded
<1>7. IsBytes(r, H) /\ \A l \in 0..H - 1 : r[l] = x.qh[f + l]
  BY <1>2, <1>3, <1>4, <1>5, BytesLoaded
<1>8. ASSUME NEW l \in 0..H - 1
      PROVE  LET s == 4*j + c \div 2  i == H*(c % 2) + l
             IN  /\ LowSix(x, s, i) = (IF c < 4 THEN q[l] % 16 ELSE q[l] \div 16)
                 /\ TopSix(x, s, i) = (r[l] \div 4^(c \div 2)) % 4
                 /\ Sixes(x)[H*(8*j + c) + l] = LowSix(x, s, i) + 16 * TopSix(x, s, i)
  <2>1. HalfSixPlaces(j, c, l)
    BY HalfSixPlacesAre
  <2>2. PICK s, i, h : s = 4*j + c \div 2 /\ i = H*(c % 2) + l /\ h = c \div 2
    OBVIOUS
  <2>3. /\ s \in 0..7 /\ i \in 0..W - 1 /\ s \div 4 = j /\ s % 4 = h /\ s % 2 = h % 2
        /\ W*s + i = H*(8*j + c) + l /\ (c < 4 <=> h < 2)
        /\ 2*W*j + W*(h % 2) + i = e + l /\ W*j + i = f + l
    BY <1>1, <2>1, <2>2 DEF HalfSixPlaces
  <2>4. Sixes(x)[W*s + i] = LowSix(x, s, i) + 16 * TopSix(x, s, i)
    BY <2>3, SixParts
  <2>5. LowSix(x, s, i) = IF h < 2 THEN x.ql[e + l] % 16 ELSE x.ql[e + l] \div 16
    BY <2>3 DEF LowSix
  <2>6. TopSix(x, s, i) = (x.qh[f + l] \div 4^h) % 4
    BY <2>3 DEF TopSix
  <2> QED BY <1>6, <1>7, <2>2, <2>3, <2>4, <2>5, <2>6
<1> QED BY <1>1, <1>4, <1>6, <1>7, <1>8 DEF HalfSixes

\* In registers of H, shifted in pairs of bytes or alone
LEMMA HalfSixRegisters ==
  ASSUME NEW x, NEW j \in 0..1, NEW c \in 0..7, NEW q, NEW r, HalfSixes(x, q, r, j, c)
  PROVE  /\ Holds(Join(IF c < 4 THEN LowBits(q, 4) ELSE HighNibbles(q),
                       TopBits(r, 2 * (c \div 2))), Sixes(x), H, 8*j + c)
         /\ Holds(Join(IF c < 4 THEN LowBits(q, 4) ELSE Srl(q, 1, 4),
                       Sll(LowBits(Srl(r, 1, 2 * (c \div 2)), 2), 1, 4)), Sixes(x), H, 8*j + c)
<1>1. IsBytes(q, H) /\ IsBytes(r, H) /\ H \in Nat /\ H % 2 = 0
  BY WidthsAreEven DEF HalfSixes
<1>2. /\ DOMAIN LowBits(q, 4) = 0..H - 1 /\ DOMAIN HighNibbles(q) = 0..H - 1
      /\ \A l \in 0..H - 1 : LowBits(q, 4)[l] = q[l] % 16 /\ HighNibbles(q)[l] = q[l] \div 16
  BY <1>1, LowNibbles, HighNibblesAre
<1>3. DOMAIN Srl(q, 1, 4) = 0..H - 1 /\ \A l \in 0..H - 1 : Srl(q, 1, 4)[l] = q[l] \div 16
  <2>1. PICK k : k = 4
    OBVIOUS
  <2>3. k \in 0..7 /\ 2^4 = 16
    BY <2>1
  <2>2. /\ DOMAIN Srl(q, 1, k) = 0..H - 1
        /\ \A l \in 0..H - 1 : Srl(q, 1, k)[l] = q[l] \div 2^k
    BY <1>1, <2>3, Srl1Is
  <2> QED BY <2>1, <2>2, <2>3
<1>4. PICK d \in 0..3 : d = c \div 2
  OBVIOUS
<1>5. 4^d = 2^(2*d) /\ 2*d \in {0, 2, 4, 6}
  BY FourIsTwoTwos
<1>6. PICK k \in {0, 2, 4, 6} : k = 2*d
  BY <1>5
<1>7. /\ DOMAIN TopBits(r, k) = 0..H - 1
      /\ \A l \in 0..H - 1 : TopBits(r, k)[l] = 16 * ((r[l] \div 2^k) % 4)
  BY <1>1, TopBitsAre
<1>8. PICK v, t : v = Srl(r, 1, k) /\ t = LowBits(v, 2)
  OBVIOUS
<1>9. DOMAIN v = 0..H - 1 /\ \A l \in 0..H - 1 : v[l] = r[l] \div 2^k /\ v[l] \in 0..255
  <2>1. PICK n \in 0..7 : n = k
    OBVIOUS
  <2>2. /\ DOMAIN Srl(r, 1, n) = 0..H - 1
        /\ \A l \in 0..H - 1 : Srl(r, 1, n)[l] = r[l] \div 2^n /\ Srl(r, 1, n)[l] \in 0..255
    BY <1>1, Srl1Is
  <2> QED BY <1>8, <2>1, <2>2
<1>10. DOMAIN t = 0..H - 1 /\ \A l \in 0..H - 1 : t[l] = v[l] % 4 /\ t[l] \in 0..3
  <2>1. 2^2 = 4
    OBVIOUS
  <2>2. DOMAIN t = 0..H - 1 /\ \A l \in 0..H - 1 : t[l] = v[l] % 4
    BY <1>8, <1>9, <2>1 DEF LowBits, Lanes
  <2>3. ASSUME NEW l \in 0..H - 1 PROVE t[l] \in 0..3
    <3>1. PICK z \in 0..255 : z = v[l]
      BY <1>9
    <3>2. z % 4 \in 0..3
      OBVIOUS
    <3> QED BY <2>2, <3>1, <3>2
  <2> QED BY <2>2, <2>3
<1>11. PICK o : o = 1
  OBVIOUS
<1>12. DOMAIN Sll(t, o, 4) = 0..H - 1 /\ \A l \in 0..H - 1 : Sll(t, o, 4)[l] = 16 * t[l]
  <2>1. o \in Nat \ {0}
    BY <1>11
  <2>2. \A l \in 0..H - 1 : t[l] \in 0..3
    BY <1>10
  <2> QED BY <1>1, <1>10, <2>1, <2>2, MovedUp
<1>13. \A l \in 0..H - 1 : /\ TopBits(r, k)[l] = 16 * ((r[l] \div 4^d) % 4)
                           /\ Sll(t, 1, 4)[l] = 16 * ((r[l] \div 4^d) % 4)
  BY <1>5, <1>6, <1>7, <1>9, <1>10, <1>11, <1>12
<1> DEFINE low == IF c < 4 THEN LowBits(q, 4) ELSE HighNibbles(q)
           one == IF c < 4 THEN LowBits(q, 4) ELSE Srl(q, 1, 4)
<1>14. /\ DOMAIN low = 0..H - 1 /\ DOMAIN one = 0..H - 1
       /\ \A l \in 0..H - 1 : /\ low[l] = (IF c < 4 THEN q[l] % 16 ELSE q[l] \div 16)
                              /\ one[l] = (IF c < 4 THEN q[l] % 16 ELSE q[l] \div 16)
  BY <1>2, <1>3
<1> HIDE DEF low, one
<1>15. ASSUME NEW l \in 0..H - 1
       PROVE  /\ Join(low, TopBits(r, k))[l] = Sixes(x)[H*(8*j + c) + l]
              /\ Join(one, Sll(t, 1, 4))[l] = Sixes(x)[H*(8*j + c) + l]
  <2>1. Sixes(x)[H*(8*j + c) + l] = low[l] + 16 * ((r[l] \div 4^d) % 4)
    BY <1>4, <1>14 DEF HalfSixes
  <2>2. low[l] = one[l]
    BY <1>14
  <2>3. /\ Join(low, TopBits(r, k))[l] = low[l] + TopBits(r, k)[l]
        /\ Join(one, Sll(t, 1, 4))[l] = one[l] + Sll(t, 1, 4)[l]
    BY <1>14 DEF Join, Lanes
  <2> QED BY <1>13, <2>1, <2>2, <2>3
<1>16. /\ Holds(Join(low, TopBits(r, k)), Sixes(x), H, 8*j + c)
       /\ Holds(Join(one, Sll(t, 1, 4)), Sixes(x), H, 8*j + c)
  BY <1>15 DEF Holds
<1> QED BY <1>4, <1>6, <1>8, <1>16 DEF low, one

-----------------------------------------------------------------------------
(* Sixteen runs, each under a scale.                                       *)

SixteenTerms(g, c, p) == \A k \in 0..15 : g[k] = c[k] * Sub(p, H, k)

LEMMA Sixteen ==
  ASSUME NEW p, Parts(p), NEW c, Numbers(c, 16), NEW g, SixteenTerms(g, c, p)
  PROVE  Numbers(g, 16) /\ Total(g, 16) = SumOf(c, p, H, 16)
<1> DEFINE h == [k \in 0..16 - 1 |-> c[k] * Sub(p, H, k)]
<1>1. SumOf(c, p, H, 16) = Total(h, 16)
  BY DEF SumOf
<1>2. ASSUME NEW k \in 0..16 - 1 PROVE h[k] = g[k] /\ h[k] \in Int
  <2>1. k \in 0..15
    OBVIOUS
  <2>2. h[k] = c[k] * Sub(p, H, k)
    OBVIOUS
  <2>3. PICK a \in Int, b \in Int : a = c[k] /\ b = Sub(p, H, k)
    BY <2>1 DEF Parts, Numbers
  <2> HIDE DEF h
  <2> QED BY <2>1, <2>2, <2>3 DEF SixteenTerms
<1> HIDE DEF h
<1>3. Numbers(h, 16) /\ Numbers(g, 16)
  BY <1>2 DEF Numbers
<1>4. Total(h, 16) = Total(g, 16)
  BY <1>2, <1>3, TotalsAgree
<1> QED BY <1>1, <1>3, <1>4

LEMMA EightsOf ==
  ASSUME NEW k \in 0..15
  PROVE  k \div 8 \in 0..1 /\ k % 8 \in 0..7 /\ 8 * (k \div 8) + (k % 8) = k
OBVIOUS

\* A version's result for Q6_K
IsProduct6(r, x, y) ==
  /\ r.isum = SumOf(x.scales, Products(Sixes(x), y.qs, Q), H, 16) - 32 * BsumMins(x, y)
  /\ r.mins = 0

\* Versions with registers of H
LEMMA HalfProduct6 ==
  ASSUME NEW v, NEW q, Small(v, q, Q), NEW c, Numbers(c, 16), NEW isa \in Isas, NEW w,
         \A k \in 0..15 : Holds(w[k], v, H, k),
         NEW g, \A k \in 0..15 :
           g[k] = ScaledDot(isa, w[k], Load(q, 4*W*(k \div 8) + H*(k % 8), H), H,
                            c[8*(k \div 8) + (k % 8)])
  PROVE  Total(g, 16) = SumOf(c, Products(v, q, Q), H, 16)
<1> DEFINE p == Products(v, q, Q)
<1>1. ASSUME NEW k \in 0..15 PROVE g[k] = c[k] * Sub(p, H, k)
  <2>1. PICK j \in 0..1, i \in 0..7 : j = k \div 8 /\ i = k % 8 /\ 8*j + i = k
    BY EightsOf
  <2>2. PICK e, r : e = 4*W*j + H*i /\ r = w[k]
    OBVIOUS
  <2>3. e = H*k
    <3>1. j = 0 \/ j = 1
      OBVIOUS
    <3>2. H \in Nat /\ W = 2*H
      BY WidthsAreEven
    <3> QED BY <2>1, <2>2, <3>1, <3>2
  <2>4. Holds(r, v, H, k)
    BY <2>2
  <2>5. Hsum(Dot(isa, r, Load(q, e, H), H), H \div 4) = Sub(p, H, k)
    BY <2>3, <2>4, HalfDot
  <2>6. g[k] = ScaledDot(isa, r, Load(q, e, H), H, c[k])
    BY <2>1, <2>2
  <2> QED BY <2>5, <2>6 DEF ScaledDot
<1>2. Parts(p)
  BY ProductsAre
<1> HIDE DEF p
<1>3. SixteenTerms(g, c, p)
  BY <1>1 DEF SixteenTerms
<1>4. Total(g, 16) = SumOf(c, p, H, 16)
  BY <1>2, <1>3, Sixteen
<1> QED BY <1>4 DEF p

LEMMA SseQ6KIs ==
  ASSUME NEW x, NEW y, Q6Blocks(x, y)
  PROVE  IsProduct6(SseQ6K(x, y), x, y)
<1> DEFINE q(j, c) == Load(x.ql, 2*W*j + H * (c % 4), H)
           qh(j, c) == Load(x.qh, W*j + H * (c % 2), H)
           six(j, c) == Join(IF c < 4 THEN LowBits(q(j, c), 4) ELSE HighNibbles(q(j, c)),
                             TopBits(qh(j, c), 2 * (c \div 2)))
           chunk(j, c) == ScaledDot("avx1", six(j, c), Load(y.qs, 4*W*j + H*c, H), H, x.scales[8*j + c])
           w == [k \in 0..15 |-> six(k \div 8, k % 8)]
           g == [k \in 0..15 |-> chunk(k \div 8, k % 8)]
           v == Sixes(x)
<1>1. SseQ6K(x, y).isum = Total(g, 16) - 32 * BsumMins(x, y) /\ SseQ6K(x, y).mins = 0
  BY DEF SseQ6K
<1>2. ASSUME NEW k \in 0..15 PROVE Holds(w[k], v, H, k)
  <2>1. PICK j \in 0..1, c \in 0..7 : j = k \div 8 /\ c = k % 8 /\ 8*j + c = k
    BY EightsOf
  <2>2. HalfSixes(x, q(j, c), qh(j, c), j, c)
    BY HalfSixesAre DEF Q6Blocks
  <2>4. w[k] = six(j, c)
    BY <2>1
  <2> HIDE DEF q, qh, w
  <2>3. Holds(six(j, c), v, H, 8*j + c)
    BY <2>2, HalfSixRegisters
  <2> QED BY <2>1, <2>3, <2>4
<1>3. \A k \in 0..15 :
        g[k] = ScaledDot("avx1", w[k], Load(y.qs, 4*W*(k \div 8) + H*(k % 8), H), H,
                         x.scales[8*(k \div 8) + (k % 8)])
  OBVIOUS
<1>4. Small(v, y.qs, Q) /\ Numbers(x.scales, 16) /\ "avx1" \in Isas
  BY Q6Small DEF Isas
<1> HIDE DEF w, g, v
<1>5. Total(g, 16) = SumOf(x.scales, Products(v, y.qs, Q), H, 16)
  BY <1>2, <1>3, <1>4, HalfProduct6
<1> QED BY <1>1, <1>5 DEF IsProduct6, v

LEMMA NeonQ6KIs ==
  ASSUME NEW x, NEW y, Q6Blocks(x, y), NEW isa \in Isas
  PROVE  IsProduct6(NeonQ6K(isa, x, y), x, y)
<1> DEFINE q(j, c) == Load(x.ql, 2*W*j + H * (c % 4), H)
           qh(j, c) == Load(x.qh, W*j + H * (c % 2), H)
           six(j, c) == Join(IF c < 4 THEN LowBits(q(j, c), 4) ELSE Srl(q(j, c), 1, 4),
                             Sll(LowBits(Srl(qh(j, c), 1, 2 * (c \div 2)), 2), 1, 4))
           chunk(j, c) == ScaledDot(isa, six(j, c), Load(y.qs, 4*W*j + H*c, H), H, x.scales[8*j + c])
           w == [k \in 0..15 |-> six(k \div 8, k % 8)]
           g == [k \in 0..15 |-> chunk(k \div 8, k % 8)]
           v == Sixes(x)
<1>1. NeonQ6K(isa, x, y).isum = Total(g, 16) - 32 * BsumMins(x, y) /\ NeonQ6K(isa, x, y).mins = 0
  BY DEF NeonQ6K
<1>2. ASSUME NEW k \in 0..15 PROVE Holds(w[k], v, H, k)
  <2>1. PICK j \in 0..1, c \in 0..7 : j = k \div 8 /\ c = k % 8 /\ 8*j + c = k
    BY EightsOf
  <2>2. HalfSixes(x, q(j, c), qh(j, c), j, c)
    BY HalfSixesAre DEF Q6Blocks
  <2>4. w[k] = six(j, c)
    BY <2>1
  <2> HIDE DEF q, qh, w
  <2>3. Holds(six(j, c), v, H, 8*j + c)
    BY <2>2, HalfSixRegisters
  <2> QED BY <2>1, <2>3, <2>4
<1>3. \A k \in 0..15 :
        g[k] = ScaledDot(isa, w[k], Load(y.qs, 4*W*(k \div 8) + H*(k % 8), H), H,
                         x.scales[8*(k \div 8) + (k % 8)])
  OBVIOUS
<1>4. Small(v, y.qs, Q) /\ Numbers(x.scales, 16)
  BY Q6Small
<1> HIDE DEF w, g, v
<1>5. Total(g, 16) = SumOf(x.scales, Products(v, y.qs, Q), H, 16)
  BY <1>2, <1>3, <1>4, HalfProduct6
<1> QED BY <1>1, <1>5 DEF IsProduct6, v

\* The scalar loop: a run at a time
LEMMA ScalarProduct6 ==
  ASSUME NEW v, NEW q, Small(v, q, Q), NEW c, Numbers(c, 16),
         NEW t, \A k \in 0..15 : \A l \in 0..H - 1 : t[k][l] = v[H*k + l] * q[H*k + l],
         NEW g, \A k \in 0..15 : g[k] = c[k] * Total(t[k], H)
  PROVE  Total(g, 16) = SumOf(c, Products(v, q, Q), H, 16)
<1> DEFINE p == Products(v, q, Q)
<1>1. Parts(p) /\ \A i \in 0..Q - 1 : p[i] = v[i] * q[i]
  BY ProductsAre
<1> HIDE DEF p
<1>2. PICK m : Eighths(m)
  BY WidthInEighths
<1>3. PICK n, a : n = H /\ a = 16
  OBVIOUS
<1>4. n \in Nat /\ a \in Nat /\ n*a = Q /\ Numbers(p, n*a)
  BY <1>1, <1>2, <1>3 DEF Eighths, Parts
<1>5. ASSUME NEW k \in 0..15 PROVE g[k] = c[k] * Sub(p, H, k)
  <2>1. IsSub(p, n, a, k)
    <3>1. k \in 0..a - 1
      BY <1>3
    <3> QED BY <1>4, <3>1, SubIs
  <2>2. /\ Numbers(Load(p, n*k, n), n)
        /\ \A l \in 0..n - 1 : n*k + l \in 0..Q - 1 /\ Load(p, n*k, n)[l] = p[n*k + l]
    BY <1>4, <2>1 DEF IsSub
  <2>3. \A l \in 0..n - 1 : Load(p, n*k, n)[l] = t[k][l]
    BY <1>1, <1>3, <2>2
  <2>4. Total(Load(p, n*k, n), n) = Total(t[k], n)
    BY <1>4, <2>2, <2>3, TotalsAgree
  <2> QED BY <1>3, <2>4 DEF Sub
<1>6. SixteenTerms(g, c, p)
  BY <1>5 DEF SixteenTerms
<1>7. Total(g, 16) = SumOf(c, p, H, 16)
  BY <1>1, <1>6, Sixteen
<1> QED BY <1>7 DEF p

LEMMA ScalarQ6KIs ==
  ASSUME NEW x, NEW y, Q6Blocks(x, y)
  PROVE  IsProduct6(ScalarQ6K(x, y), x, y)
<1> DEFINE weight(j, c, l) ==
             LET b == x.ql[2*W*j + H * (c % 4) + l]
                 h == x.qh[W*j + H * (c % 2) + l] \div 4^(c \div 2)
             IN  (IF c < 4 THEN b % 16 ELSE b \div 16) + 16 * (h % 4)
           t == [k \in 0..15 |-> [l \in 0 .. H - 1 |-> weight(k \div 8, k % 8, l) * y.qs[H * k + l]]]
           g == [k \in 0..15 |-> x.scales[k] * Total(t[k], H)]
           v == Sixes(x)
<1>1. ScalarQ6K(x, y).isum = Total(g, 16) - 32 * BsumMins(x, y) /\ ScalarQ6K(x, y).mins = 0
  <2>1. g = [k \in 0..15 |-> x.scales[k] * Total([l \in 0 .. H - 1 |->
                               weight(k \div 8, k % 8, l) * y.qs[H * k + l]], H)]
    OBVIOUS
  <2> HIDE DEF g
  <2> QED BY <2>1 DEF ScalarQ6K, BsumMins
<1>2. ASSUME NEW k \in 0..15, NEW l \in 0..H - 1
      PROVE  t[k][l] = v[H*k + l] * y.qs[H*k + l]
  <2>1. PICK j \in 0..1, c \in 0..7 : j = k \div 8 /\ c = k % 8 /\ 8*j + c = k
    BY EightsOf
  <2>2. PICK e, f : e = 2*W*j + H*(c % 4) /\ f = W*j + H*(c % 2)
    OBVIOUS
  <2>3. HalfSixes(x, Load(x.ql, e, H), Load(x.qh, f, H), j, c)
    BY <2>2, HalfSixesAre DEF Q6Blocks
  <2>4. Load(x.ql, e, H)[l] = x.ql[e + l] /\ Load(x.qh, f, H)[l] = x.qh[f + l]
    BY DEF Load
  <2>5. v[H*(8*j + c) + l] = (IF c < 4 THEN x.ql[e + l] % 16 ELSE x.ql[e + l] \div 16)
                             + 16 * ((x.qh[f + l] \div 4^(c \div 2)) % 4)
    BY <2>3, <2>4 DEF HalfSixes
  <2>6. weight(j, c, l) = v[H*k + l]
    BY <2>1, <2>2, <2>5
  <2>7. t[k][l] = weight(j, c, l) * y.qs[H*k + l]
    BY <2>1
  <2> HIDE DEF weight, t, v
  <2> QED BY <2>6, <2>7
<1>3. \A k \in 0..15 : g[k] = x.scales[k] * Total(t[k], H)
  OBVIOUS
<1>4. Small(v, y.qs, Q) /\ Numbers(x.scales, 16)
  BY Q6Small
<1> HIDE DEF t, g, v
<1>5. Total(g, 16) = SumOf(x.scales, Products(v, y.qs, Q), H, 16)
  BY <1>2, <1>3, <1>4, ScalarProduct6
<1> QED BY <1>1, <1>5 DEF IsProduct6, v

-----------------------------------------------------------------------------
(* A register of W whose lower lanes are under one scale, the upper under  *)
(* the next.                                                               *)

\* The lanes of each of two halves
LEMMA LanesOfHalves ==
  ASSUME NEW m \in Nat, NEW p, NEW f, FourEach(p, f, 2*m)
  PROVE  /\ Numbers(p, m*2)
         /\ Sub(p, m, 0) = Total(f, 4*m)
         /\ Sub(p, m, 1) = Total(Load(f, 4*m, 4*m), 4*m)
         /\ Total(f, 4*m) \in Int /\ Total(Load(f, 4*m, 4*m), 4*m) \in Int
<1>1. PICK n \in Nat, d \in Nat : n = 2*m /\ d = 4*m
  OBVIOUS
<1>2. m \in 0..n /\ n \in 0..n /\ n = m + m /\ 4*n = d + d /\ m*2 = n /\ 4*m = d
  BY <1>1
<1>3. FourEach(p, f, n)
  BY <1>1
<1>4. Numbers(p, n) /\ Total(p, m) = Total(f, 4*m) /\ Total(p, n) = Total(f, 4*n)
  BY <1>2, <1>3, LanesTotal
<1>5. Numbers(f, 4*n)
  BY <1>3 DEF FourEach
<1>6. /\ Total(p, m) \in Int /\ Total(Load(p, m, m), m) \in Int
      /\ Total(p, m + m) = Total(p, m) + Total(Load(p, m, m), m)
  BY <1>2, <1>4, TotalSplit
<1>7. /\ Total(f, d) \in Int /\ Total(Load(f, d, d), d) \in Int
      /\ Total(f, d + d) = Total(f, d) + Total(Load(f, d, d), d)
  <2>1. Numbers(f, d + d)
    BY <1>2, <1>5
  <2> QED BY <2>1, TotalSplit
<1>8. Total(Load(p, m, m), m) = Total(Load(f, d, d), d)
  <2>1. Total(p, m) = Total(f, d)
    BY <1>2, <1>4
  <2>2. Total(p, m + m) = Total(f, d + d)
    BY <1>2, <1>4
  <2> QED BY <1>6, <1>7, <2>1, <2>2
<1>9. Sub(p, m, 1) = Total(Load(p, m, m), m)
  <2>1. m*1 = m
    OBVIOUS
  <2> QED BY <2>1 DEF Sub
<1>10. Sub(p, m, 0) = Total(p, m)
  <2>1. m*0 = 0
    OBVIOUS
  <2>2. Numbers(p, m)
    BY <1>2, <1>4 DEF Numbers
  <2>3. \A l \in 0..m - 1 : Load(p, 0, m)[l] = p[l]
    BY DEF Load
  <2>4. Total(p, m) = Total(Load(p, 0, m), m)
    BY <2>2, <2>3, TotalsAgree
  <2> QED BY <2>1, <2>4 DEF Sub
<1>11. Numbers(p, m*2)
  BY <1>2, <1>4
<1>12. 4*m = d /\ Total(p, m) = Total(f, 4*m)
  BY <1>2, <1>4
<1> QED BY <1>7, <1>8, <1>9, <1>10, <1>11, <1>12

\* Two runs of m lanes, under two scales
LEMMA TwoRuns ==
  ASSUME NEW m \in Nat, NEW p, Numbers(p, m*2), NEW c, Numbers(c, 2),
         NEW g, \A l \in 0..m*2 - 1 : g[l] = p[l] * c[IF l < m THEN 0 ELSE 1]
  PROVE  Total(g, m*2) = c[0] * Sub(p, m, 0) + c[1] * Sub(p, m, 1)
<1>1. PICK a \in Nat : a = 2
  OBVIOUS
<1>2. PICK n \in Nat : n = m*2
  OBVIOUS
<1>3. c[0] \in Int /\ c[1] \in Int
  BY DEF Numbers
<1>4. ASSUME NEW l \in 0..n - 1 PROVE g[l] \in Int
  <2>1. PICK u \in Int : u = p[l]
    BY <1>2 DEF Numbers
  <2>2. PICK d \in Int : d = c[IF l < m THEN 0 ELSE 1]
    BY <1>3
  <2>3. g[l] = u * d
    BY <1>2, <2>1, <2>2
  <2> QED BY <2>3
<1>5. ASSUME NEW k \in 0..a - 1, NEW l \in 0..m - 1
      PROVE  g[m*k + l] = c[k] * p[m*k + l]
  <2>1. k = 0 \/ k = 1
    BY <1>1
  <2>2. PICK i : i = m*k + l
    OBVIOUS
  <2>3. i \in 0..n - 1 /\ k = (IF i < m THEN 0 ELSE 1)
    BY <1>2, <2>1, <2>2
  <2>4. g[i] = p[i] * c[k]
    BY <1>2, <2>3
  <2>5. p[i] \in Int /\ c[k] \in Int
    BY <1>2, <1>3, <2>1, <2>3 DEF Numbers
  <2>6. p[i] * c[k] = c[k] * p[i]
    BY <2>5
  <2> QED BY <2>2, <2>4, <2>6
<1>6. UnderFactors(g, m, a, c, p)
  BY <1>5 DEF UnderFactors
<1> DEFINE h == [k \in 0..a - 1 |-> c[k] * Sub(p, m, k)]
<1>7. \A k \in 0..a - 1 : h[k] = c[k] * Sub(p, m, k)
  OBVIOUS
<1>8. h[0] = c[0] * Sub(p, m, 0) /\ h[1] = c[1] * Sub(p, m, 1)
  BY <1>1
<1> HIDE DEF h
<1>9. Numbers(p, m*a) /\ Numbers(g, m*a) /\ Numbers(c, a)
  BY <1>1, <1>2, <1>4 DEF Numbers
<1>10. Numbers(h, a) /\ Total(g, m*a) = Total(h, a)
  BY <1>6, <1>7, <1>9, TotalOfRuns
<1>11. Total(h, 2) = h[0] + h[1]
  BY <1>1, <1>10, TotalOfTwo
<1> QED BY <1>1, <1>8, <1>10, <1>11

\* The lanes of a register's dot product, each with four of the row's products
LEMMA RegisterLanes ==
  ASSUME NEW v, NEW q, Small(v, q, Q), NEW s \in 0..7, NEW e, e = W*s, NEW r, Holds(r, v, W, s),
         NEW isa \in {"avx2", "avxvnni"}, NEW m, Eighths(m)
  PROVE  /\ FourEach(Dot(isa, r, Load(q, e, W), W), Products(r, Load(q, e, W), W), 2*m)
         /\ \A l \in 0..W - 1 :
              Products(r, Load(q, e, W), W)[l] = Load(Products(v, q, Q), W*s, W)[l]
<1>1. PICK n, a, d : n = W /\ a = 8 /\ d = 2*m
  OBVIOUS
<1>2. d \in Nat /\ n = 4*d /\ a \in Nat /\ n*a = Q /\ n \in Nat
  BY <1>1 DEF Eighths
<1>3. InRows(Q, n, a) /\ s \in 0..a - 1 /\ e = n*s /\ Holds(r, v, n, s) /\ isa \in Isas
  BY <1>1, <1>2 DEF InRows, Isas
<1>4. PICK b : b = Load(q, e, n)
  OBVIOUS
<1>5. /\ Small(r, b, n)
      /\ \A l \in 0..n - 1 : Products(r, b, n)[l] = Load(Products(v, q, Q), n*s, n)[l]
  BY <1>3, <1>4, RegisterDot
<1>6. Small(r, b, 4*d)
  BY <1>2, <1>5
<1>7. FourEach(MaddDot(r, b, 4*d), Products(r, b, 4*d), d)
  BY <1>2, <1>6, MaddLanes
<1>8. FourEach(FourDot(r, b, 4*d), Products(r, b, 4*d), d)
  <2>1. Numbers(Products(r, b, 4*d), 4*d)
    BY <1>7 DEF FourEach
  <2> QED BY <1>2, <2>1, FourLanes
<1>9. FourEach(Dot(isa, r, b, n), Products(r, b, n), d)
  BY <1>2, <1>7, <1>8 DEF Dot
<1> QED BY <1>1, <1>4, <1>5, <1>9

\* The two halves of a sub-block's products
LEMMA HalvesOfRun ==
  ASSUME NEW p, Parts(p), NEW s \in 0..7, NEW f, \A l \in 0..W - 1 : f[l] = Load(p, W*s, W)[l]
  PROVE  Total(f, H) = Sub(p, H, 2*s) /\ Total(Load(f, H, H), H) = Sub(p, H, 2*s + 1)
<1>1. PICK m : Eighths(m)
  BY WidthInEighths
<1>2. H \in Nat /\ W = 2*H /\ Q = H*16
  BY <1>1 DEF Eighths
<1>3. H*(2*s) = W*s /\ H*(2*s + 1) = W*s + H
  BY <1>2
<1>4. PICK n, a : n = H /\ a = 16
  OBVIOUS
<1>5. n \in Nat /\ a \in Nat /\ Numbers(p, n*a) /\ 2*s \in 0..a - 1 /\ 2*s + 1 \in 0..a - 1
  BY <1>2, <1>4 DEF Parts
<1>6. IsSub(p, n, a, 2*s) /\ IsSub(p, n, a, 2*s + 1)
  BY <1>5, SubIs
<1>7. PICK e, g : e = W*s /\ g = W*s + H
  OBVIOUS
<1>8. \A l \in 0..H - 1 : l \in 0..W - 1 /\ H + l \in 0..W - 1
  BY <1>2
<1>9. \A l \in 0..W - 1 : f[l] = p[e + l]
  BY <1>7 DEF Load
<1>10. e \in Int /\ g = e + H
  <2>1. W \in Int
    BY <1>2
  <2> QED BY <1>7, <2>1
<1>11. Total(f, H) = Sub(p, H, 2*s)
  <2>1. Numbers(Load(p, e, H), H)
    BY <1>3, <1>4, <1>6, <1>7 DEF IsSub
  <2>2. \A l \in 0..H - 1 : Load(p, e, H)[l] = f[l]
    BY <1>8, <1>9 DEF Load
  <2>3. Total(Load(p, e, H), H) = Total(f, H)
    BY <1>2, <2>1, <2>2, TotalsAgree
  <2> QED BY <1>3, <1>7, <2>3 DEF Sub
<1>12. Total(Load(f, H, H), H) = Sub(p, H, 2*s + 1)
  <2>1. Numbers(Load(p, g, H), H)
    BY <1>3, <1>4, <1>6, <1>7 DEF IsSub
  <2>2. ASSUME NEW l \in 0..H - 1 PROVE Load(p, g, H)[l] = Load(f, H, H)[l]
    <3>1. Load(p, g, H)[l] = p[g + l] /\ Load(f, H, H)[l] = f[H + l]
      BY DEF Load
    <3>2. e + (H + l) = g + l
      BY <1>2, <1>10
    <3> QED BY <1>8, <1>9, <3>1, <3>2
  <2>3. Total(Load(p, g, H), H) = Total(Load(f, H, H), H)
    BY <1>2, <2>1, <2>2, TotalsAgree
  <2> QED BY <1>3, <1>7, <2>3 DEF Sub
<1> QED BY <1>11, <1>12

AvxChunk(isa, r, b, c, s) ==
  LET p == Dot(isa, r, b, W)
      n == W \div 4
  IN  Total([l \in 0 .. n - 1 |-> p[l] * c[2*s + (IF 2*l < n THEN 0 ELSE 1)]], n)

LEMMA AvxChunkIs ==
  ASSUME NEW v, NEW q, Small(v, q, Q), NEW s \in 0..7, NEW e, e = W*s, NEW r, Holds(r, v, W, s),
         NEW isa \in {"avx2", "avxvnni"}, NEW c, Numbers(c, 16)
  PROVE  AvxChunk(isa, r, Load(q, e, W), c, s)
           = c[2*s] * Sub(Products(v, q, Q), H, 2*s)
             + c[2*s + 1] * Sub(Products(v, q, Q), H, 2*s + 1)
<1>1. PICK m : Eighths(m)
  BY WidthInEighths
<1>2. PICK p, f : /\ p = Dot(isa, r, Load(q, e, W), W) /\ f = Products(r, Load(q, e, W), W)
  OBVIOUS
<1>3. FourEach(p, f, 2*m) /\ \A l \in 0..W - 1 : f[l] = Load(Products(v, q, Q), W*s, W)[l]
  BY <1>1, <1>2, RegisterLanes
<1>4. Parts(Products(v, q, Q))
  BY ProductsAre
<1>5. /\ Total(f, H) = Sub(Products(v, q, Q), H, 2*s)
      /\ Total(Load(f, H, H), H) = Sub(Products(v, q, Q), H, 2*s + 1)
  BY <1>3, <1>4, HalvesOfRun
<1>6. m \in Nat /\ H = 4*m /\ W \div 4 = 2*m /\ m*2 = 2*m
  <2>1. m \in Nat /\ W = 8*m /\ H = 4*m
    BY <1>1 DEF Eighths
  <2>2. PICK d \in Nat : d = 2*m
    BY <2>1
  <2>3. W = 4*d
    BY <2>1, <2>2
  <2>4. (4*d) \div 4 = d
    BY Quarter
  <2> QED BY <2>1, <2>2, <2>3, <2>4
<1>7. /\ Numbers(p, m*2) /\ Sub(p, m, 0) = Total(f, H) /\ Sub(p, m, 1) = Total(Load(f, H, H), H)
  BY <1>3, <1>6, LanesOfHalves
<1> DEFINE d == [k \in 0..1 |-> IF k = 0 THEN c[2*s] ELSE c[2*s + 1]]
           g == [l \in 0..(2*m) - 1 |-> p[l] * c[2*s + (IF 2*l < 2*m THEN 0 ELSE 1)]]
<1>8. d[0] = c[2*s] /\ d[1] = c[2*s + 1]
  OBVIOUS
<1>9. Numbers(d, 2)
  <2>1. 2*s \in 0..16 - 1 /\ 2*s + 1 \in 0..16 - 1
    OBVIOUS
  <2>2. c[2*s] \in Int /\ c[2*s + 1] \in Int
    BY <2>1 DEF Numbers
  <2> QED BY <2>2 DEF Numbers
<1>10. \A l \in 0..m*2 - 1 : g[l] = p[l] * d[IF l < m THEN 0 ELSE 1]
  <2>1. ASSUME NEW l \in 0..m*2 - 1 PROVE g[l] = p[l] * d[IF l < m THEN 0 ELSE 1]
    <3>1. l \in 0..(2*m) - 1
      BY <1>6
    <3>2. g[l] = p[l] * c[2*s + (IF 2*l < 2*m THEN 0 ELSE 1)]
      BY <3>1
    <3>3. 2*l < 2*m <=> l < m
      BY <1>6, <3>1
    <3>4. 2*s + 0 = 2*s
      OBVIOUS
    <3> HIDE DEF g, d
    <3> QED BY <1>8, <3>2, <3>3, <3>4
  <2> QED BY <2>1
<1>11. AvxChunk(isa, r, Load(q, e, W), c, s) = Total(g, m*2)
  BY <1>2, <1>6 DEF AvxChunk
<1> HIDE DEF g, d
<1>12. Total(g, m*2) = d[0] * Sub(p, m, 0) + d[1] * Sub(p, m, 1)
  BY <1>6, <1>7, <1>9, <1>10, TwoRuns
<1> QED BY <1>5, <1>7, <1>8, <1>11, <1>12

\* Sixteen terms, two by two in two halves
LEMMA TotalOfSixteen ==
  ASSUME NEW g, Numbers(g, 16), NEW h, \A s \in 0..7 : h[s] = g[2*s] + g[2*s + 1]
  PROVE  Total(g, 16) = (h[0] + h[1] + h[2] + h[3]) + (h[4] + h[5] + h[6] + h[7])
         /\ \A s \in 0..7 : h[s] \in Int
<1>1. PICK n \in Nat, a \in Nat : n = 2 /\ a = 8
  OBVIOUS
<1>2. Numbers(g, n*a)
  BY <1>1
<1>3. ASSUME NEW s \in 0..a - 1 PROVE h[s] = Sub(g, n, s)
  <2>1. IsSub(g, n, a, s)
    BY <1>2, SubIs
  <2>2. PICK f : f = Load(g, n*s, n)
    OBVIOUS
  <2>3. Numbers(f, 2) /\ f[0] = g[2*s + 0] /\ f[1] = g[2*s + 1] /\ Sub(g, n, s) = Total(f, 2)
    <3>1. 0 \in 0..n - 1 /\ 1 \in 0..n - 1 /\ n*s = 2*s
      BY <1>1
    <3> QED BY <1>1, <2>1, <2>2, <3>1 DEF IsSub, Sub
  <2>4. Total(f, 2) = f[0] + f[1]
    BY <2>3, TotalOfTwo
  <2>5. s \in 0..7 /\ 2*s + 0 = 2*s
    BY <1>1
  <2> QED BY <2>3, <2>4, <2>5
<1>4. Numbers(h, a) /\ Total(g, n*a) = Total(h, a)
  BY <1>2, <1>3, TotalNested
<1>5. Numbers(h, 8) /\ Total(g, 16) = Total(h, 8)
  BY <1>1, <1>4
<1>6. Total(h, 8) = (h[0] + h[1] + h[2] + h[3]) + (h[4] + h[5] + h[6] + h[7])
  BY <1>5, TotalOfEight
<1>7. \A s \in 0..7 : h[s] \in Int
  BY <1>5 DEF Numbers
<1> QED BY <1>5, <1>6, <1>7

LEMMA BsumMinsIs ==
  ASSUME NEW x, Numbers(x.scales, 16), NEW y, Quantised(y.qs, Q), Summed(y)
  PROVE  /\ BsumMins(x, y) = SumOf(x.scales, y.qs, H, 16) /\ BsumMins(x, y) \in Int
         /\ Parts(y.qs)
<1> DEFINE g == [k \in 0..15 |-> y.bsums[k] * x.scales[k]]
<1>1. Parts(y.qs)
  <2>1. PICK n \in Nat : n = Q
    BY WidthInEighths DEF Eighths
  <2>2. Numbers(y.qs, n)
    BY <2>1, QuantisedAre
  <2> QED BY <2>1, <2>2, PartsAre
<1>2. ASSUME NEW k \in 0..15 PROVE g[k] = x.scales[k] * Sub(y.qs, H, k)
  <2>1. k \in 0..16 - 1
    OBVIOUS
  <2>2. PICK a \in Int, b \in Int : a = x.scales[k] /\ b = Sub(y.qs, H, k)
    BY <1>1, <2>1 DEF Parts, Numbers
  <2>3. g[k] = b*a
    BY <2>2 DEF Summed
  <2>4. b*a = a*b
    OBVIOUS
  <2> HIDE DEF g
  <2> QED BY <2>2, <2>3, <2>4
<1>3. BsumMins(x, y) = Total(g, 16)
  BY DEF BsumMins
<1>4. SixteenTerms(g, x.scales, y.qs)
  BY <1>2 DEF SixteenTerms
<1> HIDE DEF g
<1>5. Numbers(g, 16) /\ Total(g, 16) = SumOf(x.scales, y.qs, H, 16)
  BY <1>1, <1>4, Sixteen
<1>6. Total(g, 16) \in Int
  BY <1>5, TotalType
<1> QED BY <1>1, <1>3, <1>5, <1>6

LEMMA AvxQ6KIs ==
  ASSUME NEW x, NEW y, Q6Blocks(x, y), NEW isa \in {"avx2", "avxvnni"}
  PROVE  IsProduct6(AvxQ6K(isa, x, y), x, y)
<1> DEFINE q(j, c) == Load(x.ql, 2*W*j + W * (c % 2), W)
           w(j, c) == Join(IF c < 2 THEN LowBits(q(j, c), 4) ELSE HighNibbles(q(j, c)),
                           TopBits(Load(x.qh, W*j, W), 2*c))
           chunk(j, c) ==
             LET p == Dot(isa, w(j, c), Load(y.qs, 4*W*j + W*c, W), W)
                 n == W \div 4
             IN  Total([l \in 0 .. n - 1 |->
                          p[l] * x.scales[8*j + 2*c + (IF 2*l < n THEN 0 ELSE 1)]], n)
           half(j) == Total([c \in 0..3 |-> chunk(j, c)], 4)
           v == Sixes(x)
           p == Products(v, y.qs, Q)
           g == [k \in 0..16 - 1 |-> x.scales[k] * Sub(p, H, k)]
           h == [s \in 0..7 |-> g[2*s] + g[2*s + 1]]
<1>1. /\ AvxQ6K(isa, x, y).isum = half(0) + half(1) - 32 * BsumMins(x, y)
      /\ AvxQ6K(isa, x, y).mins = 0
  BY DEF AvxQ6K
<1>2. Small(v, y.qs, Q) /\ Numbers(x.scales, 16)
  BY Q6Small
<1>3. Parts(p)
  BY <1>2, ProductsAre
<1>4. SixteenTerms(g, x.scales, p)
  <2>1. \A k \in 0..15 : k \in 0..16 - 1
    OBVIOUS
  <2> QED BY <2>1 DEF SixteenTerms
<1>5. Numbers(g, 16) /\ Total(g, 16) = SumOf(x.scales, p, H, 16)
  <2> HIDE DEF g, p
  <2> QED BY <1>2, <1>3, <1>4, Sixteen
<1>6. ASSUME NEW j \in 0..1, NEW c \in 0..3 PROVE chunk(j, c) = h[4*j + c]
  <2>1. PICK s \in 0..7 : s = 4*j + c
    BY FourInHalf
  <2>2. Holds(w(j, c), v, W, s)
    BY <2>1, WideSixes DEF Q6Blocks
  <2>3. PICK e, r : e = 4*W*j + W*c /\ r = w(j, c)
    OBVIOUS
  <2>4. e = W*s
    <3>1. j = 0 \/ j = 1
      OBVIOUS
    <3>2. c = 0 \/ c = 1 \/ c = 2 \/ c = 3
      OBVIOUS
    <3> QED BY <2>1, <2>3, <3>1, <3>2, WidthsAreEven
  <2>5. chunk(j, c) = AvxChunk(isa, r, Load(y.qs, e, W), x.scales, s)
    <3>1. 2*s = 8*j + 2*c
      BY <2>1
    <3>2. PICK b : b = Load(y.qs, e, W)
      OBVIOUS
    <3>3. chunk(j, c) = LET d == Dot(isa, r, b, W)
                            n == W \div 4
                        IN  Total([l \in 0 .. n - 1 |->
                              d[l] * x.scales[8*j + 2*c + (IF 2*l < n THEN 0 ELSE 1)]], n)
      BY <2>3, <3>2
    <3> HIDE DEF w, chunk
    <3> QED BY <3>1, <3>2, <3>3 DEF AvxChunk
  <2> HIDE DEF q, w, v
  <2>6. Holds(r, v, W, s)
    BY <2>2, <2>3
  <2>7. AvxChunk(isa, r, Load(y.qs, e, W), x.scales, s)
          = x.scales[2*s] * Sub(Products(v, y.qs, Q), H, 2*s)
            + x.scales[2*s + 1] * Sub(Products(v, y.qs, Q), H, 2*s + 1)
    BY <1>2, <2>4, <2>6, AvxChunkIs
  <2>8. h[s] = x.scales[2*s] * Sub(p, H, 2*s) + x.scales[2*s + 1] * Sub(p, H, 2*s + 1)
    <3>1. 2*s \in 0..16 - 1 /\ 2*s + 1 \in 0..16 - 1
      OBVIOUS
    <3> HIDE DEF p
    <3> QED BY <3>1
  <2> HIDE DEF chunk, h
  <2> QED BY <2>1, <2>5, <2>7, <2>8
<1>7. \A s \in 0..7 : h[s] = g[2*s] + g[2*s + 1]
  OBVIOUS
<1> HIDE DEF g, h, p, v, chunk
<1>8. /\ Total(g, 16) = (h[0] + h[1] + h[2] + h[3]) + (h[4] + h[5] + h[6] + h[7])
      /\ \A s \in 0..7 : h[s] \in Int
  BY <1>5, <1>7, TotalOfSixteen
<1>9. half(0) = h[0] + h[1] + h[2] + h[3]
  <2> DEFINE f == [c \in 0..3 |-> chunk(0, c)]
  <2>1. f[0] = h[0] /\ f[1] = h[1] /\ f[2] = h[2] /\ f[3] = h[3]
    <3>1. /\ 4*0 + 0 = 0 /\ 4*0 + 1 = 1 /\ 4*0 + 2 = 2 /\ 4*0 + 3 = 3 /\ 0 \in 0..1
          /\ 0 \in 0..3 /\ 1 \in 0..3 /\ 2 \in 0..3 /\ 3 \in 0..3
      OBVIOUS
    <3> QED BY <1>6, <3>1
  <2>2. half(0) = Total(f, 4) /\ \A c \in 0..4 - 1 : c = 0 \/ c = 1 \/ c = 2 \/ c = 3
    OBVIOUS
  <2> HIDE DEF f
  <2>3. Numbers(f, 4)
    BY <1>8, <2>1, <2>2 DEF Numbers
  <2>4. Total(f, 4) = f[0] + f[1] + f[2] + f[3]
    BY <2>3, TotalOfFour
  <2> QED BY <2>1, <2>2, <2>4
<1>10. half(1) = h[4] + h[5] + h[6] + h[7]
  <2> DEFINE f == [c \in 0..3 |-> chunk(1, c)]
  <2>1. f[0] = h[4] /\ f[1] = h[5] /\ f[2] = h[6] /\ f[3] = h[7]
    <3>1. /\ 4*1 + 0 = 4 /\ 4*1 + 1 = 5 /\ 4*1 + 2 = 6 /\ 4*1 + 3 = 7 /\ 1 \in 0..1
          /\ 0 \in 0..3 /\ 1 \in 0..3 /\ 2 \in 0..3 /\ 3 \in 0..3
      OBVIOUS
    <3> QED BY <1>6, <3>1
  <2>2. half(1) = Total(f, 4) /\ \A c \in 0..4 - 1 : c = 0 \/ c = 1 \/ c = 2 \/ c = 3
    OBVIOUS
  <2> HIDE DEF f
  <2>3. Numbers(f, 4)
    BY <1>8, <2>1, <2>2 DEF Numbers
  <2>4. Total(f, 4) = f[0] + f[1] + f[2] + f[3]
    BY <2>3, TotalOfFour
  <2> QED BY <2>1, <2>2, <2>4
<1> HIDE DEF half
<1>11. half(0) + half(1) = SumOf(x.scales, p, H, 16)
  BY <1>5, <1>8, <1>9, <1>10
<1>12. SumOf(x.scales, p, H, 16) = SumOf(x.scales, Products(Sixes(x), y.qs, Q), H, 16)
  BY DEF p, v
<1>13. AvxQ6K(isa, x, y).isum
         = SumOf(x.scales, Products(Sixes(x), y.qs, Q), H, 16) - 32 * BsumMins(x, y)
  <2>1. PICK b \in Int : b = BsumMins(x, y)
    BY BsumMinsIs DEF Q6Blocks
  <2>2. PICK a \in Int, c \in Int : a = half(0) /\ c = half(1)
    <3>1. half(0) \in Int /\ half(1) \in Int
      BY <1>8, <1>9, <1>10
    <3> QED BY <3>1
  <2>3. AvxQ6K(isa, x, y).isum = (a + c) - 32*b
    BY <1>1, <2>1, <2>2
  <2> QED BY <1>11, <1>12, <2>1, <2>2, <2>3
<1>14. AvxQ6K(isa, x, y).mins = 0
  BY <1>1
<1> QED BY <1>13, <1>14 DEF IsProduct6

-----------------------------------------------------------------------------
(* The dequantisers, a separate reading of the same fields.                *)

\* The sum MatmulIsReference compares with
RefSum(w, q, n) == Total([i \in 0 .. n - 1 |-> w[i].d * q[i]], n)
RefMins(w, q, n) == Total([i \in 0 .. n - 1 |-> w[i].m * q[i]], n)

LEMMA ProductsAssociate ==
  ASSUME NEW a \in Int, NEW b \in Int, NEW c \in Int
  PROVE  (a*b)*c = a*(b*c)
<1>1. PICK u \in Int, v \in Int : u = a*b /\ v = b*c
  OBVIOUS
<1>2. u*c = a*v
  BY <1>1
<1> QED BY <1>1, <1>2

\* Weights d * v under scales c, and mins of a sub-block each
WeightsOf(w, c, b, v) ==
  \A i \in 0..Q - 1 : w[i].d = c[i \div W] * v[i] /\ w[i].m = b[i \div W]

LEMMA DequantAgrees ==
  ASSUME NEW x, IsBytes(x.scales, 12), NEW y, Quantised(y.qs, Q), NEW v, Small(v, y.qs, Q),
         NEW w, WeightsOf(w, Scales(x), Mins(x), v)
  PROVE  /\ RefSum(w, y.qs, Q) = SumOf(Scales(x), Products(v, y.qs, Q), W, 8)
         /\ RefMins(w, y.qs, Q) = MinsOf(x, y)
<1> DEFINE p == Products(v, y.qs, Q)
           f == [i \in 0 .. Q - 1 |-> w[i].d * y.qs[i]]
           g == [i \in 0 .. Q - 1 |-> w[i].m * y.qs[i]]
<1>1. Numbers(p, Q) /\ \A i \in 0..Q - 1 : p[i] = v[i] * y.qs[i]
  BY ProductsAre DEF Parts
<1>2. Numbers(Scales(x), 8) /\ Numbers(Mins(x), 8)
  <2>1. ASSUME NEW k \in 0..8 - 1 PROVE Scales(x)[k] \in Int /\ Mins(x)[k] \in Int
    <3>1. k \in 0..7
      OBVIOUS
    <3>2. Scales(x)[k] \in 0..63 /\ Mins(x)[k] \in 0..63
      BY <3>1, ScaleTypes
    <3> QED BY <3>2
  <2> QED BY <2>1 DEF Numbers
<1>3. ASSUME NEW i \in 0..Q - 1
      PROVE  f[i] = Scales(x)[i \div W] * p[i] /\ g[i] = Mins(x)[i \div W] * y.qs[i]
  <2>1. PICK s \in 0..7 : i \div W = s
    BY EveryPlace
  <2>2. PICK a \in Int : a = Scales(x)[s]
    <3>1. s \in 0..8 - 1
      OBVIOUS
    <3> QED BY <1>2, <3>1 DEF Numbers
  <2>3. PICK b \in Int, c \in Int : b = v[i] /\ c = y.qs[i]
    <3>1. v[i] \in 0..128 /\ y.qs[i] \in -127..127
      BY DEF Small
    <3>2. v[i] \in Int /\ y.qs[i] \in Int
      BY <3>1
    <3> HIDE DEF f, g, p
    <3> QED BY <3>2
  <2>4. w[i].d = a*b /\ w[i].m = Mins(x)[s]
    BY <2>1, <2>2, <2>3 DEF WeightsOf
  <2>5. p[i] = b*c
    BY <1>1, <2>3
  <2>6. f[i] = w[i].d * y.qs[i] /\ g[i] = w[i].m * y.qs[i]
    OBVIOUS
  <2>7. (a*b)*c = a*(b*c)
    BY ProductsAssociate
  <2> HIDE DEF f, g, p
  <2> QED BY <2>1, <2>2, <2>3, <2>4, <2>5, <2>6, <2>7
<1> HIDE DEF f, g, p
<1>4. ByRun(f, Scales(x), p, W, Q) /\ ByRun(g, Mins(x), y.qs, W, Q)
  BY <1>3 DEF ByRun
<1>5. Total(f, Q) = SumOf(Scales(x), p, W, 8)
  BY <1>1, <1>2, <1>4, WideFactors
<1>6. Numbers(y.qs, Q)
  BY DEF Quantised, Numbers
<1>7. Total(g, Q) = SumOf(Mins(x), y.qs, W, 8)
  BY <1>2, <1>4, <1>6, WideFactors
<1>8. SumOf(Mins(x), y.qs, W, 8) = MinsOf(x, y)
  <2>1. 8 - 1 = 7
    OBVIOUS
  <2> QED BY <2>1 DEF SumOf, MinsOf
<1> QED BY <1>5, <1>7, <1>8 DEF RefSum, RefMins, f, g, p

LEMMA DequantQ4KIs ==
  ASSUME NEW x, NEW y, Q4Blocks(x, y)
  PROVE  /\ RefSum(DequantQ4K(x), y.qs, Q) = SumOf(Scales(x), Products(Nibbles(x.qs), y.qs, Q), W, 8)
         /\ RefMins(DequantQ4K(x), y.qs, Q) = MinsOf(x, y)
<1>1. ASSUME NEW i \in 0..Q - 1
      PROVE  /\ DequantQ4K(x)[i].d = Scales(x)[i \div W] * Nibbles(x.qs)[i]
             /\ DequantQ4K(x)[i].m = Mins(x)[i \div W]
  <2>1. PICK s \in 0..7 : i \div W = s
    BY EveryPlace
  <2>2. Scales(x)[s] = GetScaleMin(x.scales, s).d /\ Mins(x)[s] = GetScaleMin(x.scales, s).m
    BY DEF Scales, Mins
  <2> QED BY <2>1, <2>2 DEF DequantQ4K, Nibbles
<1>2. WeightsOf(DequantQ4K(x), Scales(x), Mins(x), Nibbles(x.qs))
  BY <1>1 DEF WeightsOf
<1>3. Small(Nibbles(x.qs), y.qs, Q)
  BY Q4Small
<1> QED BY <1>2, <1>3, DequantAgrees DEF Q4Blocks

LEMMA DequantQ5KIs ==
  ASSUME NEW x, NEW y, Q5Blocks(x, y)
  PROVE  /\ RefSum(DequantQ5K(x), y.qs, Q) = SumOf(Scales(x), Products(Fives(x), y.qs, Q), W, 8)
         /\ RefMins(DequantQ5K(x), y.qs, Q) = MinsOf(x, y)
<1>1. ASSUME NEW i \in 0..Q - 1
      PROVE  /\ DequantQ5K(x)[i].d = Scales(x)[i \div W] * Fives(x)[i]
             /\ DequantQ5K(x)[i].m = Mins(x)[i \div W]
  <2>1. PICK s \in 0..7 : i \div W = s
    BY EveryPlace
  <2>2. Scales(x)[s] = GetScaleMin(x.scales, s).d /\ Mins(x)[s] = GetScaleMin(x.scales, s).m
    BY DEF Scales, Mins
  <2> QED BY <2>1, <2>2 DEF DequantQ5K, Fives, Fifth, Nibbles
<1>2. WeightsOf(DequantQ5K(x), Scales(x), Mins(x), Fives(x))
  BY <1>1 DEF WeightsOf
<1>3. Small(Fives(x), y.qs, Q)
  BY Q5Small
<1> QED BY <1>2, <1>3, DequantAgrees DEF Q5Blocks

LEMMA NoMins ==
  ASSUME NEW n \in Nat, NEW q, Numbers(q, n), NEW w, \A i \in 0..n - 1 : w[i].m = 0
  PROVE  RefMins(w, q, n) = 0
<1> DEFINE g == [i \in 0 .. n - 1 |-> w[i].m * q[i]]
<1>1. \A i \in 0..n - 1 : g[i] = 0 * q[i]
  OBVIOUS
<1>2. RefMins(w, q, n) = Total(g, n)
  BY DEF RefMins
<1> HIDE DEF g
<1>3. PICK c \in Int : c = 0
  OBVIOUS
<1>4. \A i \in 0..n - 1 : g[i] = c * q[i]
  BY <1>1, <1>3
<1>5. Total(g, n) = c * Total(q, n) /\ Total(q, n) \in Int
  BY <1>4, TotalScaled, TotalType
<1> QED BY <1>2, <1>3, <1>5

\* A run less a multiple of another
LEMMA SubLess ==
  ASSUME NEW p, Parts(p), NEW q, Parts(q), NEW r, Parts(r),
         \A i \in 0..Q - 1 : r[i] = p[i] + (-32)*q[i], NEW k \in 0..15
  PROVE  Sub(r, H, k) = Sub(p, H, k) + (-32)*Sub(q, H, k)
<1>1. PICK m : Eighths(m)
  BY WidthInEighths
<1>2. PICK n, a : n = H /\ a = 16
  OBVIOUS
<1>3. n \in Nat /\ a \in Nat /\ n*a = Q /\ k \in 0..a - 1
  BY <1>1, <1>2 DEF Eighths
<1>4. Numbers(p, n*a) /\ Numbers(q, n*a) /\ Numbers(r, n*a)
  BY <1>3 DEF Parts
<1>5. IsSub(p, n, a, k) /\ IsSub(q, n, a, k) /\ IsSub(r, n, a, k)
  BY <1>3, <1>4, SubIs
<1>6. PICK u, v, w : u = Load(p, n*k, n) /\ v = Load(q, n*k, n) /\ w = Load(r, n*k, n)
  OBVIOUS
<1>7. Numbers(u, n) /\ Numbers(v, n) /\ Total(v, n) \in Int
  BY <1>5, <1>6 DEF IsSub, Sub
<1>8. ASSUME NEW l \in 0..n - 1 PROVE w[l] = u[l] + (-32)*v[l]
  <2>1. PICK i : i = n*k + l
    OBVIOUS
  <2>2. i \in 0..Q - 1 /\ u[l] = p[i] /\ v[l] = q[i] /\ w[l] = r[i]
    BY <1>3, <1>5, <1>6, <2>1 DEF IsSub
  <2> QED BY <2>2
<1> DEFINE z == [l \in 0..n - 1 |-> (-32)*v[l]]
<1>9. \A l \in 0..n - 1 : z[l] = (-32)*v[l]
  OBVIOUS
<1> HIDE DEF z
<1>10. Numbers(z, n)
  <2>1. ASSUME NEW l \in 0..n - 1 PROVE z[l] \in Int
    <3>1. PICK b \in Int : b = v[l]
      BY <1>7 DEF Numbers
    <3> QED BY <1>9, <3>1
  <2> QED BY <2>1 DEF Numbers
<1>11. Total(z, n) = (-32)*Total(v, n)
  <2>1. PICK c \in Int : c = -32
    OBVIOUS
  <2>2. \A l \in 0..n - 1 : z[l] = c*v[l]
    BY <1>9, <2>1
  <2>3. Total(z, n) = c*Total(v, n)
    BY <1>3, <1>7, <2>2, TotalScaled
  <2> QED BY <2>1, <2>3
<1>12. \A l \in 0..n - 1 : w[l] = u[l] + z[l]
  BY <1>8, <1>9
<1>13. Total(w, n) = Total(u, n) + Total(z, n)
  BY <1>3, <1>7, <1>10, <1>12, TotalAdds
<1> QED BY <1>2, <1>6, <1>11, <1>13 DEF Sub

LEMMA SumLess ==
  ASSUME NEW p, Parts(p), NEW q, Parts(q), NEW r, Parts(r),
         \A i \in 0..Q - 1 : r[i] = p[i] + (-32)*q[i], NEW c, Numbers(c, 16)
  PROVE  SumOf(c, r, H, 16) = SumOf(c, p, H, 16) - 32 * SumOf(c, q, H, 16)
<1> DEFINE f == [k \in 0..15 |-> c[k] * Sub(p, H, k)]
           g == [k \in 0..15 |-> c[k] * Sub(q, H, k)]
           h == [k \in 0..15 |-> c[k] * Sub(r, H, k)]
           z == [k \in 0..15 |-> (-32) * g[k]]
<1>1. SixteenTerms(f, c, p) /\ SixteenTerms(g, c, q) /\ SixteenTerms(h, c, r)
  BY DEF SixteenTerms
<1>2. \A k \in 0..15 : /\ f[k] = c[k] * Sub(p, H, k) /\ g[k] = c[k] * Sub(q, H, k)
                       /\ h[k] = c[k] * Sub(r, H, k) /\ z[k] = (-32) * g[k]
  OBVIOUS
<1> HIDE DEF f, g, h, z
<1>3. /\ Numbers(f, 16) /\ Total(f, 16) = SumOf(c, p, H, 16)
      /\ Numbers(g, 16) /\ Total(g, 16) = SumOf(c, q, H, 16)
      /\ Numbers(h, 16) /\ Total(h, 16) = SumOf(c, r, H, 16)
  BY <1>1, Sixteen
<1>4. ASSUME NEW k \in 0..16 - 1 PROVE h[k] = f[k] + z[k] /\ z[k] \in Int
  <2>1. k \in 0..15
    OBVIOUS
  <2>2. PICK d \in Int, a \in Int, b \in Int : d = c[k] /\ a = Sub(p, H, k) /\ b = Sub(q, H, k)
    BY <2>1 DEF Parts, Numbers
  <2>3. Sub(r, H, k) = a + (-32)*b
    BY <2>1, <2>2, SubLess
  <2>4. PICK e \in Int : e = (-32)*b
    BY <2>2
  <2>5. h[k] = d*(a + e) /\ f[k] = d*a /\ g[k] = d*b
    BY <1>2, <2>1, <2>2, <2>3, <2>4
  <2>6. d*(a + e) = d*a + d*e /\ d*a \in Int /\ d*e \in Int
    BY Spread
  <2>7. z[k] = (-32)*(d*b)
    BY <1>2, <2>1, <2>5
  <2>8. d*e = (-32)*(d*b)
    BY <2>4
  <2> QED BY <2>5, <2>6, <2>7, <2>8
<1>5. Numbers(z, 16)
  BY <1>4 DEF Numbers
<1>6. Total(h, 16) = Total(f, 16) + Total(z, 16)
  BY <1>3, <1>4, <1>5, TotalAdds
<1>7. Total(z, 16) = (-32) * Total(g, 16)
  <2>1. PICK n \in Nat, d \in Int : n = 16 /\ d = -32
    OBVIOUS
  <2>2. Numbers(g, n) /\ \A k \in 0..n - 1 : z[k] = d*g[k]
    BY <1>2, <1>3, <2>1
  <2>3. Total(z, n) = d * Total(g, n)
    BY <2>2, TotalScaled
  <2> QED BY <2>1, <2>3
<1>8. Total(f, 16) \in Int /\ Total(g, 16) \in Int
  BY <1>3, TotalType
<1> QED BY <1>3, <1>6, <1>7, <1>8

\* The run of H that weight l of sub-block s is in
LEMMA RunOfPlace ==
  ASSUME NEW s \in 0..7, NEW l \in 0..W - 1
  PROVE  /\ (W*s + l) \div H = 8*(s \div 4) + l \div H + 2*(s % 4)
         /\ (W*s + l) \div H \in 0..15 /\ (W*s + l) \div (4*W) = s \div 4
<1>1. H \in Nat \ {0} /\ W = 2*H /\ 4*W \in Nat \ {0}
  BY WidthInEighths DEF Eighths
<1>2. PICK b \in Int, u \in 0..H - 1 : l = b*H + u /\ l \div H = b
  BY <1>1, DivMod
<1>3. b \in 0..1
  <2>1. ~(b <= -1)
    <3> SUFFICES ASSUME b <= -1 PROVE FALSE
      OBVIOUS
    <3>1. b*H <= (-1)*H
      BY <1>1, Increasing
    <3>2. PICK x \in Int : x = b*H
      BY <1>1
    <3> QED BY <1>1, <1>2, <3>1, <3>2
  <2>2. ~(2 <= b)
    <3> SUFFICES ASSUME 2 <= b PROVE FALSE
      OBVIOUS
    <3>1. 2*H <= b*H
      BY <1>1, Increasing
    <3>2. PICK x \in Int : x = b*H
      BY <1>1
    <3> QED BY <1>1, <1>2, <3>1, <3>2
  <2> QED BY <2>1, <2>2
<1>4. PICK i, k : i = W*s + l /\ k = 2*s + b
  OBVIOUS
<1>5. k \in 0..15 /\ k = 8*(s \div 4) + b + 2*(s % 4)
  BY <1>3, <1>4
<1>6. i = H*k + u
  <2>1. s = 0 \/ s = 1 \/ s = 2 \/ s = 3 \/ s = 4 \/ s = 5 \/ s = 6 \/ s = 7
    OBVIOUS
  <2>2. b = 0 \/ b = 1
    BY <1>3
  <2> QED BY <1>1, <1>2, <1>4, <2>1, <2>2
<1>7. i \div H = k
  <2>1. k \in Nat
    BY <1>5
  <2>2. (H*k + u) \div H = k
    BY <1>1, <2>1, PlaceIs
  <2> QED BY <1>6, <2>2
<1>8. i \div (4*W) = s \div 4
  <2>1. PICK n, j, e : n = 4*W /\ j = s \div 4 /\ e = W*(s % 4) + l
    OBVIOUS
  <2>2. n \in Nat \ {0} /\ j \in Nat /\ e \in 0..n - 1 /\ i = n*j + e
    <3>1. s = 0 \/ s = 1 \/ s = 2 \/ s = 3 \/ s = 4 \/ s = 5 \/ s = 6 \/ s = 7
      OBVIOUS
    <3>2. W \in Nat \ {0}
      BY <1>1
    <3> QED BY <1>4, <2>1, <3>1, <3>2
  <2>3. (n*j + e) \div n = j
    BY <2>2, PlaceIs
  <2> QED BY <2>1, <2>2, <2>3
<1> QED BY <1>2, <1>4, <1>5, <1>7, <1>8

LEMMA DequantQ6KAt ==
  ASSUME NEW x, IsBytes(x.ql, 4*W), IsBytes(x.qh, 2*W), NEW i \in 0..Q - 1
  PROVE  /\ DequantQ6K(x)[i].d = x.scales[i \div H] * (Sixes(x)[i] - 32)
         /\ DequantQ6K(x)[i].m = 0 /\ i \div H \in 0..15
<1>1. PICK s \in 0..7 : \E l \in 0..W - 1 : i = W*s + l /\ i \div W = s /\ i % W = l
  BY EveryPlace
<1>2. PICK l \in 0..W - 1 : i = W*s + l /\ i \div W = s /\ i % W = l
  BY <1>1
<1>3. /\ i \div H = 8*(s \div 4) + l \div H + 2*(s % 4)
      /\ i \div H \in 0..15 /\ i \div (4*W) = s \div 4
  BY <1>2, RunOfPlace
<1>4. Sixes(x)[i] = LowSix(x, s, l) + 16 * TopSix(x, s, l)
  BY <1>2 DEF Sixes
<1>5. PICK j, c : j = s \div 4 /\ c = s % 4
  OBVIOUS
<1>6. c % 2 = s % 2
  BY <1>5
<1>7. PICK b, low, high : /\ b = x.ql[2*W*j + W*(c % 2) + l]
                          /\ low = (IF c < 2 THEN b % 16 ELSE b \div 16)
                          /\ high = (x.qh[W*j + l] \div 4^c) % 4
  OBVIOUS
<1>8. LowSix(x, s, l) = low /\ TopSix(x, s, l) = high
  BY <1>5, <1>6, <1>7 DEF LowSix, TopSix
<1>9. /\ DequantQ6K(x)[i].d = x.scales[8*j + l \div H + 2*c] * (low + 16*high - 32)
      /\ DequantQ6K(x)[i].m = 0
  BY <1>2, <1>3, <1>5, <1>7 DEF DequantQ6K
<1>10. low \in Int /\ high \in Int
  BY <1>8, SixParts
<1>11. low + 16*high - 32 = Sixes(x)[i] - 32
  BY <1>4, <1>8, <1>10
<1> QED BY <1>3, <1>5, <1>9, <1>11

LEMMA DequantQ6KIs ==
  ASSUME NEW x, NEW y, Q6Blocks(x, y)
  PROVE  /\ RefSum(DequantQ6K(x), y.qs, Q)
              = SumOf(x.scales, Products(Sixes(x), y.qs, Q), H, 16) - 32 * BsumMins(x, y)
         /\ RefMins(DequantQ6K(x), y.qs, Q) = 0
<1> DEFINE w == DequantQ6K(x)
           v == Sixes(x)
           p == Products(v, y.qs, Q)
           r == [i \in 0..Q - 1 |-> (v[i] - 32) * y.qs[i]]
           f == [i \in 0..Q - 1 |-> w[i].d * y.qs[i]]
<1>1. Small(v, y.qs, Q) /\ Numbers(x.scales, 16)
  BY Q6Small
<1>2. Parts(p) /\ \A i \in 0..Q - 1 : p[i] = v[i] * y.qs[i]
  BY <1>1, ProductsAre
<1>3. BsumMins(x, y) = SumOf(x.scales, y.qs, H, 16) /\ Parts(y.qs)
  BY BsumMinsIs DEF Q6Blocks
<1>4. ASSUME NEW i \in 0..Q - 1
      PROVE  /\ r[i] = p[i] + (-32)*y.qs[i] /\ r[i] \in Int
             /\ f[i] = x.scales[i \div H] * r[i] /\ w[i].m = 0
  <2>1. /\ w[i].d = x.scales[i \div H] * (v[i] - 32) /\ w[i].m = 0 /\ i \div H \in 0..15
    BY DequantQ6KAt DEF Q6Blocks
  <2>2. v[i] \in 0..128 /\ y.qs[i] \in -127..127
    BY <1>1 DEF Small
  <2>3. r[i] = (v[i] - 32) * y.qs[i] /\ f[i] = w[i].d * y.qs[i]
    OBVIOUS
  <2> HIDE DEF r, f, w, v, p
  <2>9. v[i] \in Int /\ y.qs[i] \in Int
    BY <2>2
  <2>10. PICK a \in Int, b \in Int : a = v[i] /\ b = y.qs[i]
    BY <2>9
  <2>4. PICK u \in Int : u = a - 32
    OBVIOUS
  <2>5. PICK c \in Int : c = x.scales[i \div H]
    <3>1. PICK k \in 0..16 - 1 : k = i \div H
      BY <2>1
    <3> QED BY <1>1, <3>1 DEF Numbers
  <2>6. r[i] = u*b /\ u*b \in Int /\ f[i] = (c*u)*b
    BY <2>1, <2>3, <2>4, <2>5, <2>10
  <2>7. (c*u)*b = c*(u*b)
    BY ProductsAssociate
  <2>8. u*b = a*b + (-32)*b
    <3>1. b*(a + (-32)) = b*a + b*(-32)
      BY Spread
    <3> QED BY <2>4, <3>1
  <2> QED BY <1>2, <2>1, <2>10, <2>5, <2>6, <2>7, <2>8
<1> HIDE DEF w, v, p, r, f
<1>5. Parts(r)
  <2>1. Numbers(r, Q)
    BY <1>4 DEF Numbers
  <2> QED BY <2>1, PartsAre
<1>6. SumOf(x.scales, r, H, 16) = SumOf(x.scales, p, H, 16) - 32 * SumOf(x.scales, y.qs, H, 16)
  BY <1>1, <1>2, <1>3, <1>4, <1>5, SumLess
<1>7. Total(f, Q) = SumOf(x.scales, r, H, 16)
  <2>1. ByRun(f, x.scales, r, H, Q)
    BY <1>4 DEF ByRun
  <2>2. Numbers(r, Q)
    BY <1>5 DEF Parts
  <2> QED BY <1>1, <2>1, <2>2, HalfFactors
<1>8. RefSum(w, y.qs, Q) = Total(f, Q)
  BY DEF RefSum, f
<1>9. RefMins(w, y.qs, Q) = 0
  <2>1. PICK n \in Nat : n = Q
    BY WidthInEighths DEF Eighths
  <2>2. Numbers(y.qs, n)
    BY <1>3, <2>1 DEF Parts
  <2>3. RefMins(w, y.qs, n) = 0
    BY <1>4, <2>1, <2>2, NoMins
  <2> QED BY <2>1, <2>3
<1> QED BY <1>3, <1>6, <1>7, <1>8, <1>9 DEF w, p, v

-----------------------------------------------------------------------------
(* Q8_0.                                                                   *)

SignedBytes(v, n) == DOMAIN v = 0..n - 1 /\ \A i \in 0..n - 1 : v[i] \in -128..127

Q8Blocks(x, y) == SignedBytes(x.qs, W) /\ SignedBytes(y.qs, W) /\ Quantised(y.qs, W)

MovesSign(x, y, u, s) ==
  /\ u = IF x < 0 THEN -x ELSE x
  /\ s = IF x < 0 THEN Wrap(-y, 8) ELSE IF x = 0 THEN 0 ELSE y

SameProduct(x, y, u, s) == u \in 0..128 /\ s \in -127..127 /\ u*s = x*y

LEMMA SignMoved ==
  ASSUME NEW x \in -128..127, NEW y \in -127..127, NEW u, NEW s, MovesSign(x, y, u, s)
  PROVE  SameProduct(x, y, u, s)
<1> USE DEF SameProduct
<1>0. /\ u = IF x < 0 THEN -x ELSE x
      /\ s = IF x < 0 THEN Wrap(-y, 8) ELSE IF x = 0 THEN 0 ELSE y
  BY DEF MovesSign
<1>1. 2^8 = 256 /\ 2^(8 - 1) = 128
  OBVIOUS
<1>2. PICK z \in -127..127 : z = -y
  OBVIOUS
<1>3. (z + 128) % 256 = z + 128
  OBVIOUS
<1>4. Wrap(-y, 8) = -y
  BY <1>1, <1>2, <1>3 DEF Wrap
<1>5. CASE x < 0
  <2>1. PICK a \in 0..128 : a = -x
    BY <1>5
  <2>2. (-x)*(-y) = x*y
    OBVIOUS
  <2> QED BY <1>0, <1>4, <1>5, <2>1, <2>2
<1>6. CASE x = 0
  <2>1. 0*0 = 0*y
    OBVIOUS
  <2> QED BY <1>0, <1>6, <2>1
<1>7. CASE x > 0
  BY <1>0, <1>7
<1> QED BY <1>5, <1>6, <1>7

Fours(n, m) == m \in Nat /\ n = 4*m

\* |x| times y with the sign of x
LEMMA SignedDot ==
  ASSUME NEW m, NEW n, Fours(n, m), NEW x, NEW y, SignedBytes(x, n), SignedBytes(y, n),
         Quantised(y, n), NEW isa \in Isas
  PROVE  /\ Hsum(Dot(isa, Abs8(x), Sign8(y, x), n), n \div 4) = Total(Products(x, y, n), n)
         /\ Numbers(Products(x, y, n), n)
<1>1. PICK u, s : u = Abs8(x) /\ s = Sign8(y, x)
  OBVIOUS
<1>2. ASSUME NEW i \in 0..n - 1
      PROVE  u[i] \in 0..128 /\ s[i] \in -127..127 /\ u[i]*s[i] = x[i]*y[i]
  <2>1. PICK a \in -128..127, b \in -127..127 : a = x[i] /\ b = y[i]
    BY DEF SignedBytes, Quantised
  <2>2. /\ u[i] = (IF a < 0 THEN -a ELSE a)
        /\ s[i] = (IF a < 0 THEN Wrap(-b, 8) ELSE IF a = 0 THEN 0 ELSE b)
    BY <1>1, <2>1 DEF Abs8, Sign8, Lanes, SignedBytes
  <2>3. PICK c, d : c = u[i] /\ d = s[i]
    OBVIOUS
  <2>4. MovesSign(a, b, c, d)
    BY <2>2, <2>3 DEF MovesSign
  <2>5. SameProduct(a, b, c, d)
    BY <2>4, SignMoved
  <2>6. c \in 0..128 /\ d \in -127..127 /\ c*d = a*b
    BY <2>4, <2>5 DEF SameProduct
  <2> QED BY <2>1, <2>3, <2>6
<1>3. Small(u, s, n)
  BY <1>2 DEF Small
<1>4. m \in Nat /\ n = 4*m
  BY DEF Fours
<1>5. Small(u, s, 4*m)
  BY <1>3, <1>4
<1>6. /\ Numbers(Products(u, s, 4*m), 4*m)
      /\ Hsum(Dot(isa, u, s, 4*m), (4*m) \div 4) = Total(Products(u, s, 4*m), 4*m)
  BY <1>4, <1>5, DotIs
<1>7. Numbers(Products(u, s, n), n) /\ n \in Nat
  BY <1>4, <1>6
<1>11. Hsum(Dot(isa, u, s, n), n \div 4) = Total(Products(u, s, n), n)
  BY <1>4, <1>6
<1>8. \A i \in 0..n - 1 : Products(u, s, n)[i] = Products(x, y, n)[i]
  BY <1>2 DEF Products
<1>9. Total(Products(u, s, n), n) = Total(Products(x, y, n), n)
  BY <1>7, <1>8, TotalsAgree
<1>10. Numbers(Products(x, y, n), n)
  BY <1>7, <1>8 DEF Numbers
<1> QED BY <1>1, <1>11, <1>9, <1>10

\* NEON: signed by signed
LEMMA NeonDot ==
  ASSUME NEW m, NEW n, Fours(n, m), NEW x, NEW y, Numbers(Products(x, y, n), n),
         NEW isa \in {"dotprod", "baseline"}
  PROVE  Hsum(Dot(isa, x, y, n), n \div 4) = Total(Products(x, y, n), n)
<1>0. m \in Nat /\ n = 4*m
  BY DEF Fours
<1>1. Numbers(Products(x, y, 4*m), 4*m)
  BY <1>0
<1>2. FourEach(FourDot(x, y, 4*m), Products(x, y, 4*m), m)
  BY <1>0, <1>1, FourLanes
<1>3. Total(FourDot(x, y, 4*m), m) = Total(Products(x, y, 4*m), 4*m)
  <2>1. m \in 0..m /\ m \in Nat
    BY <1>0
  <2> QED BY <1>2, <2>1, LanesTotal
<1>4. Total(NeonVdotBaseline(x, y, 4*m), m) = Total(Products(x, y, 4*m), 4*m)
  BY <1>0, <1>1, NeonLanesTotal
<1>5. (4*m) \div 4 = m
  BY <1>0, Quarter
<1> QED BY <1>0, <1>3, <1>4, <1>5 DEF Hsum, Dot

\* A version's result for Q8_0
IsProduct8(r, x, y) == r.isum = Total(Products(x.qs, y.qs, W), W) /\ r.mins = 0

\* The products of a block, and its two halves
Halved(p) ==
  /\ Numbers(p, W) /\ Sub(p, H, 0) \in Int /\ Sub(p, H, 1) \in Int
  /\ Total(p, W) = Sub(p, H, 0) + Sub(p, H, 1)
  /\ \A a \in 0..1 : Numbers(Load(p, H*a, H), H)

LEMMA HalvedIs ==
  ASSUME NEW p, Numbers(p, W)
  PROVE  Halved(p)
<1>1. PICK n \in Nat, a \in Nat : n = H /\ a = 2 /\ n*a = W
  <2>1. H \in Nat /\ W = 2*H
    BY WidthsAreEven
  <2>2. H*2 = W
    BY <2>1
  <2> QED BY <2>1, <2>2
<1>2. Numbers(p, n*a)
  BY <1>1
<1> DEFINE g == [k \in 0..a - 1 |-> Sub(p, n, k)]
<1>3. /\ \A k \in 0..a - 1 : g[k] = Sub(p, n, k)
      /\ g[0] = Sub(p, H, 0) /\ g[1] = Sub(p, H, 1)
  BY <1>1
<1> HIDE DEF g
<1>4. Numbers(g, a) /\ Total(p, n*a) = Total(g, a)
  BY <1>2, <1>3, TotalNested
<1>5. Numbers(g, 2) /\ Total(p, W) = Total(g, 2)
  BY <1>1, <1>4
<1>6. g[0] \in Int /\ g[1] \in Int /\ Total(g, 2) = g[0] + g[1]
  BY <1>5, TotalOfTwo
<1>7. ASSUME NEW k \in 0..1 PROVE Numbers(Load(p, H*k, H), H)
  <2>1. k \in 0..a - 1
    BY <1>1
  <2>2. IsSub(p, n, a, k)
    BY <1>2, <2>1, SubIs
  <2> QED BY <1>1, <2>2 DEF IsSub
<1> QED BY <1>3, <1>5, <1>6, <1>7 DEF Halved

\* A half of the numbers: what is loaded, and its products
HalfLoads(x, y, a) ==
  /\ SignedBytes(Load(x, H*a, H), H) /\ SignedBytes(Load(y, H*a, H), H)
  /\ Quantised(Load(y, H*a, H), H)
  /\ Total(Products(Load(x, H*a, H), Load(y, H*a, H), H), H) = Sub(Products(x, y, W), H, a)
  /\ Numbers(Products(Load(x, H*a, H), Load(y, H*a, H), H), H)

LEMMA HalfLoadsAre ==
  ASSUME NEW x, NEW y, SignedBytes(x, W), SignedBytes(y, W), Quantised(y, W),
         Halved(Products(x, y, W)), NEW a \in 0..1
  PROVE  HalfLoads(x, y, a)
<1>1. PICK e, u, v : e = H*a /\ u = Load(x, H*a, H) /\ v = Load(y, H*a, H)
  OBVIOUS
<1>2. H \in Nat /\ W = 2*H
  BY WidthsAreEven
<1>3. \A l \in 0..H - 1 : e + l \in 0..W - 1
  <2>1. a = 0 \/ a = 1
    OBVIOUS
  <2> QED BY <1>1, <1>2, <2>1
<1>4. /\ DOMAIN u = 0..H - 1 /\ DOMAIN v = 0..H - 1
      /\ \A l \in 0..H - 1 : u[l] = x[e + l] /\ v[l] = y[e + l]
  BY <1>1 DEF Load
<1>5. SignedBytes(u, H) /\ SignedBytes(v, H) /\ Quantised(v, H)
  <2>1. ASSUME NEW l \in 0..H - 1
        PROVE  u[l] \in -128..127 /\ v[l] \in -128..127 /\ v[l] \in -127..127
    <3>1. PICK i \in 0..W - 1 : i = e + l
      BY <1>3
    <3>2. x[i] \in -128..127 /\ y[i] \in -128..127 /\ y[i] \in -127..127
      BY DEF SignedBytes, Quantised
    <3> QED BY <1>4, <3>1, <3>2
  <2> QED BY <1>4, <2>1 DEF SignedBytes, Quantised
<1>6. PICK p : p = Products(x, y, W)
  OBVIOUS
<1>7. \A l \in 0..H - 1 : Load(p, e, H)[l] = Products(u, v, H)[l]
  <2>1. ASSUME NEW l \in 0..H - 1 PROVE Load(p, e, H)[l] = Products(u, v, H)[l]
    <3>1. Load(p, e, H)[l] = p[e + l] /\ Products(u, v, H)[l] = u[l] * v[l]
      BY DEF Load, Products
    <3>2. p[e + l] = x[e + l] * y[e + l]
      BY <1>3, <1>6 DEF Products
    <3> QED BY <1>4, <3>1, <3>2
  <2> QED BY <2>1
<1>8. Numbers(Load(p, e, H), H)
  BY <1>1, <1>6 DEF Halved
<1>9. Total(Load(p, e, H), H) = Total(Products(u, v, H), H)
  BY <1>2, <1>7, <1>8, TotalsAgree
<1>10. Numbers(Products(u, v, H), H)
  BY <1>7, <1>8 DEF Numbers
<1> QED BY <1>1, <1>5, <1>6, <1>9, <1>10 DEF HalfLoads, Sub

LEMMA Q8Products ==
  ASSUME NEW x, NEW y, Q8Blocks(x, y)
  PROVE  /\ Halved(Products(x.qs, y.qs, W))
         /\ \A a \in 0..1 : HalfLoads(x.qs, y.qs, a)
         /\ \A isa \in Isas : Hsum(Dot(isa, Abs8(x.qs), Sign8(y.qs, x.qs), W), W \div 4)
                                = Total(Products(x.qs, y.qs, W), W)
<1>1. PICK m : Eighths(m)
  BY WidthInEighths
<1>2. PICK d : d = 2*m
  OBVIOUS
<1>3. Fours(W, d)
  BY <1>1, <1>2 DEF Eighths, Fours
<1>4. PICK u, v : u = x.qs /\ v = y.qs
  OBVIOUS
<1>5. SignedBytes(u, W) /\ SignedBytes(v, W) /\ Quantised(v, W)
  BY <1>4 DEF Q8Blocks
<1>6. \A isa \in Isas : /\ Hsum(Dot(isa, Abs8(u), Sign8(v, u), W), W \div 4) = Total(Products(u, v, W), W)
                        /\ Numbers(Products(u, v, W), W)
  BY <1>3, <1>5, SignedDot
<1>7. Halved(Products(u, v, W))
  <2>1. "avx1" \in Isas
    BY DEF Isas
  <2> QED BY <1>6, <2>1, HalvedIs
<1>8. \A a \in 0..1 : HalfLoads(u, v, a)
  BY <1>5, <1>7, HalfLoadsAre
<1> QED BY <1>4, <1>6, <1>7, <1>8

LEMMA QuartersOfH == \E m : Fours(H, m)
<1>1. PICK m : Eighths(m)
  BY WidthInEighths
<1> QED BY <1>1 DEF Eighths, Fours

LEMMA ScalarQ8_0Is ==
  ASSUME NEW x, NEW y
  PROVE  IsProduct8(ScalarQ8_0(x, y), x, y)
BY DEF IsProduct8, ScalarQ8_0, Products

LEMMA AvxQ8_0Is ==
  ASSUME NEW x, NEW y, Q8Blocks(x, y), NEW isa \in Isas
  PROVE  IsProduct8(AvxQ8_0(isa, x, y), x, y)
<1>1. Hsum(Dot(isa, Abs8(x.qs), Sign8(y.qs, x.qs), W), W \div 4) = Total(Products(x.qs, y.qs, W), W)
  BY Q8Products
<1> QED BY <1>1 DEF IsProduct8, AvxQ8_0

LEMMA SseQ8_0Is ==
  ASSUME NEW x, NEW y, Q8Blocks(x, y)
  PROVE  IsProduct8(SseQ8_0(x, y), x, y)
<1> DEFINE u(a) == Load(x.qs, H*a, H)
           v(a) == Load(y.qs, H*a, H)
           half(a) == Hsum(Dot("avx1", Abs8(u(a)), Sign8(v(a), u(a)), H), H \div 4)
           p == Products(x.qs, y.qs, W)
<1>1. SseQ8_0(x, y).isum = half(0) + half(1) /\ SseQ8_0(x, y).mins = 0
  BY DEF SseQ8_0
<1>2. ASSUME NEW a \in 0..1 PROVE half(a) = Sub(p, H, a)
  <2>1. HalfLoads(x.qs, y.qs, a)
    BY Q8Products
  <2>2. /\ SignedBytes(u(a), H) /\ SignedBytes(v(a), H) /\ Quantised(v(a), H)
        /\ Total(Products(u(a), v(a), H), H) = Sub(p, H, a)
    BY <2>1 DEF HalfLoads
  <2>3. PICK m : Fours(H, m)
    BY QuartersOfH
  <2>4. "avx1" \in Isas
    BY DEF Isas
  <2> HIDE DEF u, v, p
  <2>5. Hsum(Dot("avx1", Abs8(u(a)), Sign8(v(a), u(a)), H), H \div 4) = Total(Products(u(a), v(a), H), H)
    BY <2>2, <2>3, <2>4, SignedDot
  <2> QED BY <2>2, <2>5
<1>3. Halved(p)
  BY Q8Products
<1> HIDE DEF u, v, half, p
<1>4. half(0) = Sub(p, H, 0) /\ half(1) = Sub(p, H, 1)
  BY <1>2
<1>5. Total(p, W) = half(0) + half(1)
  BY <1>3, <1>4 DEF Halved
<1> QED BY <1>1, <1>5 DEF IsProduct8, p

LEMMA NeonQ8_0Is ==
  ASSUME NEW isa \in {"dotprod", "baseline"}, NEW nb \in Nat, NEW xs, NEW ys, NEW b \in 0..nb - 1,
         Q8Blocks(xs[b], ys[b])
  PROVE  IsProduct8(NeonQ8_0Row(isa, xs, ys, nb)[b], xs[b], ys[b])
<1> DEFINE x == xs[b]
           y == ys[b]
           u(a) == Load(x.qs, H*a, H)
           v(a) == Load(y.qs, H*a, H)
           half(a) == Hsum(Dot(isa, u(a), v(a), H), H \div 4)
           p == Products(x.qs, y.qs, W)
           paired == {ib \in 0 .. nb - 1 : 2 * (ib \div 2) + 1 < nb}
<1>1. NeonQ8_0Row(isa, xs, ys, nb)[b]
        = IF b \in paired THEN [isum |-> half(0) + half(1), mins |-> 0] ELSE ScalarQ8_0(x, y)
  BY DEF NeonQ8_0Row
<1>2. ASSUME NEW a \in 0..1 PROVE half(a) = Sub(p, H, a)
  <2>1. HalfLoads(x.qs, y.qs, a)
    BY Q8Products
  <2>2. /\ Total(Products(u(a), v(a), H), H) = Sub(p, H, a)
        /\ Numbers(Products(u(a), v(a), H), H)
    BY <2>1 DEF HalfLoads
  <2>3. PICK m : Fours(H, m)
    BY QuartersOfH
  <2> HIDE DEF x, y, u, v, p
  <2>5. Hsum(Dot(isa, u(a), v(a), H), H \div 4) = Total(Products(u(a), v(a), H), H)
    BY <2>2, <2>3, NeonDot
  <2> QED BY <2>2, <2>5
<1>3. Halved(p)
  BY Q8Products
<1>6. IsProduct8(ScalarQ8_0(x, y), x, y)
  BY ScalarQ8_0Is
<1> HIDE DEF u, v, half, p, paired, x, y
<1>4. half(0) = Sub(p, H, 0) /\ half(1) = Sub(p, H, 1)
  BY <1>2
<1>5. Total(p, W) = half(0) + half(1)
  BY <1>3, <1>4 DEF Halved
<1>7. IsProduct8([isum |-> half(0) + half(1), mins |-> 0], x, y)
  BY <1>5 DEF IsProduct8, p
<1>8. IsProduct8(NeonQ8_0Row(isa, xs, ys, nb)[b], x, y)
  BY <1>1, <1>6, <1>7
<1> QED BY <1>8 DEF x, y

LEMMA DequantQ8_0Is ==
  ASSUME NEW x, NEW y, Q8Blocks(x, y)
  PROVE  /\ RefSum(DequantQ8_0(x), y.qs, W) = Total(Products(x.qs, y.qs, W), W)
         /\ RefMins(DequantQ8_0(x), y.qs, W) = 0
<1>1. [i \in 0 .. W - 1 |-> DequantQ8_0(x)[i].d * y.qs[i]] = Products(x.qs, y.qs, W)
  BY DEF DequantQ8_0, Products
<1>2. W \in Nat /\ Numbers(y.qs, W)
  BY WidthsAreEven, QuantisedAre DEF Q8Blocks
<1>3. \A i \in 0..W - 1 : DequantQ8_0(x)[i].m = 0
  BY DEF DequantQ8_0
<1>4. RefMins(DequantQ8_0(x), y.qs, W) = 0
  BY <1>2, <1>3, NoMins
<1> QED BY <1>1, <1>4 DEF RefSum

-----------------------------------------------------------------------------
(* Q4_0.                                                                   *)

\* Rounding and clipping to four bits leaves two numbers of four bits in a byte.
LEMMA PackedAreBytes ==
  ASSUME NEW s, Numbers(s, W), NEW g \in 0..H - 1
  PROVE  PackQ4_0(s)[g] \in 0..255
<1> DEFINE a == Abs(s[MaxAbsAt(s, W)])
           r(k) == RoundAway(7 * s[k], a)
           q(k) == IF a = 0 THEN 0 ELSE IF r(k) < -8 THEN -8 ELSE IF r(k) > 7 THEN 7 ELSE r(k)
<1>1. MaxAbsAt(s, W) \in 0..W - 1 /\ \A k \in 0..W - 1 : Abs(s[k]) <= a
  BY Widths, LargestFound DEF WIs, Numbers, IsLargest
<1>2. a \in Nat /\ \A k \in 0..W - 1 : s[k] \in Int
  BY <1>1, SizeOf DEF Numbers
<1>3. PackQ4_0(s)[g] = (q(2*g) + 8) + 16 * (q(2*g + 1) + 8)
  BY DEF PackQ4_0
<1> HIDE DEF a
<1>4. ASSUME NEW k \in 0..W - 1 PROVE q(k) \in -8..7
  <2>1. CASE a = 0
    BY <2>1
  <2>2. CASE a # 0
    <3>1. r(k) \in Int /\ -7 <= r(k) /\ r(k) <= 7
      BY <1>1, <1>2, <2>2, AwayInRange
    <3> HIDE DEF r
    <3> QED BY <2>2, <3>1
  <2> QED BY <2>1, <2>2
<1> HIDE DEF q
<1>5. 2*g \in 0..W - 1 /\ 2*g + 1 \in 0..W - 1
  BY Widths DEF WIs
<1>6. q(2*g) \in -8..7 /\ q(2*g + 1) \in -8..7
  BY <1>4, <1>5
<1> QED BY <1>3, <1>6

\* Two products of a byte: the terms of the sum at both its places
LEMMA BytesOfTwo ==
  ASSUME NEW x, NEW y, NEW g \in 0..H - 1, x[g] \in 0..255, y[2*g] \in Int, y[2*g + 1] \in Int
  PROVE  /\ Q4_0Weight(x, 2*g) = (x[g] % 16) - 8 /\ Q4_0Weight(x, 2*g + 1) = (x[g] \div 16) - 8
         /\ Q4_0Weight(x, 2*g) \in Int /\ Q4_0Weight(x, 2*g + 1) \in Int
<1>1. H \in Nat
  BY WidthsAreEven
<1>2. PICK i, j : i = 2*g /\ j = 2*g + 1
  OBVIOUS
<1>3. /\ i % 2 = 0 /\ i \div 2 = g /\ j % 2 = 1 /\ j \div 2 = g
  BY <1>1, <1>2
<1>4. PICK z \in 0..255 : z = x[g]
  OBVIOUS
<1>5. (z % 16) - 8 \in Int /\ (z \div 16) - 8 \in Int
  OBVIOUS
<1>6. Q4_0Weight(x, i) = (x[g] % 16) - 8 /\ Q4_0Weight(x, j) = (x[g] \div 16) - 8
  BY <1>3 DEF Q4_0Weight
<1> QED BY <1>2, <1>4, <1>5, <1>6

\* The pairs the loop adds up are the runs of two of the reference sum.
LEMMA Q4_0Is ==
  ASSUME NEW xs, NEW ys, NEW nb \in Nat, NEW b \in 0..nb - 1,
         \A g \in 0..H - 1 : xs[b][g] \in 0..255, Numbers(ys[b], W)
  PROVE  Q4_0Row(xs, ys, nb)[b].isum = Total([i \in 0 .. W - 1 |-> Q4_0Weight(xs[b], i) * ys[b][i]], W)
<1>1. PICK x, y : x = xs[b] /\ y = ys[b]
  OBVIOUS
<1>2. PICK n, a : n = 2 /\ a = H
  OBVIOUS
<1>3. n \in Nat /\ a \in Nat /\ W = n*a /\ W = 2*H /\ H \in Nat
  BY <1>2, WidthsAreEven
<1> DEFINE f == [i \in 0 .. W - 1 |-> Q4_0Weight(x, i) * y[i]]
           h == [i \in 0 .. H - 1 |->
                   ((x[i] % 16) - 8) * y[2*i] + ((x[i] \div 16) - 8) * y[2*i + 1]]
<1>4. Q4_0Row(xs, ys, nb)[b].isum = Total(h, H)
  BY <1>1 DEF Q4_0Row
<1>5. \A i \in 0..W - 1 : f[i] = Q4_0Weight(x, i) * y[i]
  OBVIOUS
<1>6. \A g \in 0..H - 1 : h[g] = ((x[g] % 16) - 8) * y[2*g] + ((x[g] \div 16) - 8) * y[2*g + 1]
  OBVIOUS
<1> HIDE DEF f, h
<1>7. ASSUME NEW g \in 0..H - 1
      PROVE  f[2*g] \in Int /\ f[2*g + 1] \in Int /\ h[g] = f[2*g] + f[2*g + 1]
             /\ 2*g \in 0..W - 1 /\ 2*g + 1 \in 0..W - 1
  <2>1. 2*g \in 0..W - 1 /\ 2*g + 1 \in 0..W - 1
    BY <1>3
  <2>2. y[2*g] \in Int /\ y[2*g + 1] \in Int /\ x[g] \in 0..255
    BY <1>1, <2>1 DEF Numbers
  <2>3. /\ Q4_0Weight(x, 2*g) = (x[g] % 16) - 8 /\ Q4_0Weight(x, 2*g + 1) = (x[g] \div 16) - 8
        /\ Q4_0Weight(x, 2*g) \in Int /\ Q4_0Weight(x, 2*g + 1) \in Int
    BY <2>2, BytesOfTwo
  <2>4. f[2*g] = Q4_0Weight(x, 2*g) * y[2*g] /\ f[2*g + 1] = Q4_0Weight(x, 2*g + 1) * y[2*g + 1]
    BY <1>5, <2>1
  <2>5. PICK u \in Int, v \in Int, c \in Int, d \in Int :
          u = Q4_0Weight(x, 2*g) /\ v = Q4_0Weight(x, 2*g + 1) /\ c = y[2*g] /\ d = y[2*g + 1]
    BY <2>2, <2>3
  <2>6. u*c \in Int /\ v*d \in Int
    OBVIOUS
  <2>7. f[2*g] = u*c /\ f[2*g + 1] = v*d /\ h[g] = u*c + v*d
    BY <1>6, <2>3, <2>4, <2>5
  <2> QED BY <2>1, <2>6, <2>7
<1>8. Numbers(f, n*a)
  <2>1. ASSUME NEW i \in 0..W - 1 PROVE f[i] \in Int
    <3>0. W = 2*H /\ H \in Nat /\ i \in Int
      BY WidthsAreEven
    <3>1. PICK g \in Int, u \in 0..1 : i = g*2 + u /\ i % 2 = u /\ i \div 2 = g
      BY <3>0, DivMod
    <3>2. g \in 0..H - 1 /\ (i = 2*g \/ i = 2*g + 1)
      BY <3>0, <3>1
    <3> QED BY <1>7, <3>2
  <2> QED BY <1>3, <2>1 DEF Numbers
<1>9. ASSUME NEW g \in 0..a - 1 PROVE h[g] = Sub(f, n, g)
  <2>1. g \in 0..H - 1 /\ g \in Nat
    BY <1>2, <1>3
  <2> DEFINE l == Load(f, 2*g, 2)
  <2>2. l[0] = f[2*g + 0] /\ l[1] = f[2*g + 1]
    BY DEF Load
  <2>3. 2*g + 0 = 2*g
    BY <2>1
  <2> HIDE DEF l
  <2>4. Numbers(l, 2)
    <3>1. l[0] \in Int /\ l[1] \in Int
      BY <1>7, <2>1, <2>2, <2>3
    <3>2. \A k \in 0..2 - 1 : k = 0 \/ k = 1
      OBVIOUS
    <3> QED BY <3>1, <3>2 DEF Numbers
  <2>5. Total(l, 2) = l[0] + l[1]
    BY <2>4, TotalOfTwo
  <2>6. Sub(f, n, g) = Total(l, 2)
    BY <1>2 DEF Sub, l
  <2> QED BY <1>7, <2>1, <2>2, <2>3, <2>5, <2>6
<1>10. Total(f, n*a) = Total(h, a)
  BY <1>3, <1>8, <1>9, TotalNested
<1>11. Total(f, W) = Total(h, H)
  BY <1>2, <1>3, <1>10
<1> QED BY <1>1, <1>4, <1>11 DEF f

-----------------------------------------------------------------------------
(* The blocks a row is made of.                                            *)

\* A block of the longest layout
BlockBytes(m) == IsBytes(m, 6*W + 16)

LEMMA BytesAre ==
  ASSUME NEW a \in Nat, NEW t \in Nat, NEW b \in Nat
  PROVE  BlockBytes(Pick(Bytes, a + t + 2*b))
<1> DEFINE l == Len(Bytes)
           k == (a + t + 2*b) % l
<1>1. l \in Nat \ {0} /\ a + t + 2*b \in Int
  BY RowsAssumption
<1>2. k \in 0..l - 1
  BY <1>1, ModType
<1>3. k + 1 \in 1..l
  BY <1>1, <1>2
<1>4. Bytes[k + 1] \in [0 .. 6*W + 15 -> 0..255]
  <2>1. PICK S, B : S = [0 .. 6*W + 15 -> 0..255] /\ B = Bytes
    OBVIOUS
  <2>2. B \in Seq(S) /\ k + 1 \in 1..Len(B)
    BY <1>3, <2>1, RowsAssumption
  <2> HIDE DEF k
  <2>3. B[k + 1] \in S
    BY <2>2
  <2> QED BY <2>1, <2>3
<1>5. Pick(Bytes, a + t + 2*b) = Bytes[k + 1]
  BY DEF Pick
<1> HIDE DEF k
<1>6. 6*W + 15 = (6*W + 16) - 1
  BY WidthsAreEven
<1> QED BY <1>4, <1>5, <1>6 DEF IsBytes, BlockBytes

LEMMA BlockParts ==
  ASSUME NEW m, BlockBytes(m)
  PROVE  /\ IsBytes(Load(m, 0, 12), 12) /\ IsBytes(Load(m, 12, 4*W), 4*W)
         /\ IsBytes(Load(m, 12, W), W) /\ IsBytes(Load(m, 12 + W, 4*W), 4*W)
         /\ IsBytes(Load(m, 0, 4*W), 4*W) /\ IsBytes(Load(m, 4*W, 2*W), 2*W)
<1>1. W \in Nat
  BY WidthsAreEven
<1>2. PICK t \in Nat : t = 6*W + 16
  BY <1>1
<1>3. IsBytes(m, t)
  BY <1>2 DEF BlockBytes
<1>4. ASSUME NEW e \in Nat, NEW n \in Nat, e + n <= t
      PROVE  IsBytes(Load(m, e, n), n)
  BY <1>3, <1>4, BytesLoaded
<1>5. PICK f \in Nat, h \in Nat, d \in Nat : f = 4*W /\ h = 2*W /\ d = 12 + W
  BY <1>1
<1>6. /\ 12 + f <= t /\ 12 + W <= t /\ d + f <= t /\ f <= t /\ f + h <= t /\ 12 <= t
      /\ 0 + 12 = 12 /\ 0 + f = f /\ 12 \in Nat /\ 0 \in Nat
  BY <1>1, <1>2, <1>5
<1>7. IsBytes(Load(m, 0, 12), 12)
  BY <1>4, <1>6
<1>8. IsBytes(Load(m, 12, f), f) /\ IsBytes(Load(m, 12, W), W)
  BY <1>1, <1>4, <1>6
<1>9. IsBytes(Load(m, d, f), f) /\ IsBytes(Load(m, f, h), h)
  BY <1>4, <1>6
<1>10. IsBytes(Load(m, 0, f), f)
  BY <1>4, <1>6
<1> QED BY <1>5, <1>7, <1>8, <1>9, <1>10

LEMMA SignedByteType ==
  ASSUME NEW b \in 0..255
  PROVE  SignedByte(b) \in -128..127
<1>1. 2^8 = 256 /\ 2^(8 - 1) = 128
  OBVIOUS
<1>2. (b + 128) % 256 \in 0..255
  OBVIOUS
<1> QED BY <1>1, <1>2 DEF SignedByte, Wrap

LEMMA SignedParts ==
  ASSUME NEW m, BlockBytes(m)
  PROVE  Numbers(Q6KBlock(m).scales, 16) /\ SignedBytes(Q8Block(m).qs, W)
<1>1. W \in Nat
  BY WidthsAreEven
<1>2. \A i \in 0..15 : 6*W + i \in 0..(6*W + 16) - 1
  BY <1>1
<1>3. \A i \in 0..W - 1 : i \in 0..(6*W + 16) - 1
  BY <1>1
<1>4. \A i \in 0..15 : Q6KBlock(m).scales[i] \in -128..127
  BY <1>2, SignedByteType DEF Q6KBlock, BlockBytes, IsBytes
<1>5. \A i \in 0..W - 1 : Q8Block(m).qs[i] \in -128..127
  BY <1>3, SignedByteType DEF Q8Block, BlockBytes, IsBytes
<1>6. DOMAIN Q8Block(m).qs = 0..W - 1
  BY DEF Q8Block
<1>7. PICK v : v = Q6KBlock(m).scales
  OBVIOUS
<1>8. Numbers(v, 16)
  <2>1. \A i \in 0..15 : v[i] \in Int
    <3>1. ASSUME NEW i \in 0..15 PROVE v[i] \in Int
      <4>1. v[i] \in -128..127
        BY <1>4, <1>7
      <4> QED BY <4>1
    <3> QED BY <3>1
  <2>2. 16 - 1 = 15
    OBVIOUS
  <2> QED BY <2>1, <2>2 DEF Numbers
<1> QED BY <1>5, <1>6, <1>7, <1>8 DEF SignedBytes

\* A column quantised as the K formats and as Q8_0 take it
LEMMA ColumnsAre ==
  ASSUME NEW s, Numbers(s, Q), Numbers(s, W)
  PROVE  /\ Quantised(QuantizeQ8K(s).qs, Q) /\ Summed(QuantizeQ8K(s))
         /\ SignedBytes(QuantizeQ8_0(s).qs, W) /\ Quantised(QuantizeQ8_0(s).qs, W)
<1>1. DOMAIN QuantizeQ8_0(s).qs = 0..W - 1 /\ Quantised(QuantizeQ8_0(s).qs, W)
  BY Q8_0InRange
<1>2. \A i \in 0..W - 1 : QuantizeQ8_0(s).qs[i] \in -127..127
  BY <1>1 DEF Quantised
<1>3. SignedBytes(QuantizeQ8_0(s).qs, W)
  BY <1>1, <1>2 DEF SignedBytes
<1> QED BY <1>1, <1>3, Q8KInRange

\* What a product of each format takes, block by block
BlocksMatch(fmt, x, y) ==
  /\ fmt = "q4k" => Q4Blocks(x, y)
  /\ fmt = "q5k" => Q5Blocks(x, y)
  /\ fmt = "q6k" => Q6Blocks(x, y)
  /\ fmt = "q8_0" => Q8Blocks(x, y)

LEMMA RowsMatch ==
  ASSUME NEW fmt \in {"q4k", "q5k", "q6k", "q8_0"},
         NEW w \in Nat, NEW j \in Nat, NEW s \in Nat, NEW t \in Nat, NEW b \in 0..NBlocks - 1
  PROVE  BlocksMatch(fmt, WeightBlock(fmt, w, j, b), Scratch(fmt, s, t)[b])
<1>1. b \in Nat
  BY RowsAssumption
<1>2. PICK m, c : m = Pick(Bytes, w + j + 2*b) /\ c = Source(s, t, b)
  OBVIOUS
<1>3. BlockBytes(m)
  BY <1>1, <1>2, BytesAre
<1>4. Numbers(c, Q) /\ Numbers(c, W)
  BY <1>1, <1>2, SourceIs
<1>5. /\ Quantised(QuantizeQ8K(c).qs, Q) /\ Summed(QuantizeQ8K(c))
      /\ SignedBytes(QuantizeQ8_0(c).qs, W) /\ Quantised(QuantizeQ8_0(c).qs, W)
  BY <1>4, ColumnsAre
<1>6. CASE fmt = "q4k"
  <2>1. WeightBlock(fmt, w, j, b) = Q4KBlock(m) /\ Scratch(fmt, s, t)[b] = QuantizeQ8K(c)
    BY <1>2, <1>6 DEF WeightBlock, Scratch
  <2>2. Q4Blocks(Q4KBlock(m), QuantizeQ8K(c))
    BY <1>3, <1>5, BlockParts DEF Q4Blocks, Q4KBlock
  <2> QED BY <1>6, <2>1, <2>2 DEF BlocksMatch
<1>7. CASE fmt = "q5k"
  <2>1. WeightBlock(fmt, w, j, b) = Q5KBlock(m) /\ Scratch(fmt, s, t)[b] = QuantizeQ8K(c)
    BY <1>2, <1>7 DEF WeightBlock, Scratch
  <2>2. Q5Blocks(Q5KBlock(m), QuantizeQ8K(c))
    BY <1>3, <1>5, BlockParts DEF Q5Blocks, Q5KBlock
  <2> QED BY <1>7, <2>1, <2>2 DEF BlocksMatch
<1>8. CASE fmt = "q6k"
  <2>1. WeightBlock(fmt, w, j, b) = Q6KBlock(m) /\ Scratch(fmt, s, t)[b] = QuantizeQ8K(c)
    BY <1>2, <1>8 DEF WeightBlock, Scratch
  <2>2. Q6KBlock(m).ql = Load(m, 0, 4*W) /\ Q6KBlock(m).qh = Load(m, 4*W, 2*W)
    BY DEF Q6KBlock
  <2>3. Q6Blocks(Q6KBlock(m), QuantizeQ8K(c))
    BY <1>3, <1>5, <2>2, BlockParts, SignedParts DEF Q6Blocks
  <2> QED BY <1>8, <2>1, <2>3 DEF BlocksMatch
<1>9. CASE fmt = "q8_0"
  <2>1. WeightBlock(fmt, w, j, b) = Q8Block(m) /\ Scratch(fmt, s, t)[b] = QuantizeQ8_0(c)
    BY <1>2, <1>9 DEF WeightBlock, Scratch
  <2>2. Q8Blocks(Q8Block(m), QuantizeQ8_0(c))
    BY <1>3, <1>5, SignedParts DEF Q8Blocks
  <2> QED BY <1>9, <2>1, <2>2 DEF BlocksMatch
<1> QED BY <1>6, <1>7, <1>8, <1>9

-----------------------------------------------------------------------------
(* Every version the dispatch can choose, against the dequantised weights.  *)

Tiers == {"scalar", "avx1", "avx2", "avxvnni", "dotprod", "baseline"}

\* A block's result is the two sums of the reference.
IsReference(r, fmt, x, y) ==
  LET n == IF fmt = "q8_0" THEN W ELSE Q
  IN  /\ r.isum = RefSum(Dequant(fmt, x), y.qs, n)
      /\ r.mins = RefMins(Dequant(fmt, x), y.qs, n)

LEMMA Q4KTiers ==
  ASSUME NEW x, NEW y, Q4Blocks(x, y), NEW t \in Tiers
  PROVE  IsReference(BlockDot(t, "q4k", x, y), "q4k", x, y)
<1>1. PICK r : r = BlockDot(t, "q4k", x, y)
  OBVIOUS
<1>2. IsProduct(r, x, y, Nibbles(x.qs))
  <2>1. CASE t = "scalar"
    <3>1. r = ScalarQ4K(x, y)
      BY <1>1, <2>1 DEF BlockDot
    <3> QED BY <3>1, ScalarQ4KIs DEF Isas
  <2>2. CASE t = "avx1"
    <3>1. r = SseQ4K(x, y)
      BY <1>1, <2>2 DEF BlockDot
    <3> QED BY <3>1, SseQ4KIs DEF Isas
  <2>3. CASE t = "avx2"
    <3>1. r = AvxQ4K("avx2", x, y)
      BY <1>1, <2>3 DEF BlockDot
    <3> QED BY <3>1, AvxQ4KIs DEF Isas
  <2>4. CASE t = "avxvnni"
    <3>1. r = AvxQ4K("avxvnni", x, y)
      BY <1>1, <2>4 DEF BlockDot, AvxVnniQ4K
    <3> QED BY <3>1, AvxQ4KIs DEF Isas
  <2>5. CASE t = "dotprod"
    <3>1. r = NeonQ4K("dotprod", x, y)
      BY <1>1, <2>5 DEF BlockDot, DotprodQ4K
    <3> QED BY <3>1, NeonQ4KIs DEF Isas
  <2>6. CASE t = "baseline"
    <3>1. r = NeonQ4K("baseline", x, y)
      BY <1>1, <2>6 DEF BlockDot
    <3> QED BY <3>1, NeonQ4KIs DEF Isas
  <2> QED BY <2>1, <2>2, <2>3, <2>4, <2>5, <2>6 DEF Tiers
<1>3. Dequant("q4k", x) = DequantQ4K(x)
  BY DEF Dequant
<1>4. /\ r.isum = RefSum(DequantQ4K(x), y.qs, Q)
      /\ r.mins = RefMins(DequantQ4K(x), y.qs, Q)
  BY <1>2, DequantQ4KIs DEF IsProduct
<1> QED BY <1>1, <1>3, <1>4 DEF IsReference

LEMMA Q5KTiers ==
  ASSUME NEW x, NEW y, Q5Blocks(x, y), NEW t \in Tiers
  PROVE  IsReference(BlockDot(t, "q5k", x, y), "q5k", x, y)
<1>1. PICK r : r = BlockDot(t, "q5k", x, y)
  OBVIOUS
<1>2. IsProduct(r, x, y, Fives(x))
  <2>1. CASE t = "scalar"
    <3>1. r = ScalarQ5K(x, y)
      BY <1>1, <2>1 DEF BlockDot
    <3> QED BY <3>1, ScalarQ5KIs DEF Isas
  <2>2. CASE t = "avx1"
    <3>1. r = SseQ5K(x, y)
      BY <1>1, <2>2 DEF BlockDot
    <3> QED BY <3>1, SseQ5KIs DEF Isas
  <2>3. CASE t = "avx2"
    <3>1. r = AvxQ5K("avx2", x, y)
      BY <1>1, <2>3 DEF BlockDot
    <3> QED BY <3>1, AvxQ5KIs DEF Isas
  <2>4. CASE t = "avxvnni"
    <3>1. r = AvxQ5K("avxvnni", x, y)
      BY <1>1, <2>4 DEF BlockDot, AvxVnniQ5K
    <3> QED BY <3>1, AvxQ5KIs DEF Isas
  <2>5. CASE t = "dotprod"
    <3>1. r = NeonQ5K("dotprod", x, y)
      BY <1>1, <2>5 DEF BlockDot, DotprodQ5K
    <3> QED BY <3>1, NeonQ5KIs DEF Isas
  <2>6. CASE t = "baseline"
    <3>1. r = NeonQ5K("baseline", x, y)
      BY <1>1, <2>6 DEF BlockDot
    <3> QED BY <3>1, NeonQ5KIs DEF Isas
  <2> QED BY <2>1, <2>2, <2>3, <2>4, <2>5, <2>6 DEF Tiers
<1>3. Dequant("q5k", x) = DequantQ5K(x)
  BY DEF Dequant
<1>4. /\ r.isum = RefSum(DequantQ5K(x), y.qs, Q)
      /\ r.mins = RefMins(DequantQ5K(x), y.qs, Q)
  BY <1>2, DequantQ5KIs DEF IsProduct
<1> QED BY <1>1, <1>3, <1>4 DEF IsReference

LEMMA Q6KTiers ==
  ASSUME NEW x, NEW y, Q6Blocks(x, y), NEW t \in Tiers
  PROVE  IsReference(BlockDot(t, "q6k", x, y), "q6k", x, y)
<1>1. PICK r : r = BlockDot(t, "q6k", x, y)
  OBVIOUS
<1>2. IsProduct6(r, x, y)
  <2>1. CASE t = "scalar"
    <3>1. r = ScalarQ6K(x, y)
      BY <1>1, <2>1 DEF BlockDot
    <3> QED BY <3>1, ScalarQ6KIs DEF Isas
  <2>2. CASE t = "avx1"
    <3>1. r = SseQ6K(x, y)
      BY <1>1, <2>2 DEF BlockDot
    <3> QED BY <3>1, SseQ6KIs DEF Isas
  <2>3. CASE t = "avx2"
    <3>1. r = AvxQ6K("avx2", x, y)
      BY <1>1, <2>3 DEF BlockDot
    <3> QED BY <3>1, AvxQ6KIs DEF Isas
  <2>4. CASE t = "avxvnni"
    <3>1. r = AvxQ6K("avxvnni", x, y)
      BY <1>1, <2>4 DEF BlockDot, AvxVnniQ6K
    <3> QED BY <3>1, AvxQ6KIs DEF Isas
  <2>5. CASE t = "dotprod"
    <3>1. r = NeonQ6K("dotprod", x, y)
      BY <1>1, <2>5 DEF BlockDot, DotprodQ6K
    <3> QED BY <3>1, NeonQ6KIs DEF Isas
  <2>6. CASE t = "baseline"
    <3>1. r = NeonQ6K("baseline", x, y)
      BY <1>1, <2>6 DEF BlockDot
    <3> QED BY <3>1, NeonQ6KIs DEF Isas
  <2> QED BY <2>1, <2>2, <2>3, <2>4, <2>5, <2>6 DEF Tiers
<1>3. Dequant("q6k", x) = DequantQ6K(x)
  BY DEF Dequant
<1>4. /\ r.isum = RefSum(DequantQ6K(x), y.qs, Q)
      /\ r.mins = RefMins(DequantQ6K(x), y.qs, Q)
  BY <1>2, DequantQ6KIs DEF IsProduct6
<1> QED BY <1>1, <1>3, <1>4 DEF IsReference

LEMMA Q8_0Tiers ==
  ASSUME NEW x, NEW y, Q8Blocks(x, y), NEW t \in Tiers \ {"dotprod", "baseline"}
  PROVE  IsReference(BlockDot(t, "q8_0", x, y), "q8_0", x, y)
<1>1. PICK r : r = BlockDot(t, "q8_0", x, y)
  OBVIOUS
<1>2. IsProduct8(r, x, y)
  <2>1. CASE t = "scalar"
    <3>1. r = ScalarQ8_0(x, y)
      BY <1>1, <2>1 DEF BlockDot
    <3> QED BY <3>1, ScalarQ8_0Is DEF Isas
  <2>2. CASE t = "avx1"
    <3>1. r = SseQ8_0(x, y)
      BY <1>1, <2>2 DEF BlockDot
    <3> QED BY <3>1, SseQ8_0Is DEF Isas
  <2>3. CASE t = "avx2"
    <3>1. r = AvxQ8_0("avx2", x, y)
      BY <1>1, <2>3 DEF BlockDot
    <3> QED BY <3>1, AvxQ8_0Is DEF Isas
  <2>4. CASE t = "avxvnni"
    <3>1. r = AvxQ8_0("avxvnni", x, y)
      BY <1>1, <2>4 DEF BlockDot, AvxVnniQ8_0
    <3> QED BY <3>1, AvxQ8_0Is DEF Isas
  <2> QED BY <2>1, <2>2, <2>3, <2>4 DEF Tiers
<1>3. Dequant("q8_0", x) = DequantQ8_0(x)
  BY DEF Dequant
<1>4. /\ r.isum = RefSum(DequantQ8_0(x), y.qs, W)
      /\ r.mins = RefMins(DequantQ8_0(x), y.qs, W)
  BY <1>2, DequantQ8_0Is DEF IsProduct8
<1> QED BY <1>1, <1>3, <1>4 DEF IsReference

LEMMA RowDotIs ==
  ASSUME NEW t \in Tiers, NEW fmt \in {"q4k", "q5k", "q6k", "q8_0"},
         NEW nb \in Nat, NEW xs, NEW ys, NEW b \in 0..nb - 1, BlocksMatch(fmt, xs[b], ys[b])
  PROVE  IsReference(RowDot(t, fmt, xs, ys, nb)[b], fmt, xs[b], ys[b])
<1>1. CASE fmt = "q8_0" /\ t \in {"dotprod", "baseline"}
  <2>1. RowDot(t, fmt, xs, ys, nb) = NeonQ8_0Row(t, xs, ys, nb)
    BY <1>1 DEF RowDot, DotprodQ8_0Row
  <2>2. PICK r, x, y : r = NeonQ8_0Row(t, xs, ys, nb)[b] /\ x = xs[b] /\ y = ys[b]
    OBVIOUS
  <2>3. Q8Blocks(x, y)
    BY <1>1, <2>2 DEF BlocksMatch
  <2>4. IsProduct8(r, x, y)
    BY <1>1, <2>2, <2>3, NeonQ8_0Is
  <2>5. r.isum = RefSum(DequantQ8_0(x), y.qs, W) /\ r.mins = RefMins(DequantQ8_0(x), y.qs, W)
    BY <2>3, <2>4, DequantQ8_0Is DEF IsProduct8
  <2>6. Dequant("q8_0", x) = DequantQ8_0(x)
    BY DEF Dequant
  <2> QED BY <1>1, <2>1, <2>2, <2>5, <2>6 DEF IsReference
<1>2. CASE ~(fmt = "q8_0" /\ t \in {"dotprod", "baseline"})
  <2>1. RowDot(t, fmt, xs, ys, nb)[b] = BlockDot(t, fmt, xs[b], ys[b])
    BY <1>2 DEF RowDot
  <2>2. PICK x, y : x = xs[b] /\ y = ys[b]
    OBVIOUS
  <2>3. IsReference(BlockDot(t, fmt, x, y), fmt, x, y)
    <3>1. BlocksMatch(fmt, x, y)
      BY <2>2
    <3>2. CASE fmt = "q4k"
      BY <3>1, <3>2, Q4KTiers DEF BlocksMatch
    <3>3. CASE fmt = "q5k"
      BY <3>1, <3>3, Q5KTiers DEF BlocksMatch
    <3>4. CASE fmt = "q6k"
      BY <3>1, <3>4, Q6KTiers DEF BlocksMatch
    <3>5. CASE fmt = "q8_0"
      BY <1>2, <3>1, <3>5, Q8_0Tiers DEF BlocksMatch
    <3> QED BY <3>2, <3>3, <3>4, <3>5
  <2> QED BY <2>1, <2>2, <2>3
<1> QED BY <1>1, <1>2

-----------------------------------------------------------------------------
(* The products a call returns.                                            *)

\* The dispatch is one of the six, and every result is of a cell of the product.
Dispatched ==
  /\ tier \in Tiers
  /\ \A o \in Results : o.at[1] \in Nat /\ o.at[2] \in Nat

LEMMA DispatchedStep ==
  ASSUME Called, Dispatched, [Next]_vars
  PROVE  Dispatched'
<1>1. ASSUME NEW fmt, NEW w, NEW s, Start(fmt, w, s) PROVE Dispatched'
  BY <1>1 DEF Start, Dispatched, Results
<1>2. ASSUME NEW w, NEW s,
             \/ MatmulQ4K(w, s) \/ MatmulQ5K(w, s) \/ MatmulQ6K(w, s)
             \/ MatmulQ8_0(w, s) \/ MatmulQ4_0(w, s)
      PROVE  Dispatched'
  BY <1>1, <1>2 DEF MatmulQ4K, MatmulQ5K, MatmulQ6K, MatmulQ8_0, MatmulQ4_0
<1>3. CASE SimdInit
  <2>1. DispatchTier(DetectCpu(cpu)) \in Tiers
    BY DEF DispatchTier, Tiers
  <2> QED BY <1>3, <2>1 DEF SimdInit, Dispatched, Results
<1>4. CASE Return
  BY <1>4 DEF Return, Dispatched, Results
<1>5. CASE NextColumn
  <2>1. mm # NoCall /\ DOMAIN mm = {"fmt", "w", "s", "xq", "todo", "out"} /\ tier' = tier
    BY <1>5 DEF NextColumn, Called
  <2>2. mm'.out = mm.out
    BY <1>5, <2>1 DEF NextColumn
  <2>3. \A o \in Results' : o \in Results
    BY <2>1, <2>2 DEF Results
  <2> QED BY <2>1, <2>3 DEF Dispatched
<1>6. ASSUME NEW c \in (1 .. Tokens) \X (0 .. OutF - 1), Row(c) PROVE Dispatched'
  <2>1. mm # NoCall /\ DOMAIN mm = {"fmt", "w", "s", "xq", "todo", "out"} /\ tier' = tier
    BY <1>6 DEF Row, Called
  <2>2. PICK r : mm' = [mm EXCEPT !.todo = @ \ {c}, !.out = @ \cup {[at |-> c, blocks |-> r]}]
    BY <1>6 DEF Row
  <2>3. mm'.out = mm.out \cup {[at |-> c, blocks |-> r]}
    BY <2>1, <2>2
  <2>4. \A o \in Results' : o \in Results \/ o.at = c
    BY <2>1, <2>3 DEF Results
  <2>5. c[1] \in Nat /\ c[2] \in Nat
    BY RowsAssumption
  <2> QED BY <2>1, <2>4, <2>5 DEF Dispatched
<1>7. ASSUME NEW kind, NEW m, NEW n, Gemm(kind, m, n) PROVE Dispatched'
  BY <1>7 DEF Gemm, Dispatched, Results
<1>8. CASE UNCHANGED vars
  BY <1>8 DEF vars, Dispatched, Results
<1> QED BY <1>2, <1>3, <1>4, <1>5, <1>6, <1>7, <1>8 DEF Next

LEMMA DispatchedReached == Spec => []Dispatched
<1>1. Init => Dispatched
  BY DEF Init, Dispatched, Results, Tiers
<1>2. Called /\ Dispatched /\ [Next]_vars => Dispatched'
  BY DispatchedStep
<1> QED BY <1>1, <1>2, CalledReached, PTL DEF Spec

\* Whatever processor the program runs on, and for every width, every weight and
\* every column, each integer result is exactly the sum of the dequantised
\* weights times the numbers of the cell's own column: no version loses a bit of
\* a field to a shift, none overflows its 16-bit lanes, and none skips a tail.
THEOREM ProductsAreReference == Spec => []MatmulIsReference
<1>1. Called /\ OwnColumns /\ Dispatched => MatmulIsReference
  <2> SUFFICES ASSUME Called, OwnColumns, Dispatched,
                      NEW o \in Results, NEW b \in 0..NBlocks - 1
      PROVE  LET x == WeightBlock(mm.fmt, mm.w, o.at[2], b)
                 y == Scratch(mm.fmt, mm.s, o.at[1])[b]
             IN  IF mm.fmt = "q4_0"
                 THEN o.blocks[b].isum = Total([i \in 0 .. W - 1 |-> Q4_0Weight(x, i) * y[i]], W)
                 ELSE
                   LET n == IF mm.fmt = "q8_0" THEN W ELSE Q
                       w == Dequant(mm.fmt, x)
                   IN  /\ o.blocks[b].isum = Total([i \in 0 .. n - 1 |-> w[i].d * y.qs[i]], n)
                       /\ o.blocks[b].mins = Total([i \in 0 .. n - 1 |-> w[i].m * y.qs[i]], n)
    BY DEF MatmulIsReference
  <2>1. PICK fmt, w, s, j, t : /\ fmt = mm.fmt /\ w = mm.w /\ s = mm.s
                               /\ j = o.at[2] /\ t = o.at[1]
    OBVIOUS
  <2>2. mm # NoCall /\ o \in mm.out
    BY DEF Results
  <2>3. /\ fmt \in {"q4k", "q5k", "q6k", "q8_0", "q4_0"}
        /\ w \in Nat /\ s \in Nat /\ j \in Nat /\ t \in Nat /\ b \in Nat /\ NBlocks \in Nat
        /\ tier \in Tiers
    <3>1. Weights \subseteq Nat /\ Columns \subseteq Nat /\ NBlocks \in Nat
      BY RowsAssumption
    <3>2. b \in Nat
      BY <3>1
    <3> QED BY <2>1, <2>2, <3>1, <3>2 DEF Called, Dispatched
  <2>4. PICK xs, ys : xs = WeightRow(fmt, w, j) /\ ys = Scratch(fmt, s, t)
    OBVIOUS
  <2>5. o.blocks = IF fmt = "q4_0" THEN Q4_0Row(xs, ys, NBlocks)
                   ELSE RowDot(tier, fmt, xs, ys, NBlocks)
    BY <2>1, <2>2, <2>4 DEF OwnColumns, OwnResult
  <2>6. PICK x, y : x = WeightBlock(fmt, w, j, b) /\ y = Scratch(fmt, s, t)[b]
    OBVIOUS
  <2>7. xs[b] = x /\ ys[b] = y
    BY <2>4, <2>6 DEF WeightRow
  <2>8. CASE fmt = "q4_0"
    <3>1. PICK p, c : p = Source(w, j, b) /\ c = Source(s, t, b)
      OBVIOUS
    <3>2. Numbers(p, W) /\ Numbers(c, W)
      BY <2>3, <3>1, SourceIs
    <3>3. x = PackQ4_0(p) /\ y = c
      BY <2>6, <2>8, <3>1 DEF WeightBlock, Scratch
    <3>4. \A g \in 0..H - 1 : x[g] \in 0..255
      BY <3>2, <3>3, PackedAreBytes
    <3>5. Q4_0Row(xs, ys, NBlocks)[b].isum = Total([i \in 0 .. W - 1 |-> Q4_0Weight(xs[b], i) * ys[b][i]], W)
      <4>1. PICK nb \in Nat : nb = NBlocks
        BY <2>3
      <4>2. b \in 0..nb - 1 /\ (\A g \in 0..H - 1 : xs[b][g] \in 0..255) /\ Numbers(ys[b], W)
        BY <2>7, <3>2, <3>3, <3>4, <4>1
      <4>3. Q4_0Row(xs, ys, nb)[b].isum = Total([i \in 0 .. W - 1 |-> Q4_0Weight(xs[b], i) * ys[b][i]], W)
        BY <4>2, Q4_0Is
      <4> QED BY <4>1, <4>3
    <3>6. o.blocks[b].isum = Total([i \in 0 .. W - 1 |-> Q4_0Weight(x, i) * y[i]], W)
      BY <2>5, <2>7, <2>8, <3>5
    <3> QED BY <2>1, <2>6, <2>8, <3>6
  <2>9. CASE fmt # "q4_0"
    <3>1. BlocksMatch(fmt, x, y)
      BY <2>3, <2>6, <2>9, RowsMatch
    <3>2. IsReference(RowDot(tier, fmt, xs, ys, NBlocks)[b], fmt, x, y)
      <4>1. PICK nb \in Nat, v \in Tiers : nb = NBlocks /\ v = tier
        BY <2>3
      <4>2. fmt \in {"q4k", "q5k", "q6k", "q8_0"} /\ b \in 0..nb - 1 /\ BlocksMatch(fmt, xs[b], ys[b])
        BY <2>3, <2>7, <2>9, <3>1, <4>1
      <4>3. IsReference(RowDot(v, fmt, xs, ys, nb)[b], fmt, xs[b], ys[b])
        BY <4>2, RowDotIs
      <4> QED BY <2>7, <4>1, <4>3
    <3>3. IsReference(o.blocks[b], fmt, x, y)
      BY <2>5, <2>9, <3>2
    <3>4. LET n == IF fmt = "q8_0" THEN W ELSE Q
              u == Dequant(fmt, x)
          IN  /\ o.blocks[b].isum = Total([i \in 0 .. n - 1 |-> u[i].d * y.qs[i]], n)
              /\ o.blocks[b].mins = Total([i \in 0 .. n - 1 |-> u[i].m * y.qs[i]], n)
      BY <3>3 DEF IsReference, RefSum, RefMins
    <3> QED BY <2>1, <2>6, <2>9, <3>4
  <2> QED BY <2>8, <2>9
<1> QED BY <1>1, CalledReached, RowsReadTheirColumn, DispatchedReached, PTL
=============================================================================
