---------------------------- MODULE ContextProofs ----------------------------
(***************************************************************************)
(* For every number of layers, cache size, convolution kernel and set of   *)
(* snapshots: the caches of Context agree on one history, and the logits   *)
(* are a function of it.                                                   *)
(***************************************************************************)
EXTENDS Context, NumberFacts, TLAPS

-----------------------------------------------------------------------------
(* The flat layout: blocks of W rows, one per layer.                       *)

\* Row p of block L is inside the array, and no other row is at its place.
LEMMA BlockRow ==
  ASSUME NEW W \in Nat \ {0}, NEW L \in Layers, NEW p \in 0..W - 1
  PROVE  /\ L * W + p \in 0..NLayers * W - 1
         /\ (L * W + p) % W = p
         /\ (L * W + p) \div W = L
<1>1. L \in Int /\ NLayers \in Int /\ 0 <= L /\ L + 1 <= NLayers
  BY LayersAssumption DEF Layers
<1>2. (L + 1) * W <= NLayers * W /\ 0 <= L * W
  BY <1>1
<1>3. L * W + W <= NLayers * W /\ L * W \in Int /\ NLayers * W \in Int
  BY <1>1, <1>2, Distribute
<1>4. L * W + p \in Int
  BY <1>3
<1>5. (L * W + p) % W = p /\ (L * W + p) \div W = L
  BY <1>1, <1>4, DivModUnique
<1> QED BY <1>2, <1>3, <1>5

\* Every place of the array is a row of a block.
LEMMA BlockSplit ==
  ASSUME NEW W \in Nat \ {0}, NEW r \in 0..NLayers * W - 1
  PROVE  /\ r \div W \in Layers
         /\ r % W \in 0..W - 1
         /\ r = (r \div W) * W + (r % W)
<1>0. NLayers \in Int /\ r \in Int /\ NLayers * W \in Int /\ 0 <= r /\ r < NLayers * W
  BY LayersAssumption
<1>1. PICK q \in Int, s \in 0..W - 1 : r = q * W + s /\ r % W = s /\ r \div W = q
  BY <1>0, DivMod
<1>2. q * W \in Int /\ q * W < NLayers * W /\ -W < q * W
  BY <1>0, <1>1
<1>3. q < NLayers
  BY <1>0, <1>1, <1>2
<1>4. 0 <= q
  BY <1>1, <1>2
<1> QED BY <1>0, <1>1, <1>3, <1>4 DEF Layers

LEMMA AttnInLayers ==
  /\ AttnLayers \subseteq Layers
  /\ TheAttnLayer \in AttnLayers
  BY LayersAssumption DEF AttnLayers, TheAttnLayer

\* A row of the KV cache.
LEMMA RowPlace ==
  ASSUME NEW L \in Layers, NEW p \in 0..MaxPosition - 1
  PROVE  /\ Row(L, p) \in Rows
         /\ Row(L, p) % MaxPosition = p
         /\ Row(L, p) \div MaxPosition = L
  BY BlockRow, SizesAssumption DEF Row, Rows

-----------------------------------------------------------------------------
(* What a pass writes.                                                     *)

\* A pass over ts at p leaves rows below p alone and puts ts from p on.
LEMMA PutRowsAt ==
  ASSUME NEW m, NEW ts \in Seq(Token), NEW p \in Nat, Len(ts) >= 1,
         p + Len(ts) <= MaxPosition,
         NEW L \in AttnLayers, NEW q \in 0..p + Len(ts) - 1
  PROVE  PutRows(m, ts, p)[Row(L, q)] =
           IF q < p THEN m[Row(L, q)] ELSE ts[q - p + 1]
<1> DEFINE n == Len(ts)
<1>1. n \in Nat /\ MaxPosition \in Nat /\ q \in Int
  BY SizesAssumption
<1>2. L \in Layers /\ q \in 0..MaxPosition - 1
  BY <1>1, AttnInLayers
<1>3. Row(L, q) \in Rows /\ Row(L, q) % MaxPosition = q
  BY <1>2, RowPlace
<1>4. CASE q < p
  <2>1. ASSUME NEW K \in AttnLayers, NEW i \in 1..n, Row(L, q) = Row(K, p + i - 1)
        PROVE  FALSE
    <3>1. K \in Layers /\ p + i - 1 \in 0..MaxPosition - 1
      BY <1>1, AttnInLayers
    <3>2. Row(K, p + i - 1) % MaxPosition = p + i - 1
      BY <3>1, RowPlace
    <3> QED BY <3>2, <2>1, <1>3, <1>4, <1>1
  <2> QED BY <2>1, <1>3, <1>4 DEF PutRows
<1>5. CASE ~(q < p)
  <2>1. q - p + 1 \in 1..n /\ q = p + (q - p + 1) - 1
    BY <1>1, <1>5
  <2>2. \E K \in AttnLayers, i \in 1..n : Row(L, q) = Row(K, p + i - 1)
    BY <2>1
  <2> QED BY <2>2, <1>3, <1>5 DEF PutRows
<1> QED BY <1>4, <1>5

\* The last of n tokens stored from lane p % ConvKernel on to fall on the
\* lane of position q is the one for position q.
LEMMA LastHitIs ==
  ASSUME NEW p \in Nat, NEW n \in Nat \ {0}, NEW q \in Int,
         p + n - ConvKernel <= q, q <= p + n - 1
  PROVE  LastHit(p % ConvKernel, n, q % ConvKernel) = q - p + 1
<1> DEFINE K == ConvKernel
           a == p + n - 1
           j == q % K
<1>1. K \in Nat \ {0}
  BY SizesAssumption
<1>2. j \in 0..K - 1 /\ j \in Int /\ p % K \in 0..K - 1 /\ p % K \in Int
  BY <1>1, ModType
<1>3. ((p % K) + (n - 1 - j)) % K = (p + (n - 1 - j)) % K
  <2>1. n - 1 - j \in Int /\ p \in Int
    BY <1>2
  <2> QED BY <1>1, <2>1, ModAdd
<1>4. (a - j) % K = (a - q) % K
  <2>1. a \in Int
    OBVIOUS
  <2> QED BY <1>1, <2>1, ModSub
<1>5. (a - q) % K = a - q
  <2>1. a - q \in 0..K - 1
    BY <1>1
  <2> QED BY <1>1, <2>1, ModSmall
<1>6. (p % K) + n - 1 - j = (p % K) + (n - 1 - j) /\ p + (n - 1 - j) = a - j
  BY <1>2
<1>7. ((p % K) + n - 1 - j) % K = a - q
  BY <1>3, <1>4, <1>5, <1>6
<1> HIDE DEF K, j
<1>8. n - (a - q) = q - p + 1
  OBVIOUS
<1>9. n - (((p % K) + n - 1 - j) % K) = q - p + 1
  BY <1>7, <1>8
<1> QED BY <1>9 DEF LastHit, K, j

\* Storing ts in a ring of h makes it a ring of h followed by ts.
LEMMA PutLanesRing ==
  ASSUME NEW ring, NEW head, NEW h \in Seq(Token), RingOf(ring, head, h),
         NEW ts \in Seq(Token), Len(ts) >= 1
  PROVE  RingOf(PutLanes(ring, head, ts), (head + Len(ts)) % ConvKernel, h \o ts)
<1> DEFINE K == ConvKernel
           n == Len(ts)
           p == Len(h)
<1>1. K \in Nat \ {0} /\ n \in Nat \ {0} /\ p \in Nat /\ head = p % K
  <2>1. K \in Nat \ {0}
    BY SizesAssumption
  <2>2. n \in Nat \ {0} /\ p \in Nat
    OBVIOUS
  <2>3. head = p % K
    BY DEF RingOf
  <2> QED BY <2>1, <2>2, <2>3
<1>2. Len(h \o ts) = p + n
  OBVIOUS
<1>3. (head + n) % K = (p + n) % K
  <2>1. p \in Int /\ n \in Int
    BY <1>1
  <2> QED BY <1>1, <2>1, ModAdd
<1>4. ASSUME NEW q \in (p + n - K)..(p + n - 1)
      PROVE  PutLanes(ring, head, ts)[q % K] = At(h \o ts, q)
  <2>1. q \in Int /\ p + n - K <= q /\ q <= p + n - 1
    BY <1>1
  <2>2. q % K \in Lanes
    BY <1>1, <2>1, ModType DEF Lanes
  <2>3. LastHit(head, n, q % K) = q - p + 1
    BY <1>1, <2>1, LastHitIs
  <2>4. PutLanes(ring, head, ts)[q % K] =
          IF q - p + 1 >= 1 THEN ts[q - p + 1] ELSE ring[q % K]
    BY <2>2, <2>3 DEF PutLanes
  <2>5. CASE q - p + 1 >= 1
    <3>1. (h \o ts)[q + 1] = ts[q - p + 1]
      BY <1>1, <2>1, <2>5
    <3>2. ~(q < 0)
      BY <1>1, <2>1, <2>5
    <3> QED BY <2>4, <2>5, <3>1, <3>2 DEF At
  <2>6. CASE ~(q - p + 1 >= 1)
    <3>1. q \in (p - K)..(p - 1)
      BY <1>1, <2>1, <2>6
    <3>2. ring[q % K] = At(h, q)
      BY <3>1 DEF RingOf
    <3>3. q >= 0 => (h \o ts)[q + 1] = h[q + 1]
      BY <1>1, <2>1, <2>6
    <3> QED BY <2>1, <2>4, <2>6, <3>2, <3>3 DEF At
  <2> QED BY <2>5, <2>6
<1>5. \A q \in (Len(h \o ts) - K)..(Len(h \o ts) - 1) :
        PutLanes(ring, head, ts)[q % K] = At(h \o ts, q)
  <2> TAKE q \in (Len(h \o ts) - K)..(Len(h \o ts) - 1)
  <2>1. q \in (p + n - K)..(p + n - 1)
    BY <1>1, <1>2
  <2> QED BY <2>1, <1>4
<1>6. (head + n) % K = Len(h \o ts) % K
  BY <1>2, <1>3
<1> QED BY <1>5, <1>6 DEF RingOf

\* Read from its head, a ring of h gives the last tokens of h in order.
LEMMA WindowOfRing ==
  ASSUME NEW ring, NEW head, NEW h \in Seq(Token), RingOf(ring, head, h)
  PROVE  Window(ring, head) =
           [k \in Lanes |-> At(h, Len(h) - ConvKernel + k)]
<1> DEFINE K == ConvKernel
           p == Len(h)
<1>1. K \in Nat \ {0} /\ p \in Nat /\ p \in Int /\ head = p % K
  BY SizesAssumption DEF RingOf
<1>2. ASSUME NEW k \in Lanes
      PROVE  ring[(head + k) % K] = At(h, p - K + k)
  <2>1. k \in Int /\ 0 <= k /\ k <= K - 1
    BY <1>1, <1>2 DEF Lanes
  <2>2. (head + k) % K = (p + k) % K
    BY <1>1, <2>1, ModAdd
  <2>3. ((p + k) - K) % K = (p + k) % K
    <3>1. p + k \in Int
      BY <1>1, <2>1
    <3> QED BY <1>1, <3>1, ModWrap
  <2>4. (p + k) - K = p - K + k /\ p - K + k \in (p - K)..(p - 1)
    BY <1>1, <2>1
  <2>5. ring[(p - K + k) % K] = At(h, p - K + k)
    BY <2>4 DEF RingOf
  <2> QED BY <2>2, <2>3, <2>4, <2>5
<1> QED BY <1>2 DEF Window

-----------------------------------------------------------------------------
(* Type correctness.                                                       *)

\* The caches keep their shapes: rows and lanes hold tokens or zeroes, the
\* position stays inside a layer's block.
LEMMA PutRowsType ==
  ASSUME NEW m \in [Rows -> Content], NEW ts \in Seq(Token), NEW p \in Nat,
         p + Len(ts) <= MaxPosition
  PROVE  PutRows(m, ts, p) \in [Rows -> Content]
<1> DEFINE n == Len(ts)
<1>1. n \in Nat /\ MaxPosition \in Nat
  BY SizesAssumption
<1>2. ASSUME NEW r \in Rows, NEW L \in AttnLayers, NEW i \in 1..n,
             r = Row(L, p + i - 1)
      PROVE  ts[(r % MaxPosition) - p + 1] \in Token
  <2>1. L \in Layers /\ p + i - 1 \in 0..MaxPosition - 1
    BY <1>1, AttnInLayers
  <2>2. r % MaxPosition = p + i - 1
    BY <1>2, <2>1, RowPlace
  <2>3. (p + i - 1) - p + 1 = i
    OBVIOUS
  <2> QED BY <2>2, <2>3
<1> QED BY <1>2 DEF PutRows, Content

LEMMA PutLanesType ==
  ASSUME NEW ring \in [Lanes -> Content], NEW head \in Lanes,
         NEW ts \in Seq(Token)
  PROVE  PutLanes(ring, head, ts) \in [Lanes -> Content]
<1> DEFINE n == Len(ts)
<1>1. ConvKernel \in Nat \ {0} /\ n \in Nat
  BY SizesAssumption
<1>2. ASSUME NEW j \in Lanes
      PROVE  LastHit(head, n, j) \in Int /\ LastHit(head, n, j) <= n
  <2>1. head + n - 1 - j \in Int
    BY <1>1 DEF Lanes
  <2>2. (head + n - 1 - j) % ConvKernel \in 0..ConvKernel - 1
    BY <1>1, <2>1, ModType
  <2> HIDE DEF n
  <2> QED BY <1>1, <2>2 DEF LastHit
<1>3. ASSUME NEW j \in Lanes, LastHit(head, n, j) >= 1
      PROVE  ts[LastHit(head, n, j)] \in Token
  <2>1. LastHit(head, n, j) \in 1..n
    BY <1>1, <1>2, <1>3
  <2> QED BY <2>1
<1> QED BY <1>3 DEF PutLanes, Content

\* A pass keeps the shapes.
LEMMA ForwardType ==
  ASSUME TypeOK, NEW ts \in Seq(Token), Forward(ts)
  PROVE  TypeOK'
<1> DEFINE n == Len(ts)
<1>1. n \in Nat /\ pos \in Nat /\ MaxPosition \in Nat /\ ConvKernel \in Nat \ {0}
  BY SizesAssumption DEF TypeOK
<1>2. pos' \in 0..MaxPosition
  BY <1>1 DEF Forward
<1>3. kv' \in [Rows -> Content]
  BY <1>1, PutRowsType DEF Forward, TypeOK
<1>4. conv_state' \in [SsmLayers -> [Lanes -> Content]]
  <2>1. ASSUME NEW L \in SsmLayers
        PROVE  PutLanes(conv_state[L], conv_head[L], ts) \in [Lanes -> Content]
    BY PutLanesType DEF TypeOK
  <2> QED BY <2>1 DEF Forward
<1>5. conv_head' \in [SsmLayers -> Lanes]
  <2>1. ASSUME NEW L \in SsmLayers
        PROVE  (conv_head[L] + n) % ConvKernel \in Lanes
    <3>1. conv_head[L] + n \in Int
      BY <1>1 DEF TypeOK, Lanes
    <3> QED BY <1>1, <3>1, ModType DEF Lanes
  <2> QED BY <2>1 DEF Forward
<1>6. ssm_state' \in [SsmLayers -> Seq(Token)]
  BY DEF Forward, TypeOK
<1>7. UNCHANGED <<rng, ids, snaps>>
  BY DEF Forward
<1> QED BY <1>2, <1>3, <1>4, <1>5, <1>6, <1>7 DEF TypeOK, SnapOK

\* A batch is a sequence of tokens.
LEMMA BatchIsSeq ==
  ASSUME NEW n \in 2..MaxPosition, NEW ts \in [1..n -> Token]
  PROVE  ts \in Seq(Token) /\ Len(ts) = n /\ Len(ts) >= 1
  BY SizesAssumption

LEMMA StepIsSeq ==
  ASSUME NEW t \in Token
  PROVE  <<t>> \in Seq(Token) /\ Len(<<t>>) = 1 /\ Len(<<t>>) >= 1
  OBVIOUS

\* A packed snapshot holds rows of the cache.
LEMMA PackedType ==
  ASSUME TypeOK, pos > 0
  PROVE  Packed(pos) \in [0..NLayers * pos - 1 -> Content]
<1>1. pos \in Nat \ {0} /\ pos <= MaxPosition
  BY SizesAssumption DEF TypeOK
<1>2. ASSUME NEW i \in 0..NLayers * pos - 1
      PROVE  kv[Row(i \div pos, i % pos)] \in Content
  <2>1. i \div pos \in Layers /\ i % pos \in 0..pos - 1
    BY <1>1, BlockSplit
  <2>2. i % pos \in 0..MaxPosition - 1
    BY <1>1, <2>1, SizesAssumption
  <2>3. Row(i \div pos, i % pos) \in Rows
    BY <2>1, <2>2, RowPlace
  <2> QED BY <2>3 DEF TypeOK
<1> QED BY <1>2 DEF Packed

LEMMA PutBackType ==
  ASSUME TypeOK, NEW sn, SnapOK(sn)
  PROVE  PutBack(sn) \in [Rows -> Content]
<1>1. sn.pos \in Nat /\ MaxPosition \in Nat \ {0}
  BY SizesAssumption DEF SnapOK
<1>2. ASSUME NEW r \in Rows, r % MaxPosition < sn.pos
      PROVE  sn.k[(r \div MaxPosition) * sn.pos + (r % MaxPosition)] \in Content
  <2>1. r \div MaxPosition \in Layers /\ r % MaxPosition \in 0..MaxPosition - 1
    BY <1>1, BlockSplit DEF Rows
  <2>2. sn.pos \in Nat \ {0} /\ r % MaxPosition \in 0..sn.pos - 1
    BY <1>1, <1>2, <2>1
  <2>3. (r \div MaxPosition) * sn.pos + (r % MaxPosition)
          \in 0..NLayers * sn.pos - 1
    BY <2>1, <2>2, BlockRow
  <2>4. sn.k \in [0..NLayers * sn.pos - 1 -> Content]
    BY <2>2 DEF SnapOK
  <2> QED BY <2>3, <2>4
<1> QED BY <1>2 DEF PutBack, TypeOK

\* TypeOK is inductive.
LEMMA TypeStep ==
  ASSUME TypeOK, [Next]_vars
  PROVE  TypeOK'
<1>1. CASE ForwardStep
  BY <1>1, StepIsSeq, ForwardType DEF ForwardStep
<1>2. CASE ForwardBatch
  BY <1>2, BatchIsSeq, ForwardType DEF ForwardBatch
<1>3. CASE Draw
  BY <1>3 DEF Draw, TypeOK, SnapOK
<1>4. CASE IdsAppend
  BY <1>4 DEF IdsAppend, TypeOK, SnapOK
<1>5. ASSUME NEW s \in Slot, Snapshot(s)
      PROVE  TypeOK'
  <2>1. SnapOK(snaps'[s])
    <3>1. pos > 0 => Packed(pos) \in [0..NLayers * pos - 1 -> Content]
      BY PackedType
    <3>2. Len(ids) \in Nat
      BY DEF TypeOK
    <3> QED BY <1>5, <3>1, <3>2 DEF Snapshot, Capture, TypeOK, SnapOK
  <2>2. DOMAIN snaps' \subseteq Slot
    BY <1>5 DEF Snapshot, TypeOK
  <2>3. \A t \in DOMAIN snaps' : SnapOK(snaps'[t])
    BY <1>5, <2>1 DEF Snapshot, TypeOK
  <2>4. UNCHANGED <<pos, kv, conv_state, conv_head, ssm_state, rng, ids>>
    BY <1>5 DEF Snapshot
  <2> QED BY <2>2, <2>3, <2>4 DEF TypeOK, SnapOK
<1>6. ASSUME NEW s \in Slot, Restore(s)
      PROVE  TypeOK'
  <2>1. SnapOK(snaps[s])
    BY <1>6 DEF Restore, TypeOK
  <2>2. kv' \in [Rows -> Content]
    BY <1>6, <2>1, PutBackType DEF Restore
  <2>3. ids' \in Seq(Token)
    BY <1>6, <2>1 DEF Restore, TypeOK, SnapOK
  <2> QED BY <1>6, <2>1, <2>2, <2>3 DEF Restore, TypeOK, SnapOK
<1>7. ASSUME NEW s \in Slot, SnapshotFree(s)
      PROVE  TypeOK'
  BY <1>7 DEF SnapshotFree, TypeOK, SnapOK
<1>8. CASE UNCHANGED vars
  BY <1>8 DEF vars, TypeOK, SnapOK
<1> QED
  BY <1>1, <1>2, <1>3, <1>4, <1>5, <1>6, <1>7, <1>8 DEF Next

LEMMA TypeInit ==
  ASSUME Init
  PROVE  TypeOK
<1>1. 0 \in Lanes /\ 0 \in 0..MaxPosition
  BY SizesAssumption DEF Lanes
<1>2. << >> \in Seq(Token)
  OBVIOUS
<1> QED BY <1>1, <1>2 DEF Init, TypeOK, Content

\* Every field of the context and of its snapshots keeps its shape: the
\* position never leaves a layer's block of rows, heads stay on the ring.
THEOREM TypeCorrect == Spec => []TypeOK
<1>1. Init => TypeOK
  BY TypeInit
<1>2. TypeOK /\ [Next]_vars => TypeOK'
  BY TypeStep
<1> QED BY <1>1, <1>2, PTL DEF Spec

-----------------------------------------------------------------------------
(* One history behind all caches.                                          *)

LEMMA SeqIsFunction ==
  ASSUME NEW S, NEW s \in Seq(S), NEW m \in Nat, Len(s) = m
  PROVE  s = [i \in 1..m |-> s[i]]
  OBVIOUS

\* After a pass the first rows of every attention layer are the history
\* followed by the tokens of the pass.
LEMMA ForwardRows ==
  ASSUME TypeOK, CachesAgree, NEW ts \in Seq(Token), Len(ts) >= 1, Forward(ts)
  PROVE  /\ Hist' = Hist \o ts
         /\ \A L \in AttnLayers, p \in 0..pos' - 1 :
              kv'[Row(L, p)] = (Hist \o ts)[p + 1]
<1> DEFINE n == Len(ts)
<1>1. n \in Nat /\ pos \in Nat /\ pos' = pos + n /\ pos + n <= MaxPosition
  BY DEF Forward, TypeOK
<1>2. Hist \in Seq(Token) /\ Len(Hist) = pos
  BY <1>1 DEF CachesAgree, Hist, FirstRows
<1>3. ASSUME NEW L \in AttnLayers, NEW p \in 0..pos + n - 1
      PROVE  kv'[Row(L, p)] = (Hist \o ts)[p + 1]
  <2>1. kv'[Row(L, p)] = IF p < pos THEN kv[Row(L, p)] ELSE ts[p - pos + 1]
    BY <1>1, PutRowsAt DEF Forward
  <2>2. p < pos => kv[Row(L, p)] = Hist[p + 1]
    BY <1>1 DEF CachesAgree
  <2>3. (Hist \o ts)[p + 1] = IF p < pos THEN Hist[p + 1] ELSE ts[p - pos + 1]
    BY <1>1, <1>2
  <2> QED BY <2>1, <2>2, <2>3
<1>4. Hist' = [i \in 1..pos + n |-> kv'[Row(TheAttnLayer, i - 1)]]
  BY <1>1 DEF Hist, FirstRows
<1>5. Hist' = [i \in 1..pos + n |-> (Hist \o ts)[i]]
  <2>1. ASSUME NEW i \in 1..pos + n
        PROVE  kv'[Row(TheAttnLayer, i - 1)] = (Hist \o ts)[i]
    <3>1. i - 1 \in 0..pos + n - 1 /\ (i - 1) + 1 = i
      BY <1>1
    <3> QED BY <3>1, <1>3, AttnInLayers
  <2> QED BY <1>4, <2>1
<1>6. Hist \o ts \in Seq(Token) /\ Len(Hist \o ts) = pos + n
  BY <1>1, <1>2
<1>7. Hist' = Hist \o ts
  <2>1. Hist \o ts = [i \in 1..pos + n |-> (Hist \o ts)[i]]
    <3>1. pos + n \in Nat
      BY <1>1
    <3> QED BY <1>6, <3>1, SeqIsFunction
  <2> QED BY <1>5, <2>1
<1>8. pos' - 1 = pos + n - 1
  BY <1>1
<1> QED BY <1>3, <1>7, <1>8

LEMMA ForwardAgrees ==
  ASSUME TypeOK, CachesAgree, NEW ts \in Seq(Token), Len(ts) >= 1, Forward(ts)
  PROVE  CachesAgree'
<1> DEFINE h == Hist \o ts
<1>1. Hist' = h /\ \A L \in AttnLayers, p \in 0..pos' - 1 : kv'[Row(L, p)] = h[p + 1]
  BY ForwardRows
<1>2. Hist \in Seq(Token) /\ h \in Seq(Token)
  BY DEF CachesAgree
<1>3. ASSUME NEW L \in SsmLayers
      PROVE  RingOf(conv_state'[L], conv_head'[L], h)
  <2>1. RingOf(conv_state[L], conv_head[L], Hist)
    BY DEF CachesAgree
  <2>2. /\ conv_state'[L] = PutLanes(conv_state[L], conv_head[L], ts)
        /\ conv_head'[L] = (conv_head[L] + Len(ts)) % ConvKernel
    BY DEF Forward
  <2> QED BY <1>2, <2>1, <2>2, PutLanesRing
<1>4. \A L \in SsmLayers : ssm_state'[L] = h
  BY DEF CachesAgree, Forward
<1>5. RingOf(conv_state, conv_head, Hist)' <=> RingOf(conv_state', conv_head', Hist')
  BY DEF RingOf, At
<1> QED BY <1>1, <1>2, <1>3, <1>4 DEF CachesAgree, RingOf, At

\* P rows of every layer that agree with h are h, layer by layer.
LEMMA RowsAreHist ==
  ASSUME NEW P \in Nat, NEW m, NEW h \in Seq(Token),
         h = FirstRows(m, TheAttnLayer, P),
         \A L \in AttnLayers, p \in 0..P - 1 : m[Row(L, p)] = h[p + 1]
  PROVE  /\ Len(h) = P
         /\ \A L \in AttnLayers : FirstRows(m, L, P) = h
<1>1. DOMAIN h = 1..P
  BY DEF FirstRows
<1>2. Len(h) = P
  BY <1>1
<1>3. ASSUME NEW L \in AttnLayers
      PROVE  FirstRows(m, L, P) = h
  <2>1. ASSUME NEW i \in 1..P
        PROVE  m[Row(L, i - 1)] = h[i]
    <3>1. i - 1 \in 0..P - 1 /\ (i - 1) + 1 = i
      OBVIOUS
    <3> QED BY <3>1
  <2>2. h = [i \in 1..P |-> h[i]]
    BY <1>2, SeqIsFunction
  <2> QED BY <2>1, <2>2 DEF FirstRows
<1> QED BY <1>2, <1>3

\* What the last query of a pass reads is the new history.
LEMMA ForwardLogits ==
  ASSUME TypeOK, CachesAgree, NEW ts \in Seq(Token), Len(ts) >= 1, Forward(ts)
  PROVE  /\ seen'.rows[TheAttnLayer] = Hist'
         /\ LogitsOfOneHistory'
<1> DEFINE h == Hist'
<1>1. CachesAgree'
  BY ForwardAgrees
<1>2. pos' \in Nat
  <2>1. pos \in Nat /\ pos' = pos + Len(ts)
    BY DEF Forward, TypeOK
  <2>2. pos + Len(ts) \in Nat
    BY <2>1
  <2> QED BY <2>1, <2>2
<1>3. h \in Seq(Token)
  BY <1>1 DEF CachesAgree
<1>4. Len(h) = pos' /\ \A L \in AttnLayers : FirstRows(kv', L, pos') = h
  <2>1. h = FirstRows(kv', TheAttnLayer, pos')
    BY DEF Hist, FirstRows
  <2>2. \A L \in AttnLayers, p \in 0..pos' - 1 : kv'[Row(L, p)] = h[p + 1]
    BY <1>1 DEF CachesAgree
  <2> HIDE DEF h
  <2> QED BY <1>2, <1>3, <2>1, <2>2, RowsAreHist
<1>5. seen' = Reads(kv', conv_state', conv_head', ssm_state', pos')
  BY DEF Forward
<1>6. ASSUME NEW L \in AttnLayers
      PROVE  seen'.rows[L] = h
  <2>1. seen'.rows[L] = FirstRows(kv', L, pos')
    BY <1>5 DEF Reads
  <2> HIDE DEF h
  <2> QED BY <1>4, <2>1
<1>7. ASSUME NEW L \in SsmLayers
      PROVE  /\ seen'.window[L] = [k \in Lanes |-> At(h, Len(h) - ConvKernel + k)]
             /\ seen'.state[L] = h
  <2>1. /\ seen'.window[L] = Window(conv_state'[L], conv_head'[L])
        /\ seen'.state[L] = ssm_state'[L]
    BY <1>5 DEF Reads
  <2>2. RingOf(conv_state'[L], conv_head'[L], h) /\ ssm_state'[L] = h
    BY <1>1 DEF CachesAgree, RingOf, At
  <2> HIDE DEF h
  <2> QED BY <1>3, <2>1, <2>2, WindowOfRing
<1>8. seen'.rows[TheAttnLayer] = h
  BY <1>6, AttnInLayers
<1> HIDE DEF h
<1> QED BY <1>6, <1>7, <1>8 DEF LogitsOfOneHistory, At, h

\* A fresh snapshot holds the context's history.
LEMMA SnapshotHist ==
  ASSUME TypeOK, CachesAgree, NEW s \in Slot, Snapshot(s)
  PROVE  SnapHist(snaps'[s]) = Hist /\ SnapAgrees(snaps'[s])
<1> DEFINE sn == snaps'[s]
<1>1. pos \in Nat /\ pos <= MaxPosition
  BY SizesAssumption DEF TypeOK
<1>2. /\ sn.pos = pos
      /\ sn.conv_state = conv_state /\ sn.conv_head = conv_head
      /\ sn.ssm_state = ssm_state
      /\ pos > 0 => sn.k = Packed(pos)
  BY DEF Snapshot, Capture, TypeOK
<1> HIDE DEF sn
<1>3. ASSUME NEW L \in AttnLayers, NEW p \in 0..pos - 1
      PROVE  sn.k[L * pos + p] = kv[Row(L, p)]
  <2>1. pos \in Nat \ {0} /\ L \in Layers
    BY <1>1, AttnInLayers
  <2>2. /\ L * pos + p \in 0..NLayers * pos - 1
        /\ (L * pos + p) % pos = p
        /\ (L * pos + p) \div pos = L
    BY <2>1, BlockRow
  <2>3. Packed(pos)[L * pos + p] = kv[Row(L, p)]
    BY <2>2 DEF Packed
  <2> QED BY <1>2, <2>1, <2>3
<1>4. SnapHist(sn) = Hist
  <2>1. ASSUME NEW i \in 1..pos
        PROVE  sn.k[TheAttnLayer * pos + i - 1] = kv[Row(TheAttnLayer, i - 1)]
    <3>1. i - 1 \in 0..pos - 1
      BY <1>1
    <3>2. sn.k[TheAttnLayer * pos + (i - 1)] = kv[Row(TheAttnLayer, i - 1)]
      BY <1>3, <3>1, AttnInLayers
    <3>3. TheAttnLayer * pos + i - 1 = TheAttnLayer * pos + (i - 1)
      <4>1. TheAttnLayer \in Int
        BY AttnInLayers, LayersAssumption DEF Layers
      <4>2. TheAttnLayer * pos \in Int
        BY <1>1, <4>1
      <4> QED BY <4>2
    <3> QED BY <3>2, <3>3
  <2> QED BY <1>2, <2>1 DEF SnapHist, Hist, FirstRows
<1>5. \A L \in AttnLayers, p \in 0..pos - 1 : sn.k[L * pos + p] = Hist[p + 1]
  BY <1>3 DEF CachesAgree
<1>6. SnapAgrees(sn)
  <2>1. \A L \in SsmLayers : RingOf(conv_state[L], conv_head[L], Hist) /\ ssm_state[L] = Hist
    BY DEF CachesAgree
  <2>2. Hist \in Seq(Token)
    BY DEF CachesAgree
  <2> QED BY <1>2, <1>4, <1>5, <2>1, <2>2 DEF SnapAgrees
<1> QED BY <1>4, <1>6 DEF sn

\* A restore brings back the history of its snapshot.
LEMMA RestoreHist ==
  ASSUME TypeOK, SnapsAgree, NEW s \in Slot, Restore(s)
  PROVE  Hist' = SnapHist(snaps[s]) /\ CachesAgree'
<1> DEFINE sn == snaps[s]
           h == SnapHist(sn)
<1>1. SnapAgrees(sn) /\ SnapOK(sn)
  BY DEF Restore, SnapsAgree, TypeOK
<1>2. /\ pos' = sn.pos /\ kv' = PutBack(sn)
      /\ conv_state' = sn.conv_state /\ conv_head' = sn.conv_head
      /\ ssm_state' = sn.ssm_state
  BY DEF Restore
<1> HIDE DEF sn
<1>3. sn.pos \in Nat /\ sn.pos <= MaxPosition /\ MaxPosition \in Nat
  BY <1>1, SizesAssumption DEF SnapOK
<1>4. ASSUME NEW L \in AttnLayers, NEW p \in 0..sn.pos - 1
      PROVE  kv'[Row(L, p)] = sn.k[L * sn.pos + p]
  <2>1. L \in Layers /\ p \in 0..MaxPosition - 1 /\ p < sn.pos
    BY <1>3, AttnInLayers
  <2>2. /\ Row(L, p) \in Rows
        /\ Row(L, p) % MaxPosition = p
        /\ Row(L, p) \div MaxPosition = L
    BY <2>1, RowPlace
  <2> QED BY <1>2, <2>1, <2>2 DEF PutBack
<1>5. Hist' = h
  <2>1. ASSUME NEW i \in 1..sn.pos
        PROVE  kv'[Row(TheAttnLayer, i - 1)] = sn.k[TheAttnLayer * sn.pos + i - 1]
    <3>1. i - 1 \in 0..sn.pos - 1
      BY <1>3
    <3>2. kv'[Row(TheAttnLayer, i - 1)] = sn.k[TheAttnLayer * sn.pos + (i - 1)]
      BY <1>4, <3>1, AttnInLayers
    <3>3. TheAttnLayer * sn.pos + i - 1 = TheAttnLayer * sn.pos + (i - 1)
      <4>1. TheAttnLayer \in Int
        BY AttnInLayers, LayersAssumption DEF Layers
      <4>2. TheAttnLayer * sn.pos \in Int
        BY <1>3, <4>1
      <4> QED BY <4>2
    <3> QED BY <3>2, <3>3
  <2> QED BY <1>2, <2>1 DEF SnapHist, Hist, FirstRows
<1>6. h \in Seq(Token) /\ \A L \in AttnLayers, p \in 0..sn.pos - 1 : kv'[Row(L, p)] = h[p + 1]
  BY <1>1, <1>4 DEF SnapAgrees
<1>7. \A L \in SsmLayers :
        RingOf(conv_state'[L], conv_head'[L], h) /\ ssm_state'[L] = h
  BY <1>1, <1>2 DEF SnapAgrees
<1> HIDE DEF h
<1>8. CachesAgree'
  BY <1>2, <1>5, <1>6, <1>7 DEF CachesAgree, RingOf, At
<1> QED BY <1>5, <1>8 DEF h, sn

-----------------------------------------------------------------------------
(* The invariant and its consequences.                                     *)

IInv == TypeOK /\ CachesAgree /\ SnapsAgree /\ LogitsOfOneHistory

LEMMA InitAgrees ==
  ASSUME Init
  PROVE  CachesAgree /\ SnapsAgree /\ LogitsOfOneHistory
<1>1. Hist = << >> /\ Hist \in Seq(Token) /\ Len(Hist) = 0
  BY DEF Init, Hist, FirstRows
<1>2. ASSUME NEW L \in SsmLayers
      PROVE  RingOf(conv_state[L], conv_head[L], << >>)
  <2>1. ConvKernel \in Nat \ {0}
    BY SizesAssumption
  <2>2. conv_head[L] = 0 /\ 0 % ConvKernel = 0
    <3>1. 0 \in 0..ConvKernel - 1
      BY <2>1
    <3> QED BY <2>1, <3>1, ModSmall DEF Init
  <2>3. ASSUME NEW q \in (0 - ConvKernel)..(0 - 1)
        PROVE  conv_state[L][q % ConvKernel] = Zero /\ q < 0
    <3>1. q % ConvKernel \in Lanes /\ q < 0
      BY <2>1, ModType DEF Lanes
    <3> QED BY <3>1 DEF Init
  <2> QED BY <2>2, <2>3 DEF RingOf, At
<1>3. CachesAgree
  <2>1. pos = 0 /\ \A L \in SsmLayers : ssm_state[L] = << >>
    BY DEF Init
  <2> QED BY <1>1, <1>2, <2>1 DEF CachesAgree
<1>4. SnapsAgree
  BY DEF Init, SnapsAgree
<1>5. LogitsOfOneHistory
  <2>1. \A L \in AttnLayers : seen.rows[L] = << >>
    BY DEF Init, Reads, FirstRows
  <2>2. ASSUME NEW L \in SsmLayers
        PROVE  /\ seen.window[L] = [k \in Lanes |-> At(<< >>, 0 - ConvKernel + k)]
               /\ seen.state[L] = << >>
    <3>1. seen.window[L] = Window(conv_state[L], conv_head[L]) /\ seen.state[L] = << >>
      BY DEF Init, Reads
    <3>2. Window(conv_state[L], conv_head[L])
            = [k \in Lanes |-> At(<< >>, Len(<< >>) - ConvKernel + k)]
      <4>1. << >> \in Seq(Token)
        OBVIOUS
      <4> QED BY <4>1, <1>2, WindowOfRing
    <3>3. Len(<< >>) = 0
      OBVIOUS
    <3> QED BY <3>1, <3>2, <3>3
  <2> QED BY <2>1, <2>2, AttnInLayers DEF LogitsOfOneHistory
<1> QED BY <1>3, <1>4, <1>5

\* Steps that leave the caches alone leave their agreement alone.
LEMMA CachesUnchanged ==
  ASSUME CachesAgree,
         UNCHANGED <<pos, kv, conv_state, conv_head, ssm_state>>
  PROVE  CachesAgree' /\ Hist' = Hist
<1>1. Hist' = Hist
  BY DEF Hist
<1>2. \A L \in SsmLayers : RingOf(conv_state'[L], conv_head'[L], Hist')
  BY <1>1 DEF CachesAgree
<1> QED BY <1>1, <1>2 DEF CachesAgree

LEMMA LogitsUnchanged ==
  ASSUME LogitsOfOneHistory, UNCHANGED seen
  PROVE  LogitsOfOneHistory'
  BY DEF LogitsOfOneHistory, At

LEMMA SnapsUnchanged ==
  ASSUME SnapsAgree, UNCHANGED snaps
  PROVE  SnapsAgree'
  BY DEF SnapsAgree

LEMMA AgreeForward ==
  ASSUME IInv, NEW ts \in Seq(Token), Len(ts) >= 1, Forward(ts)
  PROVE  CachesAgree' /\ SnapsAgree' /\ LogitsOfOneHistory'
<1>1. UNCHANGED snaps
  BY DEF Forward
<1> QED BY <1>1, ForwardAgrees, ForwardLogits, SnapsUnchanged DEF IInv

LEMMA AgreeStep ==
  ASSUME IInv, [Next]_vars
  PROVE  CachesAgree' /\ SnapsAgree' /\ LogitsOfOneHistory'
<1> USE DEF IInv
<1>1. CASE ForwardStep
  BY <1>1, StepIsSeq, AgreeForward DEF ForwardStep
<1>2. CASE ForwardBatch
  BY <1>2, BatchIsSeq, AgreeForward DEF ForwardBatch
<1>3. CASE Draw
  BY <1>3, CachesUnchanged, SnapsUnchanged, LogitsUnchanged DEF Draw
<1>4. CASE IdsAppend
  BY <1>4, CachesUnchanged, SnapsUnchanged, LogitsUnchanged DEF IdsAppend
<1>5. ASSUME NEW s \in Slot, Snapshot(s)
      PROVE  CachesAgree' /\ SnapsAgree' /\ LogitsOfOneHistory'
  <2>1. CachesAgree' /\ LogitsOfOneHistory'
    BY <1>5, CachesUnchanged, LogitsUnchanged DEF Snapshot
  <2>2. SnapAgrees(snaps'[s])
    BY <1>5, SnapshotHist
  <2>3. \A t \in DOMAIN snaps' \ {s} : t \in DOMAIN snaps /\ snaps'[t] = snaps[t]
    BY <1>5 DEF Snapshot
  <2>4. \A t \in DOMAIN snaps' : SnapAgrees(snaps'[t])
    BY <2>2, <2>3 DEF SnapsAgree
  <2> QED BY <2>1, <2>4 DEF SnapsAgree
<1>6. ASSUME NEW s \in Slot, Restore(s)
      PROVE  CachesAgree' /\ SnapsAgree' /\ LogitsOfOneHistory'
  BY <1>6, RestoreHist, SnapsUnchanged, LogitsUnchanged DEF Restore
<1>7. ASSUME NEW s \in Slot, SnapshotFree(s)
      PROVE  CachesAgree' /\ SnapsAgree' /\ LogitsOfOneHistory'
  <2>1. CachesAgree' /\ LogitsOfOneHistory'
    BY <1>7, CachesUnchanged, LogitsUnchanged DEF SnapshotFree
  <2>2. \A t \in DOMAIN snaps' : t \in DOMAIN snaps /\ snaps'[t] = snaps[t]
    BY <1>7 DEF SnapshotFree
  <2>3. \A t \in DOMAIN snaps' : SnapAgrees(snaps'[t])
    BY <2>2 DEF SnapsAgree
  <2> QED BY <2>1, <2>3 DEF SnapsAgree
<1>8. CASE UNCHANGED vars
  BY <1>8, CachesUnchanged, SnapsUnchanged, LogitsUnchanged DEF vars
<1> QED
  BY <1>1, <1>2, <1>3, <1>4, <1>5, <1>6, <1>7, <1>8 DEF Next

LEMMA Invariance == Spec => []IInv
<1>1. Init => IInv
  BY TypeInit, InitAgrees DEF IInv
<1>2. IInv /\ [Next]_vars => IInv'
  <2>1. ASSUME IInv, [Next]_vars
        PROVE  TypeOK' /\ CachesAgree' /\ SnapsAgree' /\ LogitsOfOneHistory'
    BY <2>1, TypeStep, AgreeStep DEF IInv
  <2> QED BY <2>1 DEF IInv
<1> QED BY <1>1, <1>2, PTL DEF Spec

\* Whatever sequence of passes, batches, snapshots and restores led here,
\* every attention layer's live rows, every ring and every recurrent state
\* stand for one and the same history.
THEOREM CachesCorrect == Spec => []CachesAgree
<1>1. IInv => CachesAgree
  BY DEF IInv
<1> QED BY <1>1, Invariance, PTL

\* No later pass can spoil a snapshot.
THEOREM SnapshotsCorrect == Spec => []SnapsAgree
<1>1. IInv => SnapsAgree
  BY DEF IInv
<1> QED BY <1>1, Invariance, PTL

\* No pass ever computes logits from a row, a lane or a state that a
\* rolled-back branch left behind.
THEOREM LogitsCorrect == Spec => []LogitsOfOneHistory
<1>1. IInv => LogitsOfOneHistory
  BY DEF IInv
<1> QED BY <1>1, Invariance, PTL

-----------------------------------------------------------------------------
(* With one snapshot slot the context implements History.                  *)

\* The log is never shorter than an outstanding snapshot says it was.
IdsKept == \A s \in DOMAIN snaps : snaps[s].ids_count <= Len(ids)

SavedView ==
  [s \in DOMAIN snaps |->
     [hist |-> SnapHist(snaps[s]), rng |-> snaps[s].rng,
      ids |-> SubSeq(ids, 1, snaps[s].ids_count)]]

LEMMA IdsKeptStep ==
  ASSUME NEW s0, Slot = {s0}, TypeOK, IdsKept, [Next]_vars
  PROVE  IdsKept'
<1>1. CASE ForwardStep
  BY <1>1 DEF ForwardStep, Forward, IdsKept
<1>2. CASE ForwardBatch
  BY <1>2 DEF ForwardBatch, Forward, IdsKept
<1>3. CASE Draw
  BY <1>3 DEF Draw, IdsKept
<1>4. CASE IdsAppend
  <2>1. Len(ids') = Len(ids) + 1 /\ Len(ids) \in Nat
    BY <1>4 DEF IdsAppend, TypeOK
  <2> QED BY <1>4, <2>1 DEF IdsAppend, IdsKept, TypeOK, SnapOK
<1>5. ASSUME NEW s \in Slot, Snapshot(s)
      PROVE  IdsKept'
  <2>1. Len(ids) \in Nat /\ ids' = ids
    BY <1>5 DEF Snapshot, TypeOK
  <2> QED BY <1>5, <2>1 DEF Snapshot, Capture, IdsKept
<1>6. ASSUME NEW s \in Slot, Restore(s)
      PROVE  IdsKept'
  <2>1. snaps[s].ids_count \in Nat /\ snaps[s].ids_count <= Len(ids)
    BY <1>6 DEF Restore, IdsKept, TypeOK, SnapOK
  <2>2. Len(ids') = snaps[s].ids_count
    BY <1>6, <2>1 DEF Restore, TypeOK
  <2>3. \A t \in DOMAIN snaps' : t = s
    BY <1>6 DEF Restore, TypeOK
  <2> QED BY <1>6, <2>1, <2>2, <2>3 DEF Restore, IdsKept
<1>7. ASSUME NEW s \in Slot, SnapshotFree(s)
      PROVE  IdsKept'
  BY <1>7 DEF SnapshotFree, IdsKept
<1>8. CASE UNCHANGED vars
  BY <1>8 DEF vars, IdsKept
<1> QED
  BY <1>1, <1>2, <1>3, <1>4, <1>5, <1>6, <1>7, <1>8 DEF Next

\* A pass is a Feed.
LEMMA ForwardFeeds ==
  ASSUME IInv, NEW ts \in Seq(Token), Len(ts) >= 1, Forward(ts)
  PROVE  H!Feed
<1>1. Hist \in Seq(Token) /\ Hist' = Hist \o ts
  BY ForwardRows DEF IInv, CachesAgree
<1>2. seen'.rows[TheAttnLayer] = Hist'
  BY ForwardLogits DEF IInv
<1>3. Hist' # Hist
  <2>1. Len(Hist \o ts) = Len(Hist) + Len(ts) /\ Len(Hist) \in Nat /\ Len(ts) \in Nat
    BY <1>1
  <2>2. Len(Hist \o ts) # Len(Hist)
    BY <2>1
  <2> QED BY <1>1, <2>2
<1>4. H!Extends(Hist', Hist)
  <2>1. Hist \o ts \in Seq(Token) /\ Len(Hist) <= Len(Hist \o ts)
    BY <1>1
  <2>2. \A i \in 1..Len(Hist) : (Hist \o ts)[i] = Hist[i]
    BY <1>1
  <2> QED BY <1>1, <2>1, <2>2 DEF H!Extends
<1>5. UNCHANGED <<rng, ids, SavedView>>
  BY DEF Forward, SavedView
<1> QED BY <1>2, <1>3, <1>4, <1>5 DEF H!Feed, SavedView

\* Appending to the log keeps what a snapshot saved of it.
LEMMA IdsAppendLogs ==
  ASSUME IInv, IdsKept, IdsAppend
  PROVE  H!Log
<1>1. PICK t \in Token : ids' = Append(ids, t)
  BY DEF IdsAppend
<1>2. ids \in Seq(Token)
  BY DEF IInv, TypeOK
<1>3. H!Extends(ids', ids)
  BY <1>1, <1>2 DEF H!Extends
<1>4. ASSUME NEW s \in DOMAIN snaps
      PROVE  SubSeq(ids', 1, snaps[s].ids_count) = SubSeq(ids, 1, snaps[s].ids_count)
  <2>1. snaps[s].ids_count \in Nat /\ snaps[s].ids_count <= Len(ids)
    BY DEF IInv, TypeOK, SnapOK, IdsKept
  <2> QED BY <1>1, <1>2, <2>1
<1>5. SavedView' = SavedView
  BY <1>4 DEF IdsAppend, SavedView
<1>6. UNCHANGED <<Hist, seen.rows[TheAttnLayer], rng>>
  BY DEF IdsAppend, Hist
<1> QED BY <1>3, <1>5, <1>6 DEF H!Log, SavedView

LEMMA SnapshotSaves ==
  ASSUME IInv, NEW s \in Slot, Snapshot(s)
  PROVE  H!Save(s)
<1>1. SnapHist(snaps'[s]) = Hist /\ Hist' = Hist /\ ids' = ids
  BY SnapshotHist, CachesUnchanged DEF IInv, Snapshot
<1>2. DOMAIN snaps' = DOMAIN snaps \union {s} /\ s \notin DOMAIN snaps
  BY DEF Snapshot
<1>3. snaps'[s].rng = rng /\ snaps'[s].ids_count = Len(ids)
  BY DEF Snapshot, Capture
<1>4. SubSeq(ids, 1, Len(ids)) = ids
  BY DEF IInv, TypeOK
<1>5. ASSUME NEW t \in DOMAIN snaps
      PROVE  snaps'[t] = snaps[t]
  BY <1>2 DEF Snapshot
<1>6. SavedView' = [t \in DOMAIN SavedView \union {s} |->
                      IF t = s THEN [hist |-> Hist, rng |-> rng, ids |-> ids]
                      ELSE SavedView[t]]
  <2>1. DOMAIN SavedView = DOMAIN snaps
    BY DEF SavedView
  <2>2. SavedView' = [t \in DOMAIN snaps \union {s} |->
           [hist |-> SnapHist(snaps'[t]), rng |-> snaps'[t].rng,
            ids |-> SubSeq(ids, 1, snaps'[t].ids_count)]]
    BY <1>1, <1>2 DEF SavedView
  <2>3. ASSUME NEW t \in DOMAIN snaps \union {s}
        PROVE  [hist |-> SnapHist(snaps'[t]), rng |-> snaps'[t].rng,
                ids |-> SubSeq(ids, 1, snaps'[t].ids_count)]
               = IF t = s THEN [hist |-> Hist, rng |-> rng, ids |-> ids]
                 ELSE SavedView[t]
    BY <1>1, <1>3, <1>4, <1>5 DEF SavedView
  <2> QED BY <2>1, <2>2, <2>3
<1>7. UNCHANGED <<seen.rows[TheAttnLayer], rng>>
  BY DEF Snapshot
<1>8. s \notin DOMAIN SavedView
  BY <1>2 DEF SavedView
<1> QED BY <1>1, <1>6, <1>7, <1>8 DEF H!Save, SavedView

LEMMA RestoreRestores ==
  ASSUME NEW s0, Slot = {s0}, IInv, IdsKept, NEW s \in Slot, Restore(s)
  PROVE  H!Restore(s)
<1>1. s \in DOMAIN snaps /\ DOMAIN snaps = {s} /\ snaps' = snaps
  BY DEF Restore, IInv, TypeOK
<1>2. Hist' = SnapHist(snaps[s]) /\ rng' = snaps[s].rng
  BY RestoreHist DEF IInv, Restore
<1> DEFINE c == snaps[s].ids_count
<1>3. c \in Nat /\ c <= Len(ids) /\ ids \in Seq(Token)
  BY <1>1 DEF IInv, TypeOK, SnapOK, IdsKept
<1>4. ids' = SubSeq(ids, 1, c)
  BY <1>3 DEF Restore
<1>5. SubSeq(ids', 1, c) = SubSeq(ids, 1, c)
  BY <1>3, <1>4
<1>6. SavedView' = SavedView
  BY <1>1, <1>5 DEF SavedView
<1>7. seen' = seen
  BY DEF Restore
<1>8. s \in DOMAIN SavedView /\ SavedView[s].hist = Hist' /\ SavedView[s].rng = rng'
      /\ SavedView[s].ids = ids'
  BY <1>1, <1>2, <1>4 DEF SavedView
<1> QED BY <1>6, <1>7, <1>8 DEF H!Restore, SavedView

LEMMA FreeFrees ==
  ASSUME IInv, NEW s \in Slot, SnapshotFree(s)
  PROVE  H!Free(s)
<1>1. Hist' = Hist /\ ids' = ids /\ rng' = rng /\ seen' = seen
  BY CachesUnchanged DEF IInv, SnapshotFree
<1>2. SavedView' = [t \in DOMAIN SavedView \ {s} |-> SavedView[t]]
  <2>1. snaps' = [t \in DOMAIN snaps \ {s} |-> snaps[t]]
    BY DEF SnapshotFree
  <2>2. DOMAIN SavedView = DOMAIN snaps
    BY DEF SavedView
  <2> QED BY <1>1, <2>1, <2>2 DEF SavedView
<1> QED BY <1>1, <1>2 DEF H!Free, SavedView

LEMMA StepRefines ==
  ASSUME NEW s0, Slot = {s0}, IInv, IdsKept, [Next]_vars
  PROVE  [H!Next]_(H!vars)
<1>1. CASE ForwardStep
  BY <1>1, StepIsSeq, ForwardFeeds DEF ForwardStep, H!Next
<1>2. CASE ForwardBatch
  BY <1>2, BatchIsSeq, ForwardFeeds DEF ForwardBatch, H!Next
<1>3. CASE Draw
  <2>1. H!Draw
    <3>1. Hist' = Hist
      BY <1>3, CachesUnchanged DEF IInv, Draw
    <3> QED BY <1>3, <3>1 DEF Draw, H!Draw
  <2> QED BY <2>1 DEF H!Next
<1>4. CASE IdsAppend
  BY <1>4, IdsAppendLogs DEF H!Next
<1>5. ASSUME NEW s \in Slot, Snapshot(s)
      PROVE  H!Next
  BY <1>5, SnapshotSaves DEF H!Next
<1>6. ASSUME NEW s \in Slot, Restore(s)
      PROVE  H!Next
  BY <1>6, RestoreRestores DEF H!Next
<1>7. ASSUME NEW s \in Slot, SnapshotFree(s)
      PROVE  H!Next
  BY <1>7, FreeFrees DEF H!Next
<1>8. CASE UNCHANGED vars
  <2>1. Hist' = Hist
    BY <1>8, CachesUnchanged DEF IInv, vars
  <2> QED BY <1>8, <2>1 DEF vars, H!vars
<1> QED
  BY <1>1, <1>2, <1>3, <1>4, <1>5, <1>6, <1>7, <1>8 DEF Next

LEMMA InitRefines ==
  ASSUME Init
  PROVE  H!Init /\ IdsKept
<1>1. Hist = << >> /\ seen.rows[TheAttnLayer] = << >>
  BY AttnInLayers DEF Init, Hist, FirstRows, Reads
<1>2. DOMAIN snaps = {}
  BY DEF Init
<1> QED BY <1>1, <1>2 DEF Init, H!Init, IdsKept

\* With one snapshot outstanding at a time, as slm_generate keeps it, the
\* context with all its caches implements History: a restore brings back
\* the history, the generator and the log exactly.
THEOREM KeepsOneHistory ==
  ASSUME NEW s0, Slot = {s0}
  PROVE  Spec => KeepsHistory
<1>1. Init => H!Init /\ IdsKept
  BY InitRefines
<1>2. IInv /\ IdsKept /\ [Next]_vars => IdsKept'
  BY IdsKeptStep DEF IInv
<1>3. IInv /\ IdsKept /\ [Next]_vars => [H!Next]_(H!vars)
  BY StepRefines
<1> QED BY <1>1, <1>2, <1>3, Invariance, PTL DEF Spec, KeepsHistory, H!Spec
=============================================================================
