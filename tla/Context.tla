------------------------------- MODULE Context -------------------------------
(***************************************************************************)
(* struct slm_ctx (model.c) and the forward passes that mutate it (qwen.c, *)
(* model.c): the flat KV cache with one block of rows per layer, the       *)
(* convolution ring and recurrent state of each SSM layer, the position,   *)
(* the generator, the token log, and snapshot / restore.                   *)
(*                                                                         *)
(* Data: a layer's K/V row, its convolution lane and its recurrent state   *)
(* are the token (or the tokens) they were computed from; hidden vectors   *)
(* and arithmetic are left out.  What a pass reads is kept in seen: its    *)
(* logits are a function of that and of nothing else.                      *)
(*                                                                         *)
(* A definition marked mutant is a plausible slip in the one that follows: *)
(* PROJECT.json names the property that catches it.                        *)
(***************************************************************************)
EXTENDS Integers, Sequences, FiniteSets

CONSTANTS
  NLayers,      \* cfg.n_layers
  SsmLayers,    \* layers with is_ssm set; the others run attention
  MaxPosition,  \* rows of a layer's KV block (cfg.max_position)
  ConvKernel,   \* lanes of a convolution ring (cfg.linear_conv_kernel)
  Token,        \* token ids
  Zero,         \* what calloc left in a cache
  Rng,          \* states of the generator
  Slot,         \* variables of callers that can hold a snapshot
  MaxIds        \* bound: the length of the token log

Layers     == 0..NLayers - 1
AttnLayers == Layers \ SsmLayers
Content    == Token \union {Zero}

ASSUME LayersAssumption ==
  /\ NLayers \in Nat
  /\ SsmLayers \subseteq Layers
  /\ AttnLayers # {}
ASSUME SizesAssumption ==
  /\ MaxPosition \in Nat \ {0}
  /\ ConvKernel \in Nat \ {0}
  /\ MaxIds \in Nat
ASSUME ValuesAssumption == Zero \notin Token

VARIABLES pos, kv, conv_state, conv_head, ssm_state, rng, ids, snaps, seen

vars == <<pos, kv, conv_state, conv_head, ssm_state, rng, ids, snaps, seen>>

-----------------------------------------------------------------------------
(* The KV cache: row p of layer L in one flat array (kv_row_k, kv_row_v).  *)

Rows == 0..NLayers * MaxPosition - 1

Row(L, p) == L * MaxPosition + p

\* n tokens of one call written at positions p .. p + n - 1 of every
\* attention layer
PutRows(m, ts, p) ==
  [r \in Rows |->
     IF \E L \in AttnLayers, i \in 1..Len(ts) : r = Row(L, p + i - 1)
     THEN ts[(r % MaxPosition) - p + 1]
     ELSE m[r]]

\* Rows 0 .. n - 1 of a layer, in order
FirstRows(m, L, n) == [i \in 1..n |-> m[Row(L, i - 1)]]

-----------------------------------------------------------------------------
(* The convolution ring of an SSM layer.                                   *)

Lanes == 0..ConvKernel - 1

\* mutant: counted from the lane after the newest
LastHitLate(head, n, j) == n - ((head + n - j) % ConvKernel)

\* n tokens are stored one after the other from lane head on.  The last of
\* them to fall on lane j is the one numbered LastHit; none did when it is
\* below 1, and then the lane keeps what it held.
LastHit(head, n, j) == n - ((head + n - 1 - j) % ConvKernel)

PutLanes(ring, head, ts) ==
  [j \in Lanes |->
     LET i == LastHit(head, Len(ts), j)
     IN IF i >= 1 THEN ts[i] ELSE ring[j]]

\* mutant: read from the newest lane
WindowFromNewest(ring, head_after) ==
  [k \in Lanes |-> ring[(head_after + ConvKernel - 1 + k) % ConvKernel]]

\* The ring read from the lane after the newest: k = ConvKernel - 1 is the
\* current token, k = 0 the oldest
Window(ring, head_after) ==
  [k \in Lanes |-> ring[(head_after + k) % ConvKernel]]

-----------------------------------------------------------------------------

\* What the last query of a pass reads once n tokens are in the caches: it
\* attends to rows 0 .. n - 1 of its layer
Reads(m, ring, head, state, n) ==
  [rows   |-> [L \in AttnLayers |-> FirstRows(m, L, n)],
   window |-> [L \in SsmLayers |-> Window(ring[L], head[L])],
   state  |-> state]

Init ==
  /\ pos = 0
  /\ kv = [r \in Rows |-> Zero]
  /\ conv_state = [L \in SsmLayers |-> [j \in Lanes |-> Zero]]
  /\ conv_head = [L \in SsmLayers |-> 0]
  /\ ssm_state = [L \in SsmLayers |-> << >>]
  /\ rng \in Rng
  /\ ids = << >>
  /\ snaps = [s \in {} |-> 0]
  /\ seen = Reads(kv, conv_state, conv_head, ssm_state, 0)

\* A pass over ts at pos and the caller's advance of pos past it.  The
\* guard is the caller's duty: no forward pass looks at max_position.
Forward(ts) ==
  /\ pos + Len(ts) <= MaxPosition
  /\ kv' = PutRows(kv, ts, pos)
  /\ conv_state' = [L \in SsmLayers |->
                      PutLanes(conv_state[L], conv_head[L], ts)]
  /\ conv_head' = [L \in SsmLayers |->
                     (conv_head[L] + Len(ts)) % ConvKernel]
  /\ ssm_state' = [L \in SsmLayers |-> ssm_state[L] \o ts]
  /\ pos' = pos + Len(ts)
  /\ seen' = Reads(kv', conv_state', conv_head', ssm_state', pos')
  /\ UNCHANGED <<rng, ids, snaps>>

\* slm_forward_step and the caller's pos++
ForwardStep == \E t \in Token : Forward(<<t>>)

\* slm_forward_batch, taken for prompts of more than one token
ForwardBatch == \E n \in 2..MaxPosition : \E ts \in [1..n -> Token] : Forward(ts)

\* sample_with, or a caller's non-zero seed
Draw ==
  /\ rng' \in Rng
  /\ UNCHANGED <<pos, kv, conv_state, conv_head, ssm_state, ids, snaps, seen>>

\* slm_ctx_ids_append
IdsAppend ==
  /\ Len(ids) < MaxIds
  /\ \E t \in Token : ids' = Append(ids, t)
  /\ UNCHANGED <<pos, kv, conv_state, conv_head, ssm_state, rng, snaps, seen>>

-----------------------------------------------------------------------------
(* Snapshot and restore: the first pos rows of every layer, packed with    *)
(* stride pos; the rings and states whole; of the log only its length.     *)

\* mutant: one copy of the front of the cache
PackedContiguous(n) == [i \in 0..NLayers * n - 1 |-> kv[i]]

\* mutant: the whole cache
PackedWhole(n) == kv

Packed(n) == [i \in 0..NLayers * n - 1 |-> kv[Row(i \div n, i % n)]]

Capture ==
  [pos |-> pos, ids_count |-> Len(ids), rng |-> rng,
   k |-> IF pos > 0 THEN Packed(pos) ELSE << >>,
   conv_state |-> conv_state, conv_head |-> conv_head, ssm_state |-> ssm_state]

Snapshot(s) ==
  /\ s \notin DOMAIN snaps
  /\ snaps' = [t \in DOMAIN snaps \union {s} |->
                 IF t = s THEN Capture ELSE snaps[t]]
  /\ UNCHANGED <<pos, kv, conv_state, conv_head, ssm_state, rng, ids, seen>>

\* mutant: only the position goes back
PutBackNothing(sn) == kv

\* The saved rows go back where they came from, later rows stay as they are
PutBack(sn) ==
  [r \in Rows |->
     LET L == r \div MaxPosition
         p == r % MaxPosition
     IN IF p < sn.pos THEN sn.k[L * sn.pos + p] ELSE kv[r]]

\* mutant: the generator keeps running
RestoreWithoutRng(s) ==
  LET sn == snaps[s] IN
  /\ s \in DOMAIN snaps
  /\ pos' = sn.pos
  /\ ids' = SubSeq(ids, 1, sn.ids_count)
  /\ kv' = PutBack(sn)
  /\ conv_state' = sn.conv_state
  /\ conv_head' = sn.conv_head
  /\ ssm_state' = sn.ssm_state
  /\ UNCHANGED <<snaps, seen, rng>>

Restore(s) ==
  LET sn == snaps[s] IN
  /\ s \in DOMAIN snaps
  /\ pos' = sn.pos
  /\ rng' = sn.rng
  /\ ids' = IF sn.ids_count <= Len(ids)
            THEN SubSeq(ids, 1, sn.ids_count) ELSE ids
  /\ kv' = PutBack(sn)
  /\ conv_state' = sn.conv_state
  /\ conv_head' = sn.conv_head
  /\ ssm_state' = sn.ssm_state
  /\ UNCHANGED <<snaps, seen>>

\* slm_snapshot_free, and the caller's NULL
SnapshotFree(s) ==
  /\ s \in DOMAIN snaps
  /\ snaps' = [t \in DOMAIN snaps \ {s} |-> snaps[t]]
  /\ UNCHANGED <<pos, kv, conv_state, conv_head, ssm_state, rng, ids, seen>>

Next ==
  \/ ForwardStep
  \/ ForwardBatch
  \/ Draw
  \/ IdsAppend
  \/ \E s \in Slot : Snapshot(s) \/ Restore(s) \/ SnapshotFree(s)

Spec == Init /\ [][Next]_vars

-----------------------------------------------------------------------------
(* The history the caches stand for, read off one attention layer.         *)

TheAttnLayer == CHOOSE L \in AttnLayers : TRUE

Hist == FirstRows(kv, TheAttnLayer, pos)

SnapHist(sn) == [i \in 1..sn.pos |-> sn.k[TheAttnLayer * sn.pos + i - 1]]

\* The token at position q of history h, or what calloc left before it
At(h, q) == IF q < 0 THEN Zero ELSE h[q + 1]

\* A ring that holds the last ConvKernel tokens of h, token q in lane
\* q % ConvKernel, and whose head is the lane of the oldest
RingOf(ring, head, h) ==
  /\ head = Len(h) % ConvKernel
  /\ \A q \in (Len(h) - ConvKernel)..(Len(h) - 1) :
       ring[q % ConvKernel] = At(h, q)

(* Every cache stands for the same history: the live rows of every        *)
(* attention layer, the ring and the recurrent state of every SSM layer    *)
(* (what slm_forward_step, slm_forward_batch and slm_ctx_restore leave).   *)
CachesAgree ==
  /\ Hist \in Seq(Token)
  /\ \A L \in AttnLayers, p \in 0..pos - 1 : kv[Row(L, p)] = Hist[p + 1]
  /\ \A L \in SsmLayers :
       /\ RingOf(conv_state[L], conv_head[L], Hist)
       /\ ssm_state[L] = Hist

(* A snapshot holds a whole history too, whatever happened to the context  *)
(* since: its packed rows, rings and states belong together                *)
(* (slm_ctx_snapshot makes deep copies).                                   *)
SnapAgrees(sn) ==
  /\ SnapHist(sn) \in Seq(Token)
  /\ \A L \in AttnLayers, p \in 0..sn.pos - 1 :
       sn.k[L * sn.pos + p] = SnapHist(sn)[p + 1]
  /\ \A L \in SsmLayers :
       /\ RingOf(sn.conv_state[L], sn.conv_head[L], SnapHist(sn))
       /\ sn.ssm_state[L] = SnapHist(sn)

SnapsAgree == \A s \in DOMAIN snaps : SnapAgrees(snaps[s])

(* The logits of the last pass are a function of one history: every        *)
(* attention layer attended to exactly it, every convolution saw its last  *)
(* ConvKernel tokens in order, every recurrent state absorbed it, with no  *)
(* stale row, lane or state of a branch that was rolled back.              *)
LogitsOfOneHistory ==
  LET h == seen.rows[TheAttnLayer] IN
  /\ \A L \in AttnLayers : seen.rows[L] = h
  /\ \A L \in SsmLayers :
       /\ seen.window[L] = [k \in Lanes |-> At(h, Len(h) - ConvKernel + k)]
       /\ seen.state[L] = h

\* The shape of a snapshot
SnapOK(sn) ==
  /\ sn.pos \in 0..MaxPosition
  /\ sn.ids_count \in Nat
  /\ sn.rng \in Rng
  /\ sn.pos > 0 => sn.k \in [0..NLayers * sn.pos - 1 -> Content]
  /\ sn.conv_state \in [SsmLayers -> [Lanes -> Content]]
  /\ sn.conv_head \in [SsmLayers -> Lanes]
  /\ sn.ssm_state \in [SsmLayers -> Seq(Token)]

TypeOK ==
  /\ pos \in 0..MaxPosition
  /\ kv \in [Rows -> Content]
  /\ conv_state \in [SsmLayers -> [Lanes -> Content]]
  /\ conv_head \in [SsmLayers -> Lanes]
  /\ ssm_state \in [SsmLayers -> Seq(Token)]
  /\ rng \in Rng
  /\ ids \in Seq(Token)
  /\ DOMAIN snaps \subseteq Slot
  /\ \A s \in DOMAIN snaps : SnapOK(snaps[s])

(* While at most one snapshot is outstanding, as in slm_generate, the       *)
(* context keeps the promise of History: feeding extends one history, a    *)
(* restore brings back history, generator and log, logits depend on the    *)
(* history alone.  The log of a snapshot is only a length: with two        *)
(* snapshots restored out of order its tokens are gone.                    *)
H == INSTANCE History WITH
       hist   <- Hist,
       logits <- seen.rows[TheAttnLayer],
       saved  <- [s \in DOMAIN snaps |->
                    [hist |-> SnapHist(snaps[s]), rng |-> snaps[s].rng,
                     ids |-> SubSeq(ids, 1, snaps[s].ids_count)]]

KeepsHistory == H!Spec
=============================================================================
