------------------------------ MODULE DeltaNet ------------------------------
(***************************************************************************)
(* One head of a gated DeltaNet layer: the state it carries from token to  *)
(* token, advanced by the recurrence of slm_forward_ssm when one token is  *)
(* decoded, and by the chunked kernel of chunked.c when a prompt is        *)
(* prefilled.  The kernel turns up to CHUNK_SIZE dependent steps into      *)
(* matrices and one triangular solve; the conversation's caches mean       *)
(* something only if it computes what the steps would have computed, for   *)
(* every split of a prompt into batches, chunks and single tokens.         *)
(*                                                                         *)
(* Numbers are those of any commutative ring with an exponential: the      *)
(* kernel uses of the numbers only that, and of expf only that it turns    *)
(* sums into products.  The reals are such a ring, so what the model       *)
(* leaves out is the rounding of fp32.  L2 normalisation and the           *)
(* temperature are applied before either algorithm and are left out, and   *)
(* so are the heads, which share nothing.                                  *)
(*                                                                         *)
(* A definition marked mutant is a plausible slip in the one that follows: *)
(* PROJECT.json names the property that catches it.                        *)
(***************************************************************************)
EXTENDS Integers, Sequences

CONSTANTS Num, Zero, One, add(_, _), sub(_, _), mul(_, _), exp(_),
          KHd, VHd,   \* k_hd and v_hd
          CHUNK_SIZE,
          Inputs,     \* records [q, k, v, g_log, beta], one per prompt token
          MaxBatch    \* bound: tokens of one batched forward pass

a \oplus b  == add(a, b)
a \ominus b == sub(a, b)
a \otimes b == mul(a, b)

ASSUME RingAssumption ==
  /\ Zero \in Num /\ One \in Num
  /\ \A a, b \in Num : /\ a \oplus b \in Num /\ a \ominus b \in Num /\ a \otimes b \in Num
                       /\ a \oplus b = b \oplus a /\ a \otimes b = b \otimes a
                       /\ (a \ominus b) \oplus b = a
  /\ \A a \in Num : a \oplus Zero = a /\ a \otimes One = a
  /\ \A a, b, c \in Num : /\ a \oplus (b \oplus c) = (a \oplus b) \oplus c
                          /\ a \otimes (b \otimes c) = (a \otimes b) \otimes c
                          /\ a \otimes (b \oplus c) = a \otimes b \oplus a \otimes c

ASSUME ExpAssumption ==
  /\ exp(Zero) = One
  /\ \A a, b \in Num : exp(a) \in Num /\ exp(a \oplus b) = exp(a) \otimes exp(b)

ASSUME InputsAssumption ==
  /\ KHd \in Nat /\ VHd \in Nat /\ CHUNK_SIZE \in Nat \ {0} /\ MaxBatch \in Nat
  /\ \A t \in Inputs : /\ t.q \in [1..KHd -> Num] /\ t.k \in [1..KHd -> Num]
                       /\ t.v \in [1..VHd -> Num]
                       /\ t.g_log \in Num /\ t.beta \in Num

\* f[1] + ... + f[n], from the left
Sum(f, n) ==
  LET upTo[i \in 0..n] == IF i = 0 THEN Zero ELSE upTo[i - 1] \oplus f[i]
  IN  upTo[n]

dot(a, b) == Sum([d \in 1..KHd |-> a[d] \otimes b[d]], KHd)

\* The state of a head is a matrix of KHd rows and VHd columns.
Cells == (1..KHd) \X (1..VHd)

\* sum_d state[d][e] * x[d]
times(state, x) == [e \in 1..VHd |-> Sum([d \in 1..KHd |-> state[<<d, e>>] \otimes x[d]], KHd)]

-----------------------------------------------------------------------------
(* The recurrence, one token.                                              *)

StepState(state, t) ==
  LET st    == [c \in Cells |-> state[c] \otimes exp(t.g_log)]
      kvMem == times(st, t.k)
      delta == [e \in 1..VHd |-> (t.v[e] \ominus kvMem[e]) \otimes t.beta]
  IN  [c \in Cells |-> st[c] \oplus t.k[c[1]] \otimes delta[c[2]]]

StepOut(state, t) == times(StepState(state, t), t.q)

-----------------------------------------------------------------------------
(* chunked_ssm_step_f32: the tokens of one chunk at once.  Rows are query  *)
(* times and columns key times.                                            *)

gcs(ts) == [i \in DOMAIN ts |-> Sum([s \in DOMAIN ts |-> ts[s].g_log], i)]

decay_mask(ts, i, j) == IF i > j THEN exp(gcs(ts)[i] \ominus gcs(ts)[j]) ELSE Zero

k_beta(ts, t) == [d \in 1..KHd |-> ts[t].k[d] \otimes ts[t].beta]

\* mutant: the earlier token's beta, as in step 3 of the file's header.
kk_dotByKey(ts, i, j) == dot(ts[i].k, k_beta(ts, j)) \otimes decay_mask(ts, i, j)

kk_dot(ts, i, j) == dot(ts[j].k, k_beta(ts, i)) \otimes decay_mask(ts, i, j)

\* One column of a system with a lower triangle and a unit diagonal, from the
\* top: each number needs those above it, which are there already.
SolveTri(N, A, b) ==
  LET x[i \in 0..N] ==
        IF i = 0 THEN b
        ELSE [x[i-1] EXCEPT ![i] = b[i] \ominus Sum([t \in 1..N |-> A[<<i, t>>] \otimes x[i-1][t]], i - 1)]
  IN  x[N]

attn(ts) ==
  LET N   == Len(ts)
      lhs == [p \in (1..N) \X (1..N) |-> IF p[1] = p[2] THEN One ELSE kk_dot(ts, p[1], p[2])]
      X   == [j \in 1..N |-> SolveTri(N, lhs, [i \in 1..N |-> Zero \ominus kk_dot(ts, i, j)])]
  IN  [p \in (1..N) \X (1..N) |->
        IF p[2] < p[1] THEN X[p[2]][p[1]] ELSE IF p[2] = p[1] THEN One ELSE Zero]

\* Row t of attn times a column: sum_u attn[t, u] * col[u]
Mixed(at, t, col) == Sum([u \in DOMAIN col |-> at[<<t, u>>] \otimes col[u]], t)

\* mutant: the decay mask as it is, with the zeros of its diagonal.
attn_kqMasked(ts, i, j) == dot(ts[j].k, ts[i].q) \otimes decay_mask(ts, i, j)

attn_kq(ts, i, j) ==
  IF i < j THEN Zero
  ELSE dot(ts[j].k, ts[i].q) \otimes (IF i = j THEN One ELSE decay_mask(ts, i, j))

\* The values the tokens add to the state, given what it predicts already.
v_new(state, ts) ==
  LET at == attn(ts)
      v_beta(e) == [u \in DOMAIN ts |-> ts[u].v[e] \otimes ts[u].beta]
      kbeta_gexp(d) == [u \in DOMAIN ts |-> k_beta(ts, u)[d] \otimes exp(gcs(ts)[u])]
      k_cumdecay(t) == [d \in 1..KHd |-> Mixed(at, t, kbeta_gexp(d))]
      v_prime(t) == times(state, k_cumdecay(t))
  IN  [t \in DOMAIN ts |-> [e \in 1..VHd |-> Mixed(at, t, v_beta(e)) \ominus v_prime(t)[e]]]

ChunkOut(state, ts) ==
  LET vn == v_new(state, ts)
      attn_inter(t) == times(state, [d \in 1..KHd |-> ts[t].q[d] \otimes exp(gcs(ts)[t])])
      v_attn(t, e) == Sum([u \in DOMAIN ts |-> attn_kq(ts, t, u) \otimes vn[u][e]], Len(ts))
  IN  [t \in DOMAIN ts |-> [e \in 1..VHd |-> attn_inter(t)[e] \oplus v_attn(t, e)]]

ChunkState(state, ts) ==
  LET vn == v_new(state, ts)
      last == gcs(ts)[Len(ts)]
      key_gdiff(t, d) == ts[t].k[d] \otimes exp(last \ominus gcs(ts)[t])
  IN  [c \in Cells |->
        state[c] \otimes exp(last)
          \oplus Sum([t \in DOMAIN ts |-> key_gdiff(t, c[1]) \otimes vn[t][c[2]]], Len(ts))]

\* The loop of slm_forward_ssm_batch over the chunks of a batch: the state is
\* carried in place, the last chunk holds what is left.
ChunksOf(n) == (n + CHUNK_SIZE - 1) \div CHUNK_SIZE
Chunk(ts, ck) ==
  SubSeq(ts, ck * CHUNK_SIZE + 1,
         IF Len(ts) - ck * CHUNK_SIZE > CHUNK_SIZE THEN (ck + 1) * CHUNK_SIZE ELSE Len(ts))

Carried(state, ts) ==
  LET st[ck \in 0..ChunksOf(Len(ts))] ==
        IF ck = 0 THEN state ELSE ChunkState(st[ck-1], Chunk(ts, ck-1))
  IN  st
BatchState(state, ts) == Carried(state, ts)[ChunksOf(Len(ts))]
BatchOut(state, ts) ==
  [i \in DOMAIN ts |->
     LET ck == (i - 1) \div CHUNK_SIZE
     IN  ChunkOut(Carried(state, ts)[ck], Chunk(ts, ck))[i - ck * CHUNK_SIZE]]

-----------------------------------------------------------------------------
VARIABLES ssm_state,   \* the head's slice of the recurrent state cache
          batch,       \* the tokens the model has not seen yet
          recur,       \* history: the state after those tokens, one by one
          wanted       \* history: their outputs, one by one
head == <<ssm_state, batch, recur, wanted>>

HeadInit ==
  /\ ssm_state = [c \in Cells |-> Zero] /\ recur = ssm_state
  /\ batch = <<>> /\ wanted = <<>>

\* A token to feed: the prompt goes on, or a token was drawn.
Feed(t) ==
  /\ Len(batch) < MaxBatch
  /\ batch' = Append(batch, t)
  /\ recur' = StepState(recur, t)
  /\ wanted' = Append(wanted, StepOut(recur, t))
  /\ UNCHANGED ssm_state

\* A prompt of several tokens is one batch where LLM_USE_FORWARD_BATCH is set.
slm_forward_ssm_batch ==
  /\ Len(batch) > 1
  /\ ssm_state' = BatchState(ssm_state, batch)
  /\ batch' = <<>> /\ wanted' = <<>>
  /\ UNCHANGED recur

\* Elsewhere, and while decoding, tokens go one at a time.
slm_forward_ssm ==
  /\ batch # <<>>
  /\ ssm_state' = StepState(ssm_state, Head(batch))
  /\ batch' = Tail(batch) /\ wanted' = Tail(wanted)
  /\ UNCHANGED recur

HeadNext == (\E t \in Inputs : Feed(t)) \/ slm_forward_ssm_batch \/ slm_forward_ssm

HeadSpec == HeadInit /\ [][HeadNext]_head

-----------------------------------------------------------------------------
\* The kernel leaves the state that the tokens one by one would have left,
\* from every state a conversation can be in and for every cut into batches
\* and chunks (chunked_ssm_step_f32 against slm_forward_ssm): a reply does
\* not depend on how its prompt was split.
ChunkedStateIsRecurrent ==
  /\ ssm_state \in [Cells -> Num]
  /\ BatchState(ssm_state, batch) = recur

\* Each token of a batch gets the output decoding would have given it at its
\* position: nothing of a later token of the chunk leaks into it.
ChunkedOutputIsRecurrent == BatchOut(ssm_state, batch) = wanted
=============================================================================
