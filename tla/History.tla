------------------------------- MODULE History -------------------------------
(***************************************************************************)
(* What a conversation context promises its callers, with the caches left  *)
(* out: a history of the tokens fed so far, on which alone the logits of   *)
(* the last forward pass depend, and snapshots that bring a history back   *)
(* exactly as it was.  Context implements this specification; Turn uses a  *)
(* context through it.                                                     *)
(***************************************************************************)
EXTENDS Naturals, Sequences

CONSTANTS Token,   \* token ids
          Rng,     \* states of the per-conversation generator
          Slot     \* the variables of callers that can hold a snapshot

VARIABLES hist,    \* the tokens the caches stand for, oldest first
          logits,  \* the history the last forward pass computed from
          rng,     \* the generator's state
          ids,     \* the token log behind slm_ctx_tokens
          saved    \* what each slot in use holds

vars == <<hist, logits, rng, ids, saved>>

Init ==
  /\ hist = << >>
  /\ logits = << >>
  /\ rng \in Rng
  /\ ids = << >>
  /\ saved = [s \in {} |-> 0]

\* new is old with zero or more tokens after it
Extends(new, old) ==
  /\ new \in Seq(Token)
  /\ Len(old) <= Len(new)
  /\ \A i \in 1..Len(old) : new[i] = old[i]

\* One or more tokens are fed; the logits belong to the last of them.
Feed ==
  /\ hist' # hist
  /\ Extends(hist', hist)
  /\ logits' = hist'
  /\ UNCHANGED <<rng, ids, saved>>

Draw ==
  /\ rng' \in Rng
  /\ UNCHANGED <<hist, logits, ids, saved>>

Log ==
  /\ Extends(ids', ids)
  /\ UNCHANGED <<hist, logits, rng, saved>>

Save(s) ==
  /\ s \notin DOMAIN saved
  /\ saved' = [t \in DOMAIN saved \union {s} |->
                 IF t = s THEN [hist |-> hist, rng |-> rng, ids |-> ids]
                 ELSE saved[t]]
  /\ UNCHANGED <<hist, logits, rng, ids>>

\* The history, the generator and the log come back.
Restore(s) ==
  /\ s \in DOMAIN saved
  /\ hist' = saved[s].hist
  /\ rng' = saved[s].rng
  /\ ids' = saved[s].ids
  /\ UNCHANGED <<logits, saved>>

Free(s) ==
  /\ saved' = [t \in DOMAIN saved \ {s} |-> saved[t]]
  /\ UNCHANGED <<hist, logits, rng, ids>>

Next ==
  \/ Feed
  \/ Draw
  \/ Log
  \/ \E s \in Slot : Save(s) \/ Restore(s) \/ Free(s)

Spec == Init /\ [][Next]_vars
=============================================================================
