--------------------------------- MODULE Turn ---------------------------------
(***************************************************************************)
(* One conversation: the system framing (slm_ctx_system_prompt) and user   *)
(* turns (slm_generate over slm_generate_raw, slm.c) with the tool round   *)
(* that decodes a call, runs it, rolls the context back to the decision    *)
(* point and answers from the result.                                      *)
(*                                                                         *)
(* The context is used through what it promises (History): its history is  *)
(* the sequence of tokens fed.  Framed text is the tokens it encodes to;   *)
(* a sampled token remembers the pass that sampled it; the filter between  *)
(* decoding and the callback is reduced to its mode and whether it holds   *)
(* text back (ThinkFilter has the rest).  The callback answers what it     *)
(* likes to every chunk.  min_new and the generator are left out.          *)
(*                                                                         *)
(* A definition marked mutant is a plausible slip in the one that follows: *)
(* PROJECT.json names the property that catches it.                        *)
(***************************************************************************)
EXTENDS Naturals, Sequences, SequencesExt

CONSTANTS
  SystemLen,    \* tokens of the system block
  TurnLen,      \* tokens of a framed user turn
  ResultLen,    \* tokens of the framed call and its result
  MaxNew,       \* bound: the largest max_new asked for
  MaxPosition,  \* cfg.max_position
  MaxAttempts,  \* bound: calls of slm_ctx_system_prompt
  MaxTurns      \* bound: calls of slm_generate

ASSUME LengthsAssumption ==
  /\ SystemLen \in Nat \ {0} /\ TurnLen \in Nat \ {0} /\ ResultLen \in Nat \ {0}
  /\ MaxNew \in Nat \ {0} /\ MaxPosition \in Nat
  /\ MaxAttempts \in Nat /\ MaxTurns \in Nat

\* A framed turn opens with a marker, <|im_start|>, and ends with a line break
ASSUME FramesAssumption == TurnLen > 1

IterCap == 2                       \* SLM_GENERATE_TOOL_ITER_CAP
Passes  == 0..IterCap - 1

Framed(kind, n) == [i \in 1..n |-> <<kind, i>>]
SystemBlock == Framed("system", SystemLen)
TurnDelta   == Framed("user", TurnLen)
ToolResult  == Framed("result", ResultLen)
Sampled     == {"gen"} \X Passes
Token       == UNION {Range(SystemBlock), Range(TurnDelta), Range(ToolResult), Sampled}

VARIABLES
  pc,           \* where the engine thread is
  \* struct slm_ctx
  hist, logits, \* what the caches and the last logits stand for
  cpos,         \* c->pos
  ids, messages, committed,
  tools,        \* ctrl.tools
  saved,        \* the snapshot, in slot "snap" when there is one
  \* slm_generate
  with_tools, with_debug, max_new, tool_round, total_gen, iter, cur,
  \* slm_generate_raw
  pos, fed, generated, stop, last,
  \* struct slm_think_filter
  mode, held, ready,
  \* observed
  chunk,        \* the chunk this step gave to the callback
  refused,      \* the kinds of chunk the callback refused in this call
  before, logged, \* history and log when the call began
  sampled,      \* tokens sampled in this call
  prefills,     \* prefilled chunks in this call
  dispatched,   \* tool rounds in this call
  result,       \* what the last slm_generate returned
  framed,       \* the tools flag the system framing was built with
  attempts, turns

context == <<hist, logits, ids, saved>>
conv    == <<messages, committed, tools>>
turn    == <<with_tools, with_debug, max_new, tool_round, total_gen, iter, cur>>
pass    == <<pos, fed, generated, stop, last>>
filter  == <<mode, held, ready>>
seen    == <<before, logged, sampled, prefills, dispatched, result, framed, attempts, turns>>
vars    == <<pc, cpos, context, conv, turn, pass, filter, chunk, refused, seen>>

Init ==
  /\ pc = "idle" /\ cpos = 0
  /\ hist = << >> /\ logits = << >> /\ ids = << >> /\ saved = [s \in {} |-> 0]
  /\ messages = << >> /\ committed = FALSE /\ tools \in BOOLEAN
  /\ with_tools = FALSE /\ with_debug = FALSE /\ max_new = 0 /\ tool_round = FALSE
  /\ total_gen = 0 /\ iter = 0 /\ cur = << >>
  /\ pos = 0 /\ fed = 0 /\ generated = 0 /\ stop = FALSE /\ last = <<"user", 1>>
  /\ mode = "content" /\ held = FALSE /\ ready = FALSE
  /\ chunk = "none" /\ refused = {} /\ before = << >> /\ logged = << >>
  /\ sampled = 0 /\ prefills = 0 /\ dispatched = 0 /\ result = 0 /\ framed = FALSE /\ attempts = 0 /\ turns = 0

Goto(from, to) == pc = from /\ pc' = to

Silent == chunk' = "none" /\ UNCHANGED refused

\* slm_cb_emit: the callback gets a chunk and answers rc (TRUE: abort)
Emit(kind, where, rc) ==
  /\ chunk' = kind
  /\ refused' = IF rc THEN refused \union {where} ELSE refused

\* slm_forward_step and slm_forward_batch
Feed(ts) == hist' = hist \o ts /\ logits' = hist'

-----------------------------------------------------------------------------
(* slm_ctx_system_prompt                                                   *)

SystemPrompt ==
  /\ Goto("idle", "framing")
  /\ ~committed
  /\ attempts < MaxAttempts /\ attempts' = attempts + 1
  /\ ids' = ids \o SystemBlock
  /\ messages' = Append(messages, "system")
  /\ fed' = 0
  /\ framed' = tools
  /\ chunk' = "none" /\ refused' = {}
  /\ UNCHANGED <<cpos, hist, logits, saved, committed, tools, turn, pos, generated, stop,
                 last, filter, before, logged, sampled, prefills, dispatched, result, turns>>

\* One token and its progress chunk; refusing it ends the call
SystemStep ==
  /\ pc = "framing" /\ fed < SystemLen
  /\ cpos < MaxPosition
  /\ Feed(<<SystemBlock[fed + 1]>>)
  /\ cpos' = cpos + 1
  /\ fed' = fed + 1
  /\ \E rc \in BOOLEAN : Emit("progress", "progress", rc) /\ pc' = IF rc THEN "idle" ELSE pc
  /\ UNCHANGED <<ids, saved, conv, turn, pos, generated, stop, last, filter, seen>>

\* The answer to the last chunk is not looked at
SystemCommit ==
  /\ Goto("framing", "idle") /\ fed = SystemLen
  /\ committed' = TRUE
  /\ \E rc \in BOOLEAN : Emit("prefilled", "prefilled", rc)
  /\ UNCHANGED <<cpos, context, messages, tools, turn, pass, filter, seen>>

\* A caller writes through slm_ctx_ctrl between calls
SetTools ==
  /\ pc = "idle"
  /\ tools' = ~tools
  /\ Silent
  /\ UNCHANGED <<pc, cpos, context, messages, committed, turn, pass, filter, seen>>

-----------------------------------------------------------------------------
(* slm_generate: the head of a turn                                        *)

\* A budget of 0 or less logs the prompt, and no pass feeds it
Generate ==
  /\ Goto("idle", "next_pass")
  /\ committed
  /\ turns < MaxTurns /\ turns' = turns + 1
  /\ max_new' \in 0..MaxNew
  /\ with_tools' = tools /\ tool_round' = tools
  /\ with_debug' \in BOOLEAN
  /\ messages' = Append(messages, "user")
  /\ cur' = TurnDelta
  /\ ids' = ids \o TurnDelta
  /\ total_gen' = 0 /\ iter' = 0
  /\ before' = hist /\ logged' = ids
  /\ sampled' = 0 /\ prefills' = 0 /\ dispatched' = 0
  /\ chunk' = "none" /\ refused' = {}
  /\ UNCHANGED <<cpos, hist, logits, saved, committed, tools, pass, filter,
                 result, framed, attempts>>

\* The loop condition, the filter's init and the head of slm_generate_raw
StartPass ==
  /\ Goto("next_pass", "prefill")
  /\ iter < IterCap /\ total_gen < max_new
  /\ mode' = "content" /\ held' = FALSE /\ ready' = FALSE
  /\ pos' = cpos
  /\ fed' = 0 /\ generated' = 0 /\ stop' = FALSE
  /\ last' = cur[Len(cur)]
  /\ Silent
  /\ UNCHANGED <<cpos, context, conv, turn, seen>>

\* Neither prefill looks at max_position: past it the rows of another layer,
\* or memory that is not the cache, are overwritten, and anything may follow
Overrun ==
  /\ \/ pc = "prefill" /\ fed < Len(cur) /\ pos >= MaxPosition
     \/ pc = "framing" /\ fed < SystemLen /\ cpos >= MaxPosition
  /\ pc' = "overrun"
  /\ Silent
  /\ UNCHANGED <<cpos, context, conv, turn, pass, filter, seen>>

\* n more prompt tokens: one, or with LLM_USE_FORWARD_BATCH all of them
Prefill ==
  /\ pc = "prefill" /\ fed < Len(cur)
  /\ \E n \in {1, Len(cur)} :
       /\ fed + n <= Len(cur) /\ pos + n <= MaxPosition
       /\ Feed(SubSeq(cur, fed + 1, fed + n))
       /\ fed' = fed + n
       /\ pos' = pos + n
  /\ Silent
  /\ UNCHANGED <<pc, cpos, ids, saved, conv, turn, generated, stop, last, filter, seen>>

\* slm_ctx_snapshot of a context whose position is p: the rows below p and
\* the length of the log
Snapshot(p) == [hist |-> SubSeq(hist, 1, p), pos |-> p, ids_count |-> Len(ids)]

NoSnap == [s \in {} |-> 0]

\* c->pos = pos, then the hook of the pass that may still call a tool
DecisionPoint ==
  /\ Goto("prefill", "prefilled") /\ fed = Len(cur)
  /\ cpos' = pos
  /\ saved' = IF tool_round /\ saved = NoSnap THEN [s \in {"snap"} |-> Snapshot(cpos')] ELSE saved
  /\ Silent
  /\ UNCHANGED <<hist, logits, ids, conv, turn, pass, filter, seen>>

\* The answer is not looked at
Prefilled ==
  /\ Goto("prefilled", "decode")
  /\ \E rc \in BOOLEAN : Emit("prefilled", "prefilled", rc)
  /\ prefills' = prefills + 1
  /\ UNCHANGED <<cpos, context, conv, turn, pass, filter,
                 before, logged, sampled, dispatched, result, framed, attempts, turns>>

-----------------------------------------------------------------------------
(* slm_generate_raw: the decode loop                                       *)

MoreToDecode == ~stop /\ generated < max_new - total_gen /\ pos < MaxPosition

DecodeForward ==
  /\ Goto("decode", "sample")
  /\ MoreToDecode
  /\ Feed(<<last>>)
  /\ pos' = pos + 1
  /\ Silent
  /\ UNCHANGED <<cpos, ids, saved, conv, turn, fed, generated, stop, last, filter, seen>>

\* A token is drawn; end tells whether the loop stops on it
Draw(end) ==
  /\ Goto("sample", "decode")
  /\ generated' = generated + 1 /\ sampled' = sampled + 1
  /\ stop' = end
  /\ UNCHANGED <<cpos, context, conv, turn, pos, fed,
                 before, logged, prefills, dispatched, result, framed, attempts, turns>>

\* eos, eot or one of the stop ids: not decoded, not fed
DrawStop ==
  /\ Draw(TRUE)
  /\ Silent
  /\ UNCHANGED <<last, filter>>

\* mutant: the token is kept for the next pass only when it is shown
DrawHeldForgets ==
  /\ Draw(FALSE)
  /\ held' \in {held, TRUE}
  /\ Silent
  /\ UNCHANGED <<last, mode, ready>>

\* The piece stays in the filter, or goes into the call it is collecting
DrawHeld ==
  /\ Draw(FALSE)
  /\ last' = <<"gen", iter>>
  /\ held' \in {held, TRUE}
  /\ Silent
  /\ UNCHANGED <<mode, ready>>

\* mutant: the callback's answer is lost
DrawShownOnward ==
  /\ mode = "content"
  /\ Draw(FALSE)
  /\ \E rc \in BOOLEAN : Emit("content", "content", rc)
  /\ last' = <<"gen", iter>>
  /\ held' \in BOOLEAN
  /\ UNCHANGED <<mode, ready>>

\* The piece lets text go to the callback, content or reasoning, and may
\* end with the marker that opens a call
DrawShown ==
  /\ mode = "content"
  /\ \E rc \in BOOLEAN :
       /\ Draw(rc)
       /\ Emit("content", "content", rc)
  /\ last' = <<"gen", iter>>
  /\ held' \in BOOLEAN
  /\ mode' \in IF with_tools THEN {"content", "tool_call"} ELSE {"content"}
  /\ UNCHANGED ready

\* The marker that opens a call, with nothing to show before it
DrawOpen ==
  /\ mode = "content" /\ with_tools
  /\ Draw(FALSE)
  /\ last' = <<"gen", iter>>
  /\ mode' = "tool_call" /\ held' = FALSE
  /\ Silent
  /\ UNCHANGED ready

\* The call is complete.  In the pass that may call a tool it stops the
\* loop, whatever the callback says of the call chunk; later it is dropped.
\* Text of the same piece after the marker stays held.
DrawClose ==
  /\ mode = "tool_call"
  /\ mode' = "content" /\ held' \in BOOLEAN
  /\ last' = <<"gen", iter>>
  /\ Draw(tool_round)
  /\ ready' = tool_round
  /\ IF tool_round /\ with_debug
     THEN \E rc \in BOOLEAN : Emit("call", "call", rc)
     ELSE Silent

\* mutant: the position stays in the pass
DecodeEndLocal ==
  /\ Goto("decode", "finish")
  /\ ~MoreToDecode
  /\ total_gen' = total_gen + generated
  /\ Silent
  /\ UNCHANGED <<cpos, context, conv, with_tools, with_debug, max_new, tool_round, iter, cur,
                 pass, filter, seen>>

\* c->pos = pos, and the pass's tokens are counted
DecodeEnd ==
  /\ Goto("decode", "finish")
  /\ ~MoreToDecode
  /\ cpos' = pos
  /\ total_gen' = total_gen + generated
  /\ Silent
  /\ UNCHANGED <<context, conv, with_tools, with_debug, max_new, tool_round, iter, cur,
                 pass, filter, seen>>

\* slm_think_filter_finish: what is held goes out, even after an abort, and
\* the answer is not looked at; an unfinished call is collected
Finish ==
  /\ Goto("finish", "after")
  /\ held' = FALSE
  /\ IF held /\ mode = "content"
     THEN \E rc \in BOOLEAN : Emit("content", "tail", rc)
     ELSE Silent
  /\ UNCHANGED <<cpos, context, conv, turn, pass, mode, ready, seen>>

-----------------------------------------------------------------------------
(* slm_generate: the tool round, and the end of a turn                     *)

\* mutant: no budget left but one token counts as none
CallToRunEarly == saved # NoSnap /\ ready /\ total_gen + 1 < max_new

CallToRun == saved # NoSnap /\ ready /\ total_gen < max_new

\* agent_dispatch of up to four calls; with debug the result goes to the
\* callback and to messages
Dispatch ==
  /\ Goto("after", "restore")
  /\ CallToRun
  /\ dispatched' = dispatched + 1
  /\ IF with_debug
     THEN /\ messages' = Append(messages, "result")
          /\ \E rc \in BOOLEAN : Emit("response", "response", rc)
     ELSE Silent /\ UNCHANGED messages
  /\ UNCHANGED <<cpos, context, committed, tools, turn, pass, filter,
                 before, logged, sampled, prefills, result, framed, attempts, turns>>

\* mutant: the caches stay as they are
RestoreLogOnly ==
  /\ Goto("restore", "drop")
  /\ cpos' = saved["snap"].pos
  /\ ids' = SubSeq(ids, 1, saved["snap"].ids_count)
  /\ Silent
  /\ UNCHANGED <<hist, logits, saved, conv, turn, pass, filter, seen>>

\* slm_ctx_restore
Restore ==
  /\ Goto("restore", "drop")
  /\ hist' = saved["snap"].hist
  /\ cpos' = saved["snap"].pos
  /\ ids' = SubSeq(ids, 1, saved["snap"].ids_count)
  /\ Silent
  /\ UNCHANGED <<logits, saved, conv, turn, pass, filter, seen>>

\* mutant: the second pass may call a tool again
DropSnapshotOnly ==
  /\ Goto("drop", "inject")
  /\ saved' = NoSnap
  /\ Silent
  /\ UNCHANGED <<cpos, hist, logits, ids, conv, turn, pass, filter, seen>>

\* slm_snapshot_free, snap = NULL; one tool round per turn
DropSnapshot ==
  /\ Goto("drop", "inject")
  /\ saved' = NoSnap
  /\ tool_round' = FALSE
  /\ Silent
  /\ UNCHANGED <<cpos, hist, logits, ids, conv, with_tools, with_debug, max_new,
                 total_gen, iter, cur, pass, filter, seen>>

\* The framed result is the prompt of the next pass, with the whole budget
Inject ==
  /\ Goto("inject", "next_pass")
  /\ cur' = ToolResult
  /\ ids' = ids \o ToolResult
  /\ total_gen' = 0
  /\ iter' = iter + 1
  /\ Silent
  /\ UNCHANGED <<cpos, hist, logits, saved, conv, with_tools, with_debug, max_new,
                 tool_round, pass, filter, seen>>

\* mutant: the snapshot of a turn without a call is not freed
ReturnLeaks ==
  /\ pc' = "idle"
  /\ \/ pc = "after" /\ ~CallToRun
     \/ pc = "next_pass" /\ ~(iter < IterCap /\ total_gen < max_new)
  /\ result' = total_gen
  /\ Silent
  /\ UNCHANGED <<cpos, context, conv, turn, pass, filter,
                 before, logged, sampled, prefills, dispatched, framed, attempts, turns>>

\* No call to run, or no pass left: the snapshot is freed
Return ==
  /\ pc' = "idle"
  /\ \/ pc = "after" /\ ~CallToRun
     \/ pc = "next_pass" /\ ~(iter < IterCap /\ total_gen < max_new)
  /\ saved' = NoSnap
  /\ result' = total_gen
  /\ Silent
  /\ UNCHANGED <<cpos, hist, logits, ids, conv, turn, pass, filter,
                 before, logged, sampled, prefills, dispatched, framed, attempts, turns>>

System == SystemPrompt \/ SystemStep \/ SystemCommit
Prompt == Generate \/ StartPass \/ Prefill \/ DecisionPoint \/ Prefilled
Decode == \/ DecodeForward \/ DrawStop \/ DrawHeld \/ DrawShown \/ DrawOpen
          \/ DrawClose \/ DecodeEnd \/ Finish
Round  == Dispatch \/ Restore \/ DropSnapshot \/ Inject \/ Return

Next == System \/ SetTools \/ Prompt \/ Overrun \/ Decode \/ Round

Spec == Init /\ [][Next]_vars

-----------------------------------------------------------------------------
(* What a turn keeps.                                                      *)

TypeOK ==
  /\ pc \in {"idle", "framing", "next_pass", "prefill", "prefilled", "decode", "sample",
             "finish", "after", "restore", "drop", "inject", "overrun"}
  /\ hist \in Seq(Token) /\ logits \in Seq(Token) /\ ids \in Seq(Token)
  /\ cpos \in 0..MaxPosition /\ pos \in 0..MaxPosition
  /\ DOMAIN saved \subseteq {"snap"}
  /\ \A s \in DOMAIN saved : /\ saved[s].hist \in Seq(Token)
                             /\ saved[s].pos \in 0..MaxPosition
                             /\ saved[s].ids_count \in Nat
  /\ messages \in Seq({"system", "user", "result"})
  /\ {committed, tools, with_tools, with_debug, tool_round, framed} \subseteq BOOLEAN
  /\ {stop, held, ready} \subseteq BOOLEAN
  /\ iter \in 0..IterCap /\ max_new \in 0..MaxNew /\ total_gen \in 0..MaxNew
  /\ generated \in 0..MaxNew /\ result \in 0..MaxNew
  /\ cur \in Seq(Token) /\ fed \in Nat /\ last \in Token
  /\ mode \in {"content", "tool_call"}
  /\ chunk \in {"none", "progress", "prefilled", "content", "call", "response"}
  /\ refused \subseteq {"progress", "prefilled", "content", "tail", "call", "response"}

InPass == pc \in {"prefill", "prefilled", "decode", "sample"}

(* The position a pass works at, the position of the context between       *)
(* passes and the position in a snapshot are each the length of the        *)
(* history they go with: the next forward pass never writes over a live    *)
(* row or leaves a gap (slm_generate_raw keeps c->pos in a local and       *)
(* stores it twice, once just before the snapshot hook).                   *)
PositionsInStep ==
  /\ pc # "overrun" => (IF InPass THEN pos ELSE cpos) = Len(hist)
  /\ \A s \in DOMAIN saved : saved[s].pos = Len(saved[s].hist)

(* Wherever the engine decodes, the model has seen exactly: what came      *)
(* before the turn, the framed prompt, in the second pass the framed       *)
(* result, the last of these once more, and the tokens this pass sampled   *)
(* but the newest.  Nothing of the pass that called the tool is left.      *)
TurnPrompt == before \o TurnDelta \o IF iter = 0 THEN << >> ELSE ToolResult

PassTail ==
  IF generated = 0 THEN << >>
  ELSE <<cur[Len(cur)]>> \o [i \in 1..generated - 1 |-> <<"gen", iter>>]

HistoryOfPass == pc = "decode" => hist = TurnPrompt \o PassTail

(* A call adds to the log exactly the prompts it fed the model, each once  *)
(* and in order: no injected result is logged that no pass reads, none is  *)
(* read that is not logged, and none stays that a rollback took away.  A   *)
(* call without a budget logs its prompt all the same, and the model never *)
(* reads it.  (A token fed twice in a row is the last of a prompt, which   *)
(* the decode loop feeds once more.)                                       *)
IsFramed(h, i) == h[i][1] # "gen" /\ (i > 1 => h[i] # h[i - 1])

Prompts(h) ==
  LET upto[i \in 0..Len(h)] ==
        IF i = 0 THEN << >>
        ELSE IF IsFramed(h, i) THEN Append(upto[i - 1], h[i]) ELSE upto[i - 1]
  IN upto[Len(h)]

Added == SubSeq(ids, Len(logged) + 1, Len(ids))

CallLogsItsPrompts ==
  pc = "idle" /\ turns > 0 =>
    /\ ids = logged \o Added
    /\ IF max_new > 0 THEN Prompts(hist) = Prompts(before) \o Added
                      ELSE Added = TurnDelta /\ hist = before

(* A turn runs one tool round at most and leaves no snapshot behind.       *)
OneToolRound ==
  /\ dispatched <= 1
  /\ pc = "idle" => saved = NoSnap

(* Once the callback has refused text the loop gave it, the model is not   *)
(* run again in this turn.                                                 *)
RefusedTextStops == "content" \in refused => pc \notin {"sample", "prefill", "restore"}

(* A call the model completed in the pass that may run it is run, unless   *)
(* the token that completed it was the last of the budget: then the turn   *)
(* ends with the call dropped, no pass after it, and the budget spent to   *)
(* the last token.                                                         *)
CallsAreAnswered ==
  pc = "idle" /\ ready => dispatched = 0 /\ sampled = max_new /\ result = max_new

(* A turn uses its context as History allows, with one snapshot: it feeds, *)
(* logs, saves, restores and frees, one at a time.                         *)
H == INSTANCE History WITH
       Rng <- {0}, rng <- 0, Slot <- {"snap"},
       saved <- [s \in DOMAIN saved |->
                   [hist |-> saved[s].hist, rng |-> 0,
                    ids |-> SubSeq(ids, 1, saved[s].ids_count)]]

UsesHistory == H!Spec
=============================================================================
