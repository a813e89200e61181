------------------------------- MODULE TurnDocs -------------------------------
(***************************************************************************)
(* What the comments of the repository say of a turn and the code does not *)
(* do.  Each is checked alone, and refuted by a behaviour of Turn.         *)
(***************************************************************************)
EXTENDS Turn

(* "Aborts cleanly when cb returns non-zero" (slm.h, slm_generate); the    *)
(* answer to a prefilled, call, response or trailing chunk is dropped and  *)
(* the model keeps running.                                                *)
RefusalStops == pc = "sample" => refused = {}

(* "the first sample-able token is pos_start + n - 1" (qwen.c,             *)
(* slm_forward_batch): a prefill ends with the logits to sample from.  The *)
(* decode loop feeds the last prompt token a second time first.            *)
FirstSampleFromPrompt == pc = "sample" /\ generated = 0 => hist = TurnPrompt

(* "[n_layers][max_position][n_kv_heads][head_dim]" (model.c, slm_kv): a   *)
(* layer has max_position rows.  Prefill writes past them.                 *)
RowsInCache == pc # "overrun"

(* "decodes up to `max_new` tokens" (slm.h, slm_generate).  The pass that  *)
(* answers from a tool's result has the whole budget again.                *)
BudgetOfTheCall == sampled <= max_new

(* "Returns the number of decode tokens emitted" (slm.h, slm_generate).    *)
(* The tokens of the pass that called the tool are not counted.            *)
ReturnsWhatWasDecoded == pc = "idle" => result = sampled

(* "If the model emits a <tool_call>, we dispatch it internally" (slm.c,   *)
(* slm_generate).  A call whose closing marker is the last token of the    *)
(* budget is dropped: the user sees neither the call nor an answer.        *)
EmittedCallIsRun == pc = "idle" /\ ready => dispatched > 0

(* "All token ids prefilled or generated since ctx_create" (slm.h,         *)
(* slm_ctx_tokens).  Sampled tokens are fed and never logged.              *)
LogHoldsWhatWasFed == pc = "idle" => Range(hist) \subseteq Range(ids)
=============================================================================
