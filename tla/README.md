# Verification of qwen.haiku

qwen.haiku runs a small hybrid language model (Qwen 3.5, attention and
state-space layers) in plain C, with a SwiftUI app on top. This directory holds
its TLA+ models, the TLC configurations that check them, and proofs for TLAPS.

    tlc -config MCContext.cfg MCContext     # one file.cfg per run, see "Runs"
    tlapm ContextProofs.tla                 # 958 obligations
    tlapm TurnProofs.tla                    # 2123 obligations
    tlapm AppProofs.tla                     # 2251 obligations
    tlapm TraceRingProofs.tla               # 788 obligations
    tlapm KernelsProofs.tla                 # 8851 obligations
    tlapm HashMapPromptProofs.tla           # 10922 obligations
    tlapm ThinkFilterProofs.tla             # 3350 obligations
    tlapm NumberFacts.tla                   # 153 obligations

`PROJECT.json` says, for every definition, which lines of `src/` it stands for,
which run checks which property, and which slip in the code (a *mutant*: a
definition of the module, marked as one) each property was seen to catch.

## 1. The system

    SwiftUI app   App.swift  Debug.swift  Downloader.swift  SLM.swift
                      |  detached tasks, callbacks, main actor's queue
    engine        slm.c: system prompt, slm_generate, tool round, stream filter
                      |  prompt deltas       | tools        | tokens
    support       jinja.c tokenizer.c     tools.c agent.c   sampler.c
                      |
    model         model.c qwen.c chunked.c: caches, forward passes, snapshots
                      |
    numerics      tensor.c simd/*  gguf.c  utils/*  (utils/trace.c: the log ring)

| Component | State it keeps | Operations | What is hard |
|---|---|---|---|
| Conversation context (`model.c`, `qwen.c`) | `slm_ctx`: flat KV cache, convolution rings and recurrent states per layer, `pos`, token log `ids`, generator `rng` | create, one-token pass, batch pass, draw, log, snapshot, restore, free | three kinds of cache advance separately and must stand for one history; snapshot repacks rows between two strides; ring writes of a batch longer or shorter than the ring; rows of a rolled-back branch stay in memory |
| Turn engine (`slm.c`) | `slm_ctx.pos/ids/messages/committed`, the locals of `slm_generate` and `slm_generate_raw`, one snapshot | `slm_ctx_system_prompt`, `slm_generate` | position kept in a local and stored twice; rollback to the decision point in the middle of a turn; the callback may refuse any chunk; budgets and a tool-round limit |
| Stream filter (`slm.c`, `slm_think_filter`) | hold buffer, mode, tool-call buffer, `ready` | push, finish | markers and characters cut at any byte; a hold of fixed size |
| Chunked state-space kernel (`chunked.c`, `qwen.c`) | one matrix per head | recurrence (one token), chunk (up to 64 tokens) | 64 dependent steps turned into a triangular solve must give the same state |
| Downloader (`Downloader.swift`) | model file and `.meta` on disk, URLSession, continuation | `ensureAvailable`, delegate methods | crash between two file operations, stale sidecar, two paths that both resume |
| View model and bridge (`App.swift`, `SLM.swift`) | `state`, chips, messages, stop flag; the context pointer | tap handlers, detached tasks, callbacks | tasks off the main actor, results posted in pieces, flags read late |
| Trace ring and Debug tab (`utils/trace.c`, `Debug.swift`) | ring of heap messages, head, observer, shown lines | `trace`, `trace_at`, subscribe, run tests | lock-free, one ring for all threads |
| Prompt: template (`jinja.c`), tokenizer (`tokenizer.c`) | vocabulary and merge tables; the log and the messages of a context | system block, turn delta, whole conversation; load, encode, decode | a conversation is framed and encoded piece by piece, and must be the one a whole rendering gives; trimming, thinking and shared tool frames; ties between merges |
| Tool calls (`agent.c`) | positions in a text, the call being read, up to 4 or 8 calls | `agent_parse_tool_calls` with its JSON reader, `agent_dispatch` | a small model writes anything between the tags; two shapes; fixed room for calls and parameters |
| Matrix kernels (`tensor.c`, `simd/*`) | the processor's features and the tier, chosen once; a scratch row | quantisers, dot products of five formats, scalar and in up to five machine versions, tiled float products | bits of packed fields, 8- and 16-bit lanes that saturate or wrap, tails, rows in parallel over one scratch row |
| Hash map (`utils/maps.c`) | slots, count | put, get, remove, grow, free | tombstones, ownership of values, probes that need an empty slot |
| Sampler, arena, loader, network tools, command lines, arrays, scripts | see section 8 | | not modelled, or only at their interface |

How they interact. The app runs at most one detached task at a time (load,
prepare or generate); it alone calls into C. `slm_generate` frames the message,
calls `slm_generate_raw` once or twice, and gives each chunk to a C callback
that posts it to the main actor; its return value is the stop flag.
`slm_generate_raw` feeds the prompt, calls back at the decision point where
`slm_generate` takes a snapshot, then feeds, draws and pushes text through the
filter. If the filter has collected a call, the tool is run, the context rolled
back to the snapshot, and the framed result becomes the prompt of a second
pass. Framing is text of the template which the tokenizer turns into ids; a
forward pass is a chain of matrix products, each dispatched on the tier that
`simd_init` chose. The tokenizer keeps its tables in hash maps. Every part traces
into the ring; the Debug tab observes it on the thread that traces.

What makes each part correct is stated in section 4; `PROJECT.json` "hazards"
lists what is hard to test, at its line, with the properties that cover it.

## 2. Modules

| Module | Stands for | Kind |
|---|---|---|
| `History` | what a context promises: one history, exact snapshots | abstract specification |
| `Context`, `MCContext` | the caches of `model.c` and `qwen.c` | component, implements `History` |
| `NumberFacts`, `ContextProofs` | arithmetic and induction; | proofs |
| `Turn` | `slm_ctx_system_prompt`, `slm_generate`, `slm_generate_raw` | component, uses `History` |
| `TurnProofs` | | proofs |
| `TurnDocs` | comments of `slm.h`, `slm.c`, `qwen.c`, `model.c` about a turn | properties that fail |
| `ThinkFilter`, `MCThinkFilter` | `slm_think_filter` | component |
| `ThinkFilterProofs` | | proofs |
| `DeltaNet`, `MCDeltaNet` | `chunked_ssm_step_f32`, the batch loop, the recurrence | algorithm against a reference |
| `VectorLanes` | registers as functions, the instructions the kernels use | external: what the manuals say |
| `Kernels`, `MCKernels` | quantisers, dot products, dispatch, tiling | algorithms against references |
| `KernelsProofs` | `Kernels` and `DeltaNet` | proofs |
| `Tokenizer` | `tokenizer.c` | operators on texts |
| `ChatTemplate` | `jinja.c` | operators on texts |
| `Prompt`, `MCPrompt` | the log as `slm.c` builds it, over the two | composition |
| `ToolCalls`, `MCToolCalls` | the parser and dispatch of `agent.c` | component |
| `Dictionary` | what a map promises | abstract specification |
| `HashMap`, `MCHashMap` | `maps.c` | component, implements `Dictionary` |
| `HashMapPromptProofs` | `HashMap` and `Prompt` | proofs |
| `Downloader` | `ensureAvailable` and the URLSession delegate | component |
| `App`, `MCApp` | `SLMViewModel` and `SLM`, over `Downloader` | composition |
| `AppProofs` | | proofs |
| `AppDocs` | comments of `App.swift` and `Downloader.swift` | properties that fail |
| `TraceRing` | `trace`, `trace_at`, the Debug tab | component |
| `TraceRingProofs` | | proofs |

`History` ties engine and model together. `Context` is shown to implement it
(all caches included); `Turn` keeps the history instead of the caches and is
shown to use it only as `History` allows, with one snapshot outstanding. What
the proofs say of `Context` is therefore what `Turn` relies on.

### Context
`kv` is the flat array `[n_layers][max_position]`; a row is abstracted to the token
it was written for. `conv_state`, `conv_head` are the rings with their lane
arithmetic; `ssm_state` is the sequence of tokens absorbed. `ForwardStep` and
`ForwardBatch` follow the two kernels: which rows and lanes each writes, from
which position, and, in `seen`, what the pass *read*: the rows attended to, the
window of each convolution, the recurrent states. `Snapshot` and `Restore` do
the packing between strides `pos` and `max_position`. Logits are "correct" when
everything read belongs to one history, so a stale row, a lane in the wrong
order or a state left by a rolled-back branch shows.

### Turn
One action per step between two visible effects: framing, the prompt in pieces,
the decision point (store `pos`, then snapshot), the `prefilled` chunk, one feed
and one draw of the decode loop, the chunk, the end of the loop, `finish`, the
dispatch of a tool, restore, injection, return. `c->pos` (`cpos`) and the local
`pos` are two variables, as in the code. The callback's answer is a choice at
every chunk, and looked at only where the code looks at it. A budget may be 0: then
the framed prompt is logged and no pass begins. `finish` gives out what is held (a
`"tail"` of the answer) after a refusal, too. The filter is reduced to its
mode and whether it holds text; `ThinkFilter` has the rest. Left out: `min_new`,
and the generator (which `Context` has).

### ThinkFilter
Bytes are members of a small set; markers are short sequences that share
beginnings as the real ones do. `Push` gives any next piece of the text; `Copy`,
`TakeMarker`, `Flush` are the loop of `push`; `Finish`, `FinishMarker`, `FinishRest`
those of `finish`. The reference (`MeantToShow`, `MeantCall`) is defined on the
whole text, without hold or pieces. Assumed, because the tokenizer has a token
for each tool-call marker: where calls are recognised a marker is a piece by
itself. A text may be any bytes: what the reference says of characters is stated for
texts whose characters are whole, `PushEnds` for all whose runs of continuation bytes are
shorter than what a full hold may give away. `TagsAssumption` says of the markers what the proofs need and the four of
`THINK_MARKERS` have: more than one byte each, none the beginning of another, the
first byte only at the beginning, no byte of a longer character.

### DeltaNet
`StepState`/`StepOut` are the recurrence, `ChunkState`/`ChunkOut` the kernel with its
intermediate matrices under the code's names. Numbers are those of any commutative
ring (`RingAssumption`), of which the kernel needs no more: it never divides. Of
`exp` it needs `exp(0) = 1` and `exp(a+b) = exp(a)exp(b)` (`ExpAssumption`). The
reals are such a ring, so what is left out is the rounding of fp32; the run takes
the integers modulo 9 with `exp(a) = 4^a`. A
comment in `slm_generate_raw` gates the batch path because its outputs differed
from one-token passes; the model says the algebra agrees, so what is left is
rounding or something outside the kernel. The header of `chunked.c` writes its steps
3, 4 and 6 in a transposed notation; the code is what is modelled.

### VectorLanes and Kernels
A register is a function from lanes to numbers; `VectorLanes` has the dozen
instructions in use with their widths: a 16-bit shift drags bits of the
neighbouring byte along, `maddubs` saturates, `abs` of -128 is 128. `Kernels` has
each format as the code lays it out, its dequantiser and scalar product from
`tensor.c`, and the versions of `avx.c` and `neon.c`. The factors `d` and `dmin`
of a block are kept apart from the integers they multiply, so a product is a pair
of integers per block and equality is exact. `W`, the weights under one scale, is
8 in the run and 32 in the code: the layout is written in terms of it. The actions
are `SimdInit` and the column loop of a product: one column is quantised into the
scratch row, then its rows finish in any order. The float products are their
tiling: which element of C is written from which row of A and of B.

### Tokenizer, ChatTemplate, Prompt
Texts are sequences of bytes; the fixed wording is the constant `Lit`, a few
bytes per phrase. `Tokenizer` has the byte characters, the split at markers and
words, merging by rank, and decoding; `ChatTemplate` the whole rendering, the
system block and the delta of a turn. `Prompt` composes them as `slm.c` does: the
system prompt, each user turn and each injected tool result is framed, encoded and
appended to the log, while `msgs` keeps the conversation for the whole rendering. The call
of a tool round is two things: `raw`, the bytes that the model wrote between the markers,
which `slm.c` puts back unread (`echo`), and `calls`, what the parser makes of them, which
is all a rendering has. `Say` builds any conversation for `slm_chat_format`.

What is assumed of texts and of a model's file, and why it holds there:
`TextsAssumption`, the texts of users, tools and calls are of the vocabulary's bytes, the
newline among them, and no phrase of the template is empty; `MergesAssumption`, merges are pairs
of strings that are not empty, each listed once and in the order learnt, so none
makes a string that an earlier one, or it, is about; `SeamAssumption`, no merge joins the
end of a line to the `<` of the markup (`<|im_start|>`, or the `<tool_call>` of an echoed
call) that begins the next framing: training
splits a text into words before it counts pairs, and Qwen's pattern keeps a newline
together with what stands before it, never with punctuation behind it (the code does
not split there, it cuts words at spaces only, so without this the log would depend on
where a framing ends); `KnownAssumption`, the three markers are visible ASCII.

### ToolCalls
A text is a sequence of lexemes, cut where `strstr`, `memchr` and the JSON reader can
tell them apart. Each turn of a loop of the parser is a step, nested values included
(`Value`, `Span`), so a loop that does not move is a behaviour that does not end.
Each block a text is made of carries the call it means; the reference is just the
concatenation, for texts in which every block is `Closed`: it has its end, its tags their
brackets, its strings their quotes, its arrays and objects their ends. Blocks that are not
closed are among the texts as well; of those only that the reading ends is promised. `agent_run` is not modelled, see section 8.

### Dictionary and HashMap
The hash is any function of the keys, so every collision happens. An operation is a
step, and a probe that would never end is a last one (`endless`). A value is new
with each put, so freeing twice and losing a value can be told. `Dictionary` is a
function with the set of values it has freed.

### Downloader and App
Disk, session and the main actor's queue are explicit. A file is its size. The
process may die between any two steps and come back expecting another size. The
queue is FIFO and a job runs to its next `await`; a task is a record in
`workers` that posts jobs. `checkCache` may find no directory for the model.
A turn of `slm_generate` is a prefill and a decode loop per pass, two passes where a call
is run. Its closure is asked for each chunk (`Chunk`); a call that is collected ends the
decoding of the first pass (`CallFound`); `finish` gives what the filter still holds
(`HeldChunk`), after a refusal too; the call is then run (`Dispatch`) whatever the closure
has answered, with its lines shown at the debug levels that show them (`turn.shows`), and
the answers to those lines and to the end of a prefill are dropped, as in `slm.c`.
`turn` also keeps what the properties speak of: chunks given, whether Stop was pressed,
what was decoded (`late`) and given by `finish` (`tails`) after it. Assumed: the task a tap creates begins at once
(`beginDownload` has no guard against a second tap before it does; listed as a
hazard).

### TraceRing
`trace` is five steps (load head, free the old message, clear, fill, publish) and
the observer call. The reader is external: no code in `src/` keeps a pointer of
`trace_at` across a trace, the header invites it. Time stamps and text are left
out.

## 3. Runs

| Run | Bounds | What it shows |
|---|---|---|
| `context` | 3 layers, the middle one SSM; 4 positions; ring of 3; 2 tokens, 2 generator states, 1 snapshot, log of 2 | all caches of a hybrid model stand for one history; snapshots and restores exact; refines `History` |
| `turn` | two turns, two attempts at the system prompt, framings of 2 tokens, budget 0 to 3, 12 positions | positions, history, log, refusals, dropped calls; refines `History` |
| `filter` | every text of up to 4 units (7 kinds) or of up to 6 bytes of broken characters, pieces to 4 bytes, hold of 5 | the stream is what the text means; push ends |
| `deltanet` | integers modulo 9, 3 tokens, batches to 4, chunks of 3, from every reachable state | kernel = recurrence, state and outputs |
| `kernels` | 8 weights per scale, 3 blocks a row, 2 columns by 2 rows, 4 weight and 5 activation patterns, 7 processors; float products to 9 by 17 | every version computes the exact integer product; rounding; tiles cover the output |
| `prompt` | every table of up to 3 merges over 2 letters, words to 5 letters; 2 turns with tool rounds, the call in the template's shape or in JSON; conversations of up to 4 messages of 7 kinds | merging, the log, what frames say |
| `toolcalls` | every text of up to 3 blocks of 22 kinds, 4 of them left open, room for 2 calls and 2 parameters | the calls meant are read and dispatched; reading ends |
| `hashmap` | 5 keys, every hash into {0, 3, 4}, 4 slots growing to 8, 5 puts | lookups, ownership, probes; refines `Dictionary` |
| `app` | 1 relaunch, sizes {unknown, 2} expected, 2 turns of up to 3 chunks, tool round included, 1 new chat | one user of the context, true chips, whole answers, everything settles |
| `trace` | ring of 2, 4 calls, 2 lines shown | messages owned, log consecutive, reader can tell |
| `docs_ValueReturns` | as `toolcalls`, with a bad escape inside an array | section 5 |
| `docs_MessagesOwned` | as `trace`, two writers | section 5 |

Eleven more configurations show a comment refuted and are run by hand (section 5):
`TurnDocs*.cfg` with module `TurnDocs` (seven), `AppDocs*.cfg` with module `AppDocs` (two),
`MCToolCallsMalformed.cfg` with `MCToolCalls` and `MCPromptToolPath.cfg` with `MCPrompt`. The modules' `TypeOK` and `Turn`'s `OneToolRound` are in none
of the runs: the proofs have the types of the modules they are about, and
`OneToolRound`.

Why the bounds are enough to be interesting. Two attention layers with an SSM
layer between put their rows apart in the flat array, so a stride mistake is seen;
4 positions over a ring of 3 wrap it; a batch may be shorter than, as long as, and
longer than the ring. Twelve positions let a turn with a tool round finish and the
second one run into the limit. A hold of 5 with markers of 2 and 3 bytes and
2-byte characters is full, with every kind of beginning at its end; six bytes have room
for a run of continuation bytes as long as what a full hold may give away, and for texts
that break characters in shorter ones. A batch of 4
over chunks of 3 has a full and a short chunk. A ring of 2 with 4 calls laps. The
patterns of `kernels` are all ones, the most negative bytes and two irregular
ones, against activations that are zero, of one sign, ties and a lone spike in the
last place, so every field and lane is at its limit; 9 by 17 leaves every rest
beyond the 4 by 8 tile. Hashes 0, 3 and 4 collide in four slots, in eight, and by
wrapping round; five puts with removals grow the table over tombstones. Three
merges over two letters have every way in which pairs overlap. Room for two calls
is less than a text of three blocks asks for, and three blocks have one left open between
two that are calls. Three chunks are room for text, a call's line and a chunk of `finish`
in one turn, so a Stop falls before, between and behind them in either pass. The bounds are named in the modules'
CONSTANTS (`Max...`).

Deadlock is checked in `context`, `deltanet` and `trace`. The other systems really
stop: a conversation whose turns are used up, a text that has been read, a
product computed, an app at rest.

## 4. Properties

* **Context.** `CachesAgree`: live rows, rings and recurrent states of every layer
  are those of one history. `SnapsAgree`: so is every snapshot, whatever happened
  since. `LogitsOfOneHistory`: a pass never read anything else. `KeepsHistory`: the
  refinement. It needs one snapshot at a time: a snapshot keeps only the length of
  the token log, so restoring two out of order leaves wrong tokens in it, as
  `slm.h` documents.
* **Turn.** `PositionsInStep`, `HistoryOfPass` (exactly which tokens the model has
  seen when it decodes: nothing of the pass that called the tool).
  `CallLogsItsPrompts`: a call of `slm_generate` adds to the log the prompts it fed, each
  once and in order; without a budget it adds its prompt and feeds nothing. It says nothing
  of sampled tokens, which are never logged (section 5). `RefusedTextStops`: after text of
  the decode loop was refused the model is not run again. `CallsAreAnswered`: a call
  completed in the first pass is run, or its last token was the last of the budget.
  `UsesHistory`; and `OneToolRound`, which is proved.
* **ThinkFilter.** `ShowsWhatIsMeant`, `NothingIsLost`, `WholeCharacters`, and
  `PushEnds`: push terminates, whole characters or not, unless a run of continuation bytes
  is as long as what a full hold may give away (52 bytes in the code): then it spins.
* **DeltaNet.** `ChunkedStateIsRecurrent`, `ChunkedOutputIsRecurrent`.
* **Kernels.** `MatmulIsReference`: whatever the tier and the order of the rows, an
  integer result is the sum of the dequantised weights times the numbers in
  the scratch row of the cell's own column. `NearestNumbers`: quantising loses half a
  step at most. `GemmCoversC`: each element once, from its own rows, nothing outside.
* **Prompt.** `MergesAsTrained`: merging a word gives the tokens of applying the
  merges one after the other in training order, as they are learnt; it relies on a
  file whose merges are in that order. `LogIsTheText`: the log is the text encoded
  as a whole and decodes to it. `TurnIsTheTemplate`: the first turn is what the template
  renders, tool round included where the model wrote its call in the template's shape (the
  code echoes the call's bytes, so one in JSON goes back as JSON: section 5). `FramesReadBack`: the frames of any
  conversation say what was said, by whom, in order.
* **ToolCalls.** `CallsAreRead` and `ToolsAskedAsMeant`: whatever closed blocks stand next
  to each other, calls or not. `ParseEnds`: whatever is left open, the reading ends, or
  comes to a string it cannot read inside an array or object (where it stays:
  `docs_ValueReturns`).
* **HashMap.** `GetsWhatWasPut`, `ProbesEnd` (while no key is removed),
  `ValuesFreedOnce`, `IsDictionary`.
* **App, Downloader.** `ResumedOnce`, `LoadsWhatWasExpected`, `OneUserOfContext`,
  `ChipsTellTheFraming`, `AnswerArrives`, `Settles`. `StopIsHeard`: after a Stop the turn
  decodes at most one more chunk, in either pass, `finish` gives at most one more per pass,
  and no chunk is refused but for a Stop of its own turn. A collected call is still run and
  its lines shown. `LoadsWhatWasExpected` lets a file of the sidecar's size through, as the
  code does: a stale sidecar is outside it.
* **TraceRing.** `MessagesOwned`; `LogIsTheTrace`; `ReadsWhatItAsked`: a reader
  that looks at the head again after its copy can tell whether it has what it
  asked for.

Fairness. `ThinkFilter`: weak fairness of the loop inside `push`, which is code
that runs on; whether the model generates more is not promised. `App`: weak
fairness of the main queue, of running tasks and of the transfer, which URLSession
ends by its timeout if nothing else; nothing is assumed of what a person taps.
`ToolCalls`: weak fairness of its only thread, which goes on while it can. The
other modules have no liveness property: each is driven by a caller that owes it
nothing.

## 5. Where comments and code disagree

The first two have a run with a counterexample:

1. `docs_ValueReturns`: `agent.c:279` says `agent_json_value` returns NULL on malformed
   input; a string it cannot read inside an array or object keeps it in its loop
   for ever, and the turn with it.
2. `docs_MessagesOwned`: the trace ring asks for one writer; the Debug tab's tests
   make two. In the trace TLC finds both take one slot; one frees the message the other
   has just written and published, and the other's observer reads it. (Some steps more
   and a message is freed twice.)

These have a configuration that TLC refutes:

3. `RefusalStops`: `slm.h:294` says `slm_generate` aborts when the callback returns
   non-zero; its answers to prefilled, call, response and trailing chunks are dropped.
4. `FirstSampleFromPrompt`: `qwen.c` says sampling begins from the logits of the
   prefill; the decode loop feeds the last prompt token again first.
5. `RowsInCache`: prefill does not look at `max_position`.
6. `LogHoldsWhatWasFed`: `slm.h:28-30` and `slm.h:309` say that `ctx->ids` holds every
   token prefilled or generated; sampled tokens are fed and never logged. (Nor does
   `ctx->messages` get the response; with `max_new` 0 the log gets a prompt that was
   never fed.)
7. `BudgetOfTheCall`: `slm.h:289` says at most `max_new` tokens for a call; the pass
   that answers from a tool's result has the whole budget again, as `slm.c:1243` says.
8. `ReturnsWhatWasDecoded`: `slm.h:294` says the count of tokens decoded is returned; it
   is that of the last pass.
9. `EmittedCallIsRun`: `slm.c:979` says a call the model emits is dispatched; one whose
   closing marker is the last token of the budget is dropped, unseen.
10. `docs_MalformedSkipped`: `agent.c:464` says malformed blocks are skipped and whole
    calls next to them recovered. A block whose opening tag has no bracket ends the
    search; an unclosed block or string takes the block behind it with it.
11. `docs_ToolPath`: `slm.c:1190` says the echoed call matches the template's tool path;
    a call the model wrote as JSON, which `agent.c` accepts, goes back as JSON.
12. `DownloadingMeansDownload`: a late progress report replaces the error state.
13. `ProbedOnColdStart`: with size -1 the second launch does not ask the server.

Noticed while reading, without a run:

* the filter's push spins on 52 or more continuation bytes in a row (`slm.c:541`, where
  `slm_think_safe_utf8` returns 0 for a full hold); `PushEnds` is about shorter runs;
* `prefilled` is given once per pass ("Fires once" in `slm.h`); `ctrl.tools` and `think`
  are read live;
* an aborted system prompt leaves its tokens, and a second call frames again;
* `ensureAvailable` returns at once for a file that matches a stale `.meta`, though
  `isCached` is false; the header says resumable, a retry starts at 0;
* `agent_run` parses the text for call markers which the filter has already taken
  out, so it dispatches none; when its budget is spent it returns a tool's payload;
  the echo of the assistant's message does not look at the message limit;
* in `agent.c` a `<parameter=>` without a name leaves a NULL name that is compared
  with `strcmp`; the JSON reader is not bounded by the end of its block; a 17th
  argument is read as a member of the call; an empty value counts as an absent one;
* `map_remove`, which only the tests of `maps.c` call, leaves tombstones that the
  load does not count: a table full of them has no empty slot and a probe for an
  absent key never ends. `ProbesEnd` is therefore stated for maps nothing was
  removed from;
* the template and the piecewise framing part after the first turn: the log keeps
  the thinking of older answers and the text the model generated is not closed by
  `<|im_end|>`, while a whole rendering drops one and writes the other;
* a comment in the command line's set-up (`slm.c`) says the system block carries
  the hard rules; `jinja_format_system_block` writes none. One in `slm_generate`
  says turns with tools are clamped to no thinking; nothing clamps them. A turn's
  delta and an injected result are not trimmed, what the template renders is. Text
  between the first and the last end of thinking is in neither part;
* `<think>` and `<tool_call>` are no markers of `tokenizer.c`, so where they are
  not in the vocabulary as merged pieces they are several tokens;
* the processor check asks for AVX alone, the code behind it is compiled with F16C
  and SSSE3 too; a comment of the quantiser in `tensor.c` divides by -128, the
  code by -127;
* capture buffers of `slm_generate` are not freed when the debug level is below 9;
* `slm_run_all_tests` ends with `curl_global_cleanup` beside a running turn;
* the triangular solve in `chunked.c` needs `v_hd` to be at least the chunk.

## 6. Proofs

`ContextProofs` proves, for any number and arrangement of layers, cache size, kernel
width, set of tokens and, except for the refinement, any number of snapshots:

* `TypeCorrect`: `Spec => []TypeOK`
* `CachesCorrect`: `Spec => []CachesAgree`
* `SnapshotsCorrect`: `Spec => []SnapsAgree`
* `LogitsCorrect`: `Spec => []LogitsOfOneHistory`
* `KeepsOneHistory`: one snapshot slot, `Spec => KeepsHistory`

Assumptions, all named where the constants are declared and evaluated by TLC:
`LayersAssumption` (at least one layer attends), `SizesAssumption` (positive
sizes), `ValuesAssumption` (what `calloc` leaves is not a token).

The argument. `CachesAgree` is not inductive alone: a restore brings back whatever
the snapshot holds, so `SnapsAgree` is needed with it; `SnapsAgree` alone is not
either, as a snapshot copies the caches. `LogitsOfOneHistory` follows from what
the caches were *before* the pass. Hence `IInv == TypeOK /\ CachesAgree /\
SnapsAgree /\ LogitsOfOneHistory`. The refinement adds `IdsKept`: the log is at
least as long as the snapshot says, which a restore to one of two snapshots would
break. The
work is in the ring: after a batch of n tokens each lane holds the newest token
congruent to it, which is arithmetic on `%` with a symbolic divisor, beyond the
SMT solver. `NumberFacts` proves what is needed (uniqueness of quotient and remainder,
shift by a period, cancellation) from a few facts about multiplication.

`TraceRingProofs` proves, for any capacity, cap on the lines and number of calls:

* `TypeCorrect`: `Spec => []TypeOK`, overlapping calls included
* and where calls of `trace` do not overlap (`~Overlap`, what `trace.c` asks for):
  `MessagesAreOwned` (`MessagesOwned`), `ReaderIsRight` (`ReadsWhatItAsked`),
  `TabShowsTheTrace` (`LogIsTheTrace`)

The argument. `Owned` is the invariant of the ring: the thread in `_trace_` works
on entry `head` (`Numbers`), a slot holds a message of an entry that goes there
and that is freed only between the free and the clear (`Memory`), and an entry not
yet lapped is in its slot (`Window`). That two entries less than a lap apart have
different slots is `SameSlot` of `NumberFacts`. `Copied` adds that the reader asked
for an entry there was: the head only grows, so if it is less than a lap ahead
after the copy it was so during the copy. `Logged` adds that the log ends with
`head - 1`, or `head - 2` while the observer has not been called yet for the
newest; showing a line and trimming leaves a suffix of it.

`TurnProofs` proves, for framed texts of any length, any cache, any budget and any
number of turns, with `LengthsAssumption` (lengths and budget are positive) and
`FramesAssumption` (a framed turn has more than one token: it opens with
`<|im_start|>` and ends with a line break):

* `PositionsAreLengths` (`PositionsInStep`), `DecodesFromItsPrompt` (`HistoryOfPass`)
* `RefusalEndsTurn` (`RefusedTextStops`), `CallsAnswered` (`CallsAreAnswered`)
* `RunsOneToolRound` (`OneToolRound`)
* `CallsLogTheirPrompts` (`CallLogsItsPrompts`), a budget of 0 included
* `UsesContext`: `Spec => UsesHistory`

The argument. `Counters` types what is counted, and `Budget` keeps a pass within what it
was given; while a token is being drawn there must be room for one. `Refusal` says where
the engine may be once text was refused: the loop is over and no call is ready, so
nothing leads to another pass. `Fed` is the history: `Snaps` (the snapshot is as
long as its position, its log no longer than the log), `Rounds` (a snapshot in a
turn was taken in the first pass, after exactly the framed prompt, and while a
tool round is still due), `Place` (position = length), and `Follows` (at each
place of the engine, what exactly has been fed; between feeding and drawing one
token more than after). `Place` alone is not inductive: a restore sets the
position from the snapshot. The refinement needs `Fed` for the same reason the
context needs `IdsKept`: cutting the log at a restore must leave what the snapshot
holds of it. `RoundsRun` ties the count of rounds to the pass. `Answered`, for the calls, says that a
pass that may run one has its snapshot and that what was sampled is counted as long as no
tool has run. For the log, `Written` says that within a call it is the log at its start
and the prompts of the passes begun (`Logs`), and that a snapshot cuts it to nothing less;
`Heard` that in what was fed of a call the prompts are those of its passes: the token fed
last is not the one fed next, except where the decode loop repeats the end of a prompt. It
needs `Fed` to know that a result logged is read by a second pass, and `FramesAssumption`
because two turns of one token, neither decoded, would look like one fed twice.
`PromptsFeed` says what `Prompts` makes of a history that grows by a text.

`AppProofs` proves, for every set of file sizes (`SizeAssumption`) and any number of
taps, turns, chunks, crashes and changed expectations:

* `ResumesOnce` (`ResumedOnce`), `LoadsAsExpected` (`LoadsWhatWasExpected`)
* `ContextHasOneUser` (`OneUserOfContext`), `ChipsAreTrue` (`ChipsTellTheFraming`)
* `AnswersArrive` (`AnswerArrives`), `StopsAreHeard` (`StopIsHeard`)

The argument. `Types` and `Fetch`, the invariant of the download by itself, come
first. None of the properties of the app is inductive, nor is their conjunction:
what keeps them is that only certain combinations of state, running task and
queued jobs occur. `Stages` names them: `Before`, `Fetching`, `Ended`,
`NotFetched`, `Opening`, `Opened` while the model is closed (`Closed`), `Ready`,
`Generating`, `Answered`, `Rebuilding`, `Rebuilt`, `Broken` after; each says which
task runs and which jobs are queued in which order, for instance that the end of a
turn is queued behind every chunk of it. A step either stays in its stage or goes
to one of a few others; the proofs go stage by stage. `Answers` counts: the chunks
in the message and those still queued (`Pending`) are the chunks given. `Stopped` says,
place by place of `slm_generate`, what it can have given since a Stop: nothing decoded as
long as it has not asked, at most one chunk of `finish` for each pass that is over; a call
is collected only where the first pass ended without a refusal. `Heard`, which is
`StopIsHeard`, then follows, and `Loads` adds what the loader was let through with.

`KernelsProofs` proves, for any number of columns, rows and blocks:

* `TilesCoverC` (`GemmCoversC`): matrices of any size, tiles of 4 by 8
* `RowsReadTheirColumn`: each row of a quantised product is computed from the scratch
  of its own column, on one tier, in whatever order the rows of a column finish
* `NumbersAreNearest` (`NearestNumbers`): any numbers, any width of a block
* `ProductsAreReference` (`MatmulIsReference`): any weights and columns, every version
  of all five formats

The argument. A block that begins at row p and column q writes a rectangle
(`BlockAt`); the tiles, the right edge and the bottom edge are rectangles inside C,
and each row and column of C is in one of them (`TilesCover`). For the scratch, the
rows left to do all belong to the column it holds (`OwnColumns`). A quotient
rounded either way is within half a step (`EvenIsNear`, `AwayIsNear`), and what is
rounded from at most 127 (or 7) steps is at most that (`NearIsSmall`), so the clipping
is the identity on what the quantisers give it: it needs the block's largest number,
which `LargestFound` shows the search for it to find, by induction up to the block's
length. `RowsAssumption` says that weights are blocks of bytes and columns blocks of
numbers. The conversion is exact in the model: the rounding of the floating-point
product before it is left out.

For the products, a result is that of its own row and column (`RowsReadTheirColumn`)
and the versions are compared block by block with one normal form: the scales times the
sums of each run of weights (`IsProduct`, `IsProduct6`, `IsProduct8`). What `Total`
computes is had from `Recursion`; a total may be taken run by run (`TotalNested`) and a
factor out of a run (`TotalOfRuns`). The bytes a version works on are shown equal, lane
by lane, to the weights as the format defines them (`Nibbles`, `Fives`, `Sixes`): for
that a shift of 16- or 32-bit elements is followed through the mask after it
(`HighNibblesAre`, `FifthBitIs`, `TopBitsAre`, `Srl1Is`, `BitMovedUp`), and NEON's
scales, unpacked four at a time, are those `GetScaleMin` reads (`WordScalesAre`,
`WordMinsAre`). Then the instruction does not matter (`DotIs`): a pair of products of a
byte up to 128 by one of at most 127 does not saturate, which is where the quantisers
never giving -128 is needed (`Q8KInRange`, `Q8_0InRange`), and lanes of four, or of
NEON's two halves, add up to the same total. Pairs of block sums are added in 16
bits: hence the bound of `KernelsAssumption` on the width, 256 where the code has
32 (`BsumPair`). The x86 versions of Q8_0 move the sign from the weight to the column
(`SignMoved`). The dequantisers have the same normal form (`DequantQ4KIs` and its
like), and `Dispatched` says the tier is one of six.

It also proves, about `DeltaNet`, for any commutative ring with an exponential, any
size of head, chunk and batch and any prompt, however it is cut into batches and
single tokens:

* `KernelKeepsState` (`ChunkedStateIsRecurrent`)
* `KernelGivesOutputs` (`ChunkedOutputIsRecurrent`)

from `RingAssumption`, `ExpAssumption` and `InputsAssumption` (tokens hold vectors of
numbers, a chunk has room for one token).

The argument. Sums over a ring come first: a double sum may be taken by rows or by
columns (`Exchange`), a factor taken out. What a token writes into the state is its
*gain*, beta times the error of the faded state's prediction. The state after i
tokens is the first state faded by all their decays, and every gain faded by those
after it (`StatesAre`), where the product of decays is the exponential of a
difference of cumulated logarithms: that is all `exp` is needed for. So the gains
solve a triangular system (`GainIs`). The code's solve in place does solve the system it
is given (`Solves`); with the diagonal the code adds to it, `attn` is the inverse of the
system (`AttnIs`), and what it mixes solves the system of what was mixed (`MixedSolves`). A
unit triangular system has one solution, hence `v_new` is the gains
(`VNewIsGain`), and state and outputs of a chunk are those of the recurrence
(`ChunkStateIs`, `ChunkOutIs`). Chunks and batches compose (`RunOfChunk`, `CarriedIs`,
`BatchIs`). The invariant `HeadInv` says that the history of states and outputs is the
run of the batch's tokens from the state before it, and `BatchIs` that the kernel gives
that run, whatever the state and the tokens.

`HashMapPromptProofs` proves of the maps, for any keys, any hash function, any first capacity the code
could use and any number of puts, removals, frees and doublings:

* `GetsWhatWasPutHolds` (`GetsWhatWasPut`), `ValuesFreedOnceHolds` (`ValuesFreedOnce`)
* `ProbesEndHolds` (`ProbesEnd`)
* `MapIsADictionary`: `Spec => IsDictionary`

The argument. A table is `Good` when a key is in one slot only (`OneSlotPerKey`) and no
empty slot lies on the way from its hash to that slot (`OnItsWay`); only then does
finding a key, or not, say what is in the table. A put into a free slot keeps this if
the probe had gone as far as its end (`MayTake`), which is why a tombstone may be
taken only after the whole probe. A removal keeps it because a tombstone is not
empty. Growing moves the old slots one after the other, so the table after each
move is shown good by induction over the slots (`RehashedIs`), with room left because
there are fewer entries than slots. `Shape` adds the load, `Graves` that only a
removal leaves a tombstone, `Owned` that the values of the entries are the values put
and not freed, each once. `ProbesEnd` needs the load of three quarters and `Graves`
together: an empty slot is left where no tombstone can have taken it. The
refinement maps the entries to a function; a put whose probe never ends is a
stutter.

It also proves of `Prompt`, for any wording, texts, tools, turns and words, with
the assumptions of section 2:

* `TurnReadsAsRendered` (`TurnIsTheTemplate`), for calls in the template's shape
* `GreedyMerging` (`MergesAsTrained`), any table of merges, words of any length
* `LogIsEncoded` (`LogIsTheText`)

The argument for the turn. `Framed` says what the text behind the system block is in
the first turn: the delta of its message, and behind a tool round the echoed bytes of the
call (`Echoed`) and the answer; where those bytes are what the template makes of the call, the rendering of those messages is then computed part by part
(`FirstIsTheTemplate`).

The argument for merging. Applying merge k everywhere from the left is a fold over the
tokens; the greedy loop takes one pair at a time. `Underway` relates the two: while
greedy works on merge k, no earlier merge stands anywhere (`AllBefore`), and
what is left of the pass for k is the same from here as from where it began
(`LeftmostFirst`). No earlier merge can come back, because what merge k
makes is a part of no earlier one (`StaysAbsent`): that is what `MergesAssumption` is
for. So the best pair is always the leftmost of merge k, and each pass ends
(`GreedyIsTrained`).

The argument for the log. It must be shown that the code's encoder, given a text in
two parts, gives the ids of the parts one after the other, where the first part ends a
line and the second begins with markup (`EncodeJoins`). Inside a word that is
`TrainedParts`: no merge stands across the seam, so applying each merge to the whole is
applying it to both sides, and what applying the merges gives is what greedy
gives. Words are cut before spaces, and the second part does not begin with
one, so only the word at the seam matters (`WordsOfTwo`, `BpeAtSeam`). Markers are visible
ASCII, so none crosses a newline, and the encoder meets the same markers as in each
part (`MatchesBehind`, `MatchesBefore`, `EncodedAcross`); it is a function from places
of the text to what is still to come, so these are inductions from the end
(`Backwards`). That the log decodes to the text (`EncodeReads`) is that bytes are
written in characters of one or two bytes and read back (`CharsReadBack`), that merging
only groups them (`TrainedWrites`), and that the vocabulary has every token
that can arise and gives it back, whichever of equal ones its place is
(`TokensClosed`, `PlaceOf`). `Logged` is the invariant: the text is empty or ends a
line, the log is its encoding, and the tables are those that were loaded.

`ThinkFilterProofs` proves, for any texts over any bytes, markers that meet
`TagsAssumption`, a hold with room for the longest and pieces of any length:

* `ShowsWhatIsMeantHolds` (`ShowsWhatIsMeant`), `NothingIsLostHolds` (`NothingIsLost`)
* `WholeCharactersHolds` (`WholeCharacters`), for texts whose characters are whole
* `TypeOKHolds` (`TypeOK`): the hold stays within its size

The argument. `Pos` is how much of the text has left the filter; the hold and the rest
of the piece are the text after it (`Fits`), whatever the callback answers. As long as
it refused nothing and no call is complete, `Pos` lies between two bytes no marker
covers, and mode, shown bytes and buffer are what the text means up to `Pos`
(`Tracks`). Each step moves `Pos`: over bytes that no marker begins or covers
(`Plain`), which say what the text says there (`PlainContinues`), or over one marker,
which says nothing (`MarkerIsSilent`). That the front which goes out is plain is what
the code's `Keep` is for (`FrontIsPlain`): a marker that began there would be complete in
the hold. That a marker found in the hold is the text's next is `FirstMarker`; that
markers never overlap is `Apart`, from `TagsAssumption`. Once the call to run is
complete (`Came`) what is shown can only grow by what follows it; that needs the hold to
be empty of markers, hence `Alone`: with calls recognised, the marker that came last
came in a piece of its own. `Stage` says where the hold can have no marker, `Whole` that
the text is cut between characters. After a refusal only `Types` and `Fits` are kept.

Functions defined by recursion over the numbers can be reasoned about here:
`NumberFacts` derives, from the well-founded order of the numbers, that a set of
numbers that is not empty has a least one (`LeastOf`), induction up to a bound in the
form of a counterexample (`UpTo`) and that a recursive function has the values its
definition says (`Recursion`).

Only model-checked: `FramesReadBack`, and `ToolCalls` (`CallsAreRead`,
`ToolsAskedAsMeant`). Frames read back only where no word of the markup stands in what
was said, and a call is the one that was meant only where the block says so: what a run
takes from its finite sets a theorem would have to assume, and for `ToolCalls` that is
nearly the parser itself. Liveness (`Settles`, `PushEnds`, `ParseEnds`) is out of the
prover's reach.

## 7. Plan

Done: `History`/`Context`, `Turn`, `Downloader`/`App` and `TraceRing`, each with
proofs; `ThinkFilter`, `Dictionary`/`HashMap`, `DeltaNet` and `Kernels`, too;
`Tokenizer`/`ChatTemplate`/`Prompt` in part; `ToolCalls`, checked only. Next:

1. Model more.
   `Sampler`: the integer generator and the window of the penalties.
   `Gguf`, `Arena`: the parse cursor and the allocation cursor at their limits.
   `Agent`: `agent_run` over replies that still hold their markers, should the filter
   ever let them through.
2. Prove more.
   `ToolCalls`: the safety of the dispatch.

## 8. Not modelled, and why

* Elementwise operators of `tensor.c` (norms, RoPE, softmax, attention), fp16
  conversions and the rest of the forward pass: floating point, correct up to a
  tolerance. Which rows, lanes and states a pass reads is in `Context`.
* Sampler: one draw is `History`'s `Draw`; the distribution is floating point.
* Arena and GGUF loader: fill a read-only index once, a cursor each; planned.
* `agent_run`: the loop of `--ask` around the same parser; the filter leaves it no
  call to run, so it ends with its first reply.
* Network tools: HTTP and scraping; in `Turn` and `ToolCalls` a tool is asked and
  answers.
* Arrays, characters, text helpers: append and clear, one thread; models have
  sequences.
* Command line, Swift command line, bench, scripts, tests: input and output.
* libcurl's global state: `slm_run_all_tests` may clean it up beside a turn.
* A second tap on the download button before the first one's task runs: the model
  lets the task begin at once (a hazard).
