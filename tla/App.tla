---------------------------------- MODULE App ----------------------------------
(***************************************************************************)
(* The app: SLMViewModel (App.swift) on the main actor, the SLM object it  *)
(* drives (SLM.swift), and the Downloader.                                 *)
(*                                                                         *)
(* The main actor runs one job of its queue, or handles one tap, at a      *)
(* time; detached tasks open the model, rebuild a conversation or generate *)
(* beside it, and post their results.  tools stands for both settings that *)
(* are baked into the system framing.  A message is an answer: its chunks  *)
(* are counted.  A tap is possible where the view enables it.  Metrics and *)
(* reasoning are left out; of the debug level only whether a turn shows    *)
(* its call and the result.                                                *)
(*                                                                         *)
(* A definition marked mutant is a plausible slip in the one that follows: *)
(* PROJECT.json names the property that catches it.                        *)
(***************************************************************************)
EXTENDS Downloader, FiniteSets, SequencesExt

CONSTANTS
  MaxTurns, MaxClears, MaxRelaunches,  \* bounds: taps of each kind
  MaxChunks                            \* bound: chunks of an answer

VARIABLES
  state,          \* what the view shows
  tools, messages, prefilling,
  stopRequested,
  slm,            \* the view model has its SLM
  ctx,            \* the C context
  greedy,         \* slm.sampler is the one for tools
  workers,        \* the detached tasks
  turn,           \* the answer being generated, and what is observed of it
  turns, clears, relaunches

view == <<state, tools, messages, prefilling, stopRequested>>
engine == <<slm, ctx, greedy>>
counts == <<turns, clears, relaunches>>
vars == <<download, view, engine, workers, turn, counts>>

NoCtx == [alive |-> FALSE, framed |-> FALSE, tools |-> FALSE]

\* shows: call and result are shown; pass: of the two of slm_generate; call:
\* one was collected.  Observed: chunks posted, Stop pressed, the chunks
\* decoded (late) and given by finish (tails) since then, a chunk refused
Turn(id, shows) ==
  [id |-> id, shows |-> shows, pass |-> 1, call |-> FALSE,
   chunks |-> 0, pressed |-> FALSE, late |-> 0, tails |-> 0, cut |-> FALSE]

Init ==
  /\ DownloadInit
  /\ state = "idle" /\ tools = FALSE /\ messages = << >>
  /\ prefilling = FALSE /\ stopRequested = FALSE
  /\ slm = FALSE /\ ctx = NoCtx /\ greedy = FALSE
  /\ workers = {} /\ turn = Turn(0, FALSE)
  /\ turns = 0 /\ clears = 0 /\ relaunches = 0

\* What the download keeps to itself
DownloadRest == <<disk, known, call, expected, fetching, outcome, probed>>

-----------------------------------------------------------------------------
(* Opening the model                                                       *)

Loader == [do |-> "load", tools |-> tools, pc |-> "open", at |-> 0, id |-> 0]

\* Fires each time the view appears, and does its work once
checkCache ==
  /\ state = "idle"
  /\ \/ isCached /\ state' = "loading" /\ workers' = workers \union {Loader}
     \/ ~isCached /\ state' = "needsDownload" /\ UNCHANGED workers
     \/ state' = "error" /\ UNCHANGED workers  \* no directory for the model
  /\ UNCHANGED <<download, tools, messages, prefilling, stopRequested, engine, turn, counts>>

beginDownload ==
  /\ state = "needsDownload" /\ state' = "downloading"
  /\ ensureAvailable
  /\ UNCHANGED <<tools, messages, prefilling, stopRequested, engine, workers, turn, counts>>

\* slm_model_load, slm_ctx_create and the framing: the SLM is not shared yet
LoadModel ==
  \E w \in workers :
    /\ w.do = "load"
    /\ \E ok \in BOOLEAN : Post([do |-> "loaded", ok |-> ok, tools |-> w.tools])
    /\ workers' = workers \ {w}
    /\ UNCHANGED <<DownloadRest, view, engine, turn, counts>>

-----------------------------------------------------------------------------
(* Taps                                                                    *)

Answer == [id |-> turns', chunks |-> 0]

\* mutant: the stop of the last turn stays
SendKeepsStop ==
  /\ slm /\ state = "ready" /\ state' = "generating"
  /\ turns < MaxTurns /\ turns' = turns + 1
  /\ messages' = Append(messages, Answer)
  /\ prefilling' = TRUE
  /\ workers' = workers \union {[do |-> "generate", tools |-> tools, pc |-> "prefill",
                                 at |-> Len(messages'), id |-> turns']}
  /\ \E shows \in BOOLEAN : turn' = Turn(turns', shows)
  /\ UNCHANGED <<download, tools, stopRequested, engine, clears, relaunches>>

send ==
  /\ slm /\ state = "ready" /\ state' = "generating"
  /\ turns < MaxTurns /\ turns' = turns + 1
  /\ messages' = Append(messages, Answer)
  /\ stopRequested' = FALSE /\ prefilling' = TRUE
  /\ workers' = workers \union {[do |-> "generate", tools |-> tools, pc |-> "prefill",
                                 at |-> Len(messages'), id |-> turns']}
  /\ \E shows \in BOOLEAN : turn' = Turn(turns', shows)
  /\ UNCHANGED <<download, tools, engine, clears, relaunches>>

stopGeneration ==
  /\ state = "generating"
  /\ stopRequested' = TRUE
  /\ turn' = [turn EXCEPT !.pressed = TRUE]
  /\ UNCHANGED <<download, state, tools, messages, prefilling, engine, workers, counts>>

\* mutant: the sampler stays the one of the old conversation
ClearKeepsSampler ==
  /\ clears < MaxClears /\ clears' = clears + 1
  /\ stopRequested' = FALSE /\ prefilling' = FALSE /\ messages' = << >>
  /\ state' = "preparing"
  /\ workers' = workers \union {[do |-> "reframe", tools |-> tools', pc |-> "destroy",
                                 at |-> 0, id |-> 0]}
  /\ UNCHANGED <<download, slm, ctx, greedy, turn, turns, relaunches>>

clearChat ==
  /\ clears < MaxClears /\ clears' = clears + 1
  /\ stopRequested' = FALSE /\ prefilling' = FALSE /\ messages' = << >>
  /\ IF slm
     THEN /\ greedy' = tools'
          /\ state' = "preparing"
          /\ workers' = workers \union {[do |-> "reframe", tools |-> tools', pc |-> "destroy",
                                         at |-> 0, id |-> 0]}
     ELSE UNCHANGED <<greedy, state, workers>>
  /\ UNCHANGED <<download, slm, ctx, turn, turns, relaunches>>

\* mutant: the button is there while an answer is generated
NewChatAnyTime == messages # << >> /\ UNCHANGED tools /\ clearChat

NewChat == messages # << >> /\ state # "generating" /\ UNCHANGED tools /\ clearChat

\* A chip is tapped; onChange clears the chat
FlipChip == state = "ready" /\ tools' = ~tools /\ clearChat

-----------------------------------------------------------------------------
(* Detached tasks                                                          *)

OnContext == {w \in workers : w.do \in {"reframe", "generate"}}

Becomes(w, pc) == workers' = (workers \ {w}) \union {[w EXCEPT !.pc = pc]}

\* newConversation: the old context goes before there is a new one
Destroy ==
  \E w \in workers :
    /\ w.pc = "destroy" /\ Becomes(w, "create")
    /\ ctx' = [ctx EXCEPT !.alive = FALSE]
    /\ UNCHANGED <<download, view, slm, greedy, turn, counts>>

\* mutant: the failure is not reported
CreateSilent ==
  \E w \in workers :
    /\ w.pc = "create"
    /\ \/ /\ ctx' = [alive |-> TRUE, framed |-> FALSE, tools |-> FALSE]
          /\ Becomes(w, "frame") /\ UNCHANGED main
       \/ workers' = workers \ {w} /\ UNCHANGED <<ctx, main>>
    /\ UNCHANGED <<DownloadRest, view, slm, greedy, turn, counts>>

\* slm_ctx_create gives a context, or none and the old pointer stays
Create ==
  \E w \in workers :
    /\ w.pc = "create"
    /\ \/ /\ ctx' = [alive |-> TRUE, framed |-> FALSE, tools |-> FALSE]
          /\ Becomes(w, "frame") /\ UNCHANGED main
       \/ /\ Post([do |-> "prepared", ok |-> FALSE])
          /\ workers' = workers \ {w} /\ UNCHANGED ctx
    /\ UNCHANGED <<DownloadRest, view, slm, greedy, turn, counts>>

\* ctrl, then prefillSystem, which nobody cancels
Frame ==
  \E w \in workers :
    /\ w.pc = "frame"
    /\ ctx' = [ctx EXCEPT !.tools = w.tools, !.framed = TRUE]
    /\ Post([do |-> "prepared", ok |-> TRUE])
    /\ workers' = workers \ {w}
    /\ UNCHANGED <<DownloadRest, view, slm, greedy, turn, counts>>

\* slm_generate, at the start of each pass: the prompt is in, and the answer
\* to that chunk is not looked at
Prefilled ==
  \E w \in workers :
    /\ w.pc = "prefill" /\ Becomes(w, "decode")
    /\ Post([do |-> "prefilled"])
    /\ UNCHANGED <<DownloadRest, view, engine, turn, counts>>

\* mutant: the bubble before
ChunkAbove ==
  \E w \in workers :
    /\ w.pc = "decode" /\ turn.chunks < MaxChunks
    /\ Post([do |-> "append", at |-> w.at - 1, id |-> w.id])
    /\ turn' = [turn EXCEPT !.chunks = @ + 1, !.cut = @ \/ stopRequested]
    /\ Becomes(w, IF stopRequested THEN "tail" ELSE "decode")
    /\ UNCHANGED <<DownloadRest, view, engine, counts>>

Show(w) == Post([do |-> "append", at |-> w.at, id |-> w.id])

\* A chunk of the answer; the closure posts it and returns whether to go on
Chunk ==
  \E w \in workers :
    /\ w.pc = "decode" /\ turn.chunks < MaxChunks
    /\ Show(w)
    /\ turn' = [turn EXCEPT !.chunks = @ + 1, !.cut = @ \/ stopRequested,
                            !.late = IF turn.pressed THEN @ + 1 ELSE @]
    /\ Becomes(w, IF stopRequested THEN "tail" ELSE "decode")
    /\ UNCHANGED <<DownloadRest, view, engine, counts>>

\* A line of a call or its result; the answer to it is not looked at
Line(w, told) ==
  IF turn.shows
  THEN Show(w) /\ turn' = [told EXCEPT !.chunks = @ + 1]
  ELSE turn' = told /\ UNCHANGED main

\* The first pass closes a call, which ends its decoding
CallFound ==
  \E w \in workers :
    /\ w.pc = "decode" /\ w.tools /\ turn.pass = 1
    /\ Line(w, [turn EXCEPT !.call = TRUE])
    /\ Becomes(w, "tail")
    /\ UNCHANGED <<DownloadRest, view, engine, counts>>

\* Decoding is over (stop token, budget, refused chunk, call): finish gives
\* what the filter holds, chunk by chunk until one is refused
HeldChunk ==
  \E w \in workers :
    /\ w.pc \in {"decode", "tail"} /\ turn.chunks < MaxChunks
    /\ Show(w)
    /\ turn' = [turn EXCEPT !.chunks = @ + 1, !.cut = @ \/ stopRequested,
                            !.tails = IF turn.pressed THEN @ + 1 ELSE @]
    /\ Becomes(w, IF stopRequested THEN "finished" ELSE "tail")
    /\ UNCHANGED <<DownloadRest, view, engine, counts>>

\* The call is run, the context rolled back and the second pass begun,
\* whatever the closure has answered
Dispatch ==
  \E w \in workers :
    /\ w.pc \in {"tail", "finished"} /\ turn.call
    /\ Line(w, [turn EXCEPT !.call = FALSE, !.pass = 2])
    /\ Becomes(w, "prefill")
    /\ UNCHANGED <<DownloadRest, view, engine, counts>>

\* slm_generate returns; a call it has no budget left for is not run
GenerateEnds ==
  \E w \in workers :
    /\ w.pc \in {"decode", "tail", "finished"}
    /\ Post([do |-> "finishTurn"])
    /\ workers' = workers \ {w}
    /\ UNCHANGED <<DownloadRest, view, engine, turn, counts>>

-----------------------------------------------------------------------------
(* The main actor's queue                                                  *)

Job(kind) == main # << >> /\ main[1].do = kind /\ main' = Tail(main)

\* The delegate's report runs, and makes a task of its own for the state
progress ==
  /\ main # << >> /\ main[1].do = "progress"
  /\ main' = Append(Tail(main), [do |-> "downloading"])
  /\ UNCHANGED <<DownloadRest, view, engine, workers, turn, counts>>

ShowProgress ==
  /\ Job("downloading")
  /\ state' = "downloading"
  /\ UNCHANGED <<DownloadRest, tools, messages, prefilling, stopRequested, engine,
                 workers, turn, counts>>

\* beginDownload after its await, up to the await of loadModel
Fetched ==
  /\ Job("fetched")
  /\ IF outcome = "ok"
     THEN state' = "loading" /\ workers' = workers \union {Loader}
     ELSE state' = "error" /\ UNCHANGED workers
  /\ UNCHANGED <<DownloadRest, tools, messages, prefilling, stopRequested, engine,
                 turn, counts>>

Loaded ==
  /\ Job("loaded")
  /\ IF main[1].ok
     THEN /\ slm' = TRUE /\ greedy' = main[1].tools
          /\ ctx' = [alive |-> TRUE, framed |-> TRUE, tools |-> main[1].tools]
          /\ state' = "ready"
     ELSE state' = "error" /\ UNCHANGED engine
  /\ UNCHANGED <<DownloadRest, tools, messages, prefilling, stopRequested, workers,
                 turn, counts>>

Prepared ==
  /\ Job("prepared")
  /\ state' = IF main[1].ok THEN "ready" ELSE "error"
  /\ UNCHANGED <<DownloadRest, tools, messages, prefilling, stopRequested, engine,
                 workers, turn, counts>>

PrefillDone ==
  /\ Job("prefilled")
  /\ prefilling' = FALSE
  /\ UNCHANGED <<DownloadRest, state, tools, messages, stopRequested, engine,
                 workers, turn, counts>>

appendAssistant ==
  /\ Job("append")
  /\ LET at == main[1].at
         here == at \in 1..Len(messages) /\ messages[at].id = main[1].id
     IN messages' = IF here THEN [messages EXCEPT ![at].chunks = @ + 1] ELSE messages
  /\ UNCHANGED <<DownloadRest, state, tools, prefilling, stopRequested, engine,
                 workers, turn, counts>>

finishTurn ==
  /\ Job("finishTurn")
  /\ state' = "ready"
  /\ UNCHANGED <<DownloadRest, tools, messages, prefilling, stopRequested, engine,
                 workers, turn, counts>>

\* The process is quit or killed, and started again
Quit ==
  /\ relaunches < MaxRelaunches /\ relaunches' = relaunches + 1
  /\ Relaunch
  /\ state' = "idle" /\ tools' = FALSE /\ messages' = << >>
  /\ prefilling' = FALSE /\ stopRequested' = FALSE
  /\ slm' = FALSE /\ ctx' = NoCtx /\ greedy' = FALSE
  /\ workers' = {} /\ turn' = Turn(0, FALSE)
  /\ turns' = 0 /\ clears' = 0

Main == \/ progress \/ ShowProgress \/ Fetched \/ Loaded \/ Prepared
        \/ PrefillDone \/ appendAssistant \/ finishTurn
Generation == Prefilled \/ Chunk \/ CallFound \/ HeldChunk \/ Dispatch \/ GenerateEnds
Tasks == LoadModel \/ Destroy \/ Create \/ Frame \/ Generation
Taps == checkCache \/ beginDownload \/ send \/ stopGeneration \/ NewChat \/ FlipChip

DownloadStep == Download /\ UNCHANGED <<view, engine, workers, turn, counts>>

Next == Main \/ Tasks \/ DownloadStep \/ Taps \/ Quit

\* The main thread and the tasks run on, and a transfer ends or times out;
\* what a person taps is not promised
Spec ==
  /\ Init /\ [][Next]_vars
  /\ WF_vars(Main) /\ WF_vars(Tasks) /\ WF_vars(DownloadStep)

-----------------------------------------------------------------------------

TypeOK ==
  /\ {file, meta, known, expected} \subseteq Size \union {Unknown}
  /\ call \in {"none", "probe", "sidecar", "perform", "waiting", "resumed", "returned"}
  /\ session \in {"none", "running", "moving", "moved", "unmoved", "invalid", "over"}
  /\ outcome \in {"none", "ok", "error"}
  /\ state \in {"idle", "needsDownload", "downloading", "loading", "preparing", "ready",
                "generating", "error"}
  /\ {tools, prefilling, stopRequested, slm, greedy, fired, probed} \subseteq BOOLEAN
  /\ ctx \in [alive : BOOLEAN, framed : BOOLEAN, tools : BOOLEAN]
  /\ messages \in Seq([id : Nat, chunks : Nat])

(* The model is loaded only from a file of the size the sidecar or the     *)
(* code expects, whatever transfer, crash or new version came before: a    *)
(* page or a torn file is never taken for the model.                       *)
LoadsWhatWasExpected ==
  (\E w \in workers : w.do = "load") => file # Unknown /\ file \in {known, meta}

(* There is one detached task at a time, so a task that drives the context *)
(* is alone on it; and a destroyed context is touched by nobody but the    *)
(* task that replaces it.                                                  *)
OneUserOfContext ==
  /\ Cardinality(workers) <= 1
  /\ \A w \in OnContext : w.do = "generate" => ctx.alive /\ ctx.framed
  /\ state = "ready" => OnContext = {} /\ ctx.alive

(* What the chips show is what the conversation was framed with and what   *)
(* its sampler is made for, whenever a message can be sent.                *)
ChipsTellTheFraming ==
  state \in {"ready", "generating"} => ctx.framed /\ ctx.tools = tools /\ greedy = tools

(* Every chunk of an answer reaches its own message: none is ahead of what *)
(* was generated, and when the app is ready again none is on its way.      *)
AnswerArrives ==
  messages # << >> /\ Last(messages).id = turn.id =>
    /\ Last(messages).chunks <= turn.chunks
    /\ state = "ready" => Last(messages).chunks = turn.chunks /\ ~prefilling

(* After Stop at most one more chunk is decoded in the turn, and finish    *)
(* gives one more of each pass at most; nothing but a Stop of its own turn *)
(* refuses a chunk.  A call that was collected is still run, and its lines *)
(* are shown.                                                              *)
StopIsHeard ==
  turn.late <= 1 /\ turn.tails <= turn.pass /\ (turn.cut => turn.pressed)

(* Loading, preparing and generating come to an end.                       *)
Settles ==
  state \in {"loading", "preparing", "generating"} ~> state \in {"ready", "error", "idle"}
=============================================================================
