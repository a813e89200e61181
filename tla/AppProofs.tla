------------------------------- MODULE AppProofs -------------------------------
(***************************************************************************)
(* For every set of file sizes and any number of taps, turns and chunks:   *)
(* a download resumes its caller once and loads what was expected, the     *)
(* context has one user, the chips are true, every answer arrives whole    *)
(* and a Stop is heard.                                                    *)
(***************************************************************************)
EXTENDS App, SequenceTheorems, FiniteSetTheorems, TLAPS

-----------------------------------------------------------------------------
(* Types.                                                                  *)

Message == [id : Nat, chunks : Nat]

Worker == [do : {"load", "reframe", "generate"}, tools : BOOLEAN,
           pc : {"open", "destroy", "create", "frame", "prefill", "decode", "tail", "finished"},
           at : Nat, id : Nat]

TurnType == [id : Nat, shows : BOOLEAN, pass : {1, 2}, call : BOOLEAN,
             chunks : Nat, pressed : BOOLEAN, late : Nat, tails : Nat, cut : BOOLEAN]

JobOf == UNION {[do : {"progress", "downloading", "fetched", "prefilled", "finishTurn"}],
                [do : {"loaded"}, ok : BOOLEAN, tools : BOOLEAN],
                [do : {"prepared"}, ok : BOOLEAN],
                [do : {"append"}, at : Nat, id : Nat]}

Types ==
  /\ tools \in BOOLEAN /\ slm \in BOOLEAN /\ greedy \in BOOLEAN
  /\ prefilling \in BOOLEAN /\ stopRequested \in BOOLEAN
  /\ turns \in Nat
  /\ messages \in Seq(Message)
  /\ turn \in TurnType
  /\ ctx \in [alive : BOOLEAN, framed : BOOLEAN, tools : BOOLEAN]
  /\ main \in Seq(JobOf)
  /\ workers \in SUBSET Worker

LEMMA TypesInit == Init => Types
<1>1. << >> \in Seq(Message) /\ << >> \in Seq(JobOf)
  OBVIOUS
<1>2. Turn(0, FALSE) \in TurnType
  BY DEF Turn, TurnType
<1>3. NoCtx \in [alive : BOOLEAN, framed : BOOLEAN, tools : BOOLEAN]
  BY DEF NoCtx
<1> SUFFICES ASSUME Init PROVE Types
  OBVIOUS
<1>4. turn = Turn(0, FALSE) /\ ctx = NoCtx /\ workers = {} /\ turns = 0 /\ messages = << >> /\ main = << >>
  BY DEF Init, DownloadInit
<1>5. /\ tools \in BOOLEAN /\ slm \in BOOLEAN /\ greedy \in BOOLEAN
      /\ prefilling \in BOOLEAN /\ stopRequested \in BOOLEAN
  BY DEF Init
<1> QED BY <1>1, <1>2, <1>3, <1>4, <1>5 DEF Types

\* The jobs are what the actions post.
LEMMA PostType ==
  ASSUME main \in Seq(JobOf), NEW job \in JobOf, Post(job)
  PROVE  main' \in Seq(JobOf)
BY DEF Post

LEMMA JobType ==
  ASSUME Types, NEW kind, Job(kind)
  PROVE  main' \in Seq(JobOf) /\ main[1] \in JobOf /\ main[1].do = kind
<1>1. main \in Seq(JobOf) /\ main # << >> /\ main' = Tail(main) /\ main[1].do = kind
  BY DEF Job, Types
<1> QED BY <1>1, HeadTailProperties

LEMMA JobsTyped ==
  /\ [do |-> "progress"] \in JobOf /\ [do |-> "downloading"] \in JobOf
  /\ [do |-> "fetched"] \in JobOf /\ [do |-> "prefilled"] \in JobOf
  /\ [do |-> "finishTurn"] \in JobOf
  /\ \A ok \in BOOLEAN : /\ [do |-> "prepared", ok |-> ok] \in JobOf
                         /\ \A t \in BOOLEAN : [do |-> "loaded", ok |-> ok, tools |-> t] \in JobOf
  /\ \A at, id \in Nat : [do |-> "append", at |-> at, id |-> id] \in JobOf
BY DEF JobOf

LEMMA CtxType ==
  \A a, f, t \in BOOLEAN : [alive |-> a, framed |-> f, tools |-> t] \in
                              [alive : BOOLEAN, framed : BOOLEAN, tools : BOOLEAN]
OBVIOUS

\* What a job carries.
LEMMA JobFields ==
  ASSUME NEW j \in JobOf
  PROVE  /\ j.do = "loaded" => j.ok \in BOOLEAN /\ j.tools \in BOOLEAN
         /\ j.do = "prepared" => j.ok \in BOOLEAN
         /\ j.do = "append" => j.at \in Nat /\ j.id \in Nat
BY DEF JobOf

LEMMA LoaderType == ASSUME Types PROVE Loader \in Worker
BY DEF Types, Loader, Worker

LEMMA BecomesType ==
  ASSUME workers \in SUBSET Worker, NEW w \in workers, NEW to, Becomes(w, to),
         to \in {"create", "frame", "prefill", "decode", "tail", "finished"}
  PROVE  workers' \in SUBSET Worker
<1>1. [w EXCEPT !.pc = to] \in Worker
  BY DEF Worker
<1> QED BY <1>1 DEF Becomes

LEMMA ShowType ==
  ASSUME Types, NEW w \in Worker, Show(w)
  PROVE  main' \in Seq(JobOf)
<1>1. [do |-> "append", at |-> w.at, id |-> w.id] \in JobOf
  BY JobsTyped DEF Worker
<1> QED BY <1>1, PostType DEF Show, Types

LEMMA LineType ==
  ASSUME Types, NEW w \in Worker, NEW told \in TurnType, Line(w, told)
  PROVE  main' \in Seq(JobOf) /\ turn' \in TurnType
<1>1. CASE turn.shows
  <2>1. Show(w) /\ turn' = [told EXCEPT !.chunks = @ + 1]
    BY <1>1 DEF Line
  <2> QED BY <2>1, ShowType DEF TurnType
<1>2. CASE ~turn.shows
  BY <1>2 DEF Line, Types
<1> QED BY <1>1, <1>2

LEMMA ClearChatType ==
  ASSUME Types, tools' \in BOOLEAN, clearChat
  PROVE  Types'
<1>1. << >> \in Seq(Message)
  OBVIOUS
<1>2. [do |-> "reframe", tools |-> tools', pc |-> "destroy", at |-> 0, id |-> 0] \in Worker
  BY DEF Worker
<1>3. main' = main /\ turn' = turn /\ turns' = turns /\ ctx' = ctx /\ slm' = slm
  BY DEF clearChat, download
<1> QED BY <1>1, <1>2, <1>3 DEF clearChat, Types

LEMMA TypesStep == Types /\ [Next]_vars => Types'
<1> SUFFICES ASSUME Types, [Next]_vars PROVE Types'
  OBVIOUS
<1> USE JobsTyped
<1>1. CASE progress
  <2>1. Tail(main) \in Seq(JobOf)
    BY <1>1, HeadTailProperties DEF progress, Types
  <2>2. main' \in Seq(JobOf)
    BY <1>1, <2>1 DEF progress
  <2> QED BY <1>1, <2>2 DEF progress, DownloadRest, view, engine, counts, Types
<1>2. CASE ShowProgress
  <2>1. main' \in Seq(JobOf)
    BY <1>2, JobType DEF ShowProgress
  <2> QED BY <1>2, <2>1 DEF ShowProgress, DownloadRest, engine, counts, Types
<1>3. CASE Fetched
  <2>1. main' \in Seq(JobOf)
    BY <1>3, JobType DEF Fetched
  <2>2. workers' \in SUBSET Worker
    BY <1>3, LoaderType DEF Fetched, Types
  <2> QED BY <1>3, <2>1, <2>2 DEF Fetched, DownloadRest, engine, counts, Types
<1>4. CASE Loaded
  <2>1. main' \in Seq(JobOf) /\ main[1] \in JobOf /\ main[1].do = "loaded"
    BY <1>4, JobType DEF Loaded
  <2>2. main[1].tools \in BOOLEAN
    BY <2>1, JobFields
  <2>3. ctx' \in [alive : BOOLEAN, framed : BOOLEAN, tools : BOOLEAN]
    <3>1. \/ ctx' = [alive |-> TRUE, framed |-> TRUE, tools |-> main[1].tools]
          \/ ctx' = ctx
      BY <1>4 DEF Loaded, engine
    <3> QED BY <3>1, <2>2, CtxType DEF Types
  <2>4. slm' \in BOOLEAN /\ greedy' \in BOOLEAN
    <3>1. CASE main[1].ok
      BY <3>1, <1>4, <2>2 DEF Loaded
    <3>2. CASE ~main[1].ok
      BY <3>2, <1>4 DEF Loaded, engine, Types
    <3> QED BY <3>1, <3>2
  <2> QED BY <1>4, <2>1, <2>3, <2>4 DEF Loaded, counts, Types
<1>5. CASE Prepared
  <2>1. main' \in Seq(JobOf)
    BY <1>5, JobType DEF Prepared
  <2> QED BY <1>5, <2>1 DEF Prepared, DownloadRest, engine, counts, Types
<1>6. CASE PrefillDone
  <2>1. main' \in Seq(JobOf)
    BY <1>6, JobType DEF PrefillDone
  <2> QED BY <1>6, <2>1 DEF PrefillDone, DownloadRest, engine, counts, Types
<1>7. CASE appendAssistant
  <2>1. main' \in Seq(JobOf)
    BY <1>7, JobType DEF appendAssistant
  <2>2. ASSUME NEW at \in 1..Len(messages)
        PROVE  [messages EXCEPT ![at].chunks = @ + 1] \in Seq(Message)
    <3>1. messages[at] \in Message
      BY DEF Types
    <3>2. [messages[at] EXCEPT !.chunks = @ + 1] \in Message
      BY <3>1 DEF Message
    <3> QED BY <3>2 DEF Types
  <2>3. messages' \in Seq(Message)
    BY <1>7, <2>2 DEF appendAssistant, Types
  <2> QED BY <1>7, <2>1, <2>3 DEF appendAssistant, DownloadRest, engine, counts, Types
<1>8. CASE finishTurn
  <2>1. main' \in Seq(JobOf)
    BY <1>8, JobType DEF finishTurn
  <2> QED BY <1>8, <2>1 DEF finishTurn, DownloadRest, engine, counts, Types
<1>9. CASE LoadModel
  <2>1. PICK w \in workers : /\ w.do = "load"
                             /\ \E ok \in BOOLEAN : Post([do |-> "loaded", ok |-> ok, tools |-> w.tools])
                             /\ workers' = workers \ {w}
    BY <1>9 DEF LoadModel
  <2>2. w.tools \in BOOLEAN
    BY <2>1 DEF Types, Worker
  <2>3. main' \in Seq(JobOf)
    BY <2>1, <2>2, PostType DEF Types
  <2> QED BY <1>9, <2>1, <2>3 DEF LoadModel, view, engine, counts, Types
<1>10. CASE Destroy
  <2>1. workers' \in SUBSET Worker
    BY <1>10, BecomesType DEF Destroy, Types
  <2>2. ctx' \in [alive : BOOLEAN, framed : BOOLEAN, tools : BOOLEAN]
    BY <1>10 DEF Destroy, Types
  <2> QED BY <1>10, <2>1, <2>2 DEF Destroy, download, view, counts, Types
<1>11. CASE Create
  <2>1. workers' \in SUBSET Worker
    BY <1>11, BecomesType DEF Create, Types
  <2>2. main' \in Seq(JobOf)
    <3>1. UNCHANGED main \/ Post([do |-> "prepared", ok |-> FALSE])
      BY <1>11 DEF Create
    <3> QED BY <3>1, PostType DEF Types
  <2>3. ctx' \in [alive : BOOLEAN, framed : BOOLEAN, tools : BOOLEAN]
    <3>1. ctx' = ctx \/ ctx' = [alive |-> TRUE, framed |-> FALSE, tools |-> FALSE]
      BY <1>11 DEF Create
    <3> QED BY <3>1, CtxType DEF Types
  <2> QED BY <1>11, <2>1, <2>2, <2>3 DEF Create, view, counts, Types
<1>12. CASE Frame
  <2>1. PICK w \in workers : /\ ctx' = [ctx EXCEPT !.tools = w.tools, !.framed = TRUE]
                             /\ Post([do |-> "prepared", ok |-> TRUE])
                             /\ workers' = workers \ {w}
    BY <1>12 DEF Frame
  <2>2. w.tools \in BOOLEAN
    BY DEF Types, Worker
  <2>3. main' \in Seq(JobOf)
    BY <2>1, PostType DEF Types
  <2> QED BY <1>12, <2>1, <2>2, <2>3 DEF Frame, view, counts, Types
<1>13. CASE Prefilled
  <2>1. workers' \in SUBSET Worker
    BY <1>13, BecomesType DEF Prefilled, Types
  <2>2. main' \in Seq(JobOf)
    BY <1>13, PostType DEF Prefilled, Types
  <2> QED BY <1>13, <2>1, <2>2 DEF Prefilled, view, engine, counts, Types
<1>14. CASE Chunk
  <2>1. PICK w \in workers :
          /\ Show(w)
          /\ turn' = [turn EXCEPT !.chunks = @ + 1, !.cut = @ \/ stopRequested,
                                  !.late = IF turn.pressed THEN @ + 1 ELSE @]
          /\ Becomes(w, IF stopRequested THEN "tail" ELSE "decode")
    BY <1>14 DEF Chunk
  <2>2. workers' \in SUBSET Worker
    BY <2>1, BecomesType DEF Types
  <2>3. main' \in Seq(JobOf)
    BY <2>1, ShowType DEF Types
  <2>4. turn' \in TurnType
    <3>1. turn \in TurnType
      BY DEF Types
    <3>2. /\ (turn.cut \/ stopRequested) \in BOOLEAN /\ turn.chunks + 1 \in Nat
          /\ (IF turn.pressed THEN turn.late + 1 ELSE turn.late) \in Nat
      BY <3>1 DEF TurnType
    <3> QED BY <3>1, <3>2, <2>1 DEF TurnType
  <2> QED BY <1>14, <2>2, <2>3, <2>4 DEF Chunk, view, engine, counts, Types
<1>25. CASE HeldChunk
  <2>1. PICK w \in workers :
          /\ Show(w)
          /\ turn' = [turn EXCEPT !.chunks = @ + 1, !.cut = @ \/ stopRequested,
                                  !.tails = IF turn.pressed THEN @ + 1 ELSE @]
          /\ Becomes(w, IF stopRequested THEN "finished" ELSE "tail")
    BY <1>25 DEF HeldChunk
  <2>2. workers' \in SUBSET Worker
    BY <2>1, BecomesType DEF Types
  <2>3. main' \in Seq(JobOf)
    BY <2>1, ShowType DEF Types
  <2>4. turn' \in TurnType
    <3>1. turn \in TurnType
      BY DEF Types
    <3>2. /\ (turn.cut \/ stopRequested) \in BOOLEAN /\ turn.chunks + 1 \in Nat
          /\ (IF turn.pressed THEN turn.tails + 1 ELSE turn.tails) \in Nat
      BY <3>1 DEF TurnType
    <3> QED BY <3>1, <3>2, <2>1 DEF TurnType
  <2> QED BY <1>25, <2>2, <2>3, <2>4 DEF HeldChunk, view, engine, counts, Types
<1>26. CASE CallFound
  <2>1. PICK w \in workers :
          Line(w, [turn EXCEPT !.call = TRUE]) /\ Becomes(w, "tail")
    BY <1>26 DEF CallFound
  <2>2. workers' \in SUBSET Worker
    BY <2>1, BecomesType DEF Types
  <2>3. [turn EXCEPT !.call = TRUE] \in TurnType
    BY DEF Types, TurnType
  <2>4. main' \in Seq(JobOf) /\ turn' \in TurnType
    BY <2>1, <2>3, LineType DEF Types
  <2> QED BY <1>26, <2>2, <2>4 DEF CallFound, view, engine, counts, Types
<1>27. CASE Dispatch
  <2>1. PICK w \in workers :
          Line(w, [turn EXCEPT !.call = FALSE, !.pass = 2]) /\ Becomes(w, "prefill")
    BY <1>27 DEF Dispatch
  <2>2. workers' \in SUBSET Worker
    BY <2>1, BecomesType DEF Types
  <2>3. [turn EXCEPT !.call = FALSE, !.pass = 2] \in TurnType
    BY DEF Types, TurnType
  <2>4. main' \in Seq(JobOf) /\ turn' \in TurnType
    BY <2>1, <2>3, LineType DEF Types
  <2> QED BY <1>27, <2>2, <2>4 DEF Dispatch, view, engine, counts, Types
<1>15. CASE GenerateEnds
  <2>1. main' \in Seq(JobOf)
    BY <1>15, PostType DEF GenerateEnds, Types
  <2> QED BY <1>15, <2>1 DEF GenerateEnds, view, engine, counts, Types
<1>16. CASE DownloadStep
  <2>1. \/ main' = main \/ Post([do |-> "progress"]) \/ Post([do |-> "fetched"])
    BY <1>16 DEF DownloadStep, Download, Probe, writeMeta, performDownload, didWriteData,
                 removeItem, moveItem, didFinish, didCompleteWithError, Returned
  <2>2. main' \in Seq(JobOf)
    BY <2>1, PostType DEF Types
  <2> QED BY <1>16, <2>2 DEF DownloadStep, view, engine, counts, Types
<1>17. CASE checkCache
  BY <1>17, LoaderType DEF checkCache, download, engine, counts, Types
<1>18. CASE beginDownload
  BY <1>18 DEF beginDownload, ensureAvailable, engine, counts, Types
<1>19. CASE send
  <2>1. Answer \in Message /\ turns' \in Nat
    BY <1>19 DEF send, Answer, Message, Types
  <2>2. messages' \in Seq(Message) /\ Len(messages') \in Nat
    BY <1>19, <2>1 DEF send, Types
  <2>3. [do |-> "generate", tools |-> tools, pc |-> "prefill", at |-> Len(messages'),
         id |-> turns'] \in Worker
    BY <2>1, <2>2 DEF Types, Worker
  <2>4. turn' \in TurnType
    BY <1>19, <2>1 DEF send, Turn, TurnType
  <2> QED BY <1>19, <2>1, <2>2, <2>3, <2>4 DEF send, download, engine, Types
<1>20. CASE stopGeneration
  BY <1>20 DEF stopGeneration, download, engine, counts, Types, TurnType
<1>21. CASE NewChat
  BY <1>21, ClearChatType DEF NewChat, Types
<1>22. CASE FlipChip
  BY <1>22, ClearChatType DEF FlipChip, Types
<1>23. CASE Quit
  <2>1. << >> \in Seq(Message) /\ << >> \in Seq(JobOf)
    OBVIOUS
  <2> QED BY <1>23, <2>1 DEF Quit, Relaunch, Types, Turn, TurnType, NoCtx
<1>24. CASE UNCHANGED vars
  BY <1>24 DEF vars, download, view, engine, counts, Types
<1> QED BY <1>1, <1>2, <1>3, <1>4, <1>5, <1>6, <1>7, <1>8, <1>9, <1>10, <1>11, <1>12, <1>13,
           <1>14, <1>15, <1>16, <1>17, <1>18, <1>19, <1>20, <1>21, <1>22, <1>23, <1>24,
           <1>25, <1>26, <1>27
        DEF Next, Main, Tasks, Generation, Taps

-----------------------------------------------------------------------------
(* The download.                                                           *)

Fetch ==
  /\ fired \in BOOLEAN /\ resumes = IF fired THEN 1 ELSE 0
  /\ session \in {"none", "running", "moving", "moved", "unmoved", "invalid", "over"}
  /\ call \in {"none", "probe", "sidecar", "perform"} => session = "none"
  /\ call = "waiting" => session \in {"running", "moving", "moved", "unmoved"} /\ ~fired
  /\ session \in {"running", "moving", "moved", "unmoved"} => call = "waiting"
  /\ session \in {"invalid", "over"} => fired

LEMMA FetchInit == Init => Fetch
BY DEF Init, DownloadInit, Fetch

\* What all other actions leave alone.
fetch == <<call, session, fired, resumes>>

LEMMA FetchSteps ==
  ASSUME [Next]_vars
  PROVE  \/ UNCHANGED fetch
         \/ ensureAvailable \/ Download \/ Relaunch
<1> USE DEF fetch
<1>1. Main => UNCHANGED fetch
  BY DEF Main, progress, ShowProgress, Fetched, Loaded, Prepared, PrefillDone,
         appendAssistant, finishTurn, DownloadRest, fetching
<1>2. Tasks => UNCHANGED fetch
  BY DEF Tasks, Generation, LoadModel, Destroy, Create, Frame, Prefilled, Chunk, CallFound,
         HeldChunk, Dispatch, GenerateEnds, Line, Show, Post, DownloadRest, download, fetching
<1>3. Taps => UNCHANGED fetch \/ ensureAvailable
  BY DEF Taps, checkCache, beginDownload, send, stopGeneration, NewChat, FlipChip,
         clearChat, download, fetching
<1>4. UNCHANGED vars => UNCHANGED fetch
  BY DEF vars, download, fetching
<1> QED BY <1>1, <1>2, <1>3, <1>4 DEF Next, DownloadStep, Quit

LEMMA FetchStep == Fetch /\ [Next]_vars => Fetch'
<1> SUFFICES ASSUME Fetch, [Next]_vars PROVE Fetch'
  OBVIOUS
<1>1. CASE UNCHANGED fetch
  BY <1>1 DEF fetch, Fetch
<1>2. CASE ensureAvailable
  BY <1>2 DEF ensureAvailable, fetching, Fetch
<1>3. CASE Relaunch
  BY <1>3 DEF Relaunch, Fetch
<1>4. CASE Probe \/ writeMeta
  BY <1>4 DEF Probe, writeMeta, fetching, Fetch
<1>5. CASE performDownload
  BY <1>5 DEF performDownload, Fetch
<1>6. CASE didWriteData
  BY <1>6 DEF didWriteData, Fetch
<1>7. CASE removeItem \/ moveItem
  BY <1>7 DEF removeItem, moveItem, Fetch
<1>8. CASE didFinish
  <2>1. ~fired /\ session' = "invalid"
    BY <1>8 DEF didFinish, Fetch
  <2>2. fire("ok") \/ fire("error")
    BY <1>8 DEF didFinish
  <2>3. fired' = TRUE /\ resumes' = 1 /\ call' = "resumed"
    BY <2>1, <2>2 DEF fire, Fetch
  <2> QED BY <2>1, <2>3 DEF Fetch
<1>9. CASE didCompleteWithError
  <2>1. /\ session \in {"running", "invalid"} /\ session' = "over"
        /\ \/ fire("error")
           \/ session = "invalid" /\ UNCHANGED <<fired, resumes, call, outcome>>
    BY <1>9 DEF didCompleteWithError
  <2>2. CASE fired
    <3>1. UNCHANGED <<fired, resumes, call>>
      BY <2>1, <2>2 DEF fire, Fetch
    <3> QED BY <2>1, <2>2, <3>1 DEF Fetch
  <2>3. CASE ~fired
    <3>1. fired' = TRUE /\ resumes' = 1 /\ call' = "resumed"
      BY <2>1, <2>3 DEF fire, Fetch
    <3> QED BY <2>1, <3>1 DEF Fetch
  <2> QED BY <2>2, <2>3 DEF Fetch
<1>10. CASE Returned
  BY <1>10 DEF Returned, fetching, Fetch
<1> QED BY <1>1, <1>2, <1>3, <1>4, <1>5, <1>6, <1>7, <1>8, <1>9, <1>10, FetchSteps DEF Download

\* The continuation of a download is resumed once, whatever the order in
\* which the end of the transfer, its size check and its failure report.
THEOREM ResumesOnce == Spec => []ResumedOnce
<1>1. Fetch => ResumedOnce
  BY DEF Fetch, ResumedOnce
<1> QED BY <1>1, FetchInit, FetchStep, PTL DEF Spec

-----------------------------------------------------------------------------
(* The app goes through stages; in each, what is queued for the main actor *)
(* and who works beside it is known.                                       *)

Queued(kinds) == \A i \in 1..Len(main) : main[i].do \in kinds

Before ==
  /\ state \in {"idle", "needsDownload"}
  /\ call = "none" /\ main = << >> /\ workers = {}

Fetching ==
  /\ state = "downloading" /\ call \in {"probe", "sidecar", "perform", "waiting", "resumed"}
  /\ workers = {} /\ Queued({"progress", "downloading"})

Ended ==
  /\ state = "downloading" /\ call = "returned" /\ workers = {}
  /\ \E k \in 1..Len(main) :
       /\ main[k].do = "fetched"
       /\ \A i \in 1..k - 1 : main[i].do \in {"progress", "downloading"}
       /\ \A i \in k + 1..Len(main) : main[i].do = "downloading"

NotFetched ==
  /\ state \in {"error", "downloading"} /\ call \in {"none", "returned"}
  /\ workers = {} /\ Queued({"downloading"})

Opening ==
  /\ state \in {"loading", "downloading"} /\ call \in {"none", "returned"}
  /\ \E w \in Worker : workers = {w} /\ w.do = "load" /\ w.pc = "open" /\ w.tools = tools
  /\ Queued({"downloading"})

Opened ==
  /\ state \in {"loading", "downloading"} /\ call \in {"none", "returned"} /\ workers = {}
  /\ main # << >>
  /\ main[Len(main)].do = "loaded" /\ main[Len(main)].tools = tools
  /\ \A i \in 1..Len(main) - 1 : main[i].do = "downloading"

Closed == ~slm /\ messages = << >> /\ (Before \/ Fetching \/ Ended \/ NotFetched \/ Opening \/ Opened)

\* What the chips tell
Told == ctx.alive /\ ctx.framed /\ ctx.tools = tools /\ greedy = tools

Whole ==
  messages # << >> /\ messages[Len(messages)].id = turn.id =>
    messages[Len(messages)].chunks = turn.chunks /\ ~prefilling

Ready == state = "ready" /\ workers = {} /\ main = << >> /\ Told /\ Whole

\* The chunks on their way to the message
AppendsIn(jobs) == {i \in 1..Len(jobs) : jobs[i].do = "append"}
Pending == Cardinality(AppendsIn(main))

\* All chunks generated are in the message or in the queue.
Answers ==
  /\ messages # << >> /\ messages[Len(messages)].id = turn.id
  /\ \A i \in AppendsIn(main) : main[i].at = Len(messages) /\ main[i].id = turn.id
  /\ messages[Len(messages)].chunks + Pending = turn.chunks

\* The end of a prefill, on its way to the view.
Coming == \E i \in 1..Len(main) : main[i].do = "prefilled"

\* What slm_generate has given after a Stop, by where it is.
Stopped(pc) ==
  /\ turn.call => turn.pass = 1 /\ pc \in {"tail", "finished"}
  /\ pc \in {"prefill", "decode"} \/ turn.call => turn.late = 0
  /\ pc # "finished" => turn.tails <= turn.pass - 1

Generating ==
  /\ state = "generating" /\ Told
  /\ stopRequested = turn.pressed
  /\ \E w \in Worker :
       /\ workers = {w} /\ w.do = "generate"
       /\ w.pc \in {"prefill", "decode", "tail", "finished"}
       /\ w.at = Len(messages) /\ w.id = turn.id
       /\ Stopped(w.pc)
       /\ prefilling => Coming \/ (w.pc = "prefill" /\ turn.pass = 1)
  /\ Queued({"prefilled", "append"})
  /\ Answers

Answered ==
  /\ state = "generating" /\ Told /\ workers = {}
  /\ main # << >> /\ main[Len(main)].do = "finishTurn"
  /\ \A i \in 1..Len(main) - 1 : main[i].do \in {"prefilled", "append"}
  /\ prefilling => Coming
  /\ Answers

Rebuilding ==
  /\ state = "preparing" /\ messages = << >> /\ main = << >> /\ greedy = tools
  /\ \E w \in Worker :
       /\ workers = {w} /\ w.do = "reframe" /\ w.pc \in {"destroy", "create", "frame"}
       /\ w.tools = tools
       /\ w.pc = "frame" => ctx.alive

Rebuilt ==
  /\ state = "preparing" /\ messages = << >> /\ workers = {} /\ greedy = tools
  /\ Len(main) = 1 /\ main[1].do = "prepared"
  /\ main[1].ok => Told

Broken == state = "error" /\ messages = << >> /\ workers = {} /\ main = << >>

Open ==
  /\ slm /\ call \in {"none", "returned"}
  /\ Ready \/ Generating \/ Answered \/ Rebuilding \/ Rebuilt \/ Broken

Heard == turn.late <= 1 /\ turn.tails <= turn.pass /\ (turn.cut => turn.pressed)

Stages == (Closed \/ Open) /\ Heard

LEMMA AppendAt ==
  ASSUME NEW s \in Seq(JobOf), NEW j \in JobOf
  PROVE  /\ Append(s, j) \in Seq(JobOf) /\ Append(s, j) # << >>
         /\ Len(Append(s, j)) = Len(s) + 1 /\ Len(s) \in Nat
         /\ Append(s, j)[Len(s) + 1] = j
         /\ \A i \in 1..Len(s) : Append(s, j)[i] = s[i]
OBVIOUS

LEMMA TailAt ==
  ASSUME NEW s \in Seq(JobOf), s # << >>
  PROVE  /\ Tail(s) \in Seq(JobOf)
         /\ Len(Tail(s)) = Len(s) - 1 /\ Len(s) \in Nat \ {0}
         /\ \A i \in 1..Len(s) - 1 : Tail(s)[i] = s[i + 1]
BY HeadTailProperties

LEMMA StagesInit == Init => Stages
<1> SUFFICES ASSUME Init PROVE Stages
  OBVIOUS
<1>1. Before
  BY DEF Init, DownloadInit, Before
<1>2. Heard
  BY DEF Init, Turn, Heard
<1> QED BY <1>1, <1>2 DEF Init, Closed, Stages

\* Where nothing is being fetched the download does nothing more that shows.
LEMMA DownloadRests ==
  ASSUME Fetch, call \in {"none", "returned"}, DownloadStep
  PROVE  UNCHANGED <<call, main, state, tools, messages, prefilling, stopRequested,
                     slm, ctx, greedy, workers, turn>>
<1>1. session \notin {"running", "moving", "moved", "unmoved"}
  BY DEF Fetch
<1>2. didCompleteWithError
  BY <1>1 DEF DownloadStep, Download, Probe, writeMeta, performDownload, didWriteData,
              removeItem, moveItem, didFinish, Returned
<1>3. fired
  BY <1>1, <1>2 DEF didCompleteWithError, Fetch
<1>4. UNCHANGED <<call, main>>
  BY <1>2, <1>3 DEF didCompleteWithError, fire
<1> QED BY <1>4 DEF DownloadStep, view, engine

LEMMA ClosedMain ==
  ASSUME Types, Closed, main # << >>
  PROVE  main[1].do \in {"progress", "downloading", "fetched", "loaded"}
<1>1. Len(main) \in Nat \ {0} /\ 1 \in 1..Len(main)
  BY DEF Types
<1> QED BY <1>1 DEF Closed, Before, Fetching, Ended, NotFetched, Opening, Opened, Queued

LEMMA ClosedTasks ==
  ASSUME Closed, NEW w \in workers
  PROVE  /\ Opening /\ workers = {w}
         /\ w.do = "load" /\ w.pc = "open" /\ w.tools = tools
BY DEF Closed, Before, Fetching, Ended, NotFetched, Opening, Opened

LEMMA ClosedState ==
  ASSUME Closed
  PROVE  /\ state \notin {"ready", "generating", "preparing"}
         /\ state \in {"idle", "needsDownload"} => Before
BY DEF Closed, Before, Fetching, Ended, NotFetched, Opening, Opened

LEMMA ClosedDownload ==
  ASSUME Types, Fetch, Closed, DownloadStep
  PROVE  Closed'
<1>1. UNCHANGED <<state, tools, messages, slm, workers>>
  BY DEF DownloadStep, view, engine
<1>2. CASE call \in {"none", "returned"}
  <2>1. UNCHANGED <<call, main, state, tools, messages, slm, workers>>
    BY <1>2, DownloadRests
  <2> QED BY <2>1 DEF Closed, Before, Fetching, Ended, NotFetched, Opening, Opened, Queued
<1>3. CASE call \notin {"none", "returned"}
  <2>1. Fetching
    BY <1>3 DEF Closed, Before, Ended, NotFetched, Opening, Opened
  <2>2. CASE Returned
    <3>1. main' = Append(main, [do |-> "fetched"]) /\ call' = "returned"
      BY <2>2 DEF Returned, Post
    <3>2. /\ Len(main') = Len(main) + 1 /\ Len(main) \in Nat
          /\ main'[Len(main) + 1] = [do |-> "fetched"]
          /\ \A i \in 1..Len(main) : main'[i] = main[i]
      BY <3>1, AppendAt, JobsTyped DEF Types
    <3>3. Ended'
      <4>1. Len(main) + 1 \in 1..Len(main') /\ main'[Len(main) + 1].do = "fetched"
        BY <3>2
      <4>2. \A i \in 1..Len(main) : main'[i].do \in {"progress", "downloading"}
        BY <2>1, <3>2 DEF Fetching, Queued
      <4>3. (Len(main) + 1) - 1 = Len(main) /\ (Len(main) + 1) + 1..Len(main') = {}
        BY <3>2
      <4> QED BY <1>1, <2>1, <3>1, <4>1, <4>2, <4>3 DEF Ended, Fetching
    <3> QED BY <1>1, <3>3 DEF Closed
  <2>3. CASE ~Returned
    <3>1. call' \in {"probe", "sidecar", "perform", "waiting", "resumed"}
      BY <2>1, <2>3 DEF DownloadStep, Download, Probe, writeMeta, performDownload,
         didWriteData, removeItem, moveItem, didFinish, didCompleteWithError, fire, Fetching
    <3>2. main' = main \/ main' = Append(main, [do |-> "progress"])
      BY <2>3 DEF DownloadStep, Download, Probe, writeMeta, performDownload,
         didWriteData, removeItem, moveItem, didFinish, didCompleteWithError, Post
    <3>3. CASE main' = main
      BY <1>1, <2>1, <3>1, <3>3 DEF Fetching, Queued, Closed
    <3>4. CASE main' = Append(main, [do |-> "progress"])
      <4>1. /\ Len(main') = Len(main) + 1 /\ Len(main) \in Nat
            /\ main'[Len(main) + 1] = [do |-> "progress"]
            /\ \A i \in 1..Len(main) : main'[i] = main[i]
        BY <3>4, AppendAt, JobsTyped DEF Types
      <4>2. Queued({"progress", "downloading"})'
        BY <4>1, <2>1 DEF Fetching, Queued
      <4> QED BY <1>1, <2>1, <3>1, <4>2 DEF Fetching, Closed
    <3> QED BY <3>2, <3>3, <3>4
  <2> QED BY <2>2, <2>3
<1> QED BY <1>2, <1>3

\* In a queue that lost its head and got one job more, every job but the last
\* was one place further back.
LEMMA Shifted ==
  ASSUME NEW n \in Nat, NEW k \in Nat, NEW i \in k + 1..n
  PROVE  i = n \/ (i \in k + 1..n - 1 /\ i \in 1..n - 1 /\ i + 1 \in (k + 1) + 1..n)
OBVIOUS

LEMMA ClosedProgress ==
  ASSUME Types, Closed, progress
  PROVE  Closed'
<1>1. /\ main # << >> /\ main[1].do = "progress"
      /\ main' = Append(Tail(main), [do |-> "downloading"])
      /\ UNCHANGED <<call, state, tools, messages, slm, workers>>
  BY DEF progress, DownloadRest, view, engine
<1>2. /\ Tail(main) \in Seq(JobOf)
      /\ Len(Tail(main)) = Len(main) - 1 /\ Len(main) \in Nat \ {0}
      /\ \A i \in 1..Len(main) - 1 : Tail(main)[i] = main[i + 1]
  BY <1>1, TailAt DEF Types
<1>3. /\ Len(main') = Len(main)
      /\ main'[Len(main)].do = "downloading"
      /\ \A i \in 1..Len(main) - 1 : main'[i] = main[i + 1]
  BY <1>1, <1>2, AppendAt, JobsTyped
<1>4. CASE Fetching
  <2>1. Queued({"progress", "downloading"})'
    <3> SUFFICES ASSUME NEW i \in 1..Len(main')
                 PROVE  main'[i].do \in {"progress", "downloading"}
      BY DEF Queued
    <3>1. i \in 1..Len(main) /\ Len(main) \in Nat
      BY <1>2, <1>3
    <3>2. i \in 0 + 1..Len(main)
      BY <3>1
    <3>3. i = Len(main) \/ (i \in 1..Len(main) - 1 /\ i + 1 \in (0 + 1) + 1..Len(main))
      BY <3>1, <3>2, Shifted
    <3>4. i = Len(main) \/ (i \in 1..Len(main) - 1 /\ i + 1 \in 1..Len(main))
      BY <3>1, <3>3
    <3> QED BY <3>4, <1>3, <1>4 DEF Fetching, Queued
  <2> QED BY <1>1, <1>4, <2>1 DEF Fetching, Closed
<1>5. CASE Ended
  <2>1. PICK k \in 1..Len(main) :
          /\ main[k].do = "fetched"
          /\ \A i \in 1..k - 1 : main[i].do \in {"progress", "downloading"}
          /\ \A i \in k + 1..Len(main) : main[i].do = "downloading"
    BY <1>5 DEF Ended
  <2>2. k # 1 /\ k - 1 \in 1..Len(main) - 1 /\ k - 1 \in 1..Len(main')
    BY <1>1, <1>2, <1>3, <2>1
  <2>3. main'[k - 1].do = "fetched"
    BY <2>1, <2>2, <1>3
  <2>4. \A i \in 1..(k - 1) - 1 : main'[i].do \in {"progress", "downloading"}
    <3> SUFFICES ASSUME NEW i \in 1..(k - 1) - 1
                 PROVE  main'[i].do \in {"progress", "downloading"}
      OBVIOUS
    <3>1. i \in 1..Len(main) - 1 /\ i + 1 \in 1..k - 1
      BY <1>2, <2>1
    <3> QED BY <3>1, <1>3, <2>1
  <2>5. \A i \in (k - 1) + 1..Len(main') : main'[i].do = "downloading"
    <3> SUFFICES ASSUME NEW i \in (k - 1) + 1..Len(main')
                 PROVE  main'[i].do = "downloading"
      OBVIOUS
    <3>1. i \in (k - 1) + 1..Len(main) /\ Len(main) \in Nat /\ k \in 1..Len(main)
      BY <1>2, <1>3, <2>1
    <3>2. k - 1 \in Nat /\ ((k - 1) + 1) + 1 = k + 1
      BY <3>1
    <3>3. i = Len(main) \/ (i \in 1..Len(main) - 1 /\ i + 1 \in ((k - 1) + 1) + 1..Len(main))
      BY <3>1, <3>2, Shifted
    <3> QED BY <3>2, <3>3, <1>3, <2>1
  <2> QED BY <1>1, <1>5, <2>2, <2>3, <2>4, <2>5 DEF Ended, Closed
<1>6. CASE ~Fetching /\ ~Ended
  <2>1. main[1].do # "progress"
    BY <1>1, <1>2, <1>6 DEF Closed, Before, NotFetched, Opening, Opened, Queued
  <2> QED BY <1>1, <2>1
<1> QED BY <1>4, <1>5, <1>6

LEMMA QueuedTail ==
  ASSUME Types, main # << >>, main' = Tail(main), NEW kinds, Queued(kinds)
  PROVE  Queued(kinds)'
<1>1. /\ Len(main') = Len(main) - 1 /\ Len(main) \in Nat \ {0}
      /\ \A i \in 1..Len(main) - 1 : main'[i] = main[i + 1]
  BY TailAt DEF Types
<1> SUFFICES ASSUME NEW i \in 1..Len(main')
             PROVE  main'[i].do \in kinds
  BY DEF Queued
<1>2. i \in 1..Len(main) - 1 /\ i + 1 \in 1..Len(main)
  BY <1>1
<1> QED BY <1>1, <1>2 DEF Queued

LEMMA ClosedShow ==
  ASSUME Types, Closed, ShowProgress
  PROVE  Closed'
<1>1. /\ main # << >> /\ main[1].do = "downloading" /\ main' = Tail(main)
      /\ state' = "downloading"
      /\ UNCHANGED <<call, tools, messages, slm, workers>>
  BY DEF ShowProgress, Job, DownloadRest, engine
<1>2. /\ Len(main') = Len(main) - 1 /\ Len(main) \in Nat \ {0}
      /\ \A i \in 1..Len(main) - 1 : main'[i] = main[i + 1]
  BY <1>1, TailAt DEF Types
<1>3. CASE Fetching
  BY <1>1, <1>3, QueuedTail DEF Fetching, Closed
<1>4. CASE Ended
  <2>1. PICK k \in 1..Len(main) :
          /\ main[k].do = "fetched"
          /\ \A i \in 1..k - 1 : main[i].do \in {"progress", "downloading"}
          /\ \A i \in k + 1..Len(main) : main[i].do = "downloading"
    BY <1>4 DEF Ended
  <2>2. k # 1 /\ k - 1 \in 1..Len(main) - 1 /\ k - 1 \in 1..Len(main')
    BY <1>1, <1>2, <2>1
  <2>3. main'[k - 1].do = "fetched"
    BY <2>1, <2>2, <1>2
  <2>4. \A i \in 1..(k - 1) - 1 : main'[i].do \in {"progress", "downloading"}
    <3> SUFFICES ASSUME NEW i \in 1..(k - 1) - 1
                 PROVE  main'[i].do \in {"progress", "downloading"}
      OBVIOUS
    <3>1. i \in 1..Len(main) - 1 /\ i + 1 \in 1..k - 1
      BY <1>2, <2>1
    <3> QED BY <3>1, <1>2, <2>1
  <2>5. \A i \in (k - 1) + 1..Len(main') : main'[i].do = "downloading"
    <3> SUFFICES ASSUME NEW i \in (k - 1) + 1..Len(main')
                 PROVE  main'[i].do = "downloading"
      OBVIOUS
    <3>1. Len(main') = Len(main) - 1 /\ Len(main) \in Nat /\ k \in 1..Len(main)
      BY <1>2, <2>1
    <3>2. i \in 1..Len(main) - 1 /\ i + 1 \in k + 1..Len(main)
      BY <3>1
    <3> QED BY <3>2, <1>2, <2>1
  <2> QED BY <1>1, <1>4, <2>2, <2>3, <2>4, <2>5 DEF Ended, Closed
<1>5. CASE NotFetched
  BY <1>1, <1>5, QueuedTail DEF NotFetched, Closed
<1>6. CASE Opening
  BY <1>1, <1>6, QueuedTail DEF Opening, Closed
<1>7. CASE Opened
  <2>1. main[Len(main)].do # "downloading"
    BY <1>7 DEF Opened
  <2>2. Len(main) # 1 /\ Len(main) - 1 \in 1..Len(main) - 1 /\ (Len(main) - 1) + 1 = Len(main)
    BY <1>1, <1>2, <2>1
  <2>3. main'[Len(main')] = main[Len(main)] /\ main' # << >>
    BY <1>2, <2>2
  <2>4. \A i \in 1..Len(main') - 1 : main'[i].do = "downloading"
    <3> SUFFICES ASSUME NEW i \in 1..Len(main') - 1
                 PROVE  main'[i].do = "downloading"
      OBVIOUS
    <3>1. i \in 1..Len(main) - 1 /\ i + 1 \in 1..Len(main) - 1
      BY <1>2
    <3> QED BY <3>1, <1>2, <1>7 DEF Opened
  <2> QED BY <1>1, <1>7, <2>3, <2>4 DEF Opened, Closed
<1> QED BY <1>1, <1>3, <1>4, <1>5, <1>6, <1>7 DEF Closed, Before

LEMMA FetchedEnded ==
  ASSUME Types, Closed, Fetched
  PROVE  Ended
<1>1. main # << >> /\ main[1].do = "fetched" /\ Len(main) \in Nat \ {0} /\ 1 \in 1..Len(main)
  BY DEF Fetched, Job, Types
<1>2. CASE Opened
  <2>1. main[Len(main)].do # "fetched" /\ \A i \in 1..Len(main) - 1 : main[i].do # "fetched"
    BY <1>2 DEF Opened
  <2> QED BY <1>1, <2>1
<1> QED BY <1>1, <1>2 DEF Closed, Before, Fetching, NotFetched, Opening, Queued

LEMMA ClosedFetched ==
  ASSUME Types, Closed, Fetched
  PROVE  Closed'
<1>1. /\ main # << >> /\ main[1].do = "fetched" /\ main' = Tail(main)
      /\ UNCHANGED <<call, tools, messages, slm>>
  BY DEF Fetched, Job, DownloadRest, engine
<1>2. /\ Len(main') = Len(main) - 1 /\ Len(main) \in Nat \ {0}
      /\ \A i \in 1..Len(main) - 1 : main'[i] = main[i + 1]
  BY <1>1, TailAt DEF Types
<1>3. Ended
  BY FetchedEnded
<1>4. PICK k \in 1..Len(main) :
        /\ main[k].do = "fetched"
        /\ \A i \in 1..k - 1 : main[i].do \in {"progress", "downloading"}
        /\ \A i \in k + 1..Len(main) : main[i].do = "downloading"
  BY <1>3 DEF Ended
<1>5. k = 1
  <2>1. ~(1 \in 1..k - 1)
    BY <1>1, <1>4
  <2> QED BY <1>2, <2>1
<1>6. Queued({"downloading"})'
  <2> SUFFICES ASSUME NEW i \in 1..Len(main')
               PROVE  main'[i].do = "downloading"
    BY DEF Queued
  <2>1. i \in 1..Len(main) - 1 /\ i + 1 \in k + 1..Len(main)
    BY <1>2, <1>5
  <2> QED BY <2>1, <1>2, <1>4
<1>7. CASE outcome = "ok"
  <2>1. state' = "loading" /\ workers' = {Loader}
    BY <1>3, <1>7 DEF Fetched, Ended
  <2>2. Loader \in Worker /\ Loader.do = "load" /\ Loader.pc = "open" /\ Loader.tools = tools
    BY LoaderType DEF Loader
  <2>3. Opening'
    BY <1>1, <1>3, <1>6, <2>1, <2>2 DEF Opening, Ended
  <2> QED BY <1>1, <2>3 DEF Closed
<1>8. CASE outcome # "ok"
  <2>1. state' = "error" /\ workers' = {}
    BY <1>3, <1>8 DEF Fetched, Ended
  <2>2. NotFetched'
    BY <1>1, <1>3, <1>6, <2>1 DEF NotFetched, Ended
  <2> QED BY <1>1, <2>2 DEF Closed
<1> QED BY <1>7, <1>8

LEMMA ClosedLoaded ==
  ASSUME Types, Closed, Loaded
  PROVE  Closed' \/ Open'
<1>1. /\ main # << >> /\ main[1].do = "loaded" /\ main' = Tail(main)
      /\ UNCHANGED <<call, tools, messages, workers>>
  BY DEF Loaded, Job, DownloadRest
<1>2. /\ Len(main') = Len(main) - 1 /\ Len(main) \in Nat \ {0}
      /\ \A i \in 1..Len(main) - 1 : main'[i] = main[i + 1]
  BY <1>1, TailAt DEF Types
<1>3. Opened
  <2>1. 1 \in 1..Len(main)
    BY <1>2
  <2>2. CASE Ended
    <3>1. \A i \in 1..Len(main) : main[i].do # "loaded"
      <4>1. PICK k \in 1..Len(main) :
              /\ main[k].do = "fetched"
              /\ \A i \in 1..k - 1 : main[i].do \in {"progress", "downloading"}
              /\ \A i \in k + 1..Len(main) : main[i].do = "downloading"
        BY <2>2 DEF Ended
      <4> SUFFICES ASSUME NEW i \in 1..Len(main) PROVE main[i].do # "loaded"
        OBVIOUS
      <4>2. i = k \/ i \in 1..k - 1 \/ i \in k + 1..Len(main)
        BY <1>2, <4>1
      <4> QED BY <4>1, <4>2
    <3> QED BY <1>1, <2>1, <3>1
  <2> QED BY <1>1, <2>1, <2>2 DEF Closed, Before, Fetching, NotFetched, Opening, Queued
<1>4. Len(main) = 1
  <2>1. ~(1 \in 1..Len(main) - 1)
    BY <1>1, <1>3 DEF Opened
  <2> QED BY <1>2, <2>1
<1>5. main' = << >> /\ main[1].tools = tools
  <2>1. main' \in Seq(JobOf)
    BY <1>1, TailAt DEF Types
  <2> QED BY <1>2, <1>3, <1>4, <2>1 DEF Opened
<1>6. CASE main[1].ok
  <2>1. /\ slm' = TRUE /\ greedy' = tools /\ state' = "ready"
        /\ ctx' = [alive |-> TRUE, framed |-> TRUE, tools |-> tools]
    BY <1>5, <1>6 DEF Loaded
  <2>2. Told' /\ Whole'
    BY <1>1, <2>1 DEF Told, Whole, Closed
  <2> QED BY <1>1, <1>3, <1>5, <2>1, <2>2 DEF Ready, Open, Opened
<1>7. CASE ~main[1].ok
  <2>1. state' = "error" /\ UNCHANGED slm
    BY <1>7 DEF Loaded, engine
  <2>2. NotFetched'
    BY <1>1, <1>3, <1>5, <2>1 DEF NotFetched, Opened, Queued
  <2> QED BY <1>1, <2>1, <2>2 DEF Closed
<1> QED BY <1>6, <1>7

LEMMA ClosedLoad ==
  ASSUME Types, Closed, LoadModel
  PROVE  Closed'
<1>1. PICK w \in workers : /\ w.do = "load"
                           /\ \E ok \in BOOLEAN : Post([do |-> "loaded", ok |-> ok, tools |-> w.tools])
                           /\ workers' = workers \ {w}
  BY DEF LoadModel
<1>2. PICK ok \in BOOLEAN : main' = Append(main, [do |-> "loaded", ok |-> ok, tools |-> w.tools])
  BY <1>1 DEF Post
<1>3. UNCHANGED <<call, state, tools, messages, slm>>
  BY DEF LoadModel, DownloadRest, view, engine
<1>4. Opening /\ workers' = {} /\ w.tools = tools
  BY <1>1, ClosedTasks
<1>5. [do |-> "loaded", ok |-> ok, tools |-> w.tools] \in JobOf
  BY <1>4, JobsTyped DEF Types
<1>6. /\ main' # << >> /\ Len(main') = Len(main) + 1 /\ Len(main) \in Nat
      /\ main'[Len(main) + 1] = [do |-> "loaded", ok |-> ok, tools |-> w.tools]
      /\ \A i \in 1..Len(main) : main'[i] = main[i]
  BY <1>2, <1>5, AppendAt DEF Types
<1>7. main'[Len(main')].do = "loaded" /\ main'[Len(main')].tools = tools'
  BY <1>3, <1>4, <1>6
<1>8. \A i \in 1..Len(main') - 1 : main'[i].do = "downloading"
  BY <1>4, <1>6 DEF Opening, Queued
<1> QED BY <1>3, <1>4, <1>6, <1>7, <1>8 DEF Opening, Opened, Closed

LEMMA ClosedStep ==
  ASSUME Types, Fetch, Closed, [Next]_vars
  PROVE  Closed' \/ Open'
<1>1. CASE progress
  BY <1>1, ClosedProgress
<1>2. CASE ShowProgress
  BY <1>2, ClosedShow
<1>3. CASE Fetched
  BY <1>3, ClosedFetched
<1>4. CASE Loaded
  BY <1>4, ClosedLoaded
<1>5. CASE Prepared \/ PrefillDone \/ appendAssistant \/ finishTurn
  <2>1. main # << >> /\ main[1].do \in {"prepared", "prefilled", "append", "finishTurn"}
    BY <1>5 DEF Prepared, PrefillDone, appendAssistant, finishTurn, Job
  <2> QED BY <2>1, ClosedMain
<1>6. CASE LoadModel
  BY <1>6, ClosedLoad
<1>7. CASE Destroy \/ Create \/ Frame \/ Generation
  <2>1. \E w \in workers : w.pc # "open"
    BY <1>7 DEF Destroy, Create, Frame, Generation, Prefilled, Chunk, CallFound, HeldChunk,
                Dispatch, GenerateEnds
  <2> QED BY <2>1, ClosedTasks
<1>8. CASE DownloadStep
  BY <1>8, ClosedDownload
<1>9. CASE checkCache
  <2>1. Before /\ UNCHANGED <<call, main, tools, messages, slm>>
    BY <1>9, ClosedState DEF checkCache, download, engine
  <2>2. CASE state' = "loading"
    <3>1. workers' = {Loader}
      BY <1>9, <2>1, <2>2 DEF checkCache, Before
    <3>2. Loader \in Worker /\ Loader.do = "load" /\ Loader.pc = "open" /\ Loader.tools = tools
      BY LoaderType DEF Loader
    <3>3. Opening'
      BY <2>1, <2>2, <3>1, <3>2 DEF Opening, Before, Queued
    <3> QED BY <2>1, <3>3 DEF Closed
  <2>3. CASE state' # "loading"
    <3>1. state' \in {"needsDownload", "error"} /\ workers' = {}
      BY <1>9, <2>1, <2>3 DEF checkCache, Before
    <3>2. Before' \/ NotFetched'
      BY <2>1, <3>1 DEF Before, NotFetched, Queued
    <3> QED BY <2>1, <3>2 DEF Closed
  <2> QED BY <2>2, <2>3
<1>10. CASE beginDownload
  <2>1. Before
    BY <1>10, ClosedState DEF beginDownload
  <2>2. /\ call' \in {"resumed", "sidecar", "probe"} /\ state' = "downloading"
        /\ UNCHANGED <<main, workers, tools, messages, slm>>
    BY <1>10 DEF beginDownload, ensureAvailable, engine
  <2>3. Fetching'
    BY <2>1, <2>2 DEF Before, Fetching, Queued
  <2> QED BY <2>2, <2>3 DEF Closed
<1>11. CASE send \/ stopGeneration \/ FlipChip
  <2>1. state \in {"ready", "generating"}
    BY <1>11 DEF send, stopGeneration, FlipChip
  <2> QED BY <2>1, ClosedState
<1>12. CASE NewChat
  <2>1. messages # << >>
    BY <1>12 DEF NewChat
  <2> QED BY <2>1 DEF Closed
<1>13. CASE Quit
  <2>1. Before' /\ ~slm' /\ messages' = << >>
    BY <1>13 DEF Quit, Relaunch, Before
  <2> QED BY <2>1 DEF Closed
<1>14. CASE UNCHANGED vars
  <2>1. UNCHANGED <<call, main, state, tools, messages, slm, workers>>
    BY <1>14 DEF vars, download, view, engine
  <2> QED BY <2>1 DEF Closed, Before, Fetching, Ended, NotFetched, Opening, Opened, Queued
<1> QED BY <1>1, <1>2, <1>3, <1>4, <1>5, <1>6, <1>7, <1>8, <1>9, <1>10, <1>11, <1>12, <1>13,
           <1>14 DEF Next, Main, Tasks, Taps

LEMMA PendingIsCount == Types => Pending \in Nat
<1> SUFFICES ASSUME Types PROVE Pending \in Nat
  OBVIOUS
<1>1. AppendsIn(main) \in SUBSET (1..Len(main)) /\ Len(main) \in Nat
  BY DEF AppendsIn, Types
<1>2. IsFiniteSet(1..Len(main))
  BY <1>1, FS_Interval
<1>3. IsFiniteSet(AppendsIn(main))
  BY <1>1, <1>2, FS_Subset
<1> QED BY <1>3, FS_CardinalityType DEF Pending

\* A chunk that is queued is one more on its way, one that is handled one less.
LEMMA CountPost ==
  ASSUME Types, NEW job \in JobOf, Post(job)
  PROVE  /\ Pending \in Nat
         /\ job.do # "append" => AppendsIn(main)' = AppendsIn(main) /\ Pending' = Pending
         /\ job.do = "append" => /\ AppendsIn(main)' = AppendsIn(main) \union {Len(main) + 1}
                                 /\ Pending' = Pending + 1
<1>1. /\ Len(main') = Len(main) + 1 /\ Len(main) \in Nat
      /\ main'[Len(main) + 1] = job
      /\ \A i \in 1..Len(main) : main'[i] = main[i]
  BY AppendAt DEF Post, Types
<1>2. AppendsIn(main) \in SUBSET (1..Len(main)) /\ Len(main) + 1 \notin AppendsIn(main)
  BY <1>1 DEF AppendsIn
<1>3. IsFiniteSet(1..Len(main))
  BY <1>1, FS_Interval
<1>4. IsFiniteSet(AppendsIn(main))
  BY <1>2, <1>3, FS_Subset
<1>5. Pending \in Nat
  BY <1>4, FS_CardinalityType DEF Pending
<1>6. \A i : i \in 1..Len(main') <=> i \in 1..Len(main) \/ i = Len(main) + 1
  BY <1>1
<1>7. CASE job.do # "append"
  <2>1. AppendsIn(main)' = AppendsIn(main)
    BY <1>1, <1>6, <1>7 DEF AppendsIn
  <2> QED BY <1>5, <1>7, <2>1 DEF Pending
<1>8. CASE job.do = "append"
  <2>1. AppendsIn(main)' = AppendsIn(main) \union {Len(main) + 1}
    BY <1>1, <1>6, <1>8 DEF AppendsIn
  <2>2. Cardinality(AppendsIn(main) \union {Len(main) + 1}) = Cardinality(AppendsIn(main)) + 1
    BY <1>2, <1>4, FS_AddElement
  <2> QED BY <1>5, <1>8, <2>1, <2>2 DEF Pending
<1> QED BY <1>7, <1>8

LEMMA CountTail ==
  ASSUME Types, main # << >>, main' = Tail(main)
  PROVE  /\ Pending \in Nat /\ Pending' \in Nat
         /\ main[1].do # "append" => Pending' = Pending
         /\ main[1].do = "append" => Pending' + 1 = Pending
         /\ \A i \in AppendsIn(main)' : i + 1 \in AppendsIn(main) /\ main'[i] = main[i + 1]
<1>1. /\ Len(main') = Len(main) - 1 /\ Len(main) \in Nat \ {0}
      /\ \A i \in 1..Len(main) - 1 : main'[i] = main[i + 1]
  BY TailAt DEF Types
<1>2. AppendsIn(main) \in SUBSET (1..Len(main)) /\ AppendsIn(main)' \in SUBSET (1..Len(main) - 1)
  BY <1>1 DEF AppendsIn
<1>3. IsFiniteSet(1..Len(main)) /\ IsFiniteSet(1..Len(main) - 1)
  BY <1>1, FS_Interval
<1>4. IsFiniteSet(AppendsIn(main)) /\ IsFiniteSet(AppendsIn(main)')
  BY <1>2, <1>3, FS_Subset
<1>5. Pending \in Nat /\ Pending' \in Nat
  BY <1>4, FS_CardinalityType DEF Pending
<1>6. ASSUME NEW i \in AppendsIn(main)'
      PROVE  i + 1 \in AppendsIn(main) \ {1} /\ main'[i] = main[i + 1]
  <2>1. i \in 1..Len(main) - 1 /\ main'[i].do = "append"
    BY <1>1 DEF AppendsIn
  <2>2. i + 1 \in 1..Len(main) /\ i + 1 # 1 /\ main'[i] = main[i + 1]
    BY <1>1, <2>1
  <2> QED BY <2>1, <2>2 DEF AppendsIn
<1>7. ASSUME NEW j \in AppendsIn(main) \ {1}
      PROVE  j - 1 \in AppendsIn(main)' /\ (j - 1) + 1 = j
  <2>1. j \in 1..Len(main) /\ j # 1 /\ main[j].do = "append"
    BY DEF AppendsIn
  <2>2. j - 1 \in 1..Len(main) - 1 /\ (j - 1) + 1 = j
    BY <1>1, <2>1
  <2>3. main'[j - 1] = main[j]
    BY <1>1, <2>2
  <2> QED BY <1>1, <2>1, <2>2, <2>3 DEF AppendsIn
<1>8. Cardinality(AppendsIn(main)') = Cardinality(AppendsIn(main) \ {1})
  <2> DEFINE up == [i \in AppendsIn(main)' |-> i + 1]
  <2>1. \A i \in AppendsIn(main)' : i \in Nat
    BY <1>1, <1>2
  <2>2. up \in Bijection(AppendsIn(main)', AppendsIn(main) \ {1})
    <3>1. up \in [AppendsIn(main)' -> AppendsIn(main) \ {1}]
      BY <1>6
    <3>2. IsInjective(up)
      BY <2>1 DEF IsInjective
    <3>3. \A j \in AppendsIn(main) \ {1} : \E i \in AppendsIn(main)' : up[i] = j
      BY <1>7
    <3> QED BY <3>1, <3>2, <3>3 DEF Bijection, Injection, Surjection
  <2> HIDE DEF up
  <2> QED BY <1>4, <2>2, FS_Bijection DEF ExistsBijection
<1>9. CASE main[1].do # "append"
  <2>1. AppendsIn(main) \ {1} = AppendsIn(main)
    BY <1>9 DEF AppendsIn
  <2> QED BY <1>5, <1>6, <1>8, <1>9, <2>1 DEF Pending
<1>10. CASE main[1].do = "append"
  <2>1. 1 \in AppendsIn(main)
    BY <1>1, <1>10 DEF AppendsIn
  <2>2. Cardinality(AppendsIn(main) \ {1}) = Cardinality(AppendsIn(main)) - 1
    BY <1>4, <2>1, FS_RemoveElement
  <2>3. Pending' = Pending - 1
    BY <1>8, <2>2 DEF Pending
  <2>4. Pending' + 1 = Pending
    BY <1>5, <2>3
  <2> QED BY <1>5, <1>6, <1>10, <2>4
<1> QED BY <1>9, <1>10

LEMMA CountNone == main = << >> => AppendsIn(main) = {} /\ Pending = 0
BY FS_EmptySet DEF AppendsIn, Pending

LEMMA LastMessage ==
  ASSUME Types, messages # << >>
  PROVE  /\ Len(messages) \in 1..Len(messages) /\ messages[Len(messages)] \in Message
         /\ messages[Len(messages)].chunks \in Nat
<1>1. Len(messages) \in 1..Len(messages) /\ messages[Len(messages)] \in Message
  BY DEF Types
<1> QED BY <1>1 DEF Message

\* What a step of the generation does to the answer.
LEMMA AnswersPost ==
  ASSUME Types, Answers, NEW job \in JobOf, Post(job), UNCHANGED messages, turn'.id = turn.id,
         \/ job.do # "append" /\ turn'.chunks = turn.chunks
         \/ /\ job.do = "append" /\ turn'.chunks = turn.chunks + 1
            /\ job.at = Len(messages) /\ job.id = turn.id
  PROVE  Answers'
<1>1. /\ Len(main') = Len(main) + 1 /\ Len(main) \in Nat
      /\ main'[Len(main) + 1] = job
      /\ \A i \in 1..Len(main) : main'[i] = main[i]
  BY AppendAt DEF Post, Types
<1>2. messages # << >> /\ messages[Len(messages)].chunks \in Nat /\ turn.chunks \in Nat
  BY LastMessage DEF Answers, Types, TurnType
<1>3. \A i \in AppendsIn(main) : main'[i] = main[i]
  BY <1>1 DEF AppendsIn
<1>4. CASE job.do # "append"
  <2>1. AppendsIn(main)' = AppendsIn(main) /\ Pending' = Pending /\ turn'.chunks = turn.chunks
    BY <1>4, CountPost
  <2> QED BY <1>3, <2>1 DEF Answers
<1>5. CASE job.do = "append"
  <2>1. /\ AppendsIn(main)' = AppendsIn(main) \union {Len(main) + 1}
        /\ Pending' = Pending + 1 /\ Pending \in Nat /\ turn'.chunks = turn.chunks + 1
        /\ job.at = Len(messages) /\ job.id = turn.id
    BY <1>5, CountPost
  <2>2. \A i \in AppendsIn(main)' : main'[i].at = Len(messages) /\ main'[i].id = turn.id
    BY <1>1, <1>3, <2>1 DEF Answers
  <2>3. messages[Len(messages)].chunks + Pending' = turn'.chunks
    BY <1>2, <2>1 DEF Answers
  <2> QED BY <2>2, <2>3 DEF Answers
<1> QED BY <1>4, <1>5

LEMMA QueuedPost ==
  ASSUME Types, NEW kinds, Queued(kinds), NEW job \in JobOf, Post(job), job.do \in kinds
  PROVE  Queued(kinds)'
<1>1. /\ Len(main') = Len(main) + 1 /\ Len(main) \in Nat
      /\ main'[Len(main) + 1] = job
      /\ \A i \in 1..Len(main) : main'[i] = main[i]
  BY AppendAt DEF Post, Types
<1> QED BY <1>1 DEF Queued

LEMMA ComingPost ==
  ASSUME Types, NEW job \in JobOf, Post(job)
  PROVE  Coming \/ job.do = "prefilled" => Coming'
<1>1. /\ Len(main') = Len(main) + 1 /\ Len(main) \in Nat
      /\ main'[Len(main) + 1] = job
      /\ \A i \in 1..Len(main) : main'[i] = main[i]
  BY AppendAt DEF Post, Types
<1>2. ASSUME NEW i \in 1..Len(main), main[i].do = "prefilled"
      PROVE  Coming'
  <2>1. i \in 1..Len(main') /\ main'[i].do = "prefilled"
    BY <1>1, <1>2
  <2> QED BY <2>1 DEF Coming
<1>3. ASSUME job.do = "prefilled"
      PROVE  Coming'
  <2>1. Len(main) + 1 \in 1..Len(main') /\ main'[Len(main) + 1].do = "prefilled"
    BY <1>1, <1>3
  <2> QED BY <2>1 DEF Coming
<1> QED BY <1>2, <1>3 DEF Coming

\* Nobody drives the context but the one task of the stage.
LEMMA OpenTasks ==
  ASSUME Open, NEW w \in workers
  PROVE  /\ workers = {w}
         /\ \/ /\ Generating /\ w.do = "generate"
               /\ w.pc \in {"prefill", "decode", "tail", "finished"}
            \/ Rebuilding /\ w.do = "reframe" /\ w.pc \in {"destroy", "create", "frame"}
BY DEF Open, Ready, Generating, Answered, Rebuilding, Rebuilt, Broken

LEMMA Generator ==
  ASSUME Types, Open, NEW w \in workers, w.pc \in {"prefill", "decode", "tail", "finished"}
  PROVE  /\ Generating /\ workers = {w} /\ w \in Worker /\ w.do = "generate"
         /\ w.at = Len(messages) /\ w.id = turn.id /\ Stopped(w.pc)
         /\ prefilling => Coming \/ (w.pc = "prefill" /\ turn.pass = 1)
         /\ stopRequested = turn.pressed /\ Queued({"prefilled", "append"}) /\ Answers
<1>1. Generating /\ workers = {w} /\ w \in Worker
  BY OpenTasks DEF Types
<1> QED BY <1>1 DEF Generating

\* The generation goes on from w to another place of slm_generate.
LEMMA GoesOn ==
  ASSUME Types, Open, NEW w \in workers, w.pc \in {"prefill", "decode", "tail", "finished"},
         NEW to \in {"prefill", "decode", "tail", "finished"}, Becomes(w, to),
         UNCHANGED <<call, state, tools, messages, prefilling, stopRequested, slm, ctx, greedy>>,
         turn'.id = turn.id, turn'.pressed = turn.pressed, Stopped(to)',
         prefilling => Coming', Queued({"prefilled", "append"})', Answers'
  PROVE  Open'
<1>1. /\ Generating /\ workers = {w} /\ w \in Worker /\ w.do = "generate"
      /\ w.at = Len(messages) /\ w.id = turn.id /\ stopRequested = turn.pressed
  BY Generator
<1>2. workers' = {[w EXCEPT !.pc = to]}
  BY <1>1 DEF Becomes
<1>3. PICK v \in Worker : v = [w EXCEPT !.pc = to]
  BY <1>1 DEF Worker
<1>4. v.do = "generate" /\ v.pc = to /\ v.at = w.at /\ v.id = w.id
  BY <1>1, <1>3 DEF Worker
<1>5. Told' /\ state' = "generating"
  BY <1>1 DEF Generating, Told
<1>6. Generating'
  BY <1>1, <1>2, <1>3, <1>4, <1>5 DEF Generating
<1> QED BY <1>6 DEF Open

LEMMA OpenPrefilled ==
  ASSUME Types, Open, Prefilled
  PROVE  Open'
<1>1. PICK w \in workers : w.pc = "prefill" /\ Becomes(w, "decode") /\ Post([do |-> "prefilled"])
  BY DEF Prefilled
<1>2. UNCHANGED <<call, state, tools, messages, prefilling, stopRequested, slm, ctx, greedy, turn>>
  BY DEF Prefilled, DownloadRest, view, engine
<1>3. Stopped("prefill") /\ Queued({"prefilled", "append"}) /\ Answers
  BY <1>1, Generator
<1>4. Stopped("decode")'
  BY <1>2, <1>3 DEF Stopped
<1>5. Answers' /\ Queued({"prefilled", "append"})' /\ Coming'
  <2>1. PICK job \in JobOf : job = [do |-> "prefilled"] /\ job.do = "prefilled"
    BY JobsTyped
  <2>2. Post(job)
    BY <1>1, <2>1
  <2>3. Answers'
    BY <1>2, <1>3, <2>1, <2>2, AnswersPost
  <2>4. Queued({"prefilled", "append"})'
    BY <1>3, <2>1, <2>2, QueuedPost
  <2> QED BY <2>1, <2>2, <2>3, <2>4, ComingPost
<1> QED BY <1>1, <1>2, <1>4, <1>5, GoesOn

\* A chunk, or a line, is posted.
LEMMA Shown ==
  ASSUME Types, Open, NEW w \in workers, w.pc \in {"decode", "tail", "finished"}, Show(w),
         UNCHANGED messages, turn'.id = turn.id, turn'.chunks = turn.chunks + 1
  PROVE  /\ Answers' /\ Queued({"prefilled", "append"})'
         /\ prefilling => Coming'
<1>1. /\ w.at = Len(messages) /\ w.id = turn.id /\ w \in Worker /\ Answers
      /\ Queued({"prefilled", "append"}) /\ (prefilling => Coming)
  BY Generator
<1>2. PICK job \in JobOf : /\ job = [do |-> "append", at |-> w.at, id |-> w.id]
                           /\ job.do = "append" /\ job.at = w.at /\ job.id = w.id
  BY <1>1, JobsTyped DEF Worker
<1>3. Post(job)
  BY <1>2 DEF Show
<1>4. Answers'
  BY <1>1, <1>2, <1>3, AnswersPost
<1>5. Queued({"prefilled", "append"})'
  BY <1>1, <1>2, <1>3, QueuedPost
<1> QED BY <1>1, <1>3, <1>4, <1>5, ComingPost

LEMMA Lined ==
  ASSUME Types, Open, NEW w \in workers, w.pc \in {"decode", "tail", "finished"},
         NEW told \in TurnType, Line(w, told), UNCHANGED messages,
         told.id = turn.id, told.chunks = turn.chunks
  PROVE  /\ Answers' /\ Queued({"prefilled", "append"})'
         /\ prefilling => Coming'
         /\ turn'.id = told.id /\ turn'.pass = told.pass /\ turn'.call = told.call
         /\ turn'.pressed = told.pressed /\ turn'.late = told.late
         /\ turn'.tails = told.tails /\ turn'.cut = told.cut
<1>1. CASE turn.shows
  <2>1. Show(w) /\ turn' = [told EXCEPT !.chunks = @ + 1]
    BY <1>1 DEF Line
  <2>2. /\ turn'.id = told.id /\ turn'.pass = told.pass /\ turn'.call = told.call
        /\ turn'.pressed = told.pressed /\ turn'.late = told.late
        /\ turn'.tails = told.tails /\ turn'.cut = told.cut
        /\ turn'.chunks = turn.chunks + 1
    BY <2>1 DEF TurnType
  <2> QED BY <2>1, <2>2, Shown
<1>2. CASE ~turn.shows
  <2>1. turn' = told /\ UNCHANGED <<main, messages>>
    BY <1>2 DEF Line
  <2>2. Answers /\ Queued({"prefilled", "append"}) /\ (prefilling => Coming)
    BY Generator
  <2> QED BY <2>1, <2>2 DEF Answers, Pending, Queued, Coming
<1> QED BY <1>1, <1>2

LEMMA OpenChunk ==
  ASSUME Types, Open, Heard, Chunk
  PROVE  Open' /\ Heard'
<1>1. PICK w \in workers :
        /\ w.pc = "decode" /\ Show(w)
        /\ turn' = [turn EXCEPT !.chunks = @ + 1, !.cut = @ \/ stopRequested,
                                !.late = IF turn.pressed THEN @ + 1 ELSE @]
        /\ Becomes(w, IF stopRequested THEN "tail" ELSE "decode")
  BY DEF Chunk
<1>2. UNCHANGED <<call, state, tools, messages, prefilling, stopRequested, slm, ctx, greedy>>
  BY DEF Chunk, DownloadRest, view, engine
<1>3. Stopped("decode") /\ stopRequested = turn.pressed
  BY <1>1, Generator
<1>4. turn \in TurnType
  BY DEF Types
<1>5. turn.pass \in {1, 2} /\ turn.late \in Nat /\ turn.tails \in Nat /\ ~turn.call /\ turn.late = 0
  BY <1>3, <1>4 DEF TurnType, Stopped
<1>6. /\ turn'.id = turn.id /\ turn'.chunks = turn.chunks + 1 /\ turn'.call = turn.call
      /\ turn'.pass = turn.pass /\ turn'.tails = turn.tails
      /\ turn'.pressed = turn.pressed /\ turn'.cut = (turn.cut \/ stopRequested)
      /\ turn'.late = IF turn.pressed THEN turn.late + 1 ELSE turn.late
  BY <1>1, <1>4 DEF TurnType
<1>11. turn'.cut => turn'.pressed
  BY <1>3, <1>6 DEF Heard
<1>12. turn.late <= 1 /\ turn.tails <= turn.pass
  BY DEF Heard
<1>13. turn'.late <= 1 /\ turn'.tails <= turn'.pass
  BY <1>5, <1>6, <1>12
<1>7. Heard'
  BY <1>11, <1>13 DEF Heard
<1>8. Answers' /\ Queued({"prefilled", "append"})' /\ (prefilling => Coming')
  BY <1>1, <1>2, <1>6, Shown
<1>9. CASE stopRequested
  <2>1. Stopped("tail")'
    BY <1>3, <1>5, <1>6 DEF Stopped
  <2> QED BY <1>1, <1>2, <1>6, <1>7, <1>8, <1>9, <2>1, GoesOn
<1>10. CASE ~stopRequested
  <2>1. Stopped("decode")'
    BY <1>3, <1>5, <1>6, <1>10 DEF Stopped
  <2> QED BY <1>1, <1>2, <1>6, <1>7, <1>8, <1>10, <2>1, GoesOn
<1> QED BY <1>9, <1>10

LEMMA OpenHeld ==
  ASSUME Types, Open, Heard, HeldChunk
  PROVE  Open' /\ Heard'
<1>1. PICK w \in workers :
        /\ w.pc \in {"decode", "tail"} /\ Show(w)
        /\ turn' = [turn EXCEPT !.chunks = @ + 1, !.cut = @ \/ stopRequested,
                                !.tails = IF turn.pressed THEN @ + 1 ELSE @]
        /\ Becomes(w, IF stopRequested THEN "finished" ELSE "tail")
  BY DEF HeldChunk
<1>2. UNCHANGED <<call, state, tools, messages, prefilling, stopRequested, slm, ctx, greedy>>
  BY DEF HeldChunk, DownloadRest, view, engine
<1>3. Stopped(w.pc) /\ stopRequested = turn.pressed
  BY <1>1, Generator
<1>4. turn \in TurnType
  BY DEF Types
<1>5. turn.pass \in {1, 2} /\ turn.tails \in Nat /\ turn.tails <= turn.pass - 1
  BY <1>1, <1>3, <1>4 DEF TurnType, Stopped
<1>6. /\ turn'.id = turn.id /\ turn'.chunks = turn.chunks + 1 /\ turn'.call = turn.call
      /\ turn'.pass = turn.pass /\ turn'.late = turn.late
      /\ turn'.pressed = turn.pressed /\ turn'.cut = (turn.cut \/ stopRequested)
      /\ turn'.tails = IF turn.pressed THEN turn.tails + 1 ELSE turn.tails
  BY <1>1, <1>4 DEF TurnType
<1>11. turn'.cut => turn'.pressed
  BY <1>3, <1>6 DEF Heard
<1>12. turn.late <= 1 /\ turn.tails <= turn.pass
  BY DEF Heard
<1>13. turn'.late <= 1 /\ turn'.tails <= turn'.pass
  BY <1>5, <1>6, <1>12
<1>7. Heard'
  BY <1>11, <1>13 DEF Heard
<1>8. Answers' /\ Queued({"prefilled", "append"})' /\ (prefilling => Coming')
  BY <1>1, <1>2, <1>6, Shown
<1>9. CASE stopRequested
  <2>1. Stopped("finished")'
    BY <1>1, <1>3, <1>6 DEF Stopped
  <2> QED BY <1>1, <1>2, <1>6, <1>7, <1>8, <1>9, <2>1, GoesOn
<1>10. CASE ~stopRequested
  <2>1. Stopped("tail")'
    BY <1>1, <1>3, <1>5, <1>6, <1>10 DEF Stopped
  <2> QED BY <1>1, <1>2, <1>6, <1>7, <1>8, <1>10, <2>1, GoesOn
<1> QED BY <1>9, <1>10

LEMMA OpenCall ==
  ASSUME Types, Open, Heard, CallFound
  PROVE  Open' /\ Heard'
<1>1. PICK w \in workers :
        /\ w.pc = "decode" /\ turn.pass = 1
        /\ Line(w, [turn EXCEPT !.call = TRUE]) /\ Becomes(w, "tail")
  BY DEF CallFound
<1>2. UNCHANGED <<call, state, tools, messages, prefilling, stopRequested, slm, ctx, greedy>>
  BY DEF CallFound, DownloadRest, view, engine
<1>3. PICK told \in TurnType : told = [turn EXCEPT !.call = TRUE]
  BY DEF Types, TurnType
<1>4. /\ told.id = turn.id /\ told.chunks = turn.chunks /\ told.pass = turn.pass
      /\ told.pressed = turn.pressed /\ told.late = turn.late /\ told.tails = turn.tails
      /\ told.cut = turn.cut
  BY <1>3 DEF Types, TurnType
<1>5. Line(w, told)
  BY <1>1, <1>3
<1>6. /\ Answers' /\ Queued({"prefilled", "append"})' /\ (prefilling => Coming')
      /\ turn'.id = turn.id /\ turn'.pass = turn.pass /\ turn'.pressed = turn.pressed
      /\ turn'.late = turn.late /\ turn'.tails = turn.tails /\ turn'.cut = turn.cut
  BY <1>1, <1>2, <1>4, <1>5, Lined
<1>7. Stopped("decode")
  BY <1>1, Generator
<1>8. Stopped("tail")'
  BY <1>1, <1>6, <1>7 DEF Stopped
<1>9. Heard'
  BY <1>6 DEF Heard
<1> QED BY <1>1, <1>2, <1>6, <1>8, <1>9, GoesOn

LEMMA OpenDispatch ==
  ASSUME Types, Open, Heard, Dispatch
  PROVE  Open' /\ Heard'
<1>1. PICK w \in workers :
        /\ w.pc \in {"tail", "finished"} /\ turn.call
        /\ Line(w, [turn EXCEPT !.call = FALSE, !.pass = 2]) /\ Becomes(w, "prefill")
  BY DEF Dispatch
<1>2. UNCHANGED <<call, state, tools, messages, prefilling, stopRequested, slm, ctx, greedy>>
  BY DEF Dispatch, DownloadRest, view, engine
<1>3. PICK told \in TurnType : told = [turn EXCEPT !.call = FALSE, !.pass = 2]
  BY DEF Types, TurnType
<1>4. /\ told.id = turn.id /\ told.chunks = turn.chunks /\ told.pass = 2 /\ told.call = FALSE
      /\ told.pressed = turn.pressed /\ told.late = turn.late /\ told.tails = turn.tails
      /\ told.cut = turn.cut
  BY <1>3 DEF Types, TurnType
<1>5. Line(w, told)
  BY <1>1, <1>3
<1>6. /\ Answers' /\ Queued({"prefilled", "append"})' /\ (prefilling => Coming')
      /\ turn'.id = turn.id /\ turn'.pass = 2 /\ turn'.pressed = turn.pressed
      /\ turn'.call = FALSE
      /\ turn'.late = turn.late /\ turn'.tails = turn.tails /\ turn'.cut = turn.cut
  BY <1>1, <1>2, <1>4, <1>5, Lined
<1>7. Stopped(w.pc) /\ turn.tails \in Nat
  BY <1>1, Generator DEF Types, TurnType
<1>8. turn.late = 0 /\ turn.pass = 1 /\ turn.tails <= 1
  BY <1>1, <1>7 DEF Stopped, Heard
<1>9. Stopped("prefill")' /\ Heard'
  BY <1>6, <1>7, <1>8 DEF Stopped, Heard
<1> QED BY <1>1, <1>2, <1>6, <1>9, GoesOn

LEMMA OpenEnds ==
  ASSUME Types, Open, GenerateEnds
  PROVE  Open'
<1>1. PICK w \in workers : /\ w.pc \in {"decode", "tail", "finished"}
                           /\ Post([do |-> "finishTurn"]) /\ workers' = workers \ {w}
  BY DEF GenerateEnds
<1>2. UNCHANGED <<call, state, tools, messages, prefilling, stopRequested, slm, ctx, greedy, turn>>
  BY DEF GenerateEnds, DownloadRest, view, engine
<1>3. /\ Generating /\ workers' = {} /\ (prefilling => Coming)
      /\ Queued({"prefilled", "append"}) /\ Answers
  BY <1>1, Generator
<1>4. PICK job \in JobOf : job = [do |-> "finishTurn"] /\ job.do = "finishTurn"
  BY JobsTyped
<1>5. Post(job)
  BY <1>1, <1>4
<1>6. /\ main' # << >> /\ Len(main') = Len(main) + 1 /\ Len(main) \in Nat
      /\ main'[Len(main) + 1] = job
      /\ \A i \in 1..Len(main) : main'[i] = main[i]
  BY <1>5, AppendAt DEF Post, Types
<1>7. Answers' /\ (prefilling => Coming')
  BY <1>2, <1>3, <1>4, <1>5, AnswersPost, ComingPost
<1>8. main'[Len(main')].do = "finishTurn"
  BY <1>4, <1>6
<1>9. \A i \in 1..Len(main') - 1 : main'[i].do \in {"prefilled", "append"}
  BY <1>3, <1>6 DEF Queued
<1>10. Told' /\ state' = "generating"
  BY <1>2, <1>3 DEF Generating, Told
<1>11. Answered'
  BY <1>2, <1>3, <1>6, <1>7, <1>8, <1>9, <1>10 DEF Answered
<1> QED BY <1>2, <1>11 DEF Open

\* The head of the queue, where the engine is open.
LEMMA GeneratingHead ==
  ASSUME Types, Generating, main # << >>
  PROVE  main[1].do \in {"prefilled", "append"}
<1>1. 1 \in 1..Len(main)
  BY DEF Types
<1> QED BY <1>1 DEF Generating, Queued

LEMMA AnsweredHead ==
  ASSUME Types, Answered
  PROVE  /\ Len(main) \in Nat \ {0}
         /\ Len(main) # 1 => main[1].do \in {"prefilled", "append"}
         /\ Len(main) = 1 => main[1].do = "finishTurn"
<1>1. Len(main) \in Nat \ {0}
  BY DEF Answered, Types
<1>2. CASE Len(main) # 1
  <2>1. \A n \in Nat \ {0, 1} : 1 \in 1..n - 1
    OBVIOUS
  <2> QED BY <1>1, <1>2, <2>1 DEF Answered
<1>3. CASE Len(main) = 1
  BY <1>3 DEF Answered
<1> QED BY <1>1, <1>2, <1>3

LEMMA OpenHead ==
  ASSUME Types, Open, main # << >>
  PROVE  \/ Generating /\ main[1].do \in {"prefilled", "append"}
         \/ Answered /\ main[1].do \in {"prefilled", "append"} /\ Len(main) # 1
         \/ Answered /\ main[1].do = "finishTurn" /\ Len(main) = 1
         \/ Rebuilt /\ main[1].do = "prepared"
BY GeneratingHead, AnsweredHead DEF Open, Ready, Rebuilding, Rebuilt, Broken

\* An answer whose head is handled is an answer still.
LEMMA AnswerMoves ==
  ASSUME Types, Open, main # << >>, main' = Tail(main), main[1].do \in {"prefilled", "append"},
         UNCHANGED <<call, state, tools, stopRequested, slm, ctx, greedy, workers, turn>>,
         Len(messages') = Len(messages), Answers', prefilling' => prefilling,
         main[1].do = "prefilled" => ~prefilling'
  PROVE  Open'
<1>1. /\ Len(main') = Len(main) - 1 /\ Len(main) \in Nat \ {0}
      /\ \A i \in 1..Len(main) - 1 : main'[i] = main[i + 1]
  BY TailAt DEF Types
<1>2. Told => Told'
  BY DEF Told
<1>3. prefilling' /\ Coming => Coming'
  <2> SUFFICES ASSUME main[1].do # "prefilled", NEW i \in 1..Len(main), main[i].do = "prefilled"
               PROVE  Coming'
    BY DEF Coming
  <2>1. i - 1 \in 1..Len(main) - 1 /\ (i - 1) + 1 = i
    BY <1>1
  <2>2. main'[i - 1].do = "prefilled" /\ i - 1 \in 1..Len(main')
    BY <1>1, <2>1
  <2> QED BY <2>2 DEF Coming
<1>4. \A pc : Stopped(pc) => Stopped(pc)'
  BY DEF Stopped
<1>5. CASE Generating
  <2>1. Queued({"prefilled", "append"})'
    BY <1>5, QueuedTail DEF Generating
  <2>2. Generating'
    BY <1>2, <1>3, <1>4, <1>5, <2>1 DEF Generating
  <2> QED BY <2>2 DEF Open
<1>6. CASE Answered
  <2>1. Len(main) # 1
    BY <1>6, AnsweredHead
  <2>2. main' # << >> /\ main'[Len(main')] = main[Len(main)]
    <3>1. Len(main) - 1 \in 1..Len(main) - 1 /\ (Len(main) - 1) + 1 = Len(main)
      BY <1>1, <2>1
    <3>2. Len(main') # 0 /\ main'[Len(main')] = main[Len(main)]
      BY <1>1, <2>1, <3>1
    <3> QED BY <3>2
  <2>3. \A i \in 1..Len(main') - 1 : main'[i].do \in {"prefilled", "append"}
    <3> SUFFICES ASSUME NEW i \in 1..Len(main') - 1
                 PROVE  main'[i].do \in {"prefilled", "append"}
      OBVIOUS
    <3>1. i \in 1..Len(main) - 1 /\ i + 1 \in 1..Len(main) - 1
      BY <1>1
    <3> QED BY <1>1, <1>6, <3>1 DEF Answered
  <2>4. Answered'
    BY <1>2, <1>3, <1>6, <2>2, <2>3 DEF Answered
  <2> QED BY <2>4 DEF Open
<1> QED BY <1>5, <1>6, OpenHead

LEMMA OpenAnswers ==
  ASSUME Types, Open, main # << >>, main[1].do \in {"prefilled", "append"}
  PROVE  Answers
BY OpenHead DEF Generating, Answered

LEMMA OpenPrefillDone ==
  ASSUME Types, Open, PrefillDone
  PROVE  Open'
<1>1. /\ main # << >> /\ main[1].do = "prefilled" /\ main' = Tail(main) /\ prefilling' = FALSE
      /\ UNCHANGED <<call, state, tools, messages, stopRequested, slm, ctx, greedy, workers, turn>>
  BY DEF PrefillDone, Job, DownloadRest, engine
<1>2. /\ Pending' = Pending
      /\ \A i \in AppendsIn(main)' : i + 1 \in AppendsIn(main) /\ main'[i] = main[i + 1]
  BY <1>1, CountTail
<1>3. Answers'
  BY <1>1, <1>2, OpenAnswers DEF Answers
<1> QED BY <1>1, <1>3, AnswerMoves

LEMMA OpenAppend ==
  ASSUME Types, Open, appendAssistant
  PROVE  Open'
<1>1. /\ main # << >> /\ main[1].do = "append" /\ main' = Tail(main)
      /\ UNCHANGED <<call, state, tools, prefilling, stopRequested, slm, ctx, greedy, workers, turn>>
  BY DEF appendAssistant, Job, DownloadRest, engine
<1>2. /\ Pending \in Nat /\ Pending' \in Nat /\ Pending' + 1 = Pending
      /\ \A i \in AppendsIn(main)' : i + 1 \in AppendsIn(main) /\ main'[i] = main[i + 1]
  BY <1>1, CountTail
<1>3. Answers
  BY <1>1, OpenAnswers
<1>4. main[1].at = Len(messages) /\ main[1].id = turn.id
  <2>1. 1 \in AppendsIn(main)
    BY <1>1 DEF AppendsIn, Types
  <2> QED BY <1>3, <2>1 DEF Answers
<1>5. /\ messages # << >> /\ messages[Len(messages)].id = turn.id
      /\ Len(messages) \in 1..Len(messages) /\ messages[Len(messages)] \in Message
      /\ messages[Len(messages)].chunks \in Nat
  BY <1>3, LastMessage DEF Answers
<1>6. messages' = [messages EXCEPT ![Len(messages)].chunks = @ + 1]
  BY <1>4, <1>5 DEF appendAssistant
<1>7. /\ messages' # << >> /\ Len(messages') = Len(messages)
      /\ messages'[Len(messages)].id = turn.id
      /\ messages'[Len(messages)].chunks = messages[Len(messages)].chunks + 1
  BY <1>5, <1>6 DEF Message, Types
<1>8. messages'[Len(messages)].chunks + Pending' = turn.chunks
  <2>1. messages[Len(messages)].chunks + Pending = turn.chunks
    BY <1>3 DEF Answers
  <2>2. \A a, m, n \in Nat : n + 1 = m => (a + 1) + n = a + m
    OBVIOUS
  <2>3. (messages[Len(messages)].chunks + 1) + Pending' = messages[Len(messages)].chunks + Pending
    BY <1>2, <1>5, <2>2
  <2> QED BY <1>7, <2>1, <2>3
<1>9. Answers'
  BY <1>1, <1>2, <1>3, <1>7, <1>8 DEF Answers
<1> QED BY <1>1, <1>7, <1>9, AnswerMoves

LEMMA OpenFinish ==
  ASSUME Types, Open, finishTurn
  PROVE  Open'
<1>1. /\ main # << >> /\ main[1].do = "finishTurn" /\ main' = Tail(main) /\ state' = "ready"
      /\ UNCHANGED <<call, tools, messages, prefilling, stopRequested, slm, ctx, greedy, workers, turn>>
  BY DEF finishTurn, Job, DownloadRest, engine
<1>2. Answered /\ Len(main) = 1
  BY <1>1, OpenHead
<1>3. main' = << >>
  <2>1. Len(main') = Len(main) - 1 /\ main' \in Seq(JobOf)
    BY <1>1, TailAt DEF Types
  <2> QED BY <1>2, <2>1
<1>4. Pending = 0
  <2>1. Pending \in Nat /\ Pending' = Pending
    BY <1>1, CountTail
  <2>2. Pending' = 0
    <3>1. AppendsIn(main') = {}
      BY <1>3 DEF AppendsIn
    <3> QED BY <3>1, FS_EmptySet DEF Pending
  <2> QED BY <2>1, <2>2
<1>5. Whole'
  <2>1. /\ messages[Len(messages)].chunks + 0 = turn.chunks
        /\ messages[Len(messages)].chunks \in Nat
    BY <1>2, <1>4, LastMessage DEF Answered, Answers
  <2>2. messages[Len(messages)].chunks = turn.chunks
    BY <2>1
  <2>3. ~Coming
    BY <1>1, <1>2 DEF Coming
  <2>4. ~prefilling
    BY <1>2, <2>3 DEF Answered
  <2> QED BY <1>1, <2>2, <2>4 DEF Whole
<1>6. Told'
  BY <1>1, <1>2 DEF Answered, Told
<1> QED BY <1>1, <1>2, <1>3, <1>5, <1>6 DEF Answered, Ready, Open

LEMMA OpenPrepared ==
  ASSUME Types, Open, Prepared
  PROVE  Open'
<1>1. /\ main # << >> /\ main[1].do = "prepared" /\ main' = Tail(main)
      /\ state' = IF main[1].ok THEN "ready" ELSE "error"
      /\ UNCHANGED <<call, tools, messages, prefilling, stopRequested, slm, ctx, greedy, workers, turn>>
  BY DEF Prepared, Job, DownloadRest, engine
<1>2. Rebuilt /\ Len(main) = 1
  BY <1>1, OpenHead DEF Rebuilt
<1>3. main' = << >>
  <2>1. Len(main') = Len(main) - 1 /\ main' \in Seq(JobOf)
    BY <1>1, TailAt DEF Types
  <2> QED BY <1>2, <2>1
<1>4. Whole'
  BY <1>1, <1>2 DEF Rebuilt, Whole
<1>5. CASE main[1].ok
  <2>1. Told'
    BY <1>1, <1>2, <1>5 DEF Rebuilt, Told
  <2> QED BY <1>1, <1>2, <1>3, <1>4, <1>5, <2>1 DEF Rebuilt, Ready, Open
<1>6. CASE ~main[1].ok
  BY <1>1, <1>2, <1>3, <1>6 DEF Rebuilt, Broken, Open
<1> QED BY <1>5, <1>6

LEMMA OpenRebuild ==
  ASSUME Types, Open, Destroy \/ Create \/ Frame
  PROVE  Open'
<1>1. PICK w \in workers : w.pc \in {"destroy", "create", "frame"} /\ Rebuilding
  <2>1. \E w \in workers : w.pc \in {"destroy", "create", "frame"}
    BY DEF Destroy, Create, Frame
  <2> QED BY <2>1, OpenTasks
<1>2. workers = {w} /\ w \in Worker /\ w.do = "reframe" /\ w.tools = tools /\ main = << >>
      /\ (w.pc = "frame" => ctx.alive)
  BY <1>1 DEF Rebuilding
<1>3. UNCHANGED <<call, state, tools, messages, slm, greedy>>
  BY DEF Destroy, Create, Frame, DownloadRest, download, fetching, view
<1>4. ctx \in [alive : BOOLEAN, framed : BOOLEAN, tools : BOOLEAN]
  BY DEF Types
<1>5. CASE Destroy
  <2>1. w.pc = "destroy" /\ workers' = {[w EXCEPT !.pc = "create"]} /\ UNCHANGED main
    BY <1>2, <1>5 DEF Destroy, Becomes, download
  <2>2. /\ [w EXCEPT !.pc = "create"].do = "reframe" /\ [w EXCEPT !.pc = "create"].pc = "create"
        /\ [w EXCEPT !.pc = "create"].tools = w.tools /\ [w EXCEPT !.pc = "create"] \in Worker
    BY <1>2 DEF Worker
  <2>3. Rebuilding'
    BY <1>1, <1>2, <1>3, <2>1, <2>2 DEF Rebuilding
  <2> QED BY <1>3, <2>3 DEF Open
<1>6. CASE Create
  <2>1. \/ /\ ctx' = [alive |-> TRUE, framed |-> FALSE, tools |-> FALSE]
           /\ workers' = {[w EXCEPT !.pc = "frame"]} /\ UNCHANGED main
        \/ /\ main' = Append(main, [do |-> "prepared", ok |-> FALSE])
           /\ workers' = {}
    BY <1>2, <1>6 DEF Create, Becomes, Post
  <2>2. CASE /\ ctx' = [alive |-> TRUE, framed |-> FALSE, tools |-> FALSE]
             /\ workers' = {[w EXCEPT !.pc = "frame"]} /\ UNCHANGED main
    <3>1. /\ [w EXCEPT !.pc = "frame"].do = "reframe" /\ [w EXCEPT !.pc = "frame"].pc = "frame"
          /\ [w EXCEPT !.pc = "frame"].tools = w.tools /\ [w EXCEPT !.pc = "frame"] \in Worker
      BY <1>2 DEF Worker
    <3>2. Rebuilding'
      BY <1>1, <1>2, <1>3, <2>2, <3>1 DEF Rebuilding
    <3> QED BY <1>3, <3>2 DEF Open
  <2>3. CASE /\ main' = Append(main, [do |-> "prepared", ok |-> FALSE])
             /\ workers' = {}
    <3>1. Len(main') = 1 /\ main'[1] = [do |-> "prepared", ok |-> FALSE]
      BY <1>2, <2>3
    <3>2. Rebuilt'
      BY <1>1, <1>3, <2>3, <3>1 DEF Rebuilding, Rebuilt
    <3> QED BY <1>3, <3>2 DEF Open
  <2> QED BY <2>1, <2>2, <2>3
<1>7. CASE Frame
  <2>1. /\ w.pc = "frame" /\ ctx' = [ctx EXCEPT !.tools = w.tools, !.framed = TRUE]
        /\ main' = Append(main, [do |-> "prepared", ok |-> TRUE]) /\ workers' = {}
    BY <1>2, <1>7 DEF Frame, Post
  <2>2. Len(main') = 1 /\ main'[1] = [do |-> "prepared", ok |-> TRUE]
    BY <1>2, <2>1
  <2>3. ctx'.alive /\ ctx'.framed /\ ctx'.tools = w.tools
    BY <1>2, <1>4, <2>1
  <2>4. Told'
    BY <1>1, <1>2, <1>3, <2>3 DEF Rebuilding, Told
  <2>5. Rebuilt'
    BY <1>1, <1>3, <2>1, <2>2, <2>4 DEF Rebuilding, Rebuilt
  <2> QED BY <1>3, <2>5 DEF Open
<1> QED BY <1>5, <1>6, <1>7

LEMMA OpenSend ==
  ASSUME Types, Open, send
  PROVE  Open' /\ Heard'
<1>1. Ready
  BY DEF send, Open, Generating, Answered, Rebuilding, Rebuilt, Broken
<1>2. /\ state' = "generating" /\ stopRequested' = FALSE
      /\ messages' = Append(messages, [id |-> turns', chunks |-> 0])
      /\ workers' = {[do |-> "generate", tools |-> tools, pc |-> "prefill",
                      at |-> Len(messages'), id |-> turns']}
      /\ \E shows \in BOOLEAN : turn' = Turn(turns', shows)
      /\ UNCHANGED <<call, main, tools, slm, ctx, greedy>>
  BY <1>1 DEF send, Ready, Answer, download, engine
<1>3. turns' \in Nat
  BY DEF send, Types
<1>4. [id |-> turns', chunks |-> 0] \in Message
  BY <1>3 DEF Message
<1>5. /\ messages' # << >> /\ Len(messages') \in Nat
      /\ messages'[Len(messages')] = [id |-> turns', chunks |-> 0]
  <2>1. messages \in Seq(Message)
    BY DEF Types
  <2>2. /\ Len(messages') = Len(messages) + 1 /\ Len(messages) \in Nat
        /\ messages'[Len(messages) + 1] = [id |-> turns', chunks |-> 0]
    BY <1>2, <1>4, <2>1
  <2> QED BY <1>2, <2>2
<1>6. /\ turn'.id = turns' /\ turn'.pass = 1 /\ turn'.call = FALSE /\ turn'.chunks = 0
      /\ turn'.pressed = FALSE /\ turn'.late = 0 /\ turn'.tails = 0 /\ turn'.cut = FALSE
  BY <1>2 DEF Turn
<1>7. main' = << >> /\ AppendsIn(main)' = {} /\ Pending' = 0 /\ Queued({"prefilled", "append"})'
  <2>1. main = << >> /\ main' = main
    BY <1>1, <1>2 DEF Ready
  <2> QED BY <2>1, CountNone DEF AppendsIn, Pending, Queued
<1>8. Answers'
  BY <1>5, <1>6, <1>7 DEF Answers
<1>13. Stopped("prefill")'
  BY <1>6 DEF Stopped
<1>9. [do |-> "generate", tools |-> tools, pc |-> "prefill",
       at |-> Len(messages'), id |-> turns'] \in Worker
  BY <1>3, <1>5 DEF Worker, Types
<1>10. Told'
  BY <1>1, <1>2 DEF Ready, Told
<1>11. Generating'
  BY <1>2, <1>6, <1>7, <1>8, <1>9, <1>10, <1>13 DEF Generating
<1>12. Heard'
  BY <1>6 DEF Heard
<1> QED BY <1>2, <1>11, <1>12 DEF Open

LEMMA OpenStop ==
  ASSUME Types, Open, Heard, stopGeneration
  PROVE  Open' /\ Heard'
<1>1. /\ state = "generating" /\ stopRequested' = TRUE
      /\ turn' = [turn EXCEPT !.pressed = TRUE]
      /\ UNCHANGED <<call, main, state, tools, messages, prefilling, slm, ctx, greedy, workers>>
  BY DEF stopGeneration, download, engine
<1>2. /\ turn'.id = turn.id /\ turn'.pass = turn.pass /\ turn'.call = turn.call
      /\ turn'.chunks = turn.chunks /\ turn'.pressed = TRUE
      /\ turn'.late = turn.late /\ turn'.tails = turn.tails /\ turn'.cut = turn.cut
  BY <1>1 DEF Types, TurnType
<1>3. Heard'
  BY <1>2 DEF Heard
<1>4. Pending' = Pending /\ AppendsIn(main)' = AppendsIn(main) /\ Coming' = Coming
  BY <1>1 DEF Pending, AppendsIn, Coming
<1>5. Generating \/ Answered
  BY <1>1 DEF Open, Ready, Rebuilding, Rebuilt, Broken
<1>6. Told => Told'
  BY <1>1 DEF Told
<1>7. Answers => Answers'
  BY <1>1, <1>2, <1>4 DEF Answers
<1>8. \A pc : Stopped(pc) => Stopped(pc)'
  BY <1>2 DEF Stopped
<1>9. CASE Generating
  <2>1. Generating'
    BY <1>1, <1>2, <1>4, <1>6, <1>7, <1>8, <1>9 DEF Generating, Queued
  <2> QED BY <1>1, <1>3, <2>1 DEF Open
<1>10. CASE Answered
  <2>1. Answered'
    BY <1>1, <1>2, <1>4, <1>6, <1>7, <1>10 DEF Answered
  <2> QED BY <1>1, <1>3, <2>1 DEF Open
<1> QED BY <1>5, <1>9, <1>10

LEMMA OpenClear ==
  ASSUME Types, Open, tools' \in BOOLEAN, clearChat, state = "ready"
  PROVE  Open'
<1>1. Ready
  BY DEF Open, Generating, Answered, Rebuilding, Rebuilt, Broken
<1>2. /\ messages' = << >> /\ greedy' = tools' /\ state' = "preparing"
      /\ workers' = {[do |-> "reframe", tools |-> tools', pc |-> "destroy", at |-> 0, id |-> 0]}
      /\ UNCHANGED <<call, main, slm, ctx, turn>>
  BY <1>1 DEF clearChat, Ready, Open, download
<1>3. [do |-> "reframe", tools |-> tools', pc |-> "destroy", at |-> 0, id |-> 0] \in Worker
  BY DEF Worker
<1>4. Rebuilding'
  BY <1>1, <1>2, <1>3 DEF Ready, Rebuilding
<1> QED BY <1>2, <1>4 DEF Open

\* What the stages of an open engine look at.
seen == <<call, main, state, tools, messages, prefilling, stopRequested, slm, ctx, greedy,
          workers, turn>>

LEMMA OpenUnseen ==
  ASSUME Open, UNCHANGED seen
  PROVE  Open'
<1>1. (Told => Told') /\ (Whole => Whole') /\ Coming' = Coming
  BY DEF seen, Told, Whole, Coming
<1>2. Answers => Answers'
  BY DEF seen, Answers, Pending, AppendsIn
<1>3. \A pc : Stopped(pc) => Stopped(pc)'
  BY DEF seen, Stopped
<1>4. (Ready => Ready') /\ (Broken => Broken')
  BY <1>1 DEF seen, Ready, Broken
<1>5. Generating => Generating'
  BY <1>1, <1>2, <1>3 DEF seen, Generating, Queued
<1>6. Answered => Answered'
  BY <1>1, <1>2 DEF seen, Answered
<1>7. (Rebuilding => Rebuilding') /\ (Rebuilt => Rebuilt')
  BY <1>1 DEF seen, Rebuilding, Rebuilt
<1> QED BY <1>4, <1>5, <1>6, <1>7 DEF seen, Open

LEMMA OpenStep ==
  ASSUME Types, Fetch, Open, Heard, [Next]_vars
  PROVE  Open' \/ Closed'
<1>1. CASE progress \/ ShowProgress \/ Fetched \/ Loaded
  <2>1. main # << >> /\ main[1].do \in {"progress", "downloading", "fetched", "loaded"}
    BY <1>1 DEF progress, ShowProgress, Fetched, Loaded, Job
  <2> QED BY <2>1, OpenHead
<1>2. CASE Prepared
  BY <1>2, OpenPrepared
<1>3. CASE PrefillDone
  BY <1>3, OpenPrefillDone
<1>4. CASE appendAssistant
  BY <1>4, OpenAppend
<1>5. CASE finishTurn
  BY <1>5, OpenFinish
<1>6. CASE LoadModel
  <2>1. \E w \in workers : w.do = "load"
    BY <1>6 DEF LoadModel
  <2> QED BY <2>1, OpenTasks
<1>7. CASE Destroy \/ Create \/ Frame
  BY <1>7, OpenRebuild
<1>8. CASE Prefilled
  BY <1>8, OpenPrefilled
<1>9. CASE Chunk
  BY <1>9, OpenChunk
<1>10. CASE GenerateEnds
  BY <1>10, OpenEnds
<1>19. CASE CallFound \/ HeldChunk \/ Dispatch
  BY <1>19, OpenCall, OpenHeld, OpenDispatch
<1>11. CASE DownloadStep
  BY <1>11, DownloadRests, OpenUnseen DEF Open, seen
<1>12. CASE checkCache \/ beginDownload
  <2>1. state \in {"idle", "needsDownload"}
    BY <1>12 DEF checkCache, beginDownload
  <2> QED BY <2>1 DEF Open, Ready, Generating, Answered, Rebuilding, Rebuilt, Broken
<1>13. CASE send
  BY <1>13, OpenSend
<1>14. CASE stopGeneration
  BY <1>14, OpenStop
<1>15. CASE NewChat
  <2>1. state = "ready"
    BY <1>15 DEF NewChat, Open, Ready, Generating, Answered, Rebuilding, Rebuilt, Broken
  <2>2. tools' \in BOOLEAN
    BY <1>15 DEF NewChat, Types
  <2> QED BY <1>15, <2>1, <2>2, OpenClear DEF NewChat
<1>16. CASE FlipChip
  BY <1>16, OpenClear DEF FlipChip, Types
<1>17. CASE Quit
  <2>1. Before' /\ ~slm' /\ messages' = << >>
    BY <1>17 DEF Quit, Relaunch, Before
  <2> QED BY <2>1 DEF Closed
<1>18. CASE UNCHANGED vars
  BY <1>18, OpenUnseen DEF vars, download, view, engine, seen
<1> QED BY <1>1, <1>2, <1>3, <1>4, <1>5, <1>6, <1>7, <1>8, <1>9, <1>10, <1>11, <1>12, <1>13,
           <1>14, <1>15, <1>16, <1>17, <1>18, <1>19 DEF Next, Main, Tasks, Generation, Taps

\* A Stop of the turn, and the answer it cuts short.
LEMMA HeardStep ==
  ASSUME Types, Stages, [Next]_vars
  PROVE  Heard'
<1>1. CASE UNCHANGED turn
  BY <1>1 DEF Stages, Heard
<1>2. CASE send
  <2>1. state = "ready"
    BY <1>2 DEF send
  <2> QED BY <1>2, <2>1, ClosedState, OpenSend DEF Stages
<1>3. CASE stopGeneration
  <2>1. state = "generating"
    BY <1>3 DEF stopGeneration
  <2> QED BY <1>3, <2>1, ClosedState, OpenStop DEF Stages
<1>4. CASE Chunk \/ CallFound \/ HeldChunk \/ Dispatch
  <2>1. \E w \in workers : w.pc # "open"
    BY <1>4 DEF Chunk, CallFound, HeldChunk, Dispatch
  <2> QED BY <1>4, <2>1, ClosedTasks, OpenChunk, OpenCall, OpenHeld, OpenDispatch DEF Stages
<1>5. CASE Quit
  BY <1>5 DEF Quit, Turn, Heard
<1>6. Main \/ DownloadStep \/ UNCHANGED vars => UNCHANGED turn
  BY DEF Main, progress, ShowProgress, Fetched, Loaded, Prepared, PrefillDone,
         appendAssistant, finishTurn, DownloadStep, vars
<1>7. Tasks => UNCHANGED turn \/ Chunk \/ CallFound \/ HeldChunk \/ Dispatch
  BY DEF Tasks, Generation, LoadModel, Destroy, Create, Frame, Prefilled, GenerateEnds
<1>8. Taps => UNCHANGED turn \/ send \/ stopGeneration
  BY DEF Taps, checkCache, beginDownload, NewChat, FlipChip, clearChat
<1> QED BY <1>1, <1>2, <1>3, <1>4, <1>5, <1>6, <1>7, <1>8 DEF Next

LEMMA StagesStep == Types /\ Fetch /\ Stages /\ [Next]_vars => Stages'
BY ClosedStep, OpenStep, HeardStep DEF Stages

LEMMA Reached == Spec => [](Types /\ Fetch /\ Stages)
<1>1. Init => Types /\ Fetch /\ Stages
  BY TypesInit, FetchInit, StagesInit
<1>2. Types /\ Fetch /\ Stages /\ [Next]_vars => (Types /\ Fetch /\ Stages)'
  BY TypesStep, FetchStep, StagesStep
<1> QED BY <1>1, <1>2, PTL DEF Spec

-----------------------------------------------------------------------------
(* The file that is loaded.                                                *)

Expected == file # Unknown /\ file \in {known, meta}

Loads ==
  /\ outcome = "ok" => Expected /\ call \in {"resumed", "returned"}
  /\ (\E w \in workers : w.do = "load") => Expected /\ call \in {"none", "returned"}
  /\ call \in {"perform", "waiting"} => meta = expected
  /\ session = "moved" => file \in Size

LEMMA LoadsInit == Init => Loads
BY DEF Init, DownloadInit, Loads

\* What Loads looks at, but for the workers.
onDisk == <<file, meta, known, call, expected, session, outcome>>

LEMMA DiskSteps ==
  ASSUME [Next]_vars
  PROVE  UNCHANGED onDisk \/ beginDownload \/ DownloadStep \/ Quit
<1> USE DEF onDisk
<1>1. Main => UNCHANGED onDisk
  BY DEF Main, progress, ShowProgress, Fetched, Loaded, Prepared, PrefillDone,
         appendAssistant, finishTurn, DownloadRest, disk, fetching
<1>2. Tasks => UNCHANGED onDisk
  BY DEF Tasks, Generation, LoadModel, Destroy, Create, Frame, Prefilled, Chunk, CallFound,
         HeldChunk, Dispatch, GenerateEnds, Line, Show, Post, DownloadRest, download, disk, fetching
<1>3. Taps => UNCHANGED onDisk \/ beginDownload
  BY DEF Taps, checkCache, send, stopGeneration, NewChat, FlipChip,
         clearChat, download, disk, fetching
<1>4. UNCHANGED vars => UNCHANGED onDisk
  BY DEF vars, download, disk, fetching
<1> QED BY <1>1, <1>2, <1>3, <1>4 DEF Next

\* Where a load comes from.
LEMMA LoadSteps ==
  ASSUME Types, [Next]_vars, \E w \in workers' : w.do = "load"
  PROVE  \/ \E w \in workers : w.do = "load"
         \/ checkCache /\ isCached
         \/ Fetched /\ outcome = "ok"
<1>1. ASSUME NEW w \in workers, NEW pc, Becomes(w, pc)
      PROVE  \E v \in workers : v.do = "load"
  <2>1. w \in Worker
    BY DEF Types
  <2>2. [w EXCEPT !.pc = pc].do = w.do
    BY <2>1 DEF Worker
  <2> QED BY <1>1, <2>2 DEF Becomes
<1>2. CASE progress \/ ShowProgress \/ Loaded \/ Prepared \/ PrefillDone \/ appendAssistant
           \/ finishTurn \/ DownloadStep \/ beginDownload \/ stopGeneration \/ UNCHANGED vars
  BY <1>2 DEF progress, ShowProgress, Loaded, Prepared, PrefillDone, appendAssistant,
              finishTurn, DownloadStep, beginDownload, stopGeneration, vars
<1>3. CASE Fetched
  BY <1>3 DEF Fetched
<1>4. CASE LoadModel \/ Frame \/ GenerateEnds
  BY <1>4 DEF LoadModel, Frame, GenerateEnds
<1>5. CASE Destroy \/ Prefilled \/ Chunk \/ CallFound \/ HeldChunk \/ Dispatch
  BY <1>1, <1>5 DEF Destroy, Prefilled, Chunk, CallFound, HeldChunk, Dispatch
<1>6. CASE Create
  BY <1>1, <1>6 DEF Create
<1>7. CASE checkCache
  BY <1>7 DEF checkCache
<1>8. CASE send
  BY <1>8 DEF send
<1>9. CASE NewChat \/ FlipChip
  BY <1>9 DEF NewChat, FlipChip, clearChat
<1>10. CASE Quit
  BY <1>10 DEF Quit
<1> QED BY <1>2, <1>3, <1>4, <1>5, <1>6, <1>7, <1>8, <1>9, <1>10 DEF Next, Main, Tasks, Generation, Taps

LEMMA Sized == \A s \in Size : s # Unknown
BY SizeAssumption DEF Unknown

LEMMA LoadsDownload ==
  ASSUME Fetch, Loads, Download, UNCHANGED workers
  PROVE  Loads'
<1>1. CASE call \in {"none", "returned"}
  <2>1. didCompleteWithError /\ fired
    BY <1>1 DEF Download, Probe, writeMeta, performDownload, didWriteData, removeItem,
                moveItem, didFinish, didCompleteWithError, Returned, Fetch
  <2>2. UNCHANGED <<file, meta, known, call, expected, outcome>> /\ session' = "over"
    BY <2>1 DEF didCompleteWithError, fire, disk
  <2> QED BY <2>2 DEF Loads, Expected
<1>2. CASE call \notin {"none", "returned"}
  <2>1. ~(\E w \in workers' : w.do = "load")
    BY <1>2 DEF Loads
  <2>2. CASE Probe
    BY <2>1, <2>2 DEF Probe, disk, fetching, Loads, Expected
  <2>3. CASE writeMeta
    BY <2>1, <2>3 DEF writeMeta, fetching, Loads, Expected
  <2>4. CASE performDownload
    BY <2>1, <2>4 DEF performDownload, disk, Loads, Expected
  <2>5. CASE didWriteData
    BY <2>1, <2>5 DEF didWriteData, disk, Loads, Expected
  <2>6. CASE removeItem \/ moveItem
    <3>1. call = "waiting" /\ outcome # "ok"
      BY <2>6 DEF removeItem, moveItem, Fetch, Loads
    <3> QED BY <2>1, <2>6, <3>1 DEF removeItem, moveItem, Loads
  <2>7. CASE didFinish
    <3>1. call = "waiting" /\ ~fired /\ meta = expected
      BY <2>7 DEF didFinish, Fetch, Loads
    <3>2. UNCHANGED <<file, meta, known, expected>> /\ session' = "invalid"
      BY <2>7 DEF didFinish, disk
    <3>3. CASE session = "moved" /\ file = expected
      <4>1. outcome' = "ok" /\ call' = "resumed"
        BY <2>7, <3>1, <3>3 DEF didFinish, fire
      <4>2. Expected'
        BY <3>1, <3>2, <3>3, Sized DEF Loads, Expected
      <4> QED BY <2>1, <3>2, <4>1, <4>2 DEF Loads
    <3>4. CASE ~(session = "moved" /\ file = expected)
      <4>1. outcome' = "error" /\ call' = "resumed"
        BY <2>7, <3>1, <3>4 DEF didFinish, fire
      <4> QED BY <2>1, <3>2, <4>1 DEF Loads
    <3> QED BY <3>3, <3>4
  <2>8. CASE didCompleteWithError
    <3>1. \/ outcome' = "error" /\ call' = "resumed"
          \/ UNCHANGED <<outcome, call>>
      BY <2>8 DEF didCompleteWithError, fire
    <3>2. UNCHANGED <<file, meta, known, expected>> /\ session' = "over"
      BY <2>8 DEF didCompleteWithError, disk
    <3> QED BY <2>1, <3>1, <3>2 DEF Loads, Expected
  <2>9. CASE Returned
    BY <2>1, <2>9 DEF Returned, disk, fetching, Loads, Expected
  <2> QED BY <2>2, <2>3, <2>4, <2>5, <2>6, <2>7, <2>8, <2>9 DEF Download
<1> QED BY <1>1, <1>2

LEMMA LoadsStep == Types /\ Fetch /\ Stages /\ Loads /\ [Next]_vars => Loads'
<1> SUFFICES ASSUME Types, Fetch, Stages, Loads, [Next]_vars PROVE Loads'
  OBVIOUS
<1>1. CASE UNCHANGED onDisk
  <2>1. /\ outcome' = "ok" => Expected' /\ call' \in {"resumed", "returned"}
        /\ call' \in {"perform", "waiting"} => meta' = expected'
        /\ session' = "moved" => file' \in Size
    BY <1>1 DEF onDisk, Loads, Expected
  <2>2. (\E w \in workers' : w.do = "load") => Expected' /\ call' \in {"none", "returned"}
    <3> SUFFICES ASSUME \E w \in workers' : w.do = "load"
                 PROVE  Expected /\ call \in {"none", "returned"}
      BY <1>1 DEF onDisk, Expected
    <3>1. CASE \E w \in workers : w.do = "load"
      BY <3>1 DEF Loads
    <3>2. CASE checkCache /\ isCached
      <4>1. Before
        BY <3>2, ClosedState DEF checkCache, Stages, Open, Ready, Generating, Answered,
                                 Rebuilding, Rebuilt, Broken
      <4> QED BY <3>2, <4>1 DEF isCached, Before, Expected
    <3>3. CASE Fetched /\ outcome = "ok"
      <4>1. Closed
        <5>1. main # << >> /\ main[1].do = "fetched"
          BY <3>3 DEF Fetched, Job
        <5> QED BY <5>1, OpenHead DEF Stages
      <4>2. call = "returned"
        BY <3>3, <4>1, FetchedEnded DEF Ended
      <4> QED BY <3>3, <4>2 DEF Loads
    <3> QED BY <3>1, <3>2, <3>3, LoadSteps
  <2> QED BY <2>1, <2>2 DEF Loads
<1>2. CASE beginDownload
  <2>1. Before
    BY <1>2, ClosedState DEF beginDownload, Stages, Open, Ready, Generating, Answered,
                             Rebuilding, Rebuilt, Broken
  <2>2. ensureAvailable /\ workers' = {}
    BY <1>2, <2>1 DEF beginDownload, Before
  <2>3. /\ UNCHANGED <<file, meta, known, session>>
        /\ call' \in {"resumed", "sidecar", "probe"}
    BY <2>2 DEF ensureAvailable, disk, fetching
  <2>4. outcome' = "ok" => call' = "resumed" /\ (isCached \/ downloaded(file, meta, known))
    BY <2>2 DEF ensureAvailable
  <2>5. isCached \/ downloaded(file, meta, known) => Expected
    BY DEF isCached, downloaded, Expected, Unknown
  <2> QED BY <2>2, <2>3, <2>4, <2>5 DEF Loads, Expected
<1>3. CASE DownloadStep
  BY <1>3, LoadsDownload DEF DownloadStep
<1>4. CASE Quit
  BY <1>4 DEF Quit, Relaunch, Loads
<1> QED BY <1>1, <1>2, <1>3, <1>4, DiskSteps

-----------------------------------------------------------------------------

\* At most one detached task, so the C context has one user; and nobody
\* generates on a context that is gone or not framed.
THEOREM ContextHasOneUser == Spec => []OneUserOfContext
<1>1. Types /\ Stages => OneUserOfContext
  <2> SUFFICES ASSUME Types, Stages PROVE OneUserOfContext
    OBVIOUS
  <2>1. workers = {} \/ \E w \in Worker : workers = {w}
    BY DEF Stages, Closed, Open, Before, Fetching, Ended, NotFetched, Opening, Opened,
           Ready, Generating, Answered, Rebuilding, Rebuilt, Broken
  <2>2. Cardinality(workers) <= 1
    <3>1. CASE workers = {}
      BY <3>1, FS_EmptySet
    <3>2. CASE \E w \in Worker : workers = {w}
      BY <3>2, FS_Singleton
    <3> QED BY <2>1, <3>1, <3>2
  <2>3. ASSUME NEW w \in workers, w.do = "generate"
        PROVE  ctx.alive /\ ctx.framed
    <3>1. ~Closed
      BY <2>3, ClosedTasks
    <3>2. Generating
      BY <2>3, <3>1, OpenTasks DEF Stages
    <3> QED BY <3>2 DEF Generating, Told
  <2>4. state = "ready" => OnContext = {} /\ ctx.alive
    <3> SUFFICES ASSUME state = "ready" PROVE OnContext = {} /\ ctx.alive
      OBVIOUS
    <3>1. Ready
      BY ClosedState DEF Stages, Open, Generating, Answered, Rebuilding, Rebuilt, Broken
    <3> QED BY <3>1 DEF Ready, Told, OnContext
  <2> QED BY <2>2, <2>3, <2>4 DEF OneUserOfContext, OnContext
<1> QED BY <1>1, Reached, PTL

\* Whenever a message can be sent or is answered, the framing of the context
\* and the sampler are the ones the chips show.
THEOREM ChipsAreTrue == Spec => []ChipsTellTheFraming
<1>1. Stages => ChipsTellTheFraming
  BY ClosedState DEF Stages, ChipsTellTheFraming, Open, Ready, Generating, Answered,
         Rebuilding, Rebuilt, Broken, Told
<1> QED BY <1>1, Reached, PTL

\* Every chunk that was generated gets into the message of its own turn before
\* the app is ready for the next.
THEOREM AnswersArrive == Spec => []AnswerArrives
<1>1. Types /\ Stages => AnswerArrives
  <2> SUFFICES ASSUME Types, Stages, messages # << >>, Last(messages).id = turn.id
               PROVE  /\ Last(messages).chunks <= turn.chunks
                      /\ state = "ready" => Last(messages).chunks = turn.chunks /\ ~prefilling
    BY DEF AnswerArrives
  <2>1. Last(messages) = messages[Len(messages)] /\ messages[Len(messages)] \in Message
    BY DEF Last, Types
  <2>2. messages[Len(messages)].chunks \in Nat /\ turn.chunks \in Nat
    BY <2>1 DEF Message, Types, TurnType
  <2>4. CASE Ready
    BY <2>1, <2>2, <2>4 DEF Ready, Whole
  <2>5. CASE Generating \/ Answered
    <3>1. messages[Len(messages)].chunks + Pending = turn.chunks /\ state # "ready"
      BY <2>5 DEF Generating, Answered, Answers
    <3>2. Pending \in Nat
      BY PendingIsCount
    <3> QED BY <2>1, <2>2, <3>1, <3>2
  <2> QED BY <2>4, <2>5 DEF Stages, Closed, Open, Rebuilding, Rebuilt, Broken
<1> QED BY <1>1, Reached, PTL

\* After a Stop at most one chunk more is decoded in the turn and finish gives
\* at most one of each pass, and no chunk is refused but for a Stop of the turn.
THEOREM StopsAreHeard == Spec => []StopIsHeard
<1>1. Stages => StopIsHeard
  BY DEF Stages, Heard, StopIsHeard
<1> QED BY <1>1, Reached, PTL

\* A model is loaded only from a file of the size that the code or the sidecar
\* expects, whatever was on disk, was sent or broke off before.
THEOREM LoadsAsExpected == Spec => []LoadsWhatWasExpected
<1>1. Init => Types /\ Fetch /\ Stages /\ Loads
  BY TypesInit, FetchInit, StagesInit, LoadsInit
<1>2. Types /\ Fetch /\ Stages /\ Loads /\ [Next]_vars => (Types /\ Fetch /\ Stages /\ Loads)'
  BY TypesStep, FetchStep, StagesStep, LoadsStep
<1>3. Loads => LoadsWhatWasExpected
  BY DEF Loads, Expected, LoadsWhatWasExpected
<1> QED BY <1>1, <1>2, <1>3, PTL DEF Spec
=============================================================================
