------------------------------- MODULE Prompt --------------------------------
(***************************************************************************)
(* What a model is given to read: each step of a conversation is framed    *)
(* (ChatTemplate), encoded (Tokenizer) and appended to the context's log   *)
(* (slm_ctx_system_prompt and slm_generate, slm.c), while slm_chat_format  *)
(* renders the same conversation as a whole.  Turn has how the log gets    *)
(* into the caches; here only what is logged counts.                       *)
(***************************************************************************)
EXTENDS Tokenizer, ChatTemplate

CONSTANTS
  Bytes,          \* the bytes the vocabulary has tokens for
  Merges,         \* the merges of a model: pairs of strings, in order
  Systems,        \* [text, effort, tools] of a system prompt
  UserTexts,
  ToolRounds,     \* [raw, calls, result]: what stands between the markers, the
                  \* calls read from it, and what the tools answered
  Answers,
  Sayings,        \* messages of any conversation, and what is meant by them
  Letters,        \* of the words whose merging is looked at
  MaxLetters,     \* bound: the length of those words
  MaxTalkMerges,  \* bound: merges of a model that is talked to
  MaxTurns,       \* bound: turns of a conversation
  MaxSayings      \* bound: messages of a conversation rendered as a whole

VARIABLES
  merges,         \* of this model's file
  phase,          \* "new", "idle", "answering", or "chat": only rendered
  ctrl,           \* tools and think of struct slm_ctrl
  log,            \* c->ids
  text,           \* what was framed so far
  block,          \* the length of the system block in it
  echo,           \* call_echo of the last tool round
  msgs            \* the conversation since, as messages

talk == <<tokenizer, merges, phase, ctrl, log, text, block, echo, msgs>>

Str == Seq(0..255)
Said == Seq(Bytes)

ASSUME PromptAssumption ==
  /\ Bytes \subseteq 0..255 /\ Letters \subseteq 0..255
  /\ MaxLetters \in Nat /\ MaxTalkMerges \in Nat /\ MaxTurns \in Nat
  /\ Known[2] = Lit.im_start /\ Known[3] = Lit.im_end

\* What is framed is made of bytes the vocabulary has
ASSUME TextsAssumption ==
  /\ 10 \in Bytes
  /\ \A n \in Wording : Lit[n] \in Said /\ Lit[n] # << >>
  /\ UserTexts \subseteq Said /\ Answers \subseteq Said
  /\ \A s \in Systems : s.text \in Said /\ s.tools \in Seq(Said)
  /\ \A r \in ToolRounds : r.raw \in Said /\ r.result \in Said

\* No merge makes a string that an earlier one, or the merge itself, is
\* about: the pairs are in the order in which they were learnt
ASSUME MergesAssumption ==
  \A ms \in Merges :
    /\ ms \in Seq((Str \ {<< >>}) \X (Str \ {<< >>}))
    /\ \A i, j \in DOMAIN ms :
         /\ ms[i] = ms[j] => i = j
         /\ i <= j => ms[j][1] \o ms[j][2] \notin {ms[i][1], ms[i][2]}

\* No merge joins the end of a line to the markup that begins the next
\* framing, which is no space: training splits a text there first
ASSUME SeamAssumption ==
  \A b \in {Lit.im_start[1], Lit.tool_call[1]} :
    /\ b # 32
    /\ \A ms \in Merges : \A i \in DOMAIN ms :
         ~(IsSuffix(Visible(10), ms[i][1]) /\ IsPrefix(Visible(b), ms[i][2]))

ByteTokens ==
  LET bytes == Ordered(Bytes) IN [i \in DOMAIN bytes |-> Visible(bytes[i])]

\* A vocabulary has every byte, every merge and the markers
Tokens(ms) ==
  ByteTokens \o [i \in DOMAIN ms |-> ms[i][1] \o ms[i][2]] \o Known

TalkInit ==
  /\ merges \in Merges
  /\ Load(Tokens(merges), merges)
  /\ phase \in (IF merges = << >> THEN {"new", "chat"} ELSE {"new"})
  /\ ctrl = [tools |-> FALSE, think |-> FALSE]
  /\ log = << >> /\ text = << >> /\ block = 0 /\ echo = << >> /\ msgs = << >>

Turns == Cardinality({i \in DOMAIN msgs : msgs[i].role = "user"})

\* A framed text is encoded on its own
Log(framed) ==
  /\ log' = log \o tokenizer_encode(framed)
  /\ text' = text \o framed

\* slm_ctx_system_prompt
SystemPrompt ==
  /\ phase = "new" /\ phase' = "idle"
  /\ Len(merges) <= MaxTalkMerges
  /\ \E s \in Systems, think \in BOOLEAN :
       /\ ctrl' = [tools |-> s.tools # << >>, think |-> think]
       /\ \E framed \in {jinja_format_system_block(s.text, s.effort, s.tools)} :
            Log(framed) /\ block' = Len(framed)
  /\ UNCHANGED <<tokenizer, merges, echo, msgs>>

\* The head of slm_generate
UserTurn ==
  /\ phase = "idle" /\ phase' = "answering"
  /\ Turns < MaxTurns
  /\ \E u \in UserTexts :
       /\ Log(jinja_format_turn_delta(u, ctrl.think))
       /\ msgs' = Append(msgs, Message("user", u, << >>))
  /\ UNCHANGED <<tokenizer, merges, ctrl, block, echo>>

\* mutant: the assistant's turn is not closed
InjectOpen(wrapped, result) ==
  wrapped
  \o Open("user") \o Lit.response \o NL \o result \o NL \o Lit.end_response \o Close
  \o jinja_emit_gen_prompt(FALSE)

\* The call as the model wrote it, and what the tool answered
Inject(wrapped, result) ==
  wrapped \o Close
  \o Open("user") \o Lit.response \o NL \o result \o NL \o Lit.end_response \o Close
  \o jinja_emit_gen_prompt(FALSE)

\* The tool round: the context is rolled back to the end of the turn's
\* framing, which is the end of the log.  The model stops behind its first
\* call, whose bytes go back between their markers unread
ToolRound ==
  /\ phase = "answering" /\ ctrl.tools
  /\ msgs[Len(msgs)].role = "user"
  /\ \E r \in ToolRounds :
       /\ echo' = Lit.tool_call \o r.raw \o Lit.end_tool_call
       /\ Log(Inject(echo', r.result))
       /\ msgs' = msgs \o <<Message("assistant", NULL, r.calls), Message("tool", r.result, << >>)>>
  /\ UNCHANGED <<tokenizer, merges, phase, ctrl, block>>

\* The rest of slm_generate: what is sampled is not logged
Answer ==
  /\ phase = "answering" /\ phase' = "idle"
  /\ \E a \in Answers : msgs' = Append(msgs, Message("assistant", a, << >>))
  /\ UNCHANGED <<tokenizer, merges, ctrl, log, text, block, echo>>

\* A caller of slm_chat_format has one message more
Say ==
  /\ phase = "chat" /\ Len(msgs) < MaxSayings
  /\ \E m \in Sayings : msgs' = Append(msgs, m)
  /\ UNCHANGED <<tokenizer, merges, phase, ctrl, log, text, block, echo>>

TalkNext == SystemPrompt \/ UserTurn \/ ToolRound \/ Answer \/ Say

TalkSpec == TalkInit /\ [][TalkNext]_talk

-----------------------------------------------------------------------------
(* What the code is right about                                            *)

\* A merge applied everywhere it can be, from the left
Everywhere(toks, m) ==
  LET upTo[i \in 0..Len(toks)] ==
        IF i = 0 THEN << >>
        ELSE LET done == upTo[i - 1]
             IN IF done # << >> /\ <<Last(done), toks[i]>> = m
                THEN Append(Front(done), Last(done) \o toks[i]) ELSE Append(done, toks[i])
  IN upTo[Len(toks)]

\* All merges, in the order they were learnt in
Trained(toks) ==
  LET upTo[k \in 0..Len(merges)] ==
        IF k = 0 THEN toks ELSE Everywhere(upTo[k - 1], merges[k])
  IN upTo[Len(merges)]

(***************************************************************************)
(* Merging the best pair, again and again, gives the tokens the vocabulary *)
(* was made for: those of applying the merges in their order, each to the  *)
(* whole word.                                                             *)
(***************************************************************************)
MergesAsTrained ==
  phase = "new" =>
    \A w \in SeqOf(Letters, MaxLetters) :
      Merged(Pieces(w)) = Trained(Pieces(w))

(***************************************************************************)
(* A conversation encoded step by step is the conversation encoded as one  *)
(* text, and decodes to that text, spaces and markers included.            *)
(***************************************************************************)
LogIsTheText == log = tokenizer_encode(text) /\ Decoded(log) = text

\* What the first turn reads behind the system block is the template's
\* rendering, for texts it does not trim and, in a tool round, a turn with
\* thinking closed that it takes for a query
FirstReadsAsRendered ==
  LET round == Len(msgs) > 1 IN
  phase = "answering" /\ Turns = 1
  /\ (\A i \in DOMAIN msgs : msgs[i].content = Trimmed(msgs[i].content))
  /\ (round => ~ctrl.think /\ ~jinja_is_tool_response(msgs[1].content))
  => Suffix(text, block + 1) = jinja_apply(msgs, << >>, TRUE, ctrl.think)

(***************************************************************************)
(* The framing written by hand in slm.c is the template's: what the first  *)
(* turn reads is what the template renders, tool round included, where the *)
(* model wrote its calls in the shape in which the template shows them.    *)
(***************************************************************************)
TurnIsTheTemplate ==
  (Len(msgs) > 1 => echo = jinja_emit_tool_calls(msgs[2].calls, FALSE)) => FirstReadsAsRendered

(***************************************************************************)
(* slm.c:1190 of the tool round: "This matches the Qwen3.5 chat template's *)
(* tool path", whatever shape the call was written in.                     *)
(***************************************************************************)
docs_ToolPath == FirstReadsAsRendered

\* The texts between an opening word and the next closing one
Between(s, open, close) ==
  LET starts == Ordered(Places(open, s))
      rest(i) == After(open, s, i)
  IN [k \in DOMAIN starts |->
        SubSeq(rest(starts[k]), 1,
               Min(Places(close, rest(starts[k])) \union {Len(rest(starts[k])) + 1}) - 1)]

\* What a reader of a frame takes it for
Read(frame) ==
  LET role == CHOOSE r \in {"system", "user", "assistant"} : IsPrefix(Lit[r], frame)
      said == After(Lit[role] \o NL, frame, 1)
      thinks == Places(Lit.think, said) # {}
  IN IF Places(Lit.response, said) # {}
     THEN LET answers == Between(said, Lit.response, Lit.end_response)
          IN [k \in DOMAIN answers |-> <<"tool", << >>, Trimmed(answers[k])>>]
     ELSE <<<<role, IF thinks THEN <<Trimmed(Between(said, Lit.think, Lit.end_think)[1])>> ELSE << >>,
              Trimmed(IF thinks THEN After(Lit.end_think, said, Max(Places(Lit.end_think, said)))
                      ELSE said)>>>>

\* What saying i of a conversation should be taken for: thinking is heard
\* until the next query
Meant(i) ==
  LET asked(j) == msgs[j].speaker = "user"
      current == (\E j \in 1..(i - 1) : asked(j)) /\ \A j \in (i + 1)..Len(msgs) : ~asked(j)
      m == msgs[i]
  IN IF m.role = "system" /\ i > 1 THEN << >>
     ELSE <<<<m.speaker, IF m.role = "assistant" /\ current THEN <<m.thought>> ELSE << >>, m.body>>>>

(***************************************************************************)
(* Whatever a conversation rendered as a whole holds, its frames read back *)
(* as what was said, by the same speakers and in the same order: no answer *)
(* of a tool is lost or doubled where several share a frame, and thinking  *)
(* is kept for the current query and dropped for earlier ones.             *)
(***************************************************************************)
FramesReadBack ==
  phase = "chat" /\ msgs # << >> =>
    LET frames == Between(jinja_apply(msgs, << >>, FALSE, FALSE), Lit.im_start, Lit.im_end)
    IN FlattenSeq([k \in DOMAIN frames |-> Read(frames[k])])
         = FlattenSeq([i \in DOMAIN msgs |-> Meant(i)])
==============================================================================
