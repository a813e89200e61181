---------------------------- MODULE ChatTemplate -----------------------------
(***************************************************************************)
(* The chat template (jinja.c): a conversation, or one turn of it, as the  *)
(* text a model reads.  A text is a sequence of bytes.  The fixed wording  *)
(* is given by Lit; its words are as short as their places in a text can   *)
(* be told apart.  Of a tool's description and a call's value only the     *)
(* text counts.                                                            *)
(***************************************************************************)
EXTENDS Integers, Sequences, SequencesExt, FiniteSetsExt

CONSTANT Lit   \* the fixed texts, by name

Wording == {"im_start", "im_end", "system", "user", "assistant", "think", "end_think",
            "response", "end_response", "brief", "careful", "tools", "end_tools",
            "instructions", "hard_rules", "function", "gt", "parameter", "end_parameter",
            "end_call", "tool_call", "end_tool_call"}

NL == <<10>>
Space == {32, 10, 13, 9}

NULL == << >>   \* no text, which is rendered as an empty one

Cat(texts) == FlattenSeq(texts)

Open(role) == Lit.im_start \o Lit[role] \o NL
Close == Lit.im_end \o NL

\* jinja_puts_trimmed
Trimmed(s) ==
  LET ink == {i \in DOMAIN s : s[i] \notin Space}
  IN IF ink = {} THEN << >> ELSE SubSeq(s, Min(ink), Max(ink))

jinja_content_visible(s) == Trimmed(s) # << >>

\* The places where word stands in s
Places(word, s) ==
  {i \in 1..(Len(s) - Len(word) + 1) : SubSeq(s, i, i + Len(word) - 1) = word}

After(word, s, i) == SubSeq(s, i + Len(word), Len(s))

\* What follows the last end of thinking; the newlines in between go with
\* the trimming of what every caller does next
jinja_content_after_think(s) ==
  LET ends == Places(Lit.end_think, s)
  IN IF ends = {} THEN s ELSE After(Lit.end_think, s, Max(ends))

\* What is thought before the first end of thinking, from the last time it
\* began
jinja_extract_reasoning(s) ==
  LET ends == Places(Lit.end_think, s) IN
  IF ends = {} THEN NULL
  ELSE LET head == SubSeq(s, 1, Min(ends) - 1)
           begins == Places(Lit.think, head)
       IN Trimmed(IF begins = {} THEN head ELSE After(Lit.think, head, Max(begins)))

jinja_is_tool_response(s) ==
  LET t == Trimmed(s) IN
  /\ Len(t) >= Len(Lit.response) + Len(Lit.end_response)
  /\ IsPrefix(Lit.response, t) /\ IsSuffix(Lit.end_response, t)

-----------------------------------------------------------------------------
(* Messages                                                                *)

Message(role, content, calls) == [role |-> role, content |-> content, calls |-> calls]

\* mutant: a tool's response in a user's message is a query
QueriesAny(msgs) == {i \in DOMAIN msgs : msgs[i].role = "user"}

Queries(msgs) ==
  {i \in DOMAIN msgs : msgs[i].role = "user" /\ ~jinja_is_tool_response(msgs[i].content)}

jinja_find_last_query_index(msgs) ==
  IF Queries(msgs) = {} THEN Len(msgs) ELSE Max(Queries(msgs))

ToolList(tools) ==
  Lit.tools \o Cat([i \in DOMAIN tools |-> NL \o tools[i]]) \o NL \o Lit.end_tools
  \o Lit.instructions

\* jinja_emit_tools_prelude, and jinja_emit_simple_system without tools
Prelude(msgs, tools) ==
  LET system == msgs[1].role = "system" IN
  IF tools # << >>
  THEN Open("system") \o ToolList(tools) \o Lit.hard_rules
       \o (IF system /\ jinja_content_visible(msgs[1].content)
           THEN NL \o NL \o Trimmed(msgs[1].content) ELSE << >>) \o Close
  ELSE IF system THEN Open("system") \o Trimmed(msgs[1].content) \o Close ELSE << >>

Parameter(p) == Lit.parameter \o p.name \o Lit.gt \o NL \o p.value \o NL \o Lit.end_parameter \o NL

Call(c) ==
  Lit.function \o c.name \o Lit.gt \o NL \o Cat([k \in DOMAIN c.params |-> Parameter(c.params[k])])
  \o Lit.end_call

jinja_emit_tool_calls(calls, body_visible) ==
  Cat([j \in DOMAIN calls |->
        (IF j > 1 THEN NL ELSE IF body_visible THEN NL \o NL ELSE << >>) \o Call(calls[j])])

\* Nothing in this program gives reasoning apart from the content
Assistant(m, thinks) ==
  LET body == jinja_content_after_think(m.content) IN
  Open("assistant")
  \o (IF thinks THEN Lit.think \o NL \o jinja_extract_reasoning(m.content) \o NL
                     \o Lit.end_think \o NL \o NL ELSE << >>)
  \o Trimmed(body) \o jinja_emit_tool_calls(m.calls, jinja_content_visible(body)) \o Close

\* mutant: every tool's answer closes the frame
ToolCloses(msgs, i) ==
  LET prev_is_tool == i > 1 /\ msgs[i - 1].role = "tool" IN
  (IF prev_is_tool THEN << >> ELSE Lit.im_start \o Lit.user)
  \o NL \o Lit.response \o NL \o Trimmed(msgs[i].content) \o NL \o Lit.end_response \o Close

\* Answers of tools that follow each other share a user's frame
Tool(msgs, i) ==
  LET prev_is_tool == i > 1 /\ msgs[i - 1].role = "tool"
      next_is_tool == i < Len(msgs) /\ msgs[i + 1].role = "tool"
  IN (IF prev_is_tool THEN << >> ELSE Lit.im_start \o Lit.user)
     \o NL \o Lit.response \o NL \o Trimmed(msgs[i].content) \o NL \o Lit.end_response
     \o (IF next_is_tool THEN << >> ELSE Close)

jinja_emit_message(msgs, i) ==
  LET m == msgs[i] IN
  CASE m.role = "user"      -> Open("user") \o Trimmed(m.content) \o Close
    [] m.role = "assistant" -> Assistant(m, i > jinja_find_last_query_index(msgs))
    [] m.role = "tool"      -> Tool(msgs, i)
    [] OTHER                -> << >>

\* mutant: the thinking is left open
GenPromptOpen(think) == Open("assistant") \o Lit.think \o NL

jinja_emit_gen_prompt(think) ==
  Open("assistant") \o Lit.think \o NL
  \o (IF think THEN << >> ELSE NL \o Lit.end_think \o NL \o NL)

\* A conversation of at least one message
jinja_apply(msgs, tools, prompts, think) ==
  Prelude(msgs, tools) \o Cat([i \in DOMAIN msgs |-> jinja_emit_message(msgs, i)])
  \o (IF prompts THEN jinja_emit_gen_prompt(think) ELSE << >>)

-----------------------------------------------------------------------------
(* One step of a conversation                                              *)

Effort(effort) ==
  CASE effort = "low" -> Lit.brief [] effort = "high" -> Lit.careful [] OTHER -> << >>

jinja_format_system_block(sys_text, effort, tools) ==
  Open("system") \o Effort(effort)
  \o (IF sys_text = << >> THEN << >> ELSE sys_text \o NL)
  \o (IF tools = << >> THEN << >> ELSE ToolList(tools) \o NL) \o Close

jinja_format_turn_delta(user_msg, think) ==
  Open("user") \o user_msg \o Close \o jinja_emit_gen_prompt(think)
==============================================================================
