------------------------------ MODULE MCPrompt -------------------------------
(* Every table of up to three merges over two letters, in the order a      *)
(* vocabulary is trained in; the wording is a few bytes long.              *)
EXTENDS Prompt

a == 97
b == 98

MCLit == [
  im_start |-> <<60, 115, 62>>, im_end |-> <<60, 101, 62>>,
  system |-> <<83>>, user |-> <<85>>, assistant |-> <<65>>,
  think |-> <<60, 116, 62>>, end_think |-> <<60, 47, 116, 62>>,
  response |-> <<60, 114, 62>>, end_response |-> <<60, 47, 114, 62>>,
  brief |-> <<40, 98, 41, 10, 10>>, careful |-> <<40, 99, 41, 10, 10>>,
  tools |-> <<35, 32, 84>>, end_tools |-> <<35>>, instructions |-> <<73>>, hard_rules |-> <<72>>,
  function |-> <<60, 99, 62, 10, 61>>, gt |-> <<62>>, parameter |-> <<60, 112>>,
  end_parameter |-> <<60, 47, 112>>, end_call |-> <<60, 47, 102, 62, 10, 60, 47, 99, 62>>,
  tool_call |-> <<60, 99, 62>>, end_tool_call |-> <<60, 47, 99, 62>>]

MCKnown == <<<<60, 124, 122, 62>>, MCLit.im_start, MCLit.im_end>>

\* The strings a table of merges can make, and what may be merged next
Made(ms) == {<<a>>, <<b>>} \union {m[1] \o m[2] : m \in Range(ms)}
Longer(tables) ==
  UNION {{Append(ms, m) : m \in (Made(ms) \X Made(ms)) \ Range(ms)} : ms \in tables}
MCMerges ==
  LET one == Longer({<< >>})
      two == Longer(one)
      led == <<utf8_encode_cp(byte_to_uni[32]), <<a>>>>   \* a space and a letter
  IN {<< >>, <<led, <<led[1] \o led[2], <<b>>>>>>} \union one \union two \union Longer(two)

MCBytes == UNION {Range(MCLit[n]) : n \in DOMAIN MCLit} \union {a, b, 120, 122, 123, 124, 125, 200}

MCSystems == {
  [text |-> <<a, 32, b>>, effort |-> "low", tools |-> << >>],
  [text |-> << >>, effort |-> "high", tools |-> <<<<123>>, <<125>>>>]}

\* Two spaces, a byte that is no ASCII, a marker of its own
MCUserTexts == {<<a, a, 32, 32, b, a>>, <<200, a, b>>, <<a>> \o MCLit.im_end \o <<b>>, <<32, a, b>>}

\* A call between its markers, as the template shows it
Captured(call) ==
  SubSeq(Call(call), Len(Lit.tool_call) + 1, Len(Call(call)) - Len(Lit.end_tool_call))

\* A call in the template's shape, and one that is JSON
MCToolRounds ==
  LET call == [name |-> <<a>>, params |-> <<[name |-> <<a>>, value |-> <<b, 10, a>>],
                                            [name |-> <<b>>, value |-> << >>]>>]
      round(raw) == [raw |-> raw, calls |-> <<call>>, result |-> <<b, a, 32, b>>]
  IN {round(Captured(call)), round(<<10, 123, a, 125, 10>>)}

MCAnswers == {<<a, b>>}

Saying(role, speaker, content, thought, body) ==
  [role |-> role, speaker |-> speaker, content |-> content, thought |-> thought, body |-> body,
   calls |-> << >>]

MCSayings == {
  Saying("system", "system", <<32, a, 10>>, << >>, <<a>>),
  Saying("user", "user", <<a, 10, b>>, << >>, <<a, 10, b>>),
  Saying("user", "tool", <<10>> \o MCLit.response \o <<10, b, 10>> \o MCLit.end_response, << >>, <<b>>),
  Saying("assistant", "assistant", <<b>>, << >>, <<b>>),
  Saying("assistant", "assistant", MCLit.think \o <<10, a>> \o MCLit.end_think \o <<10, 10, b, 10>>,
         <<a>>, <<b>>),
  Saying("tool", "tool", << >>, << >>, << >>),
  Saying("tool", "tool", <<a, 32>>, << >>, <<a>>)}
==============================================================================
