------------------------------ MODULE ToolCalls ------------------------------
(***************************************************************************)
(* agent_parse_tool_calls and agent_dispatch (agent.c): the calls that a   *)
(* text holds are read, in the verbose shape or as JSON, and each is given *)
(* to its tool.  slm_generate hands over one block that the filter has     *)
(* collected; agent_run a whole reply.                                     *)
(*                                                                         *)
(* A text is a sequence of lexemes: the angle bracket that ends a tag is   *)
(* one of its own, since strstr and memchr look for it alone, and a        *)
(* backslash is one with the character behind it.  Positions               *)
(* are 1..Len(text) + 1, the last being the NUL; 0 is NULL.  Each turn of  *)
(* a loop is a step; ret is where agent_json_value returns to.             *)
(***************************************************************************)
EXTENDS Integers, Sequences, SequencesExt, FiniteSetsExt

CONSTANTS
  Blocks,      \* what a model writes: text, and the calls it means by it
  MaxBlocks,   \* bound: blocks of a text
  MaxOut,      \* calls the caller has room for (4 and 8 in the code)
  MaxParams,   \* 16 in the code
  Escape,      \* escapes of JSON strings, and what they stand for
  BadEscapes,  \* a backslash and what may not follow it
  Numerals     \* the texts strtod reads a number from

ASSUME BlocksAssumption ==
  /\ MaxOut \in Nat \ {0} /\ MaxParams \in Nat \ {0}
  /\ \A b \in Blocks : b.text # << >>

VARIABLES
  said, text,            \* the blocks of this text, and their lexemes
  pc, p, end,            \* where the parser is, and the block's closing tag
  name, params, key,     \* the call being read
  depth, start, ret,     \* of agent_json_value
  calls,                 \* out[0 .. n)
  results                \* one tool_result of each call dispatched

input == <<said, text>>
call  == <<name, params, key>>
value == <<depth, start, ret>>
vars  == <<input, pc, p, end, call, value, calls, results>>

NULL == <<"NULL">>
Space == {" ", "nl"}

-----------------------------------------------------------------------------
(* Reading text                                                            *)

At(i) == IF i <= Len(text) THEN text[i] ELSE "NUL"

NUL == Len(text) + 1

CloseTag == <<"</tool_call", ">">>
ParamEnd == <<"</parameter", ">">>

\* strstr and memchr: the first place from i on, and before j, where tag
\* stands, if there is one
First(tag, i, j) ==
  LET places == {k \in i..(j - 1) : IsPrefix(tag, SubSeq(text, k, Len(text)))}
  IN IF places = {} THEN {} ELSE {Min(places)}

\* agent_carve: an empty span is NULL
Carve(i, j) == IF j > i THEN SubSeq(text, i, j - 1) ELSE NULL

\* agent_json_skip_ws
SkipWs(i) == Min({j \in i..Len(text) + 1 : At(j) \notin Space})

SkipComma(i) == LET j == SkipWs(i) IN SkipWs(IF At(j) = "," THEN j + 1 ELSE j)

\* mutant: an escaped quote closes the string
FirstQuote(i) == First(<<"\"">>, i, NUL) \union First(<<"\\\"">>, i, NUL)

ClosingQuote(i) == First(<<"\"">>, i, NUL)

Unescaped(s) == [n \in 1..Len(s) |-> IF s[n] \in DOMAIN Escape THEN Escape[s[n]] ELSE s[n]]

\* agent_json_string: the string that stands at i, with the escapes taken
\* out, and what is behind it; none if it is not closed or has an escape
\* that JSON does not
JsonString(i) ==
  {[text |-> Unescaped(SubSeq(text, i + 1, c - 1)), next |-> c + 1] :
     c \in {q \in ClosingQuote(i + 1) : At(i) = "\"" /\ Range(SubSeq(text, i, q)) \intersect BadEscapes = {}}}

-----------------------------------------------------------------------------
Init ==
  /\ said \in SeqOf(Blocks, MaxBlocks)
  /\ text = FlattenSeq([i \in 1..Len(said) |-> said[i].text])
  /\ pc = "block" /\ p = 1 /\ end = 0
  /\ name = NULL /\ params = << >> /\ key = NULL
  /\ depth = 0 /\ start = 0 /\ ret = "none"
  /\ calls = << >> /\ results = << >>

-----------------------------------------------------------------------------
(* agent_parse_tool_calls                                                  *)

\* Behind the closing tag at e
Behind(e) == e + Len(CloseTag)

\* The next block, if there is one: where its body begins and where its
\* closing tag stands
NextBlock ==
  UNION {{[body |-> t[1] + 1, end |-> t[2]] :
            t \in {u \in First(<<">">>, o, NUL) \X First(CloseTag, o, NUL) : u[1] < u[2]}} :
         o \in First(<<"<tool_call">>, p, NUL)}

FunctionTag(b) == First(<<"<function=">>, b.body, b.end)

NewCall == params' = << >> /\ key' = NULL

\* A block whose body names a function with a tag: the name goes up to the
\* bracket, which may be missing
VerboseBlock ==
  /\ pc = "block" /\ Len(calls) < MaxOut
  /\ \E b \in NextBlock : \E fn \in FunctionTag(b) :
       /\ end' = b.end
       /\ \/ \E gt \in First(<<">">>, fn + 1, b.end) :
               name' = Carve(fn + 1, gt) /\ p' = gt + 1 /\ pc' = "verbose"
          \/ /\ First(<<">">>, fn + 1, b.end) = {}
             /\ name' = NULL /\ p' = b.end /\ pc' = "finish"
  /\ NewCall
  /\ UNCHANGED <<input, value, calls, results>>

\* Any other block: agent_parse_json_call, which wants an object
JsonBlock ==
  /\ pc = "block" /\ Len(calls) < MaxOut
  /\ \E b \in NextBlock : \E i \in {SkipWs(b.body)} :
       /\ FunctionTag(b) = {}
       /\ end' = b.end
       /\ IF i < b.end /\ At(i) = "{" THEN p' = SkipWs(i + 1) /\ pc' = "members"
          ELSE p' = i /\ pc' = "finish"
  /\ name' = NULL /\ NewCall
  /\ UNCHANGED <<input, value, calls, results>>

\* No further block, or no room for its call
LastBlock ==
  /\ pc = "block"
  /\ Len(calls) >= MaxOut \/ NextBlock = {}
  /\ pc' = "dispatch"
  /\ UNCHANGED <<input, p, end, call, value, calls, results>>

\* mutant: newlines inside the value end it
FirstLine(i, j) ==
  LET cut == {k \in i..j : k = j \/ text[k] = "nl"} IN Carve(i, Min(cut))

\* One newline in front and all behind are not the value's
Trimmed(i, j) ==
  LET from == IF At(i) = "nl" THEN i + 1 ELSE i
      last == {k \in from..(j - 1) : text[k] # "nl"}
  IN IF last = {} THEN NULL ELSE Carve(from, Max(last) + 1)

\* The next parameter with both its tags, if there is one: where its key
\* begins, the bracket behind it, and its closing tag
NextParameter ==
  UNION {UNION {{<<t + 1, gt, close>> :
                   close \in First(ParamEnd, IF At(gt + 1) = "nl" THEN gt + 2 ELSE gt + 1, end)} :
                gt \in First(<<">">>, t + 1, end)} :
         t \in First(<<"<parameter=">>, p, end)}

Parameter ==
  /\ pc = "verbose" /\ Len(params) < MaxParams
  /\ \E n \in NextParameter :
       /\ params' = Append(params, [name |-> Carve(n[1], n[2]), value |-> Trimmed(n[2] + 1, n[3])])
       /\ p' = n[3] + Len(ParamEnd)
  /\ UNCHANGED <<input, pc, end, name, key, value, calls, results>>

\* No further parameter, or no room for it
LastParameter ==
  /\ pc = "verbose"
  /\ Len(params) >= MaxParams \/ NextParameter = {}
  /\ pc' = "finish"
  /\ UNCHANGED <<input, p, end, call, value, calls, results>>

\* The block is done: its call is kept if it has a name
FinishBlock ==
  /\ pc = "finish"
  /\ calls' = IF name = NULL THEN calls ELSE Append(calls, [name |-> name, params |-> params])
  /\ p' = Behind(end)
  /\ pc' = "block"
  /\ UNCHANGED <<input, end, call, value, results>>

-----------------------------------------------------------------------------
(* agent_parse_json_call                                                   *)

\* The key that stands at p, up to its colon, if there is one
NextKey ==
  UNION {{[text |-> k.text, next |-> c + 1] : c \in {i \in {SkipWs(k.next)} : At(i) = ":"}} :
         k \in JsonString(p)}

NameKeys == {<<"name">>, <<"function">>}
ArgsKeys == {<<"arguments">>, <<"parameters">>}

\* One member of the object: its value is the function's name, or the
\* object of arguments, or of no interest
Member ==
  /\ pc = "members" /\ p < end
  /\ \E k \in NextKey : \E i \in {SkipWs(k.next)} :
       IF k.text \in ArgsKeys /\ At(i) = "{"
       THEN pc' = "arguments" /\ p' = SkipWs(i + 1) /\ ret' = ret
       ELSE pc' = "value" /\ p' = k.next /\ ret' = IF k.text \in NameKeys THEN "name" ELSE "skip"
  /\ UNCHANGED <<input, end, call, depth, start, calls, results>>

\* The object ends, or the block does
LastMember ==
  /\ pc = "members"
  /\ p >= end \/ At(p) = "}"
  /\ pc' = "finish"
  /\ UNCHANGED <<input, p, end, call, value, calls, results>>

\* One argument.  Those there is no room for are taken for members of the
\* call itself
Argument ==
  /\ pc = "arguments" /\ Len(params) < MaxParams /\ p < end
  /\ \E k \in NextKey : key' = k.text /\ p' = k.next
  /\ pc' = "value" /\ ret' = "argument"
  /\ UNCHANGED <<input, end, name, params, depth, start, calls, results>>

LastArgument ==
  /\ pc = "arguments"
  /\ \/ Len(params) >= MaxParams \/ p >= end
     \/ At(p) = "}"
  /\ p' = SkipComma(IF Len(params) < MaxParams /\ p < end THEN p + 1 ELSE p)
  /\ pc' = "members"
  /\ UNCHANGED <<input, end, call, value, calls, results>>

\* Neither a key nor the end: the object cannot be read, nor can the call
Malformed ==
  /\ pc \in {"members", "arguments"} /\ p < end
  /\ pc = "arguments" => Len(params) < MaxParams
  /\ At(p) # "}" /\ NextKey = {}
  /\ name' = NULL /\ pc' = "finish"
  /\ UNCHANGED <<input, p, end, params, key, value, calls, results>>

-----------------------------------------------------------------------------
(* agent_json_value                                                        *)

\* Back to the caller with v, the parser standing at i.  An argument
\* without a value has the empty one
Return(v, i) ==
  /\ p' = SkipComma(i)
  /\ name' = IF ret = "name" THEN v ELSE name
  /\ params' = IF ret = "argument"
               THEN Append(params, [name |-> key, value |-> IF v = NULL THEN << >> ELSE v])
               ELSE params
  /\ pc' = IF ret = "argument" THEN "arguments" ELSE "members"

\* Number, true, false or null: up to a separator
ScalarEnd(i) == Min({j \in i..Len(text) + 1 : At(j) \in Space \union {",", "}", "]", "NUL"}})

Value ==
  /\ pc = "value"
  /\ \E i \in {SkipWs(p)} :
       IF At(i) \in {"{", "["}
       THEN pc' = "span" /\ p' = i /\ start' = i /\ depth' = 0 /\ UNCHANGED <<name, params>>
       ELSE /\ UNCHANGED <<start, depth>>
            /\ \/ \E s \in JsonString(i) : Return(s.text, s.next)
               \/ At(i) = "\"" /\ JsonString(i) = {} /\ Return(NULL, i)
               \/ At(i) # "\"" /\ \E j \in {ScalarEnd(i)} : Return(Carve(i, j), j)
  /\ UNCHANGED <<input, end, key, ret, calls, results>>

\* mutant: strings inside the span are not walked
SpanNextBlind == {p + 1}

\* mutant: the string is read through a copy of the position
SpanNextCopies == {IF At(p) = "\"" THEN p ELSE p + 1}

\* Behind what stands at p inside a span.  A string that cannot be read is
\* not passed: p stays
SpanNext ==
  IF At(p) # "\"" THEN {p + 1}
  ELSE IF JsonString(p) = {} THEN {p} ELSE {s.next : s \in JsonString(p)}

\* One turn of the loop over an object's or array's literal text, counting
\* its own kind of bracket alone
Span ==
  /\ pc = "span"
  /\ LET open == At(start)
         close == IF open = "{" THEN "}" ELSE "]"
     IN \E next \in SpanNext :
        /\ depth' = depth + (CASE At(p) = open -> 1 [] At(p) = close -> -1 [] OTHER -> 0)
        /\ IF At(p) = "NUL" THEN Return(NULL, start)
           ELSE IF At(p) = close /\ depth = 1 THEN Return(Carve(start, next), next)
           ELSE p' = next /\ UNCHANGED <<pc, name, params>>
  /\ UNCHANGED <<input, end, key, start, ret, calls, results>>

-----------------------------------------------------------------------------
(* agent_dispatch                                                          *)

\* mutant: the last of two parameters of one name counts
ParamLast(c, k) ==
  LET at == {i \in 1..Len(c.params) : c.params[i].name = k}
  IN IF at = {} THEN NULL ELSE c.params[Max(at)].value

\* agent_call_param: the first of that name that has a value
Param(c, k) ==
  LET at == {i \in 1..Len(c.params) : c.params[i].name = k /\ c.params[i].value # NULL}
  IN IF at = {} THEN NULL ELSE c.params[Min(at)].value

OrEmpty(v) == IF v = NULL THEN << >> ELSE v
Strtod(v)  == IF v \in Numerals THEN v ELSE <<"0">>

\* The tool that is asked, and what with; or the error the model gets to
\* read instead
Dispatched(c) ==
  CASE c.name \in {<<"wikipedia">>, <<"websearch">>} ->
         <<c.name, OrEmpty(Param(c, <<"query">>))>>
    [] c.name = <<"time_now">> -> <<c.name, Param(c, <<"timezone">>)>>
    [] c.name = <<"weather">> ->
         LET lat == Param(c, <<"latitude">>)  lon == Param(c, <<"longitude">>)
         IN IF NULL \in {lat, lon} THEN <<"error", "coordinates">>
            ELSE <<c.name, Strtod(lat), Strtod(lon)>>
    [] c.name = <<"crypto_price">> -> <<c.name, Param(c, <<"symbol">>), Param(c, <<"vs">>)>>
    [] c.name = <<"ip_geo">> -> <<c.name>>
    [] OTHER -> <<"error", "function">>

\* slm_generate: one call after the other, each with one result
Dispatch ==
  /\ pc = "dispatch"
  /\ IF Len(results) < Len(calls)
     THEN results' = Append(results, Dispatched(calls[Len(results) + 1])) /\ pc' = pc
     ELSE results' = results /\ pc' = "done"
  /\ UNCHANGED <<input, p, end, call, value, calls>>

Parse == \/ VerboseBlock \/ Parameter \/ LastParameter
         \/ JsonBlock \/ Member \/ LastMember \/ Argument \/ LastArgument \/ Malformed
         \/ Value \/ Span
         \/ FinishBlock \/ LastBlock

Next == Parse \/ Dispatch

\* One thread, which goes on while it can
Spec == Init /\ [][Next]_vars /\ WF_vars(Next)

-----------------------------------------------------------------------------
(* What the code is right about                                            *)

Meant == FlattenSeq([i \in 1..Len(said) |-> said[i].means])

Count(c, s) == Cardinality({i \in 1..Len(s) : s[i] = c})

\* A block that leaves nothing open: its tags are complete, its quotes pair
\* up and every bracket is closed.  What it means may be a call or nothing
Closed(b) ==
  /\ \A i \in 1..Len(b.text) : b.text[i] = "<tool_call" =>
       \E j, k \in i..Len(b.text) : j < k /\ b.text[j] = ">" /\ b.text[k] = "</tool_call"
  /\ Count("\"", b.text) % 2 = 0
  /\ Count("{", b.text) <= Count("}", b.text) /\ Count("[", b.text) <= Count("]", b.text)

AllClosed == \A i \in 1..Len(said) : Closed(said[i])

(***************************************************************************)
(* Whatever closed blocks stand next to each other, in either shape, those *)
(* that are no calls among them, the calls read are those the model meant, *)
(* in order, as far as there is room.                                      *)
(***************************************************************************)
ReadAsMeant ==
  pc \in {"dispatch", "done"} =>
    calls = SubSeq(Meant, 1, Min({MaxOut, Len(Meant)}))

CallsAreRead == AllClosed => ReadAsMeant

(***************************************************************************)
(* Each call of closed blocks asks its tool with the values the model      *)
(* wrote for it: the answer a turn gets to read belongs to the question it *)
(* asked.                                                                  *)
(***************************************************************************)
ToolsAskedAsMeant ==
  AllClosed /\ pc = "done" =>
    results = [i \in 1..Min({MaxOut, Len(Meant)}) |->
                 FlattenSeq([j \in 1..Len(said) |-> said[j].asks])[i]]

\* At a string that cannot be read, inside an array or object
Stuck == pc = "span" /\ At(p) = "\"" /\ JsonString(p) = {}

(***************************************************************************)
(* The parser gets through a text, whatever is left open in it, unless it  *)
(* comes to a string it cannot read inside an array or an object: no other *)
(* loop of it stays where it is.  There it does stay: docs_ValueReturns.   *)
(***************************************************************************)
ParseEnds == <>(pc = "done" \/ Stuck)

(***************************************************************************)
(* agent.c:279 of agent_json_value: "Returns NULL on malformed input."     *)
(***************************************************************************)
docs_ValueReturns == pc = "span" ~> pc # "span"

(***************************************************************************)
(* agent.c:464 of agent_parse_tool_calls: "Skips malformed blocks          *)
(* silently ... a strict reject would lose the recoverable cases."         *)
(***************************************************************************)
docs_MalformedSkipped == ReadAsMeant
==============================================================================
