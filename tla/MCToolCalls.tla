----------------------------- MODULE MCToolCalls -----------------------------
(* Blocks a small model writes, each with the calls it means by it.        *)
EXTENDS ToolCalls, TLC

escape == ("\\n" :> "nl") @@ ("\\\"" :> "\"") @@ ("\\u0041" :> "A")
badEscapes == {"\\d"}
numerals == {<<"5">>}

Quote(s) == <<"\"">> \o s \o <<"\"">>
Json(open, body) == open \o <<"{">> \o body \o <<"}", "</tool_call", ">">>
Opening == <<"<tool_call", ">", "nl">>
Named(n) == Quote(<<"name">>) \o <<":", " ">> \o Quote(<<n>>)
Args(body) == <<",">> \o Quote(<<"arguments">>) \o <<":", "{">> \o body \o <<"}">>
Pair(k, v) == Quote(<<k>>) \o <<":">> \o v
Parm(k, v) == <<"<parameter=", k, ">", "nl">> \o v \o <<"nl", "</parameter", ">", "nl">>
Verbose(n, ps) == Opening \o <<"<function=", n, ">", "nl">> \o ps
                  \o <<"</function", ">", "nl", "</tool_call", ">">>
Call(n, ps) == [name |-> <<n>>, params |-> ps]
P(k, v) == [name |-> <<k>>, value |-> v]
Is(t, c, a) == [text |-> t, means |-> <<c>>, asks |-> <<a>>]
Nothing(t) == [text |-> t, means |-> << >>, asks |-> << >>]

wellFormed == {
  Is(Verbose("wikipedia", Parm("query", <<"x", "nl", "y">>)),
     Call("wikipedia", <<P("query", <<"x", "nl", "y">>)>>), <<<<"wikipedia">>, <<"x", "nl", "y">>>>),
  \* compact, and with an empty value
  Is(<<"<tool_call", ">", "<function=", "weather", ">", "<parameter=", "latitude", ">", "5",
       "</parameter", ">", "<parameter=", "longitude", ">", "</parameter", ">", "</function", ">",
       "</tool_call", ">">>,
     Call("weather", <<P("latitude", <<"5">>), P("longitude", NULL)>>), <<"error", "coordinates">>),
  \* more parameters than there is room for
  Is(Verbose("crypto_price", Parm("symbol", <<"x">>) \o Parm("symbol", <<"y">>) \o Parm("vs", <<"z">>)),
     Call("crypto_price", <<P("symbol", <<"x">>), P("symbol", <<"y">>)>>),
     <<<<"crypto_price">>, <<"x">>, NULL>>),
  \* the same as JSON: the argument left over is read as a member of the call
  Is(Json(Opening, Named("crypto_price") \o Args(Pair("symbol", Quote(<<"x">>)) \o <<",">>
       \o Pair("symbol", <<"5">>) \o <<",">> \o Pair("vs", Quote(<<"z">>)))),
     Call("crypto_price", <<P("symbol", <<"x">>), P("symbol", <<"5">>)>>),
     <<<<"crypto_price">>, <<"x">>, NULL>>),
  \* a stray space in the tag, no arguments, the other spelling
  Is(Json(<<"<tool_call", " ", ">">>, Quote(<<"function">>) \o <<":">> \o Quote(<<"ip_geo">>)),
     Call("ip_geo", << >>), <<<<"ip_geo">>>>),
  \* escapes, and a nested value with a bracket and a quote in a string
  Is(Json(Opening, Named("nope") \o Args(Pair("q", Quote(<<"\\\"", "\\u0041">>)))),
     Call("nope", <<P("q", <<"\"", "A">>)>>), <<"error", "function">>),
  Is(Json(Opening, Pair("id", <<"[", "5", ",", "[", "]", "]">>) \o <<",", " ">> \o Named("websearch")
       \o Args(Pair("opt", <<"{">> \o Pair("k", Quote(<<"}", "\\\"">>)) \o <<"}">>)
               \o <<",", "nl">> \o Pair("query", Quote(<<"x", "\\n">>)))),
     Call("websearch", <<P("opt", <<"{">> \o Pair("k", Quote(<<"}", "\\\"">>)) \o <<"}">>),
                         P("query", <<"x", "nl">>)>>),
     <<<<"websearch">>, <<"x", "nl">>>>),
  Is(Json(Opening, Named("weather") \o Args(Pair("latitude", <<"5">>) \o <<",", " ">>
       \o Pair("longitude", Quote(<<"x">>)))),
     Call("weather", <<P("latitude", <<"5">>), P("longitude", <<"x">>)>>),
     <<<<"weather">>, <<"5">>, <<"0">>>>) }

\* Text around the calls, and blocks that are none
noCalls == {
  Nothing(<<"x", ">">> \o Quote(<<"x", " ">>)),
  Nothing(Opening \o <<"x", "</tool_call", ">">>),
  Nothing(Opening \o <<"<function=", ">", "</tool_call", ">">>),
  Nothing(Opening \o <<"<function=", "x", "</tool_call", ">">>),
  Nothing(Json(Opening, Args(Pair("q", <<"5">>)))),
  \* a string that cannot be read
  Nothing(Json(Opening, Named("time_now") \o Args(Pair("timezone", Quote(<<"\\d">>))))),
  Nothing(Json(Opening, Named("ip_geo") \o <<"x">>)),
  Nothing(Json(Opening, Named("time_now") \o Args(Pair("timezone", Quote(<<"x">>)) \o <<"x">>))) }

timeNow == Is(Json(Opening, Named("time_now") \o <<",">> \o Quote(<<"parameters">>) \o <<":", "5">>),
              Call("time_now", << >>), <<<<"time_now">>, NULL>>)

\* Blocks that leave something open, for the next one to close: a tag, the
\* block itself, a string, an array
open == {
  Nothing(<<"<tool_call", "nl", "x", "</tool_call", ">">>),
  Nothing(Opening \o <<"x", "nl">>),
  Nothing(Json(Opening, Quote(<<"name">>) \o <<":", "\"", "x">>)),
  Nothing(Json(Opening, Pair("id", <<"[", "5">>))) }

\* An array that holds a string with an escape JSON does not have
unreadable == Nothing(Json(Opening, Named("websearch")
                \o Args(Pair("query", <<"[">> \o Quote(<<"\\d">>) \o <<"]">>))))

blocks == wellFormed \union noCalls \union open \union {timeNow, unreadable}

malformed == open \union noCalls \union {timeNow}

broken == {timeNow, unreadable}
==============================================================================
