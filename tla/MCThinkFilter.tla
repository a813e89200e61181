---------------------------- MODULE MCThinkFilter ----------------------------
(***************************************************************************)
(* A small instance of ThinkFilter for TLC: markers of two and three bytes *)
(* that share their beginnings as the real ones do, and every text of a    *)
(* few units or of a few bytes, whether or not its characters are whole.   *)
(***************************************************************************)
EXTENDS ThinkFilter

CONSTANTS
  MaxUnits,   \* bound: units of a text of whole characters
  MaxBroken   \* bound: bytes of a text of any bytes

MCTag == [think_open  |-> <<"<", "t">>,
          think_close |-> <<"<", "/", "t">>,
          tool_open   |-> <<"<", "c">>,
          tool_close  |-> <<"<", "/", "c">>]

Units == {<<"x">>, <<"<">>, <<"L", "C">>} \union {MCTag[m] : m \in DOMAIN MCTag}

WholeTexts == UNION {{FlattenSeq(u) : u \in [1..n -> Units]} : n \in 1..MaxUnits}

\* A lead byte without its continuation, continuations without a lead byte
BrokenTexts == UNION {[1..n -> {"<", "L", "C"}] : n \in 1..MaxBroken}

MCTexts == WholeTexts \union BrokenTexts
=============================================================================
