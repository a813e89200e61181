------------------------------ MODULE TurnProofs ------------------------------
(***************************************************************************)
(* For any length of the framed texts, any budget and any cache: positions *)
(* are lengths of histories, a refused text ends the turn, one tool round  *)
(* runs and a completed call is answered, the engine decodes from the      *)
(* history it should, a call logs the prompts it feeds, and a turn uses    *)
(* its context as History allows.                                          *)
(***************************************************************************)
EXTENDS Turn, NumberFacts, SequenceTheorems, TLAPS

-----------------------------------------------------------------------------
(* Counters and flags.                                                     *)

Counters ==
  /\ cpos \in Nat /\ pos \in Nat /\ fed \in Nat /\ generated \in Nat
  /\ total_gen \in Nat /\ max_new \in Nat /\ sampled \in Nat /\ dispatched \in Nat
  /\ tools \in BOOLEAN /\ stop \in BOOLEAN /\ ready \in BOOLEAN /\ tool_round \in BOOLEAN
  /\ pc \in {"idle", "framing", "next_pass", "prefill", "prefilled", "decode", "sample",
             "finish", "after", "restore", "drop", "inject", "overrun"}
  /\ \A s \in DOMAIN saved : saved[s].pos \in Nat
  /\ saved = NoSnap \/ "snap" \in DOMAIN saved
  /\ pc = "restore" => "snap" \in DOMAIN saved

Budget ==
  /\ total_gen <= max_new
  /\ pc \in {"prefill", "prefilled"} => generated = 0
  /\ pc = "decode" => total_gen + generated <= max_new
  /\ pc = "sample" => total_gen + generated < max_new

\* Who has refused text is not asked again
Refusal ==
  /\ pc \in {"prefill", "prefilled", "sample"} => ~stop /\ ~ready
  /\ pc = "decode" => (ready => stop)
  /\ "content" \in refused => \/ pc = "decode" /\ stop /\ ~ready
                              \/ pc \in {"finish", "after"} /\ ~ready
                              \/ pc \in {"idle", "framing", "overrun"}

LEMMA CountersInit == Init => Counters /\ Budget /\ Refusal
<1> SUFFICES ASSUME Init PROVE Counters /\ Budget /\ Refusal
  OBVIOUS
<1>1. Counters
  BY DEF Init, Counters, NoSnap
<1>2. Budget
  BY DEF Init, Budget
<1> QED BY <1>1, <1>2 DEF Init, Refusal

\* The steps of a turn and the variables they leave alone.
LEMMA CountersStep ==
  ASSUME Counters, [Next]_vars
  PROVE  Counters'
<1> USE DEF Counters, Goto
<1>1. CASE System
  BY <1>1, SMTT(20)
     DEF System, SystemPrompt, SystemStep, SystemCommit, context, conv, turn, pass, filter, seen
<1>2. CASE SetTools
  BY <1>2 DEF SetTools, context, turn, pass, filter, seen
<1>3. CASE Generate
  BY <1>3, LengthsAssumption DEF Generate, pass, filter
<1>4. CASE StartPass
  BY <1>4 DEF StartPass, conv, context, turn, seen
<1>5. CASE Overrun
  BY <1>5 DEF Overrun, conv, context, turn, pass, filter, seen
<1>6. CASE Prefill
  <2>1. PICK n \in {1, Len(cur)} : fed + n <= Len(cur) /\ fed' = fed + n /\ pos' = pos + n
    BY <1>6 DEF Prefill
  <2>2. n \in Nat
    BY <2>1
  <2> QED BY <1>6, <2>1, <2>2 DEF Prefill, conv, turn, filter, seen
<1>7. CASE DecisionPoint
  <2>1. (\A s \in DOMAIN saved' : saved'[s].pos \in Nat) /\ (saved' = NoSnap \/ "snap" \in DOMAIN saved')
    BY <1>7 DEF DecisionPoint, Snapshot
  <2> QED BY <1>7, <2>1 DEF DecisionPoint, conv, turn, pass, filter, seen
<1>8. CASE Prefilled
  BY <1>8 DEF Prefilled, conv, context, turn, pass, filter
<1>9. CASE DecodeForward
  BY <1>9 DEF DecodeForward, conv, turn, filter, seen
<1>10. CASE DrawStop \/ DrawHeld \/ DrawShown \/ DrawOpen \/ DrawClose
  <2>1. (\E end \in BOOLEAN : Draw(end)) /\ ready' \in BOOLEAN /\ tools' = tools
    <3>1. CASE DrawStop
      BY <3>1 DEF DrawStop, Draw, conv, filter
    <3>2. CASE DrawHeld \/ DrawOpen
      BY <3>2 DEF DrawHeld, DrawOpen, Draw, conv
    <3>3. CASE DrawShown
      BY <3>3 DEF DrawShown, Draw, conv
    <3>4. CASE DrawClose
      BY <3>4 DEF DrawClose, Draw, conv
    <3> QED BY <1>10, <3>1, <3>2, <3>3, <3>4
  <2> QED BY <2>1 DEF Draw, context, turn
<1>11. CASE DecodeEnd
  BY <1>11 DEF DecodeEnd, conv, context, pass, filter, seen
<1>12. CASE Finish
  BY <1>12 DEF Finish, conv, context, turn, pass, seen
<1>13. CASE Dispatch
  <2>1. pc' = "restore" /\ "snap" \in DOMAIN saved
    BY <1>13 DEF Dispatch, CallToRun
  <2> QED BY <1>13, <2>1 DEF Dispatch, context, turn, pass, filter
<1>14. CASE Restore
  BY <1>14 DEF Restore, conv, turn, pass, filter, seen
<1>15. CASE DropSnapshot
  BY <1>15 DEF DropSnapshot, conv, NoSnap, pass, filter, seen
<1>16. CASE Inject
  BY <1>16 DEF Inject, conv, pass, filter, seen
<1>17. CASE Return
  BY <1>17 DEF Return, conv, NoSnap, turn, pass, filter
<1>18. CASE UNCHANGED vars
  BY <1>18 DEF vars, conv, context, turn, pass, filter, seen
<1> QED BY <1>1, <1>2, <1>3, <1>4, <1>5, <1>6, <1>7, <1>8, <1>9, <1>10, <1>11, <1>12,
           <1>13, <1>14, <1>15, <1>16, <1>17, <1>18 DEF Next, Prompt, Decode, Round

LEMMA BudgetStep ==
  ASSUME Counters, Budget, [Next]_vars
  PROVE  Budget'
<1>1. CASE System \/ SetTools \/ Overrun \/ Finish \/ UNCHANGED vars
  <2>1. /\ UNCHANGED <<max_new, total_gen, generated>>
        /\ \/ /\ pc \in {"idle", "framing", "prefill", "finish", "after"}
              /\ pc' \in {"idle", "framing", "overrun", "after"}
           \/ pc' = pc
    BY <1>1 DEF System, SystemPrompt, SystemStep, SystemCommit, SetTools, Overrun, Finish,
                Goto, turn, pass, seen, vars
  <2> QED BY <2>1 DEF Budget, Counters
<1>2. CASE Generate
  <2>1. pc' = "next_pass" /\ total_gen' = 0 /\ max_new' \in 0..MaxNew
    BY <1>2 DEF Generate, Goto
  <2> QED BY <2>1, LengthsAssumption DEF Budget
<1>3. CASE StartPass \/ Prefill \/ DecisionPoint \/ Prefilled \/ DecodeForward
  <2>1. UNCHANGED <<max_new, total_gen>>
    BY <1>3 DEF StartPass, Prefill, DecisionPoint, Prefilled, DecodeForward, turn
  <2>2. CASE StartPass
    BY <2>1, <2>2 DEF StartPass, Goto, Budget, Counters
  <2>3. CASE Prefill
    BY <2>1, <2>3 DEF Prefill, Budget, Counters
  <2>4. CASE DecisionPoint
    BY <2>1, <2>4 DEF DecisionPoint, Goto, pass, Budget, Counters
  <2>5. CASE Prefilled
    BY <2>1, <2>5 DEF Prefilled, Goto, pass, Budget, Counters
  <2>6. CASE DecodeForward
    <3>1. /\ pc = "decode" /\ pc' = "sample" /\ generated' = generated
          /\ generated < max_new - total_gen
      BY <2>6 DEF DecodeForward, MoreToDecode, Goto
    <3> QED BY <2>1, <3>1 DEF Budget, Counters
  <2> QED BY <1>3, <2>2, <2>3, <2>4, <2>5, <2>6
<1>4. CASE DrawStop \/ DrawHeld \/ DrawShown \/ DrawOpen \/ DrawClose
  <2>1. /\ pc = "sample" /\ pc' = "decode" /\ generated' = generated + 1
        /\ UNCHANGED <<max_new, total_gen>>
    BY <1>4 DEF DrawStop, DrawHeld, DrawShown, DrawOpen, DrawClose, Draw, Goto, turn
  <2> QED BY <2>1 DEF Budget, Counters
<1>5. CASE DecodeEnd
  <2>1. /\ pc = "decode" /\ pc' = "finish" /\ total_gen' = total_gen + generated
        /\ max_new' = max_new
    BY <1>5 DEF DecodeEnd, Goto
  <2> QED BY <2>1 DEF Budget, Counters
<1>6. CASE Dispatch \/ Restore \/ DropSnapshot \/ Return
  <2>1. /\ pc' \in {"restore", "drop", "inject", "idle"}
        /\ UNCHANGED <<max_new, total_gen>>
    BY <1>6 DEF Dispatch, Restore, DropSnapshot, Return, Goto, turn
  <2> QED BY <2>1 DEF Budget, Counters
<1>7. CASE Inject
  <2>1. pc' = "next_pass" /\ total_gen' = 0 /\ max_new' = max_new
    BY <1>7 DEF Inject, Goto
  <2> QED BY <2>1 DEF Budget, Counters
<1> QED BY <1>1, <1>2, <1>3, <1>4, <1>5, <1>6, <1>7 DEF Next, Prompt, Decode, Round

LEMMA RefusalStep ==
  ASSUME Counters, Refusal, [Next]_vars
  PROVE  Refusal'
<1> USE DEF Counters, Refusal, Goto
<1>1. CASE SystemPrompt \/ Generate
  BY <1>1 DEF SystemPrompt, Generate
<1>2. CASE SystemStep \/ SystemCommit
  <2>1. /\ pc = "framing" /\ pc' \in {"framing", "idle"}
    BY <1>2 DEF SystemStep, SystemCommit
  <2> QED BY <2>1
<1>3. CASE SetTools \/ Overrun \/ Return \/ DropSnapshot \/ Inject \/ Restore \/ UNCHANGED vars
  BY <1>3 DEF SetTools, Overrun, Return, DropSnapshot, Inject, Restore, Silent, vars, pass, filter
<1>4. CASE StartPass
  BY <1>4 DEF StartPass, Silent
<1>5. CASE Prefill \/ DecisionPoint
  BY <1>5 DEF Prefill, DecisionPoint, Silent, pass, filter
<1>6. CASE Prefilled
  BY <1>6 DEF Prefilled, Emit, pass, filter
<1>7. CASE DecodeForward \/ DecodeEnd
  <2>1. UNCHANGED <<refused, stop, ready>>
    BY <1>7 DEF DecodeForward, DecodeEnd, Silent, pass, filter
  <2>2. \/ pc = "decode" /\ pc' = "sample" /\ ~stop
        \/ pc = "decode" /\ pc' = "finish"
    BY <1>7 DEF DecodeForward, DecodeEnd, MoreToDecode
  <2> QED BY <2>1, <2>2
<1>8. CASE DrawStop \/ DrawHeld \/ DrawOpen
  <2>1. /\ pc = "sample" /\ pc' = "decode"
        /\ UNCHANGED <<ready, refused>>
    BY <1>8 DEF DrawStop, DrawHeld, DrawOpen, Draw, Silent, filter
  <2> QED BY <2>1
<1>9. CASE DrawShown
  <2>1. PICK rc \in BOOLEAN : Draw(rc) /\ Emit("content", "content", rc) /\ ready' = ready
    BY <1>9 DEF DrawShown
  <2> QED BY <2>1 DEF Draw, Emit
<1>10. CASE DrawClose
  <2>1. Draw(tool_round) /\ ready' = tool_round
    BY <1>10 DEF DrawClose
  <2>2. "content" \in refused' => "content" \in refused
    BY <1>10 DEF DrawClose, Emit, Silent
  <2> QED BY <2>1, <2>2 DEF Draw
<1>11. CASE Finish
  <2>1. pc = "finish" /\ pc' = "after" /\ ready' = ready
    BY <1>11 DEF Finish
  <2>2. "content" \in refused' => "content" \in refused
    BY <1>11 DEF Finish, Emit, Silent
  <2> QED BY <2>1, <2>2
<1>12. CASE Dispatch
  <2>1. pc = "after" /\ pc' = "restore" /\ ready
    BY <1>12 DEF Dispatch, CallToRun
  <2>2. "content" \in refused' => "content" \in refused
    BY <1>12 DEF Dispatch, Emit, Silent
  <2> QED BY <2>1, <2>2
<1> QED BY <1>1, <1>2, <1>3, <1>4, <1>5, <1>6, <1>7, <1>8, <1>9, <1>10, <1>11, <1>12
        DEF Next, System, Prompt, Decode, Round

LEMMA CountersReached == Spec => [](Counters /\ Budget /\ Refusal)
<1>1. Counters /\ Budget /\ Refusal /\ [Next]_vars => (Counters /\ Budget /\ Refusal)'
  BY CountersStep, BudgetStep, RefusalStep
<1> QED BY <1>1, CountersInit, PTL DEF Spec

\* Once the callback has refused text of the loop, the model is not run again
\* in the turn and no tool is.
THEOREM RefusalEndsTurn == Spec => []RefusedTextStops
<1>1. Refusal => RefusedTextStops
  BY DEF Refusal, RefusedTextStops
<1> QED BY <1>1, CountersReached, PTL

-----------------------------------------------------------------------------
(* Sequences of tokens.                                                    *)

LEMMA FramedSeq ==
  ASSUME NEW kind, NEW n \in Nat \ {0}
  PROVE  /\ Framed(kind, n) \in Seq(Range(Framed(kind, n)))
         /\ Len(Framed(kind, n)) = n
<1>1. DOMAIN Framed(kind, n) = 1..n
  BY DEF Framed
<1>2. \A i \in 1..n : Framed(kind, n)[i] \in Range(Framed(kind, n))
  BY <1>1 DEF Range
<1>3. Framed(kind, n) = [i \in 1..n |-> Framed(kind, n)[i]]
  BY DEF Framed
<1> QED BY <1>2, <1>3

LEMMA Texts ==
  /\ SystemBlock \in Seq(Token) /\ Len(SystemBlock) = SystemLen
  /\ TurnDelta \in Seq(Token) /\ Len(TurnDelta) = TurnLen
  /\ ToolResult \in Seq(Token) /\ Len(ToolResult) = ResultLen
<1>1. /\ Range(SystemBlock) \subseteq Token /\ Range(TurnDelta) \subseteq Token
      /\ Range(ToolResult) \subseteq Token
  BY DEF Token
<1>2. \A S, T : S \subseteq T => Seq(S) \subseteq Seq(T)
  OBVIOUS
<1>3. SystemBlock \in Seq(Token) /\ Len(SystemBlock) = SystemLen
  BY <1>1, <1>2, FramedSeq, LengthsAssumption DEF SystemBlock
<1>4. TurnDelta \in Seq(Token) /\ Len(TurnDelta) = TurnLen
  BY <1>1, <1>2, FramedSeq, LengthsAssumption DEF TurnDelta
<1>5. ToolResult \in Seq(Token) /\ Len(ToolResult) = ResultLen
  BY <1>1, <1>2, FramedSeq, LengthsAssumption DEF ToolResult
<1> QED BY <1>3, <1>4, <1>5

LEMMA SampledTokens == \A n \in {0, 1} : <<"gen", n>> \in Token
<1>1. \A n \in {0, 1} : <<"gen", n>> \in Sampled
  BY DEF Sampled, Passes, IterCap
<1> QED BY <1>1 DEF Token

LEMMA FirstPart ==
  ASSUME NEW s \in Seq(Token), NEW n \in 0..Len(s)
  PROVE  /\ SubSeq(s, 1, n) \in Seq(Token) /\ Len(SubSeq(s, 1, n)) = n
         /\ \A i \in 1..n : SubSeq(s, 1, n)[i] = s[i]
OBVIOUS

LEMMA MorePart ==
  ASSUME NEW s \in Seq(Token), NEW k \in 0..Len(s), NEW n \in k..Len(s)
  PROVE  /\ SubSeq(s, 1, k) \o SubSeq(s, k + 1, n) = SubSeq(s, 1, n)
         /\ SubSeq(s, k + 1, n) \in Seq(Token) /\ Len(SubSeq(s, k + 1, n)) = n - k
<1>1. 1 \in 1..Len(s) + 1 /\ k \in 1 - 1..Len(s)
  OBVIOUS
<1>2. SubSeq(s, 1, k) \o SubSeq(s, k + 1, n) = SubSeq(s, 1, n)
  BY <1>1, ConcatAdjacentSubSeq
<1>3. SubSeq(s, k + 1, n) \in Seq(Token) /\ Len(SubSeq(s, k + 1, n)) = n - k
  <2>1. \A i \in k + 1..n : s[i] \in Token
    OBVIOUS
  <2>2. k + 1 \in Int /\ n \in Int
    OBVIOUS
  <2> QED BY <2>1, <2>2, SubSeqProperties
<1> QED BY <1>2, <1>3

-----------------------------------------------------------------------------
(* What the engine has been fed.                                           *)

\* The history a pass starts from, and what it is prompted with
Base == IF iter = 0 THEN before ELSE before \o TurnDelta

PassPrompt == IF iter = 0 THEN TurnDelta ELSE ToolResult

\* The decode loop feeds the last prompt token once more, then its samples
NextFed(n) == IF n = 0 THEN cur[Len(cur)] ELSE <<"gen", iter>>

Decoded(n) ==
  IF n = 0 THEN << >> ELSE <<cur[Len(cur)]>> \o [i \in 1..n - 1 |-> <<"gen", iter>>]

InTurn == pc \in {"next_pass", "prefill", "prefilled", "decode", "sample", "finish",
                  "after", "restore", "drop", "inject"}

Snaps ==
  saved # NoSnap =>
    /\ saved = [s \in {"snap"} |-> saved["snap"]]
    /\ saved["snap"].hist \in Seq(Token) /\ saved["snap"].pos = Len(saved["snap"].hist)
    /\ saved["snap"].ids_count \in 0..Len(ids)

Rounds ==
  /\ iter \in {0, 1}
  /\ InTurn => cur = PassPrompt
  /\ InTurn /\ tool_round => iter = 0
  /\ InTurn /\ saved # NoSnap =>
       iter = 0 /\ tool_round /\ saved["snap"].hist = before \o TurnDelta
  /\ pc \in {"idle", "framing", "inject"} => saved = NoSnap
  /\ pc \in {"restore", "drop", "inject"} => iter = 0
  /\ pc = "restore" => saved # NoSnap
  /\ pc = "inject" => ~tool_round

Place == pc # "overrun" => (IF InPass THEN pos ELSE cpos) = Len(hist)

Follows ==
  /\ pc = "next_pass" => hist = Base
  /\ pc = "prefill" => /\ fed \in 0..Len(cur) /\ hist = Base \o SubSeq(cur, 1, fed)
                       /\ generated = 0 /\ last = NextFed(0)
  /\ pc = "prefilled" => hist = Base \o cur /\ generated = 0 /\ last = NextFed(0)
  /\ pc \in {"decode", "sample"} => generated \in Nat
  /\ pc = "decode" => /\ hist = (Base \o cur) \o Decoded(generated)
                      /\ ~stop => last = NextFed(generated)
  /\ pc = "sample" => hist = (Base \o cur) \o Decoded(generated + 1)
  /\ pc \in {"drop", "inject"} => hist = before \o TurnDelta

Fed ==
  /\ hist \in Seq(Token) /\ before \in Seq(Token) /\ ids \in Seq(Token)
  /\ Snaps /\ Rounds /\ Place /\ Follows

LEMMA FedInit == Init => Fed
<1> SUFFICES ASSUME Init PROVE Fed
  OBVIOUS
<1>1. << >> \in Seq(Token) /\ saved = NoSnap
  BY DEF Init, NoSnap
<1> QED BY <1>1 DEF Init, Fed, Snaps, Rounds, Place, Follows, InTurn, InPass

\* What a pass in a turn stands on.
LEMMA PassTypes ==
  ASSUME Fed, InTurn
  PROVE  /\ cur \in Seq(Token) /\ Len(cur) \in Nat \ {0} /\ cur[Len(cur)] \in Token
         /\ Base \in Seq(Token) /\ Base \o cur \in Seq(Token)
         /\ \A n \in Nat : NextFed(n) \in Token
         /\ \A n \in Nat : Decoded(n) \in Seq(Token) /\ Len(Decoded(n)) = n
<1>1. cur \in Seq(Token) /\ Len(cur) \in Nat \ {0}
  BY Texts, LengthsAssumption DEF Fed, Rounds, PassPrompt
<1>2. cur[Len(cur)] \in Token
  BY <1>1
<1>3. before \o TurnDelta \in Seq(Token)
  BY Texts, ConcatProperties DEF Fed
<1>4. Base \in Seq(Token)
  BY <1>3 DEF Base, Fed
<1>5. Base \o cur \in Seq(Token)
  BY <1>1, <1>4, ConcatProperties
<1>6. <<"gen", iter>> \in Token
  BY SampledTokens DEF Fed, Rounds
<1>7. ASSUME NEW n \in Nat PROVE Decoded(n) \in Seq(Token) /\ Len(Decoded(n)) = n
  <2>1. CASE n = 0
    BY <2>1 DEF Decoded
  <2>2. CASE n # 0
    <3>1. n - 1 \in Nat
      BY <2>2
    <3>2. /\ [i \in 1..n - 1 |-> <<"gen", iter>>] \in Seq(Token)
          /\ Len([i \in 1..n - 1 |-> <<"gen", iter>>]) = n - 1
      BY <1>6, <3>1
    <3>3. <<cur[Len(cur)]>> \in Seq(Token) /\ Len(<<cur[Len(cur)]>>) = 1
      BY <1>2
    <3> DEFINE head == <<cur[Len(cur)]>>
               some == [i \in 1..n - 1 |-> <<"gen", iter>>]
    <3> HIDE DEF head, some
    <3>4. head \in Seq(Token) /\ some \in Seq(Token) /\ Len(head) = 1 /\ Len(some) = n - 1
      BY <3>2, <3>3 DEF head, some
    <3>5. head \o some \in Seq(Token) /\ Len(head \o some) = Len(head) + Len(some)
      BY <3>4, ConcatProperties
    <3>6. Len(head \o some) = n
      BY <3>4, <3>5
    <3>7. Decoded(n) = head \o some
      BY <2>2 DEF Decoded, head, some
    <3> QED BY <3>5, <3>6, <3>7
  <2> QED BY <2>1, <2>2
<1> QED BY <1>1, <1>2, <1>4, <1>5, <1>6, <1>7 DEF NextFed

\* The token that is fed next is the next of what is decoded.
LEMMA DecodedGrows ==
  ASSUME Fed, InTurn, NEW n \in Nat
  PROVE  Decoded(n) \o <<NextFed(n)>> = Decoded(n + 1)
<1>1. CASE n = 0
  <2>1. <<cur[Len(cur)]>> \in Seq(Token)
    BY PassTypes
  <2>2. Decoded(n) = << >> /\ NextFed(n) = cur[Len(cur)]
    BY <1>1 DEF Decoded, NextFed
  <2>3. [i \in 1..(n + 1) - 1 |-> <<"gen", iter>>] = << >>
    BY <1>1
  <2>4. Decoded(n + 1) = <<cur[Len(cur)]>> \o << >>
    BY <1>1, <2>3 DEF Decoded
  <2> QED BY <2>1, <2>2, <2>4, ConcatEmptySeq
<1>2. CASE n # 0
  <2> DEFINE head == <<cur[Len(cur)]>>
             some == [i \in 1..n - 1 |-> <<"gen", iter>>]
             more == [i \in 1..n |-> <<"gen", iter>>]
  <2>0. n - 1 \in Nat
    BY <1>2
  <2>1. <<"gen", iter>> \in Token
    BY SampledTokens DEF Fed, Rounds
  <2>2. head \in Seq(Token)
    BY PassTypes
  <2>3. /\ some \in Seq(Token) /\ Len(some) = n - 1 /\ \A i \in 1..n - 1 : some[i] = <<"gen", iter>>
    BY <2>0, <2>1
  <2>4. /\ more \in Seq(Token) /\ Len(more) = n /\ \A i \in 1..n : more[i] = <<"gen", iter>>
    BY <2>1
  <2>5. <<NextFed(n)>> = << <<"gen", iter>> >> /\ << <<"gen", iter>> >> \in Seq(Token)
    BY <1>2, <2>1 DEF NextFed
  <2> HIDE DEF some, more, head
  <2>6. some \o << <<"gen", iter>> >> = more
    <3>1. some \o << <<"gen", iter>> >> = Append(some, <<"gen", iter>>)
      BY <2>1, <2>3, AppendIsConcat
    <3>2. /\ Append(some, <<"gen", iter>>) \in Seq(Token)
          /\ Len(Append(some, <<"gen", iter>>)) = Len(some) + 1
          /\ \A i \in 1..Len(some) : Append(some, <<"gen", iter>>)[i] = some[i]
          /\ Append(some, <<"gen", iter>>)[Len(some) + 1] = <<"gen", iter>>
      BY <2>1, <2>3, AppendProperties
    <3>3. Len(some) + 1 = n
      BY <2>3
    <3>4. Len(Append(some, <<"gen", iter>>)) = Len(more)
      BY <2>4, <3>2, <3>3
    <3>5. \A i \in 1..n : Append(some, <<"gen", iter>>)[i] = more[i]
      <4> SUFFICES ASSUME NEW i \in 1..n PROVE Append(some, <<"gen", iter>>)[i] = more[i]
        OBVIOUS
      <4>1. i = n \/ i \in 1..n - 1
        OBVIOUS
      <4> QED BY <4>1, <2>3, <2>4, <3>2, <3>3
    <3> QED BY <2>4, <3>1, <3>2, <3>3, <3>4, <3>5, SeqEqual
  <2>7. (head \o some) \o << <<"gen", iter>> >> = head \o more
    <3>1. (head \o some) \o << <<"gen", iter>> >> = head \o (some \o << <<"gen", iter>> >>)
      BY <2>2, <2>3, <2>5, ConcatAssociative
    <3> QED BY <2>6, <3>1
  <2>8. Decoded(n) = head \o some
    BY <1>2 DEF Decoded, head, some
  <2>9. Decoded(n + 1) = head \o more
    BY <1>2 DEF Decoded, head, more
  <2> QED BY <2>5, <2>7, <2>8, <2>9
<1> QED BY <1>1, <1>2

\* One token, or some, at the end of a history.
LEMMA FeedOne ==
  ASSUME NEW s \in Seq(Token), NEW x \in Token
  PROVE  s \o <<x>> \in Seq(Token) /\ Len(s \o <<x>>) = Len(s) + 1
<1>1. s \o <<x>> = Append(s, x)
  BY AppendIsConcat
<1> QED BY <1>1, AppendProperties

LEMMA FedSystem ==
  ASSUME Counters, Fed, System \/ SetTools
  PROVE  Fed'
<1>1. ~InTurn /\ ~InTurn' /\ ~InPass /\ ~InPass' /\ pc # "overrun" /\ pc' \in {"idle", "framing"}
  BY DEF System, SystemPrompt, SystemStep, SystemCommit, SetTools, Goto, InTurn, InPass
<1>2. saved = NoSnap /\ saved' = NoSnap /\ cpos = Len(hist)
  <2>1. pc \in {"idle", "framing"} /\ saved' = saved
    BY DEF System, SystemPrompt, SystemStep, SystemCommit, SetTools, Goto, context
  <2> QED BY <1>1, <2>1 DEF Fed, Rounds, Place
<1>3. UNCHANGED <<iter, before>>
  BY DEF System, SystemPrompt, SystemStep, SystemCommit, SetTools, turn, seen
<1>4. hist' \in Seq(Token) /\ cpos' = Len(hist')
  <2>1. CASE SystemStep
    <3>1. fed + 1 \in 1..Len(SystemBlock) /\ hist' = hist \o <<SystemBlock[fed + 1]>>
          /\ cpos' = cpos + 1
      BY <2>1, Texts, LengthsAssumption DEF SystemStep, Feed, Counters
    <3>2. SystemBlock[fed + 1] \in Token
      BY <3>1, Texts
    <3>3. hist' \in Seq(Token) /\ Len(hist') = Len(hist) + 1
      BY <3>1, <3>2, FeedOne DEF Fed
    <3> QED BY <1>2, <3>1, <3>3
  <2>2. CASE ~SystemStep
    <3>1. UNCHANGED <<hist, cpos>>
      BY <2>2 DEF System, SystemPrompt, SystemCommit, SetTools, context
    <3> QED BY <1>2, <3>1 DEF Fed
  <2> QED BY <2>1, <2>2
<1>5. ids' \in Seq(Token)
  <2>1. ids' = ids \/ ids' = ids \o SystemBlock
    BY DEF System, SystemPrompt, SystemStep, SystemCommit, SetTools, context
  <2> QED BY <2>1, Texts, ConcatProperties DEF Fed
<1>6. Rounds'
  BY <1>1, <1>2, <1>3 DEF Fed, Rounds
<1>7. Place' /\ Snaps'
  BY <1>1, <1>2, <1>4 DEF Place, Snaps
<1>8. Follows'
  BY <1>1 DEF Follows
<1> QED BY <1>3, <1>4, <1>5, <1>6, <1>7, <1>8 DEF Fed

LEMMA FedGenerate ==
  ASSUME Fed, Generate
  PROVE  Fed'
<1>1. /\ pc = "idle" /\ pc' = "next_pass" /\ iter' = 0 /\ before' = hist
      /\ cur' = TurnDelta /\ ids' = ids \o TurnDelta
      /\ UNCHANGED <<hist, saved, cpos>>
  BY DEF Generate, Goto
<1>2. saved = NoSnap /\ cpos = Len(hist)
  BY <1>1 DEF Fed, Rounds, Place, InPass
<1>3. ids' \in Seq(Token)
  BY <1>1, Texts, ConcatProperties DEF Fed
<1>4. Rounds' /\ Follows'
  BY <1>1, <1>2 DEF Rounds, Follows, PassPrompt, Base, InTurn
<1>5. Place' /\ Snaps'
  BY <1>1, <1>2 DEF Place, InPass, Snaps
<1> QED BY <1>1, <1>3, <1>4, <1>5 DEF Fed

\* Steps of a turn in which nothing is fed, logged, saved or brought back.
kept == <<hist, before, ids, saved, iter, cur, cpos>>

LEMMA FedStays ==
  ASSUME Fed, UNCHANGED kept, tool_round' = tool_round \/ ~tool_round',
         tool_round' # tool_round => saved = NoSnap, Place', Follows',
         InTurn' => InTurn, pc' \in {"idle", "framing", "inject"} => saved = NoSnap,
         pc' \in {"restore", "drop", "inject"} => iter = 0,
         pc' = "restore" => saved # NoSnap, pc' = "inject" => ~tool_round'
  PROVE  Fed'
<1>1. Snaps'
  BY DEF kept, Fed, Snaps
<1>2. Rounds'
  BY DEF kept, Fed, Rounds, PassPrompt
<1> QED BY <1>1, <1>2 DEF kept, Fed

LEMMA FedStartPass ==
  ASSUME Fed, StartPass
  PROVE  Fed'
<1>1. /\ pc = "next_pass" /\ pc' = "prefill" /\ pos' = cpos /\ fed' = 0 /\ generated' = 0
      /\ last' = cur[Len(cur)] /\ UNCHANGED kept /\ UNCHANGED tool_round
  BY DEF StartPass, Goto, context, turn, seen, kept
<1>2. Place'
  BY <1>1 DEF kept, Fed, Place, InPass
<1>3. Follows'
  <2>1. hist = Base /\ Base \in Seq(Token) /\ Len(cur) \in Nat /\ cur \in Seq(Token)
    BY <1>1, PassTypes DEF Fed, Follows, InTurn
  <2>2. SubSeq(cur, 1, 0) = << >>
    BY SubSeqEmpty
  <2>3. Base \o SubSeq(cur, 1, 0) = Base
    BY <2>1, <2>2, ConcatEmptySeq
  <2>4. Base' = Base
    BY <1>1 DEF kept, Base
  <2> QED BY <1>1, <2>1, <2>3, <2>4 DEF kept, Follows, NextFed
<1> QED BY <1>1, <1>2, <1>3, FedStays DEF InTurn

LEMMA FedPrefill ==
  ASSUME Fed, Prefill
  PROVE  Fed'
<1>1. PICK n \in {1, Len(cur)} :
        /\ fed + n <= Len(cur)
        /\ hist' = hist \o SubSeq(cur, fed + 1, fed + n)
        /\ fed' = fed + n /\ pos' = pos + n
  BY DEF Prefill, Feed
<1>2. /\ pc = "prefill" /\ pc' = "prefill" /\ fed < Len(cur)
      /\ UNCHANGED <<before, ids, saved, iter, cur, cpos, tool_round, generated, last>>
  BY DEF Prefill, turn, seen
<1>3. /\ cur \in Seq(Token) /\ Len(cur) \in Nat \ {0} /\ Base \in Seq(Token)
      /\ fed \in 0..Len(cur) /\ hist = Base \o SubSeq(cur, 1, fed) /\ pos = Len(hist)
      /\ hist \in Seq(Token)
  BY <1>2, PassTypes DEF Fed, Follows, InTurn, Place, InPass
<1>4. n \in Nat \ {0} /\ fed + n \in fed..Len(cur)
  BY <1>1, <1>3
<1>5. /\ SubSeq(cur, 1, fed) \o SubSeq(cur, fed + 1, fed + n) = SubSeq(cur, 1, fed + n)
      /\ SubSeq(cur, fed + 1, fed + n) \in Seq(Token)
      /\ Len(SubSeq(cur, fed + 1, fed + n)) = (fed + n) - fed
      /\ SubSeq(cur, 1, fed) \in Seq(Token)
  <2>1. cur \in Seq(Token) /\ fed \in 0..Len(cur) /\ fed + n \in fed..Len(cur)
    BY <1>3, <1>4
  <2>2. SubSeq(cur, 1, fed) \in Seq(Token)
    BY <2>1, FirstPart
  <2> QED BY <2>1, <2>2, MorePart
<1>6. hist' = Base \o SubSeq(cur, 1, fed + n)
  <2> DEFINE done == SubSeq(cur, 1, fed)
             more == SubSeq(cur, fed + 1, fed + n)
  <2>1. hist' = (Base \o done) \o more
    BY <1>1, <1>3
  <2>2. done \o more = SubSeq(cur, 1, fed + n)
    BY <1>5
  <2>3. Base \in Seq(Token) /\ done \in Seq(Token) /\ more \in Seq(Token)
    BY <1>3, <1>5
  <2> HIDE DEF done, more
  <2>4. (Base \o done) \o more = Base \o (done \o more)
    BY <2>3, ConcatAssociative
  <2> QED BY <2>1, <2>2, <2>4
<1>7. hist' \in Seq(Token) /\ Len(hist') = Len(hist) + n
  <2> DEFINE more == SubSeq(cur, fed + 1, fed + n)
  <2>1. more \in Seq(Token) /\ hist' = hist \o more
    BY <1>1, <1>5
  <2>2. Len(more) = n
    BY <1>3, <1>4, <1>5
  <2> HIDE DEF more
  <2>3. hist \o more \in Seq(Token) /\ Len(hist \o more) = Len(hist) + Len(more)
    BY <1>3, <2>1, ConcatProperties
  <2> QED BY <2>1, <2>2, <2>3
<1>8. Place'
  <2>1. pos' = Len(hist')
    BY <1>1, <1>3, <1>7
  <2> QED BY <1>2, <2>1 DEF Place, InPass
<1>9. Base' = Base /\ NextFed(0)' = NextFed(0)
  BY <1>2 DEF Base, NextFed
<1>10. Follows'
  <2>1. fed' \in 0..Len(cur)
    BY <1>1, <1>3, <1>4
  <2>2. generated = 0 /\ last = NextFed(0)
    BY <1>2 DEF Fed, Follows
  <2> QED BY <1>1, <1>2, <1>6, <1>9, <2>1, <2>2 DEF Follows
<1>11. Rounds' /\ Snaps'
  BY <1>2 DEF Fed, Rounds, Snaps, PassPrompt, InTurn
<1> QED BY <1>2, <1>7, <1>8, <1>10, <1>11 DEF Fed

LEMMA FedDecisionPoint ==
  ASSUME Fed, DecisionPoint
  PROVE  Fed'
<1>1. /\ pc = "prefill" /\ pc' = "prefilled" /\ fed = Len(cur) /\ cpos' = pos
      /\ saved' = IF tool_round /\ saved = NoSnap
                  THEN [s \in {"snap"} |-> Snapshot(pos)] ELSE saved
      /\ UNCHANGED <<hist, before, ids, iter, cur, pos, tool_round, generated, last>>
  BY DEF DecisionPoint, Goto, turn, pass, seen
<1>2. /\ cur \in Seq(Token) /\ hist = Base \o SubSeq(cur, 1, Len(cur)) /\ pos = Len(hist)
      /\ hist \in Seq(Token) /\ ids \in Seq(Token) /\ generated = 0 /\ last = NextFed(0)
  BY <1>1, PassTypes DEF Fed, Follows, InTurn, Place, InPass
<1>3. hist = Base \o cur
  BY <1>2, SubSeqFull
<1>4. Base' = Base /\ NextFed(0)' = NextFed(0)
  BY <1>1 DEF Base, NextFed
<1>5. Follows'
  BY <1>1, <1>2, <1>3, <1>4 DEF Follows
<1>6. Place'
  BY <1>1, <1>2 DEF Place, InPass
<1>7. CASE tool_round /\ saved = NoSnap
  <2>1. saved' = [s \in {"snap"} |-> Snapshot(pos)]
    BY <1>1, <1>7
  <2>2. /\ saved'["snap"] = Snapshot(pos) /\ saved' = [s \in {"snap"} |-> saved'["snap"]]
    BY <2>1
  <2>3. saved' # NoSnap
    BY <2>1 DEF NoSnap
  <2>4. /\ Snapshot(pos).hist = hist /\ Snapshot(pos).pos = Len(hist)
        /\ Snapshot(pos).ids_count = Len(ids)
    BY <1>2, SubSeqFull DEF Snapshot
  <2>5. iter = 0 /\ hist = before \o TurnDelta
    BY <1>1, <1>3, <1>7 DEF Fed, Rounds, InTurn, Base, PassPrompt
  <2>6. Len(ids) \in 0..Len(ids)
    BY <1>2
  <2>7. Snaps'
    BY <1>1, <1>2, <2>2, <2>4, <2>6 DEF Snaps
  <2>8. cur = PassPrompt /\ PassPrompt' = PassPrompt
    BY <1>1 DEF Fed, Rounds, InTurn, PassPrompt
  <2>9. Rounds'
    BY <1>1, <1>7, <2>2, <2>3, <2>4, <2>5, <2>8 DEF Rounds
  <2> QED BY <1>1, <1>5, <1>6, <2>7, <2>9 DEF Fed
<1>8. CASE ~(tool_round /\ saved = NoSnap)
  <2>1. saved' = saved
    BY <1>1, <1>8
  <2>2. Snaps' /\ Rounds'
    BY <1>1, <2>1 DEF Fed, Snaps, Rounds, InTurn, PassPrompt
  <2> QED BY <1>1, <1>5, <1>6, <2>2 DEF Fed
<1> QED BY <1>7, <1>8

LEMMA FedPrefilled ==
  ASSUME Fed, Prefilled
  PROVE  Fed'
<1>1. /\ pc = "prefilled" /\ pc' = "decode"
      /\ UNCHANGED kept /\ UNCHANGED <<pos, tool_round, generated, last>>
  BY DEF Prefilled, Goto, context, turn, pass, kept
<1>2. Base \o cur \in Seq(Token)
  BY <1>1, PassTypes DEF InTurn
<1>3. hist = Base \o cur /\ generated = 0 /\ last = NextFed(0)
  BY <1>1 DEF Fed, Follows
<1>4. hist = (Base \o cur) \o Decoded(0)
  <2>1. Decoded(0) = << >>
    BY DEF Decoded
  <2> QED BY <1>2, <1>3, <2>1, ConcatEmptySeq
<1>5. Base' = Base /\ Decoded(0)' = Decoded(0) /\ NextFed(0)' = NextFed(0)
  BY <1>1 DEF kept, Base, Decoded, NextFed
<1>6. hist' = (Base' \o cur') \o Decoded(0)' /\ generated' = 0 /\ last' = NextFed(0)'
  BY <1>1, <1>3, <1>4, <1>5 DEF kept
<1>7. Follows'
  BY <1>1, <1>6 DEF Follows, Decoded, NextFed
<1>8. Place'
  BY <1>1 DEF kept, Fed, Place, InPass
<1> QED BY <1>1, <1>7, <1>8, FedStays DEF InTurn

LEMMA FedDecodeForward ==
  ASSUME Fed, DecodeForward
  PROVE  Fed'
<1>1. /\ pc = "decode" /\ pc' = "sample" /\ ~stop
      /\ hist' = hist \o <<last>> /\ pos' = pos + 1
      /\ UNCHANGED <<before, ids, saved, iter, cur, cpos, tool_round, generated>>
  BY DEF DecodeForward, Goto, MoreToDecode, Feed, turn, seen
<1>2. /\ hist = (Base \o cur) \o Decoded(generated) /\ last = NextFed(generated)
      /\ generated \in Nat /\ hist \in Seq(Token) /\ pos = Len(hist)
  BY <1>1 DEF Fed, Follows, Place, InPass
<1>3. /\ Base \o cur \in Seq(Token) /\ Decoded(generated) \in Seq(Token)
      /\ NextFed(generated) \in Token
  BY <1>1, <1>2, PassTypes DEF InTurn
<1>4. hist' = (Base \o cur) \o Decoded(generated + 1)
  <2>1. <<NextFed(generated)>> \in Seq(Token)
    BY <1>3
  <2>2. ((Base \o cur) \o Decoded(generated)) \o <<NextFed(generated)>>
        = (Base \o cur) \o (Decoded(generated) \o <<NextFed(generated)>>)
    BY <1>3, <2>1, ConcatAssociative
  <2>3. Decoded(generated) \o <<NextFed(generated)>> = Decoded(generated + 1)
    BY <1>1, <1>2, DecodedGrows DEF InTurn
  <2> QED BY <1>1, <1>2, <2>2, <2>3
<1>5. hist' \in Seq(Token) /\ Len(hist') = Len(hist) + 1
  BY <1>1, <1>2, <1>3, FeedOne
<1>6. Place'
  BY <1>1, <1>2, <1>5 DEF Place, InPass
<1>7. Base' = Base /\ Decoded(generated + 1)' = Decoded(generated + 1)
  BY <1>1 DEF Base, Decoded
<1>8. Follows'
  BY <1>1, <1>2, <1>4, <1>7 DEF Follows
<1>9. Rounds' /\ Snaps'
  BY <1>1 DEF Fed, Rounds, Snaps, PassPrompt, InTurn
<1> QED BY <1>1, <1>5, <1>6, <1>8, <1>9 DEF Fed

LEMMA FedDraw ==
  ASSUME Fed, DrawStop \/ DrawHeld \/ DrawShown \/ DrawOpen \/ DrawClose
  PROVE  Fed'
<1>1. /\ pc = "sample" /\ pc' = "decode" /\ generated' = generated + 1
      /\ UNCHANGED kept /\ UNCHANGED <<pos, tool_round>>
      /\ stop' \/ last' = <<"gen", iter>>
  BY DEF DrawStop, DrawHeld, DrawShown, DrawOpen, DrawClose, Draw, Goto, context, turn, kept
<1>2. hist = (Base \o cur) \o Decoded(generated + 1) /\ generated \in Nat
  BY <1>1 DEF Fed, Follows
<1>3. Base' = Base /\ Decoded(generated)' = Decoded(generated + 1)
  BY <1>1 DEF kept, Base, Decoded
<1>4. last' = <<"gen", iter>> => last' = NextFed(generated)'
  BY <1>1, <1>2 DEF kept, NextFed
<1>5. hist' = (Base' \o cur') \o Decoded(generated)' /\ generated' \in Nat
  BY <1>1, <1>2, <1>3 DEF kept
<1>6. Follows'
  BY <1>1, <1>4, <1>5 DEF Follows
<1>7. Place'
  BY <1>1 DEF kept, Fed, Place, InPass
<1> QED BY <1>1, <1>6, <1>7, FedStays DEF InTurn

LEMMA FedEnd ==
  ASSUME Fed, DecodeEnd \/ Finish \/ Dispatch \/ Overrun
  PROVE  Fed'
<1>1. CASE DecodeEnd
  <2>1. /\ pc = "decode" /\ pc' = "finish" /\ cpos' = pos
        /\ UNCHANGED <<hist, before, ids, saved, iter, cur, tool_round>>
    BY <1>1 DEF DecodeEnd, Goto, context, seen
  <2>2. Place' /\ Follows'
    BY <2>1 DEF Fed, Place, InPass, Follows
  <2>3. Rounds' /\ Snaps'
    BY <2>1 DEF Fed, Rounds, Snaps, PassPrompt, InTurn
  <2> QED BY <2>1, <2>2, <2>3 DEF Fed
<1>2. CASE Finish
  <2>1. /\ pc = "finish" /\ pc' = "after" /\ UNCHANGED kept /\ UNCHANGED tool_round
    BY <1>2 DEF Finish, Goto, context, turn, seen, kept
  <2>2. Place' /\ Follows'
    BY <2>1 DEF kept, Fed, Place, InPass, Follows
  <2> QED BY <2>1, <2>2, FedStays DEF InTurn
<1>3. CASE Dispatch
  <2>1. /\ pc = "after" /\ pc' = "restore" /\ UNCHANGED kept /\ UNCHANGED tool_round
        /\ saved # NoSnap
    BY <1>3 DEF Dispatch, CallToRun, Goto, context, turn, kept
  <2>2. Place' /\ Follows'
    BY <2>1 DEF kept, Fed, Place, InPass, Follows
  <2>3. iter = 0
    BY <2>1 DEF Fed, Rounds, InTurn
  <2> QED BY <2>1, <2>2, <2>3, FedStays DEF InTurn
<1>4. CASE Overrun
  <2>1. /\ pc' = "overrun" /\ UNCHANGED kept /\ UNCHANGED tool_round
    BY <1>4 DEF Overrun, context, turn, seen, kept
  <2>2. Place' /\ Follows'
    BY <2>1 DEF Place, Follows
  <2> QED BY <2>1, <2>2, FedStays DEF InTurn
<1> QED BY <1>1, <1>2, <1>3, <1>4

LEMMA FedRestore ==
  ASSUME Fed, Restore
  PROVE  Fed'
<1>1. /\ pc = "restore" /\ pc' = "drop" /\ hist' = saved["snap"].hist
      /\ cpos' = saved["snap"].pos /\ ids' = SubSeq(ids, 1, saved["snap"].ids_count)
      /\ UNCHANGED <<before, saved, iter, cur, tool_round>>
  BY DEF Restore, Goto, turn, seen
<1>2. /\ saved # NoSnap /\ iter = 0 /\ saved["snap"].hist = before \o TurnDelta
      /\ saved["snap"].hist \in Seq(Token) /\ saved["snap"].pos = Len(saved["snap"].hist)
      /\ saved["snap"].ids_count \in 0..Len(ids) /\ ids \in Seq(Token)
  BY <1>1 DEF Fed, Rounds, Snaps, InTurn
<1>3. ids' \in Seq(Token) /\ Len(ids') = saved["snap"].ids_count
  BY <1>1, <1>2, FirstPart
<1>4. saved["snap"].ids_count \in 0..Len(ids')
  BY <1>2, <1>3
<1>5. Snaps'
  BY <1>1, <1>2, <1>4 DEF Fed, Snaps
<1>6. Rounds'
  BY <1>1, <1>2 DEF Fed, Rounds, InTurn, PassPrompt
<1>7. Place' /\ Follows'
  BY <1>1, <1>2 DEF Place, InPass, Follows
<1> QED BY <1>1, <1>2, <1>3, <1>5, <1>6, <1>7 DEF Fed

LEMMA FedRound ==
  ASSUME Fed, DropSnapshot \/ Inject \/ Return
  PROVE  Fed'
<1>1. CASE DropSnapshot
  <2>1. /\ pc = "drop" /\ pc' = "inject" /\ saved' = NoSnap /\ tool_round' = FALSE
        /\ UNCHANGED <<hist, before, ids, iter, cur, cpos>>
    BY <1>1 DEF DropSnapshot, Goto, seen
  <2>2. Place' /\ Follows' /\ Snaps'
    BY <2>1 DEF Fed, Place, InPass, Follows, Snaps
  <2>3. Rounds'
    BY <2>1 DEF Fed, Rounds, InTurn, PassPrompt
  <2> QED BY <2>1, <2>2, <2>3 DEF Fed
<1>2. CASE Inject
  <2>1. /\ pc = "inject" /\ pc' = "next_pass" /\ cur' = ToolResult /\ ids' = ids \o ToolResult
        /\ iter' = iter + 1
        /\ UNCHANGED <<hist, before, saved, cpos, tool_round>>
    BY <1>2 DEF Inject, Goto, seen
  <2>2. iter = 0 /\ ~tool_round /\ saved = NoSnap /\ hist = before \o TurnDelta
    BY <2>1 DEF Fed, Rounds, Follows
  <2>3. iter' = 1
    BY <2>1, <2>2
  <2>4. ids' \in Seq(Token)
    BY <2>1, Texts, ConcatProperties DEF Fed
  <2>5. Place' /\ Follows' /\ Snaps'
    BY <2>1, <2>2, <2>3 DEF Fed, Place, InPass, Follows, Snaps, Base
  <2>6. Rounds'
    BY <2>1, <2>2, <2>3 DEF Rounds, InTurn, PassPrompt
  <2> QED BY <2>1, <2>4, <2>5, <2>6 DEF Fed
<1>3. CASE Return
  <2>1. /\ pc \in {"after", "next_pass"} /\ pc' = "idle" /\ saved' = NoSnap
        /\ UNCHANGED <<hist, before, ids, iter, cur, cpos, tool_round>>
    BY <1>3 DEF Return, turn
  <2>2. Place' /\ Follows' /\ Snaps'
    BY <2>1 DEF Fed, Place, InPass, Follows, Snaps
  <2>3. Rounds'
    BY <2>1 DEF Fed, Rounds, InTurn
  <2> QED BY <2>1, <2>2, <2>3 DEF Fed
<1> QED BY <1>1, <1>2, <1>3

LEMMA FedStep == Counters /\ Fed /\ [Next]_vars => Fed'
<1> SUFFICES ASSUME Counters, Fed, [Next]_vars PROVE Fed'
  OBVIOUS
<1>1. CASE UNCHANGED vars
  <2>1. UNCHANGED <<pc, hist, before, ids, saved, iter, cur, cpos, pos, tool_round, fed,
                    generated, stop, last>>
    BY <1>1 DEF vars, context, turn, pass, seen
  <2>2. Follows'
    BY <2>1 DEF Fed, Follows, Base, Decoded, NextFed
  <2> QED BY <2>1, <2>2 DEF Fed, Snaps, Rounds, Place, InPass, InTurn, PassPrompt
<1> QED BY <1>1, FedSystem, FedGenerate, FedStartPass, FedPrefill, FedDecisionPoint,
           FedPrefilled, FedDecodeForward, FedDraw, FedEnd, FedRestore, FedRound
        DEF Next, Prompt, Decode, Round

LEMMA FedReached == Spec => [](Counters /\ Fed)
<1>1. Init => Counters /\ Fed
  BY CountersInit, FedInit
<1>2. Counters /\ Fed /\ [Next]_vars => (Counters /\ Fed)'
  BY CountersStep, FedStep
<1> QED BY <1>1, <1>2, PTL DEF Spec

\* The position of a pass, of the context between passes and in a snapshot is
\* the length of the history it goes with.
THEOREM PositionsAreLengths == Spec => []PositionsInStep
<1>1. Fed => PositionsInStep
  BY DEF Fed, Place, Snaps, PositionsInStep, NoSnap
<1> QED BY <1>1, FedReached, PTL

\* Wherever the engine decodes, its history is what came before the turn, the
\* framed prompt, the framed result in the second pass, and what it sampled.
THEOREM DecodesFromItsPrompt == Spec => []HistoryOfPass
<1>1. Fed => HistoryOfPass
  <2> SUFFICES ASSUME Fed, pc = "decode" PROVE hist = TurnPrompt \o PassTail
    BY DEF HistoryOfPass
  <2>1. hist = (Base \o cur) \o Decoded(generated)
    BY DEF Fed, Follows
  <2>2. Base \o cur = TurnPrompt
    <3>1. CASE iter = 0
      <4>1. TurnPrompt = (before \o TurnDelta) \o << >> /\ Base \o cur = before \o TurnDelta
        BY <3>1 DEF TurnPrompt, Base, Fed, Rounds, PassPrompt, InTurn
      <4>2. before \o TurnDelta \in Seq(Token)
        BY Texts, ConcatProperties DEF Fed
      <4> QED BY <4>1, <4>2, ConcatEmptySeq
    <3>2. CASE iter # 0
      BY <3>2 DEF TurnPrompt, Base, Fed, Rounds, PassPrompt, InTurn
    <3> QED BY <3>1, <3>2
  <2>3. Decoded(generated) = PassTail
    BY DEF Decoded, PassTail
  <2> QED BY <2>1, <2>2, <2>3
<1> QED BY <1>1, FedReached, PTL

-----------------------------------------------------------------------------
(* The tool round.                                                         *)

\* No round has run before the snapshot is restored, and one in the pass
\* that answers from its result
RoundsRun ==
  /\ dispatched \in {0, 1}
  /\ InTurn /\ iter = 0 /\ pc \notin {"restore", "drop", "inject"} => dispatched = 0

LEMMA RoundsRunStep ==
  ASSUME Fed, RoundsRun, [Next]_vars
  PROVE  RoundsRun'
<1> USE DEF RoundsRun, InTurn, Goto
<1>1. CASE System \/ SetTools
  BY <1>1 DEF System, SystemPrompt, SystemStep, SystemCommit, SetTools, turn, seen
<1>2. CASE Generate
  BY <1>2 DEF Generate
<1>3. CASE StartPass \/ Prefill \/ DecisionPoint \/ Prefilled \/ Overrun
  BY <1>3 DEF StartPass, Prefill, DecisionPoint, Prefilled, Overrun, turn, seen
<1>4. CASE Decode
  BY <1>4 DEF Decode, DecodeForward, DrawStop, DrawHeld, DrawShown, DrawOpen, DrawClose, Draw,
              DecodeEnd, Finish, turn, seen
<1>5. CASE Dispatch
  <2>1. pc = "after" /\ saved # NoSnap /\ dispatched' = dispatched + 1 /\ pc' = "restore"
    BY <1>5 DEF Dispatch, CallToRun
  <2>2. iter = 0
    BY <2>1 DEF Fed, Rounds
  <2> QED BY <2>1, <2>2
<1>6. CASE Restore \/ DropSnapshot
  BY <1>6 DEF Restore, DropSnapshot, turn, seen
<1>7. CASE Inject
  <2>1. pc = "inject" /\ iter' = iter + 1 /\ dispatched' = dispatched
    BY <1>7 DEF Inject, seen
  <2>2. iter = 0
    BY <2>1 DEF Fed, Rounds
  <2> QED BY <2>1, <2>2
<1>8. CASE Return
  BY <1>8 DEF Return
<1>9. CASE UNCHANGED vars
  BY <1>9 DEF vars, turn, seen
<1> QED BY <1>1, <1>2, <1>3, <1>4, <1>5, <1>6, <1>7, <1>8, <1>9 DEF Next, Prompt, Round

\* A turn runs one tool round at most and leaves no snapshot behind.
THEOREM RunsOneToolRound == Spec => []OneToolRound
<1>1. Init => RoundsRun
  BY DEF Init, RoundsRun
<1>2. Fed /\ RoundsRun /\ [Next]_vars => RoundsRun'
  BY RoundsRunStep
<1>3. Fed /\ RoundsRun => OneToolRound
  BY DEF Fed, Rounds, RoundsRun, OneToolRound
<1> QED BY <1>1, <1>2, <1>3, FedReached, PTL DEF Spec

-----------------------------------------------------------------------------
(* A call that was completed.                                              *)

\* The pass that may run a call has a snapshot to go back to, and until a
\* tool has run every sampled token is counted
Answered ==
  /\ pc = "next_pass" => total_gen = 0 /\ iter < IterCap /\ (iter # 0 => max_new > 0)
  /\ InTurn /\ pc # "next_pass" => max_new > 0
  /\ pc \in {"restore", "drop", "inject"} => dispatched # 0
  /\ pc \in {"prefilled", "decode", "sample", "finish", "after"} /\ tool_round =>
       saved # NoSnap
  /\ pc \in {"decode", "finish", "after"} /\ ready => tool_round
  /\ dispatched = 0 =>
       sampled = IF pc \in {"decode", "sample"} THEN total_gen + generated ELSE total_gen
  /\ pc \in {"idle", "framing"} /\ ready =>
       dispatched = 0 /\ sampled = max_new /\ result = max_new

LEMMA AnsweredStep ==
  ASSUME Counters, Budget, Refusal, Fed, RoundsRun, Answered, [Next]_vars
  PROVE  Answered'
<1> USE DEF InTurn, Goto
<1>1. CASE System \/ SetTools
  <2>1. /\ UNCHANGED <<max_new, dispatched, sampled, total_gen, ready, result>>
        /\ pc \in {"idle", "framing"} /\ pc' \in {"idle", "framing"}
    BY <1>1 DEF System, SystemPrompt, SystemStep, SystemCommit, SetTools, turn, seen, filter
  <2> QED BY <2>1 DEF Answered
<1>2. CASE Generate
  <2>1. /\ pc' = "next_pass" /\ dispatched' = 0 /\ sampled' = 0 /\ total_gen' = 0 /\ iter' = 0
    BY <1>2 DEF Generate
  <2> QED BY <2>1 DEF Answered, IterCap
<1>3. CASE StartPass
  <2>1. /\ pc = "next_pass" /\ pc' = "prefill" /\ total_gen < max_new
        /\ UNCHANGED <<max_new, dispatched, sampled, total_gen>>
    BY <1>3 DEF StartPass, turn, seen
  <2> QED BY <2>1 DEF Answered, Counters
<1>4. CASE Overrun
  <2>1. /\ pc' = "overrun" /\ pc \in {"prefill", "framing"}
        /\ UNCHANGED <<dispatched, sampled, total_gen>>
    BY <1>4 DEF Overrun, turn, seen
  <2> QED BY <2>1 DEF Answered
<1>5. CASE Prefill
  <2>1. pc = "prefill" /\ pc' = pc /\ UNCHANGED <<max_new, dispatched, sampled, total_gen>>
    BY <1>5 DEF Prefill, turn, seen
  <2> QED BY <2>1 DEF Answered
<1>6. CASE DecisionPoint
  <2>1. /\ pc = "prefill" /\ pc' = "prefilled"
        /\ UNCHANGED <<max_new, dispatched, sampled, total_gen, tool_round>>
        /\ saved' = IF tool_round /\ saved = NoSnap
                    THEN [s \in {"snap"} |-> Snapshot(cpos')] ELSE saved
    BY <1>6 DEF DecisionPoint, turn, seen
  <2>2. tool_round => saved' # NoSnap
    <3>1. CASE saved = NoSnap
      <4>1. tool_round => "snap" \in DOMAIN saved'
        BY <2>1, <3>1
      <4>2. "snap" \notin DOMAIN NoSnap
        BY DEF NoSnap
      <4> QED BY <4>1, <4>2
    <3> QED BY <2>1, <3>1
  <2> QED BY <2>1, <2>2 DEF Answered
<1>7. CASE Prefilled
  <2>1. /\ pc = "prefilled" /\ pc' = "decode" /\ generated' = generated
        /\ UNCHANGED <<max_new, dispatched, sampled, total_gen, tool_round, saved, ready>>
    BY <1>7 DEF Prefilled, turn, pass, context, filter
  <2>2. ~ready /\ generated = 0 /\ total_gen \in Nat
    BY <2>1 DEF Refusal, Budget, Counters
  <2> QED BY <2>1, <2>2 DEF Answered
<1>8. CASE DecodeForward
  <2>1. /\ pc = "decode" /\ pc' = "sample"
        /\ UNCHANGED <<max_new, dispatched, sampled, total_gen, generated, tool_round, saved>>
    BY <1>8 DEF DecodeForward, turn, seen
  <2> QED BY <2>1 DEF Answered
<1>9. CASE DrawStop \/ DrawHeld \/ DrawShown \/ DrawOpen \/ DrawClose
  <2>1. /\ pc = "sample" /\ pc' = "decode"
        /\ generated' = generated + 1 /\ sampled' = sampled + 1
        /\ UNCHANGED <<max_new, dispatched, total_gen, tool_round, saved>>
    BY <1>9 DEF DrawStop, DrawHeld, DrawShown, DrawOpen, DrawClose, Draw, turn, context
  <2>2. ready' => tool_round
    <3>1. ready' = ready \/ ready' = tool_round
      BY <1>9 DEF DrawStop, DrawHeld, DrawShown, DrawOpen, DrawClose, filter
    <3> QED BY <2>1, <3>1 DEF Refusal
  <2> QED BY <2>1, <2>2 DEF Answered, Counters
<1>10. CASE DecodeEnd
  <2>1. /\ pc = "decode" /\ pc' = "finish" /\ total_gen' = total_gen + generated
        /\ UNCHANGED <<max_new, dispatched, sampled, tool_round, saved, ready>>
    BY <1>10 DEF DecodeEnd, seen, context, filter
  <2> QED BY <2>1 DEF Answered
<1>11. CASE Finish
  <2>1. /\ pc = "finish" /\ pc' = "after"
        /\ UNCHANGED <<max_new, dispatched, sampled, total_gen, tool_round, saved, ready>>
    BY <1>11 DEF Finish, turn, seen, context
  <2> QED BY <2>1 DEF Answered
<1>12. CASE Dispatch
  <2>1. /\ pc = "after" /\ pc' = "restore" /\ dispatched' = dispatched + 1 /\ max_new' = max_new
    BY <1>12 DEF Dispatch, turn
  <2>2. dispatched' # 0
    BY <2>1 DEF Counters
  <2> QED BY <2>1, <2>2 DEF Answered
<1>13. CASE Restore \/ DropSnapshot
  <2>1. /\ pc \in {"restore", "drop"} /\ pc' \in {"drop", "inject"}
        /\ UNCHANGED <<max_new, dispatched>>
    BY <1>13 DEF Restore, DropSnapshot, turn, seen
  <2> QED BY <2>1 DEF Answered
<1>14. CASE Inject
  <2>1. /\ pc = "inject" /\ pc' = "next_pass" /\ total_gen' = 0 /\ iter' = iter + 1
        /\ UNCHANGED <<max_new, dispatched>>
    BY <1>14 DEF Inject, seen
  <2>2. iter = 0 /\ max_new > 0 /\ dispatched # 0
    BY <2>1 DEF Fed, Rounds, Answered
  <2> QED BY <2>1, <2>2 DEF Answered, IterCap
<1>15. CASE Return
  <2>1. /\ pc' = "idle" /\ result' = total_gen
        /\ UNCHANGED <<max_new, dispatched, sampled, total_gen, ready>>
    BY <1>15 DEF Return, turn, filter
  <2>2. CASE pc = "after" /\ ~CallToRun
    <3>1. ASSUME ready PROVE dispatched = 0 /\ total_gen = max_new /\ sampled = total_gen
      <4>1. saved # NoSnap /\ iter = 0
        BY <2>2, <3>1 DEF Answered, Fed, Rounds
      <4>2. ~(total_gen < max_new)
        BY <2>2, <3>1, <4>1 DEF CallToRun
      <4>3. dispatched = 0
        BY <2>2, <4>1 DEF RoundsRun
      <4> QED BY <2>2, <4>2, <4>3 DEF Answered, Budget, Counters
    <3>2. dispatched = 0 => sampled = total_gen
      BY <2>2 DEF Answered
    <3> QED BY <2>1, <3>1, <3>2 DEF Answered
  <2>3. CASE pc = "next_pass" /\ ~(iter < IterCap /\ total_gen < max_new)
    <3>1. max_new = 0 /\ total_gen = 0 /\ iter = 0
      BY <2>3 DEF Answered, Counters
    <3>2. dispatched = 0 /\ sampled = 0
      BY <2>3, <3>1 DEF Answered, RoundsRun
    <3> QED BY <2>1, <3>1, <3>2 DEF Answered
  <2> QED BY <1>15, <2>2, <2>3 DEF Return
<1>16. CASE UNCHANGED vars
  <2>1. UNCHANGED <<pc, total_gen, iter, max_new, dispatched, tool_round, saved, ready, sampled,
                    generated, result>>
    BY <1>16 DEF vars, turn, seen, context, filter, pass
  <2> QED BY <2>1 DEF Answered
<1> QED BY <1>1, <1>2, <1>3, <1>4, <1>5, <1>6, <1>7, <1>8, <1>9, <1>10, <1>11, <1>12, <1>13,
           <1>14, <1>15, <1>16 DEF Next, Prompt, Decode, Round

LEMMA AnsweredReached == Spec => [](Answered /\ Counters /\ Fed)
<1>1. Init => RoundsRun /\ Answered
  BY DEF Init, RoundsRun, Answered, InTurn
<1>2. Counters /\ Budget /\ Refusal /\ Fed /\ RoundsRun /\ Answered /\ [Next]_vars
        => (RoundsRun /\ Answered)'
  BY RoundsRunStep, AnsweredStep
<1> QED BY <1>1, <1>2, CountersReached, FedReached, PTL DEF Spec

\* For any budget and any number of turns: a call that was completed is run,
\* unless its last token was the last of the budget.
THEOREM CallsAnswered == Spec => []CallsAreAnswered
<1>1. Answered => CallsAreAnswered
  BY DEF Answered, CallsAreAnswered
<1> QED BY <1>1, AnsweredReached, PTL

-----------------------------------------------------------------------------
(* The prompts of a history, from its first token on.                      *)

\* The token fed last is not t
After(h, t) == h # << >> => h[Len(h)] # t

Reads(h, f) ==
  /\ f \in [0..Len(h) -> Seq(Token)]
  /\ f[0] = << >>
  /\ \A i \in 1..Len(h) : f[i] = IF IsFramed(h, i) THEN Append(f[i - 1], h[i]) ELSE f[i - 1]

LEMMA PromptsRead ==
  ASSUME NEW h \in Seq(Token)
  PROVE  \E f : Reads(h, f) /\ Prompts(h) = f[Len(h)]
<1> DEFINE n == Len(h)
           V == Seq(Token)
           Adds(i, x) == IF IsFramed(h, i) THEN Append(x, h[i]) ELSE x
           Def(f) == f = [i \in 0..n |-> IF i = 0 THEN << >> ELSE
                                         IF IsFramed(h, i) THEN Append(f[i - 1], h[i]) ELSE f[i - 1]]
           F == [i \in 1..n |-> [x \in V |-> Adds(i, x)]]
           g == CHOOSE f : Def(f)
<1>1. n \in Nat
  OBVIOUS
<1>2. ASSUME NEW i \in 1..n, NEW x \in V PROVE Adds(i, x) \in V
  <2>1. h[i] \in Token
    OBVIOUS
  <2>2. Append(x, h[i]) \in V
    BY <2>1, AppendProperties
  <2> QED BY <2>2
<1>3. << >> \in V
  OBVIOUS
<1> HIDE DEF V, n, Adds
<1>4. F \in [1..n -> [V -> V]]
  BY <1>2
<1> HIDE DEF F
<1>5. PICK f \in [0..n -> V] : f[0] = << >> /\ \A i \in 1..n : f[i] = F[i][f[i - 1]]
  <2>1. IsDefined(n, V, << >>, F)
    BY <1>1, <1>3, <1>4, Recursion
  <2> QED BY <2>1 DEF IsDefined
<1>6. ASSUME NEW i \in 1..n PROVE f[i] = Adds(i, f[i - 1])
  <2>1. i - 1 \in 0..n
    BY <1>1
  <2>2. f[i - 1] \in V
    BY <2>1
  <2> QED BY <1>5, <2>2 DEF F
<1>7. Def(f)
  <2>1. ASSUME NEW i \in 0..n
        PROVE  f[i] = IF i = 0 THEN << >> ELSE
                      IF IsFramed(h, i) THEN Append(f[i - 1], h[i]) ELSE f[i - 1]
    <3>1. CASE i = 0
      BY <1>5, <3>1
    <3>2. CASE i # 0
      <4>1. i \in 1..n
        BY <1>1, <3>2
      <4> QED BY <1>6, <3>2, <4>1 DEF Adds
    <3> QED BY <3>1, <3>2
  <2> QED BY <2>1
<1>8. Def(g)
  <2> HIDE DEF Def
  <2> QED BY <1>7
<1>9. Prompts(h) = g[n]
  BY DEF Prompts, n
<1> HIDE DEF g
<1>10. g[0] = << >> /\ \A i \in 1..n : g[i] = Adds(i, g[i - 1])
  <2>1. g = [i \in 0..n |-> IF i = 0 THEN << >> ELSE
                            IF IsFramed(h, i) THEN Append(g[i - 1], h[i]) ELSE g[i - 1]]
    BY <1>8
  <2>2. 0 \in 0..n
    BY <1>1
  <2>3. g[0] = << >>
    BY <2>1, <2>2
  <2>4. ASSUME NEW i \in 1..n PROVE g[i] = Adds(i, g[i - 1])
    <3>1. i \in 0..n /\ i # 0
      BY <1>1
    <3> QED BY <2>1, <3>1 DEF Adds
  <2> QED BY <2>3, <2>4
<1>11. g \in [0..n -> V]
  <2> DEFINE T == {i \in 0..n : g[i] \in V}
  <2>1. 0 \in T
    BY <1>1, <1>3, <1>10
  <2>2. ASSUME NEW i \in 1..n, i - 1 \in T PROVE i \in T
    BY <1>2, <1>10, <2>2
  <2> HIDE DEF T
  <2>3. \A i \in 0..n : i \in T
    BY <1>1, <2>1, <2>2, UpTo
  <2> QED BY <1>8, <2>3 DEF T
<1>12. Reads(h, g)
  BY <1>10, <1>11 DEF Reads, Adds, V, n
<1> QED BY <1>9, <1>12 DEF n

LEMMA PromptsType ==
  ASSUME NEW h \in Seq(Token)
  PROVE  Prompts(h) \in Seq(Token)
<1>1. PICK f : Reads(h, f) /\ Prompts(h) = f[Len(h)]
  BY PromptsRead
<1>2. Len(h) \in 0..Len(h)
  OBVIOUS
<1> QED BY <1>1, <1>2 DEF Reads

\* One more token is one more prompt, unless it was sampled or fed twice.
LEMMA PromptsGrow ==
  ASSUME NEW h \in Seq(Token), NEW t \in Token
  PROVE  /\ t[1] # "gen" /\ After(h, t) => Prompts(h \o <<t>>) = Append(Prompts(h), t)
         /\ t[1] = "gen" \/ ~After(h, t) => Prompts(h \o <<t>>) = Prompts(h)
<1> DEFINE k == h \o <<t>>
           n == Len(h)
<1>1. n \in Nat /\ k \in Seq(Token) /\ Len(k) = n + 1
  BY FeedOne
<1>2. (\A i \in 1..n : k[i] = h[i]) /\ k[n + 1] = t
  <2>1. h \o <<t>> = Append(h, t)
    BY AppendIsConcat
  <2> QED BY <2>1, AppendProperties
<1> HIDE DEF k
<1>3. PICK f : Reads(h, f) /\ Prompts(h) = f[n]
  BY PromptsRead
<1>4. PICK g : Reads(k, g) /\ Prompts(k) = g[n + 1]
  BY <1>1, PromptsRead
<1>5. \A i \in 0..n : f[i] = g[i]
  <2> DEFINE S == {i \in 0..n : f[i] = g[i]}
  <2>1. 0 \in S
    BY <1>1, <1>3, <1>4 DEF Reads
  <2>2. ASSUME NEW i \in 1..n, i - 1 \in S PROVE i \in S
    <3>1. i \in 1..Len(h) /\ i \in 1..Len(k) /\ (i > 1 => i - 1 \in 1..n)
      BY <1>1
    <3>2. IsFramed(h, i) <=> IsFramed(k, i)
      BY <1>2, <3>1 DEF IsFramed
    <3>3. f[i] = IF IsFramed(h, i) THEN Append(f[i - 1], h[i]) ELSE f[i - 1]
      BY <1>3, <3>1 DEF Reads
    <3>4. g[i] = IF IsFramed(k, i) THEN Append(g[i - 1], k[i]) ELSE g[i - 1]
      BY <1>4, <3>1 DEF Reads
    <3>5. f[i - 1] = g[i - 1] /\ h[i] = k[i]
      BY <1>2, <2>2
    <3>6. f[i] = g[i]
      BY <3>2, <3>3, <3>4, <3>5
    <3> QED BY <3>6
  <2> HIDE DEF S
  <2>3. \A i \in 0..n : i \in S
    BY <1>1, <2>1, <2>2, UpTo
  <2> QED BY <2>3 DEF S
<1>6. g[n + 1] = IF IsFramed(k, n + 1) THEN Append(g[n], t) ELSE g[n]
  <2>1. n + 1 \in 1..Len(k) /\ (n + 1) - 1 = n
    BY <1>1
  <2>2. g[n + 1] = IF IsFramed(k, n + 1) THEN Append(g[(n + 1) - 1], k[n + 1]) ELSE g[(n + 1) - 1]
    BY <1>4, <2>1 DEF Reads
  <2> QED BY <1>2, <2>1, <2>2
<1>7. IsFramed(k, n + 1) <=> t[1] # "gen" /\ After(h, t)
  <2>1. (n + 1) - 1 = n /\ (n + 1 > 1 <=> h # << >>) /\ (n > 0 => k[n] = h[n])
    BY <1>1, <1>2
  <2>2. IsFramed(k, n + 1) <=> t[1] # "gen" /\ (n + 1 > 1 => t # k[n])
    BY <1>2, <2>1 DEF IsFramed
  <2>3. n + 1 > 1 => k[n] = h[Len(h)]
    BY <1>1, <2>1
  <2> QED BY <2>1, <2>2, <2>3 DEF After
<1>8. f[n] = g[n]
  BY <1>1, <1>5
<1> QED BY <1>3, <1>4, <1>6, <1>7, <1>8 DEF k

LEMMA Regrouped == \A a, b, c \in Seq(Token) : (a \o b) \o c = a \o (b \o c)
BY ConcatAssociative

\* What stands after the end of a text that another follows.
LEMMA Joined ==
  \A a, b \in Seq(Token) :
    /\ a \o b \in Seq(Token) /\ Len(a \o b) = Len(a) + Len(b)
    /\ \A i \in 1..Len(b) : (a \o b)[Len(a) + i] = b[i]
<1> SUFFICES ASSUME NEW a \in Seq(Token), NEW b \in Seq(Token)
             PROVE  /\ a \o b \in Seq(Token) /\ Len(a \o b) = Len(a) + Len(b)
                    /\ \A i \in 1..Len(b) : (a \o b)[Len(a) + i] = b[i]
  OBVIOUS
<1>1. /\ a \o b \in Seq(Token) /\ Len(a \o b) = Len(a) + Len(b)
      /\ \A i \in 1..Len(a) + Len(b) :
           (a \o b)[i] = IF i <= Len(a) THEN a[i] ELSE b[i - Len(a)]
  BY ConcatProperties
<1>2. Len(a) \in Nat /\ Len(b) \in Nat
  OBVIOUS
<1>3. ASSUME NEW i \in 1..Len(b) PROVE (a \o b)[Len(a) + i] = b[i]
  <2>1. /\ Len(a) + i \in 1..Len(a) + Len(b) /\ ~(Len(a) + i <= Len(a))
        /\ (Len(a) + i) - Len(a) = i
    BY <1>2
  <2> QED BY ONLY <1>1, <2>1
<1> QED BY <1>1, <1>3

LEMMA PartOneMore ==
  ASSUME NEW s \in Seq(Token), NEW m \in 1..Len(s)
  PROVE  SubSeq(s, 1, m) = SubSeq(s, 1, m - 1) \o <<s[m]>> /\ <<s[m]>> \in Seq(Token)
<1>1. m - 1 \in 0..Len(s) /\ m \in m - 1..Len(s) /\ (m - 1) + 1 = m /\ s[m] \in Token
  OBVIOUS
<1>2. SubSeq(s, 1, m - 1) \o SubSeq(s, m, m) = SubSeq(s, 1, m)
  BY <1>1, MorePart
<1>3. SubSeq(s, m, m) = <<s[m]>>
  <2>1. m \in Int /\ m <= m /\ \A i \in m..m : s[i] \in Token
    BY <1>1
  <2>2. /\ SubSeq(s, m, m) \in Seq(Token) /\ Len(SubSeq(s, m, m)) = 1
        /\ SubSeq(s, m, m)[1] = s[m]
    BY <2>1, SubSeqProperties
  <2>3. <<s[m]>> \in Seq(Token) /\ Len(<<s[m]>>) = 1 /\ <<s[m]>>[1] = s[m]
    BY <1>1
  <2>4. \A i \in 1..1 : SubSeq(s, m, m)[i] = <<s[m]>>[i]
    BY <2>2, <2>3
  <2> DEFINE a == SubSeq(s, m, m)
             b == <<s[m]>>
  <2>5. /\ a \in Seq(Token) /\ b \in Seq(Token) /\ Len(a) = 1 /\ Len(b) = 1
        /\ \A i \in 1..1 : a[i] = b[i]
    BY <2>2, <2>3, <2>4
  <2> HIDE DEF a, b
  <2>6. a = b
    BY <2>5, SeqEqual
  <2> QED BY <2>6 DEF a, b
<1> QED BY <1>1, <1>2, <1>3

\* A text to feed: none of it sampled, no token twice in a row.
Plain(s) ==
  /\ s \in Seq(Token)
  /\ \A i \in 1..Len(s) : s[i][1] # "gen"
  /\ \A i \in 2..Len(s) : s[i - 1] # s[i]

LEMMA PromptsFeed ==
  ASSUME NEW h \in Seq(Token), NEW s, Plain(s), s # << >> => After(h, s[1])
  PROVE  Prompts(h \o s) = Prompts(h) \o s
<1> DEFINE n == Len(s)
           S == {m \in 0..n : Prompts(h \o SubSeq(s, 1, m)) = Prompts(h) \o SubSeq(s, 1, m)}
<1>1. s \in Seq(Token) /\ n \in Nat /\ Prompts(h) \in Seq(Token)
  BY PromptsType DEF Plain
<1>2. 0 \in S
  <2>1. SubSeq(s, 1, 0) = << >>
    BY SubSeqEmpty
  <2>2. h \o << >> = h /\ Prompts(h) \o << >> = Prompts(h)
    BY <1>1, ConcatEmptySeq
  <2>3. Prompts(h \o SubSeq(s, 1, 0)) = Prompts(h) \o SubSeq(s, 1, 0)
    BY <2>1, <2>2
  <2>4. 0 \in 0..n
    BY <1>1
  <2> QED BY <2>3, <2>4
<1>3. ASSUME NEW m \in 1..n, m - 1 \in S PROVE m \in S
  <2> DEFINE p == SubSeq(s, 1, m - 1)
             t == s[m]
  <2>1. m - 1 \in 0..n /\ t \in Token /\ t[1] # "gen" /\ m \in Nat
    BY <1>1 DEF Plain
  <2>2. p \in Seq(Token) /\ Len(p) = m - 1 /\ \A i \in 1..m - 1 : p[i] = s[i]
    BY <1>1, <2>1, FirstPart
  <2>3. SubSeq(s, 1, m) = p \o <<t>> /\ <<t>> \in Seq(Token)
    BY <1>1, <2>1, PartOneMore
  <2>4. Prompts(h \o p) = Prompts(h) \o p
    BY <1>3
  <2>5. h \o p \in Seq(Token) /\ Len(h \o p) = Len(h) + Len(p)
        /\ \A i \in 1..Len(p) : (h \o p)[Len(h) + i] = p[i]
    BY <2>2, Joined
  <2>6. After(h \o p, t)
    <3>1. CASE m = 1
      <4>1. p = << >> /\ h \o p = h
        BY <2>2, <3>1, ConcatEmptySeq, EmptySeq
      <4>2. s # << >> /\ t = s[1]
        BY <1>1, <3>1
      <4> QED BY <4>1, <4>2
    <3>2. CASE m # 1
      <4>1. m \in 2..n /\ m - 1 \in 1..m - 1 /\ m - 1 \in 1..Len(p)
        BY <1>1, <2>2, <3>2
      <4>2. (h \o p)[Len(h \o p)] = s[m - 1]
        BY <2>2, <2>5, <4>1
      <4>3. s[m - 1] # t
        BY <4>1 DEF Plain
      <4> QED BY <4>2, <4>3 DEF After
    <3> QED BY <3>1, <3>2
  <2> HIDE DEF p, t
  <2>7. Prompts((h \o p) \o <<t>>) = Append(Prompts(h \o p), t)
    BY <2>1, <2>5, <2>6, PromptsGrow
  <2>8. (h \o p) \o <<t>> = h \o (p \o <<t>>)
    BY <2>2, <2>3, ConcatAssociative
  <2>9. Append(Prompts(h) \o p, t) = Prompts(h) \o (p \o <<t>>)
    <3>1. Prompts(h) \o p \in Seq(Token)
      BY <1>1, <2>2, ConcatProperties
    <3>2. Append(Prompts(h) \o p, t) = (Prompts(h) \o p) \o <<t>>
      BY <2>1, <3>1, AppendIsConcat
    <3>3. <<t>> \in Seq(Token)
      BY <2>3
    <3>4. (Prompts(h) \o p) \o <<t>> = Prompts(h) \o (p \o <<t>>)
      BY <1>1, <2>2, <3>3, Regrouped
    <3> QED BY <3>2, <3>4
  <2>10. Prompts(h \o SubSeq(s, 1, m)) = Prompts(h) \o SubSeq(s, 1, m)
    BY <2>3, <2>4, <2>7, <2>8, <2>9
  <2> QED BY <2>10
<1> HIDE DEF S
<1>4. \A m \in 0..n : m \in S
  BY <1>1, <1>2, <1>3, UpTo
<1>5. n \in S /\ SubSeq(s, 1, n) = s
  BY <1>1, <1>4, SubSeqFull
<1> QED BY <1>5 DEF S

-----------------------------------------------------------------------------
(* The log.                                                                *)

\* What a call logs, from its first pass to its last
Logs == IF iter = 0 THEN TurnDelta ELSE TurnDelta \o ToolResult

\* No text of a turn begins with the token fed last
Open(h) == After(h, <<"user", 1>>)

Heard ==
  /\ pc \in {"idle", "framing"} => Open(hist)
  /\ InTurn => Open(before)
  /\ pc \in {"prefilled", "decode", "sample", "finish", "after"} =>
       Prompts(hist) = Prompts(Base \o cur) /\ Open(hist)
  /\ pc \in {"prefilled", "decode"} /\ ~stop => last[1] = "gen" \/ ~After(hist, last)

\* What the last call logged is what it fed, or a prompt it did not feed
CallDone ==
  /\ ids = logged \o Added
  /\ IF max_new > 0 THEN Prompts(hist) = Prompts(before) \o Added
                    ELSE Added = TurnDelta /\ hist = before

Written ==
  /\ turns \in Nat /\ logged \in Seq(Token)
  /\ turns > 0 => committed
  /\ pc = "framing" => ~committed
  /\ InTurn => ids = logged \o Logs
  /\ InTurn /\ saved # NoSnap => saved["snap"].ids_count = Len(ids)
  /\ pc = "idle" /\ turns > 0 => CallDone

LEMMA Plains ==
  /\ Plain(SystemBlock) /\ Plain(TurnDelta) /\ Plain(ToolResult)
  /\ \A i \in 1..SystemLen : SystemBlock[i] = <<"system", i>>
  /\ \A i \in 1..TurnLen : TurnDelta[i] = <<"user", i>>
  /\ \A i \in 1..ResultLen : ToolResult[i] = <<"result", i>>
<1>1. /\ \A i \in 1..SystemLen : SystemBlock[i] = <<"system", i>>
      /\ \A i \in 1..TurnLen : TurnDelta[i] = <<"user", i>>
      /\ \A i \in 1..ResultLen : ToolResult[i] = <<"result", i>>
  BY DEF SystemBlock, TurnDelta, ToolResult, Framed
<1>2. ASSUME NEW kind \in {"system", "user", "result"}, NEW n \in Nat, NEW s \in Seq(Token),
             Len(s) = n, \A i \in 1..n : s[i] = <<kind, i>>
      PROVE  Plain(s)
  <2>1. \A i \in 1..n : s[i][1] # "gen"
    BY <1>2
  <2>2. \A i \in 2..n : i - 1 \in 1..n /\ i \in 1..n /\ <<kind, i - 1>> # <<kind, i>>
    OBVIOUS
  <2>3. \A i \in 2..n : s[i - 1] # s[i]
    BY <1>2, <2>2
  <2> QED BY <1>2, <2>1, <2>3 DEF Plain
<1> QED BY <1>1, <1>2, Texts, LengthsAssumption

\* The text of a turn ends with a token that opens none.
LEMMA TurnEnds ==
  ASSUME NEW h \in Seq(Token)
  PROVE  /\ h \o TurnDelta \in Seq(Token)
         /\ (h \o TurnDelta)[Len(h \o TurnDelta)] = <<"user", TurnLen>>
<1>1. /\ h \o TurnDelta \in Seq(Token) /\ Len(h \o TurnDelta) = Len(h) + Len(TurnDelta)
      /\ \A i \in 1..Len(TurnDelta) : (h \o TurnDelta)[Len(h) + i] = TurnDelta[i]
  BY Texts, Joined
<1>2. TurnLen \in 1..TurnLen /\ Len(TurnDelta) = TurnLen
  BY Texts, LengthsAssumption
<1> QED BY <1>1, <1>2, Plains

\* The prompts of a pass are those before the call and what the call logged.
LEMMA PassPrompts ==
  ASSUME Fed, InTurn, Open(before)
  PROVE  Prompts(Base \o cur) = Prompts(before) \o Logs
<1>1. before \in Seq(Token) /\ Prompts(before) \in Seq(Token)
  BY PromptsType DEF Fed
<1>2. TurnDelta[1] = <<"user", 1>> /\ ToolResult[1] = <<"result", 1>>
  <2>1. 1 \in 1..TurnLen /\ 1 \in 1..ResultLen
    BY LengthsAssumption
  <2> QED BY <2>1, Plains
<1>3. Prompts(before \o TurnDelta) = Prompts(before) \o TurnDelta
  BY <1>1, <1>2, Plains, PromptsFeed DEF Open
<1>4. CASE iter = 0
  BY <1>3, <1>4 DEF Fed, Rounds, Base, PassPrompt, Logs
<1>5. CASE iter # 0
  <2> DEFINE h == before \o TurnDelta
  <2>1. h \in Seq(Token) /\ h[Len(h)] = <<"user", TurnLen>>
    BY <1>1, TurnEnds
  <2>2. <<"user", TurnLen>> # <<"result", 1>>
    OBVIOUS
  <2>3. After(h, ToolResult[1])
    <3> HIDE DEF h
    <3> QED BY <1>2, <2>1, <2>2 DEF After
  <2>4. Prompts(h \o ToolResult) = Prompts(h) \o ToolResult
    <3> HIDE DEF h
    <3> QED BY <2>1, <2>3, Plains, PromptsFeed
  <2>5. (Prompts(before) \o TurnDelta) \o ToolResult = Prompts(before) \o (TurnDelta \o ToolResult)
    BY <1>1, Texts, Regrouped
  <2>6. Base \o cur = h \o ToolResult /\ Logs = TurnDelta \o ToolResult
    BY <1>5 DEF Fed, Rounds, Base, PassPrompt, Logs
  <2> QED BY <1>3, <2>4, <2>5, <2>6
<1> QED BY <1>4, <1>5

\* A pass ends its prompt with a token that opens no turn.
LEMMA PassEnds ==
  ASSUME Fed, InTurn
  PROVE  (Base \o cur)[Len(Base \o cur)] = cur[Len(cur)] /\ cur[Len(cur)] # <<"user", 1>>
<1>1. Base \in Seq(Token) /\ cur \in Seq(Token) /\ Len(cur) \in Nat \ {0}
  BY PassTypes
<1>2. /\ Len(Base \o cur) = Len(Base) + Len(cur)
      /\ \A i \in 1..Len(cur) : (Base \o cur)[Len(Base) + i] = cur[i]
  BY <1>1, Joined
<1>3. (Base \o cur)[Len(Base \o cur)] = cur[Len(cur)]
  BY <1>1, <1>2
<1>4. CASE cur = TurnDelta
  <2>1. TurnLen \in 1..TurnLen /\ Len(cur) = TurnLen /\ TurnLen # 1
    BY <1>4, Texts, LengthsAssumption, FramesAssumption
  <2>2. cur[Len(cur)] = <<"user", TurnLen>>
    BY <1>4, <2>1, Plains
  <2> QED BY <1>3, <2>1, <2>2
<1>5. CASE cur = ToolResult
  <2>1. ResultLen \in 1..ResultLen /\ Len(cur) = ResultLen
    BY <1>5, Texts, LengthsAssumption
  <2>2. cur[Len(cur)] = <<"result", ResultLen>>
    BY <1>5, <2>1, Plains
  <2> QED BY <1>3, <2>2
<1> QED BY <1>4, <1>5 DEF Fed, Rounds, PassPrompt

LEMMA LoggedType ==
  ASSUME Written, InTurn
  PROVE  Logs \in Seq(Token) /\ ids = logged \o Logs /\ logged \in Seq(Token) /\ Added = Logs
<1>1. Logs \in Seq(Token)
  BY Texts, ConcatProperties DEF Logs
<1>2. ids = logged \o Logs /\ logged \in Seq(Token)
  BY DEF Written
<1>3. SubSeq(logged \o Logs, Len(logged) + 1, Len(logged \o Logs)) = Logs
  <2>1. /\ Len(logged \o Logs) = Len(logged) + Len(Logs)
        /\ Len(logged) + 1 \in Len(logged) + 1..Len(logged) + Len(Logs) + 1
        /\ Len(logged) \in Nat /\ Len(Logs) \in Nat
    BY <1>1, <1>2, ConcatProperties
  <2> DEFINE a == logged
             b == Logs
             c == a \o b
  <2>2. a \in Seq(Token) /\ b \in Seq(Token) /\ c \in Seq(Token) /\ Len(c) = Len(a) + Len(b)
        /\ \A i \in 1..Len(b) : c[Len(a) + i] = b[i]
    BY <1>1, <1>2, Joined
  <2> HIDE DEF a, b, c
  <2>3. \A i \in Len(a) + 1..Len(c) : c[i] \in Token
    BY <2>2
  <2>4. Len(a) + 1 \in Int /\ Len(c) \in Int /\ Len(c) - (Len(a) + 1) + 1 = Len(b)
    BY <2>2
  <2>5. /\ SubSeq(c, Len(a) + 1, Len(c)) \in Seq(Token)
        /\ Len(SubSeq(c, Len(a) + 1, Len(c))) = IF Len(a) + 1 <= Len(c) THEN Len(b) ELSE 0
        /\ \A i \in 1..Len(b) : SubSeq(c, Len(a) + 1, Len(c))[i] = c[Len(a) + 1 + i - 1]
    BY <2>3, <2>4, SubSeqProperties
  <2>6. Len(SubSeq(c, Len(a) + 1, Len(c))) = Len(b)
    BY <2>2, <2>5
  <2>7. \A i \in 1..Len(b) : SubSeq(c, Len(a) + 1, Len(c))[i] = b[i]
    <3>1. \A i \in 1..Len(b) : Len(a) + 1 + i - 1 = Len(a) + i
      BY <2>2
    <3> QED BY <2>2, <2>5, <3>1
  <2>8. SubSeq(c, Len(a) + 1, Len(c)) = b
    <3> DEFINE d == SubSeq(c, Len(a) + 1, Len(c))
    <3>1. d \in Seq(Token) /\ Len(d) = Len(b) /\ \A i \in 1..Len(b) : d[i] = b[i]
      BY <2>5, <2>6, <2>7
    <3> HIDE DEF d
    <3>2. d = b
      BY <2>2, <3>1, SeqEqual
    <3> QED BY <3>2 DEF d
  <2> QED BY <2>8 DEF a, b, c
<1> QED BY <1>1, <1>2, <1>3 DEF Added

LEMMA HeardStep ==
  ASSUME Counters, Fed, Answered, Heard, [Next]_vars
  PROVE  Heard'
<1> USE DEF Goto, InTurn
<1>1. CASE SystemPrompt \/ SystemCommit \/ SetTools
  <2>1. /\ pc \in {"idle", "framing"} /\ pc' \in {"idle", "framing"} /\ hist' = hist
    BY <1>1 DEF SystemPrompt, SystemCommit, SetTools, context
  <2> QED BY <2>1 DEF Heard, Open, After
<1>2. CASE SystemStep
  <2>1. /\ pc = "framing" /\ pc' \in {"framing", "idle"} /\ fed < SystemLen
        /\ hist' = hist \o <<SystemBlock[fed + 1]>>
    BY <1>2 DEF SystemStep, Feed
  <2>2. fed + 1 \in 1..SystemLen /\ hist \in Seq(Token)
    BY <2>1, LengthsAssumption DEF Fed, Counters
  <2>3. SystemBlock[fed + 1] = <<"system", fed + 1>> /\ SystemBlock[fed + 1] \in Token
    BY <2>2, Plains, Texts
  <2>4. hist'[Len(hist')] = SystemBlock[fed + 1]
    <3>1. hist' = Append(hist, SystemBlock[fed + 1])
      BY <2>1, <2>2, <2>3, AppendIsConcat
    <3> QED BY <2>2, <2>3, <3>1, AppendProperties
  <2>5. Open(hist')
    BY <2>3, <2>4 DEF Open, After
  <2> QED BY <2>1, <2>5 DEF Heard, Open, After
<1>3. CASE Generate
  <2>1. pc = "idle" /\ pc' = "next_pass" /\ before' = hist
    BY <1>3 DEF Generate
  <2> QED BY <2>1 DEF Heard, Open, After
<1>4. CASE StartPass \/ Prefill \/ Overrun
  <2>1. /\ pc \in {"next_pass", "prefill", "framing"} /\ pc' \in {"prefill", "overrun"}
        /\ before' = before /\ (pc = "framing" => pc' = "overrun")
    BY <1>4 DEF StartPass, Prefill, Overrun, seen
  <2> QED BY <2>1 DEF Heard, Open, After
<1>5. CASE DecisionPoint
  <2>1. /\ pc = "prefill" /\ pc' = "prefilled" /\ fed = Len(cur)
        /\ UNCHANGED <<hist, before, cur, iter, last>>
    BY <1>5 DEF DecisionPoint, turn, seen, pass
  <2>2. hist = Base \o SubSeq(cur, 1, fed) /\ last = cur[Len(cur)] /\ cur \in Seq(Token)
    BY <2>1, PassTypes DEF Fed, Follows, NextFed
  <2>3. hist = Base \o cur
    BY <2>1, <2>2, SubSeqFull
  <2>4. hist[Len(hist)] = last /\ last # <<"user", 1>> /\ hist # << >>
    <3>1. Len(cur) # 0 /\ Base \in Seq(Token)
      BY <2>1, PassTypes
    <3>2. Base \o cur # << >>
      BY <2>2, <3>1, ConcatProperties, EmptySeq
    <3> QED BY <2>1, <2>2, <2>3, <3>2, PassEnds
  <2>5. Base' = Base
    BY <2>1 DEF Base
  <2>6. Prompts(hist') = Prompts(Base' \o cur')
    BY <2>1, <2>3, <2>5
  <2> QED BY <2>1, <2>4, <2>6 DEF Heard, Open, After
<1>6. CASE Prefilled \/ DrawStop \/ DrawHeld \/ DrawShown \/ DrawOpen \/ DrawClose
              \/ DecodeEnd \/ Finish
  <2>1. UNCHANGED <<hist, before, cur, iter>>
    BY <1>6 DEF Prefilled, DrawStop, DrawHeld, DrawShown, DrawOpen, DrawClose, Draw, DecodeEnd,
                Finish, turn, seen, context
  <2>2. /\ pc \in {"prefilled", "decode", "sample", "finish"}
        /\ pc' \in {"decode", "finish", "after"}
    BY <1>6 DEF Prefilled, DrawStop, DrawHeld, DrawShown, DrawOpen, DrawClose, Draw, DecodeEnd,
                Finish
  <2>3. pc' = "decode" /\ ~stop' => last'[1] = "gen" \/ ~After(hist', last')
    <3>1. CASE Prefilled
      <4>1. pc = "prefilled" /\ UNCHANGED <<last, stop, hist>>
        BY <3>1 DEF Prefilled, pass, context
      <4> QED BY <4>1 DEF Heard, After
    <3>2. CASE DrawStop \/ DrawHeld \/ DrawShown \/ DrawOpen \/ DrawClose
      <4>1. stop' \/ last' = <<"gen", iter>>
        BY <3>2 DEF DrawStop, DrawHeld, DrawShown, DrawOpen, DrawClose, Draw
      <4> QED BY <4>1
    <3>3. CASE DecodeEnd \/ Finish
      BY <3>3 DEF DecodeEnd, Finish
    <3> QED BY <1>6, <3>1, <3>2, <3>3
  <2>4. Base' = Base
    BY <2>1 DEF Base
  <2> QED BY <2>1, <2>2, <2>3, <2>4 DEF Heard, Open, After
<1>7. CASE DecodeForward
  <2>1. /\ pc = "decode" /\ pc' = "sample" /\ ~stop /\ hist' = hist \o <<last>>
        /\ UNCHANGED <<before, cur, iter>>
    BY <1>7 DEF DecodeForward, MoreToDecode, Feed, turn, seen
  <2>2. last \in Token /\ hist \in Seq(Token)
    <3>1. last = NextFed(generated) /\ generated \in Nat
      BY <2>1 DEF Fed, Follows
    <3> QED BY <2>1, <3>1, PassTypes DEF Fed
  <2>3. Prompts(hist) = Prompts(Base \o cur) /\ Open(hist) /\ (last[1] = "gen" \/ ~After(hist, last))
    BY <2>1 DEF Heard
  <2>4. Prompts(hist') = Prompts(hist)
    BY <2>1, <2>2, <2>3, PromptsGrow
  <2>5. hist'[Len(hist')] = last
    <3>1. hist' = Append(hist, last)
      BY <2>1, <2>2, AppendIsConcat
    <3> QED BY <2>2, <3>1, AppendProperties
  <2>6. Open(hist')
    <3>1. CASE last[1] = "gen"
      <4>1. last # <<"user", 1>>
        BY <3>1
      <4> QED BY <2>5, <4>1 DEF Open, After
    <3>2. CASE ~After(hist, last)
      BY <2>3, <2>5, <3>2 DEF Open, After
    <3> QED BY <2>3, <3>1, <3>2
  <2>7. Base' = Base
    BY <2>1 DEF Base
  <2>8. Prompts(hist') = Prompts(Base' \o cur')
    BY <2>1, <2>3, <2>4, <2>7
  <2>9. Open(before')
    BY <2>1 DEF Heard
  <2> QED BY <2>1, <2>6, <2>8, <2>9 DEF Heard, Open, After
<1>8. CASE Dispatch \/ Restore \/ DropSnapshot \/ Inject
  <2>1. /\ pc \in {"after", "restore", "drop", "inject"}
        /\ pc' \in {"restore", "drop", "inject", "next_pass"} /\ before' = before
    BY <1>8 DEF Dispatch, Restore, DropSnapshot, Inject, seen
  <2> QED BY <2>1 DEF Heard, Open, After
<1>9. CASE Return
  <2>1. pc' = "idle" /\ hist' = hist
    BY <1>9 DEF Return
  <2>2. Open(hist)
    <3>1. CASE pc = "after"
      BY <3>1 DEF Heard
    <3>2. CASE pc = "next_pass" /\ ~(iter < IterCap /\ total_gen < max_new)
      <4>1. iter = 0
        BY <3>2 DEF Answered, Counters
      <4>2. hist = before
        BY <3>2, <4>1 DEF Fed, Follows, Base
      <4> QED BY <3>2, <4>2 DEF Heard
    <3> QED BY <1>9, <3>1, <3>2 DEF Return
  <2> QED BY <2>1, <2>2 DEF Heard, Open, After
<1>10. CASE UNCHANGED vars
  <2>1. UNCHANGED <<pc, hist, before, cur, iter, stop, last>>
    BY <1>10 DEF vars, context, turn, pass, seen
  <2>2. Base' = Base
    BY <2>1 DEF Base
  <2> QED BY <2>1, <2>2 DEF Heard, Open, After
<1> QED BY <1>1, <1>2, <1>3, <1>4, <1>5, <1>6, <1>7, <1>8, <1>9, <1>10
        DEF Next, System, Prompt, Decode, Round

LEMMA WrittenStep ==
  ASSUME Counters, Fed, Answered, Heard, Written, [Next]_vars
  PROVE  Written'
<1> USE DEF Goto, InTurn
<1>1. CASE System
  <2>1. /\ pc \in {"idle", "framing"} /\ pc' \in {"idle", "framing"} /\ ~committed
        /\ UNCHANGED <<turns, logged>> /\ (pc' = "framing" => ~committed')
    BY <1>1 DEF System, SystemPrompt, SystemStep, SystemCommit, seen, conv, Written
  <2>2. turns = 0
    BY <2>1 DEF Written
  <2> QED BY <2>1, <2>2 DEF Written
<1>2. CASE SetTools \/ UNCHANGED vars
  <2>1. /\ UNCHANGED <<pc, turns, logged, committed, hist, ids, saved, before, max_new, iter>>
    BY <1>2 DEF SetTools, context, turn, seen, vars, conv
  <2>2. Added' = Added /\ Logs' = Logs
    BY <2>1 DEF Added, Logs
  <2>3. CallDone' = CallDone
    BY <2>1, <2>2 DEF CallDone
  <2> QED BY <2>1, <2>2, <2>3 DEF Written
<1>3. CASE Generate
  <2>1. /\ pc = "idle" /\ pc' = "next_pass" /\ committed /\ committed' = committed
        /\ turns' = turns + 1 /\ logged' = ids /\ ids' = ids \o TurnDelta /\ iter' = 0
        /\ saved' = saved
    BY <1>3 DEF Generate
  <2>2. saved = NoSnap /\ ids \in Seq(Token)
    BY <2>1 DEF Fed, Rounds
  <2> QED BY <2>1, <2>2 DEF Written, Logs
<1>4. CASE StartPass \/ Overrun \/ Prefill \/ Prefilled \/ Decode \/ Dispatch
  <2>1. UNCHANGED <<ids, saved, iter, turns, logged, committed>>
    BY <1>4 DEF StartPass, Overrun, Prefill, Prefilled, Decode, DecodeForward, DrawStop, DrawHeld,
                DrawShown, DrawOpen, DrawClose, Draw, DecodeEnd, Finish, Dispatch,
                context, turn, seen, conv
  <2>2. /\ InTurn \/ pc' = "overrun"
        /\ pc' \notin {"idle", "framing"}
    BY <1>4 DEF StartPass, Overrun, Prefill, Prefilled, Decode, DecodeForward, DrawStop, DrawHeld,
                DrawShown, DrawOpen, DrawClose, Draw, DecodeEnd, Finish, Dispatch
  <2>3. Logs' = Logs
    BY <2>1 DEF Logs
  <2> QED BY <2>1, <2>2, <2>3 DEF Written
<1>5. CASE DecisionPoint
  <2>1. /\ pc = "prefill" /\ pc' = "prefilled"
        /\ UNCHANGED <<ids, iter, turns, logged, committed>>
        /\ saved' = IF tool_round /\ saved = NoSnap
                    THEN [s \in {"snap"} |-> Snapshot(cpos')] ELSE saved
    BY <1>5 DEF DecisionPoint, turn, seen, conv
  <2>2. saved' # NoSnap => saved'["snap"].ids_count = Len(ids)
    BY <2>1 DEF Snapshot, Written
  <2>3. Logs' = Logs
    BY <2>1 DEF Logs
  <2> QED BY <2>1, <2>2, <2>3 DEF Written
<1>6. CASE Restore \/ DropSnapshot
  <2>1. /\ pc \in {"restore", "drop"} /\ pc' \in {"drop", "inject"}
        /\ saved' = saved \/ saved' = NoSnap
        /\ UNCHANGED <<iter, turns, logged, committed>>
    BY <1>6 DEF Restore, DropSnapshot, turn, seen, conv
  <2>2. ids' = ids
    <3>1. CASE Restore
      <4>1. saved # NoSnap /\ ids \in Seq(Token)
        BY <3>1 DEF Restore, Fed, Rounds
      <4>2. saved["snap"].ids_count = Len(ids)
        BY <3>1, <4>1 DEF Restore, Written
      <4>3. ids' = SubSeq(ids, 1, Len(ids))
        BY <3>1, <4>2 DEF Restore
      <4> QED BY <4>1, <4>3, SubSeqFull
    <3>2. CASE DropSnapshot
      BY <3>2 DEF DropSnapshot
    <3> QED BY <1>6, <3>1, <3>2
  <2>3. Logs' = Logs
    BY <2>1 DEF Logs
  <2> QED BY <2>1, <2>2, <2>3 DEF Written
<1>7. CASE Inject
  <2>1. /\ pc = "inject" /\ pc' = "next_pass" /\ ids' = ids \o ToolResult /\ iter' = iter + 1
        /\ UNCHANGED <<saved, turns, logged, committed>>
    BY <1>7 DEF Inject, seen, conv
  <2>2. iter = 0 /\ saved = NoSnap /\ logged \in Seq(Token) /\ ids = logged \o TurnDelta
    BY <2>1 DEF Fed, Rounds, Written, Logs
  <2>3. (logged \o TurnDelta) \o ToolResult = logged \o (TurnDelta \o ToolResult)
    BY <2>2, Texts, Regrouped
  <2>4. ids' = logged' \o Logs'
    BY <2>1, <2>2, <2>3 DEF Logs
  <2> QED BY <2>1, <2>2, <2>4 DEF Written
<1>8. CASE Return
  <2>1. /\ pc' = "idle" /\ UNCHANGED <<hist, before, ids, iter, max_new, turns, logged, committed>>
    BY <1>8 DEF Return, turn, conv
  <2>2. pc \in {"after", "next_pass"} /\ InTurn
    BY <1>8 DEF Return
  <2>3. Added = Logs /\ ids = logged \o Logs
    BY <2>2, LoggedType
  <2>4. CallDone
    <3>1. CASE pc = "after"
      <4>1. max_new > 0 /\ Prompts(hist) = Prompts(Base \o cur) /\ Open(before)
        BY <3>1 DEF Answered, Heard
      <4>2. Prompts(hist) = Prompts(before) \o Logs
        BY <2>2, <4>1, PassPrompts
      <4> QED BY <2>3, <4>1, <4>2 DEF CallDone
    <3>2. CASE pc = "next_pass" /\ ~(iter < IterCap /\ total_gen < max_new)
      <4>1. max_new = 0 /\ iter = 0
        BY <3>2 DEF Answered, Counters
      <4>2. hist = before
        BY <3>2, <4>1 DEF Fed, Follows, Base
      <4> QED BY <2>3, <4>1, <4>2 DEF CallDone, Logs
    <3> QED BY <1>8, <3>1, <3>2 DEF Return
  <2>5. Added' = Added
    BY <2>1 DEF Added
  <2>6. CallDone'
    BY <2>1, <2>4, <2>5 DEF CallDone
  <2> QED BY <2>1, <2>6 DEF Written
<1> QED BY <1>1, <1>2, <1>3, <1>4, <1>5, <1>6, <1>7, <1>8 DEF Next, Prompt, Round

\* After any number of calls, with or without a tool round or a budget: what a
\* call added to the log is what it fed the model as prompts, or, without a
\* budget, a prompt the model never reads.
THEOREM CallsLogTheirPrompts == Spec => []CallLogsItsPrompts
<1>1. Init => Heard /\ Written
  BY EmptySeq DEF Init, Heard, Written, Open, After, InTurn
<1>2. Answered /\ Counters /\ Fed /\ Heard /\ Written /\ [Next]_vars => (Heard /\ Written)'
  BY HeardStep, WrittenStep
<1>3. Written => CallLogsItsPrompts
  BY DEF Written, CallDone, CallLogsItsPrompts
<1> QED BY <1>1, <1>2, <1>3, AnsweredReached, PTL DEF Spec

-----------------------------------------------------------------------------
(* The refinement of History.                                              *)

\* What History is told of the snapshot
View == [s \in DOMAIN saved |->
           [hist |-> saved[s].hist, rng |-> 0, ids |-> SubSeq(ids, 1, saved[s].ids_count)]]

LEMMA MoreFed ==
  ASSUME Fed, NEW ts \in Seq(Token), Len(ts) >= 1, Feed(ts), UNCHANGED <<ids, saved>>
  PROVE  H!Feed
<1>1. hist \in Seq(Token) /\ hist' = hist \o ts /\ logits' = hist'
  BY DEF Fed, Feed
<1>2. Len(hist \o ts) = Len(hist) + Len(ts) /\ Len(hist) \in Nat /\ Len(ts) \in Nat
  BY <1>1
<1>3. hist' # hist
  BY <1>1, <1>2
<1>4. H!Extends(hist', hist)
  <2>1. hist \o ts \in Seq(Token) /\ Len(hist) <= Len(hist \o ts)
    BY <1>1, <1>2
  <2>2. \A i \in 1..Len(hist) : (hist \o ts)[i] = hist[i]
    BY <1>1
  <2> QED BY <1>1, <2>1, <2>2 DEF H!Extends
<1>5. View' = View
  BY DEF View
<1> QED BY <1>1, <1>3, <1>4, <1>5 DEF H!Feed, View

LEMMA MoreLogged ==
  ASSUME Fed, NEW ts \in Seq(Token), ids' = ids \o ts, saved = NoSnap,
         UNCHANGED <<hist, logits, saved>>
  PROVE  H!Log
<1>1. ids \in Seq(Token)
  BY DEF Fed
<1>2. H!Extends(ids', ids)
  <2>1. ids \o ts \in Seq(Token) /\ Len(ids) <= Len(ids \o ts)
    BY <1>1
  <2>2. \A i \in 1..Len(ids) : (ids \o ts)[i] = ids[i]
    BY <1>1
  <2> QED BY <2>1, <2>2 DEF H!Extends
<1>3. DOMAIN saved = {} /\ DOMAIN saved' = {}
  BY DEF NoSnap
<1>4. View' = View
  BY <1>3 DEF View
<1> QED BY <1>2, <1>4 DEF H!Log, View

LEMMA DecisionSaves ==
  ASSUME Fed, DecisionPoint, tool_round, saved = NoSnap
  PROVE  H!Save("snap")
<1>1. /\ pc = "prefill" /\ saved' = [s \in {"snap"} |-> Snapshot(pos)]
      /\ UNCHANGED <<hist, logits, ids>>
  BY DEF DecisionPoint, Goto
<1>2. hist \in Seq(Token) /\ ids \in Seq(Token) /\ pos = Len(hist)
  BY <1>1 DEF Fed, Place, InPass
<1>3. SubSeq(hist, 1, pos) = hist /\ SubSeq(ids, 1, Len(ids)) = ids
  BY <1>2, SubSeqFull
<1>4. /\ DOMAIN saved = {} /\ DOMAIN saved' = {"snap"}
      /\ saved'["snap"].hist = hist /\ saved'["snap"].ids_count = Len(ids)
  BY <1>1, <1>3 DEF NoSnap, Snapshot
<1>5. DOMAIN View = {}
  BY <1>4 DEF View
<1>6. View' = [s \in {"snap"} |-> [hist |-> hist, rng |-> 0, ids |-> ids]]
  BY <1>1, <1>3, <1>4 DEF View
<1>7. View' = [t \in DOMAIN View \union {"snap"} |->
                 IF t = "snap" THEN [hist |-> hist, rng |-> 0, ids |-> ids] ELSE View[t]]
  BY <1>5, <1>6
<1> HIDE DEF View
<1>8. View' = [s \in DOMAIN saved' |->
                 [hist |-> saved'[s].hist, rng |-> 0,
                  ids |-> SubSeq(ids', 1, saved'[s].ids_count)]]
  BY DEF View
<1> QED BY <1>1, <1>5, <1>7 DEF H!Save, View

LEMMA RestoreRestores ==
  ASSUME Fed, Restore
  PROVE  H!Restore("snap")
<1> DEFINE c == saved["snap"].ids_count
<1>1. /\ pc = "restore" /\ hist' = saved["snap"].hist /\ ids' = SubSeq(ids, 1, c)
      /\ UNCHANGED <<logits, saved>>
  BY DEF Restore, Goto
<1>2. /\ saved = [s \in {"snap"} |-> saved["snap"]] /\ c \in 0..Len(ids) /\ ids \in Seq(Token)
  BY <1>1 DEF Fed, Rounds, Snaps
<1>3. SubSeq(ids, 1, c) \in Seq(Token) /\ Len(SubSeq(ids, 1, c)) = c
  BY <1>2, FirstPart
<1>4. SubSeq(ids', 1, c) = SubSeq(ids, 1, c)
  BY <1>1, <1>3, SubSeqFull
<1>5. DOMAIN saved = {"snap"}
  BY <1>2
<1>6. View' = View
  BY <1>1, <1>4, <1>5 DEF View
<1>7. "snap" \in DOMAIN View /\ View["snap"].hist = hist' /\ View["snap"].ids = ids'
      /\ View["snap"].rng = 0
  BY <1>1, <1>5 DEF View
<1> QED BY <1>1, <1>6, <1>7 DEF H!Restore, View

LEMMA DropFrees ==
  ASSUME Fed, saved' = NoSnap, UNCHANGED <<hist, logits, ids>>
  PROVE  H!Free("snap")
<1>1. DOMAIN saved \subseteq {"snap"} /\ DOMAIN saved' = {}
  BY DEF Fed, Snaps, NoSnap
<1>2. DOMAIN View \ {"snap"} = {} /\ DOMAIN View' = {}
  BY <1>1 DEF View
<1>3. View' = [t \in DOMAIN View \ {"snap"} |-> View[t]]
  BY <1>1, <1>2 DEF View
<1> QED BY <1>3 DEF H!Free, View

LEMMA FeedingFeeds ==
  ASSUME Counters, Fed, SystemStep \/ Prefill \/ DecodeForward
  PROVE  H!Feed
<1>1. CASE SystemStep
  <2>1. fed + 1 \in 1..Len(SystemBlock)
    BY <1>1, Texts, LengthsAssumption DEF SystemStep, Counters
  <2>2. SystemBlock[fed + 1] \in Token
    BY <2>1, Texts
  <2>3. <<SystemBlock[fed + 1]>> \in Seq(Token) /\ Len(<<SystemBlock[fed + 1]>>) >= 1
    BY <2>2
  <2>4. Feed(<<SystemBlock[fed + 1]>>) /\ UNCHANGED <<ids, saved>>
    BY <1>1 DEF SystemStep
  <2> QED BY <2>3, <2>4, MoreFed
<1>2. CASE Prefill
  <2>1. PICK n \in {1, Len(cur)} :
          fed + n <= Len(cur) /\ Feed(SubSeq(cur, fed + 1, fed + n))
    BY <1>2 DEF Prefill
  <2>2. pc = "prefill" /\ UNCHANGED <<ids, saved>>
    BY <1>2 DEF Prefill
  <2>3. cur \in Seq(Token) /\ Len(cur) \in Nat \ {0} /\ fed \in 0..Len(cur)
    BY <2>2, PassTypes DEF Fed, Follows, InTurn
  <2>4. n \in Nat \ {0} /\ fed + n \in fed..Len(cur) /\ (fed + n) - fed = n
    BY <2>1, <2>3
  <2>5. /\ SubSeq(cur, fed + 1, fed + n) \in Seq(Token)
        /\ Len(SubSeq(cur, fed + 1, fed + n)) = (fed + n) - fed
    BY <2>3, <2>4, MorePart
  <2>6. Len(SubSeq(cur, fed + 1, fed + n)) >= 1
    BY <2>4, <2>5
  <2> QED BY <2>1, <2>2, <2>5, <2>6, MoreFed
<1>3. CASE DecodeForward
  <2>1. pc = "decode" /\ ~stop /\ Feed(<<last>>) /\ UNCHANGED <<ids, saved>>
    BY <1>3 DEF DecodeForward, Goto, MoreToDecode
  <2>2. last \in Token
    <3>1. last = NextFed(generated) /\ generated \in Nat
      BY <2>1 DEF Fed, Follows
    <3> QED BY <2>1, <3>1, PassTypes DEF InTurn
  <2>3. <<last>> \in Seq(Token) /\ Len(<<last>>) >= 1
    BY <2>2
  <2> QED BY <2>1, <2>3, MoreFed
<1> QED BY <1>1, <1>2, <1>3

LEMMA LoggingLogs ==
  ASSUME Fed, SystemPrompt \/ Generate \/ Inject
  PROVE  H!Log
<1>1. saved = NoSnap /\ UNCHANGED <<hist, logits, saved>>
  BY DEF SystemPrompt, Generate, Inject, Goto, Fed, Rounds
<1>2. ids' = ids \o SystemBlock \/ ids' = ids \o TurnDelta \/ ids' = ids \o ToolResult
  BY DEF SystemPrompt, Generate, Inject
<1> QED BY <1>1, <1>2, MoreLogged, Texts

LEMMA StepUses ==
  ASSUME Counters, Fed, [Next]_vars
  PROVE  [H!Next]_(H!vars)
<1>1. CASE SystemStep \/ Prefill \/ DecodeForward
  BY <1>1, FeedingFeeds DEF H!Next
<1>2. CASE SystemPrompt \/ Generate \/ Inject
  BY <1>2, LoggingLogs DEF H!Next
<1>3. CASE DecisionPoint /\ tool_round /\ saved = NoSnap
  BY <1>3, DecisionSaves DEF H!Next
<1>4. CASE Restore
  BY <1>4, RestoreRestores DEF H!Next
<1>5. CASE DropSnapshot \/ Return
  <2>1. saved' = NoSnap /\ UNCHANGED <<hist, logits, ids>>
    BY <1>5 DEF DropSnapshot, Return
  <2> QED BY <2>1, DropFrees DEF H!Next
<1>6. ASSUME UNCHANGED context PROVE UNCHANGED H!vars
  <2>1. UNCHANGED <<hist, logits, ids, saved>>
    BY <1>6 DEF context
  <2>2. View' = View
    BY <2>1 DEF View
  <2> QED BY <2>1, <2>2 DEF H!vars, View
<1>7. CASE DecisionPoint /\ ~(tool_round /\ saved = NoSnap)
  <2>1. UNCHANGED context
    BY <1>7 DEF DecisionPoint, context
  <2> QED BY <1>6, <2>1
<1>8. CASE SystemCommit \/ SetTools \/ StartPass \/ Prefilled \/ Overrun \/ Dispatch
  BY <1>6, <1>8 DEF SystemCommit, SetTools, StartPass, Prefilled, Overrun, Dispatch
<1>9. CASE \/ DrawStop \/ DrawHeld \/ DrawShown \/ DrawOpen
           \/ DrawClose \/ DecodeEnd \/ Finish
  BY <1>6, <1>9 DEF DrawStop, DrawHeld, DrawShown, DrawOpen, DrawClose, Draw, DecodeEnd, Finish
<1>10. CASE UNCHANGED vars
  BY <1>6, <1>10 DEF vars
<1> QED BY <1>1, <1>2, <1>3, <1>4, <1>5, <1>7, <1>8, <1>9, <1>10
        DEF Next, System, Prompt, Decode, Round

LEMMA InitUses == Init => H!Init
<1> SUFFICES ASSUME Init PROVE H!Init
  OBVIOUS
<1>1. DOMAIN saved = {}
  BY DEF Init
<1> QED BY <1>1 DEF Init, H!Init

\* A turn uses its context as History allows: it feeds, logs, saves, restores
\* and frees, one at a time, with one snapshot, whatever the callback answers.
THEOREM UsesContext == Spec => UsesHistory
<1> QED BY FedReached, InitUses, StepUses, PTL DEF Spec, UsesHistory, H!Spec
=============================================================================
