----------------------------- MODULE ThinkFilter -----------------------------
(***************************************************************************)
(* struct slm_think_filter (slm.c): decoded pieces go in, and come out as  *)
(* chunks of content or reasoning with the four markers taken out and the  *)
(* text of a tool call collected.  Pieces cut markers and characters at    *)
(* any byte, so the filter holds bytes back.                               *)
(*                                                                         *)
(* The sizes are parameters: the code holds 63 bytes and its longest       *)
(* marker has 12.  The callback's answer is a choice of each chunk.  The   *)
(* chunk that shows a call to a debugging client is left to Turn.          *)
(*                                                                         *)
(* A definition marked mutant is a plausible slip in the one that follows: *)
(* PROJECT.json names the property that catches it.                        *)
(***************************************************************************)
EXTENDS Integers, Sequences, SequencesExt, FiniteSetsExt

CONSTANTS
  Bytes,
  Tag,          \* THINK_MARKERS: row -> bytes
  HoldSize,     \* bytes hold_data has room for
  Lead, Cont,   \* bytes that begin and that continue a longer character
  Texts,        \* what the model may say
  MaxPiece      \* bound: bytes of a piece

Rows == {"think_open", "think_close", "tool_open", "tool_close"}
ModeAfter == [think_open |-> "reasoning", think_close |-> "content",
              tool_open |-> "tool_call", tool_close |-> "content"]
MaxMarker == Max({Len(Tag[m]) : m \in Rows})

ASSUME TagsAssumption ==
  /\ Tag \in [Rows -> Seq(Bytes)]
  /\ \A m \in Rows : Len(Tag[m]) > 1
  /\ \A m, n \in Rows : \A i \in 2..Len(Tag[m]) : Tag[m][i] # Tag[n][1]
  /\ \A m, n \in Rows : IsPrefix(Tag[m], Tag[n]) => m = n
  /\ \A m \in Rows : \A i \in 1..Len(Tag[m]) : Tag[m][i] \notin Lead \union Cont

ASSUME SizesAssumption ==
  /\ HoldSize \in Nat /\ HoldSize >= MaxMarker
  /\ MaxPiece \in Nat /\ Texts \subseteq Seq(Bytes)

VARIABLES
  pc,
  text, next,             \* what the model says, and how much of it is out
  mode, hold, call, ready,
  recognize, discard,
  src,                    \* the rest of the piece being pushed
  rc,                     \* slm_think_filter_push will abort
  shown,                  \* the bytes shown so far, each with its kind
  chunk,                  \* the chunk of this step
  refused                 \* the callback refused a chunk

input == <<text, recognize, discard>>
vars  == <<pc, input, next, mode, hold, call, ready, src, rc, shown, chunk, refused>>

Init ==
  /\ pc = "idle"
  /\ text \in Texts /\ next = 1
  /\ mode = "content" /\ hold = << >> /\ call = << >> /\ ready = FALSE
  /\ recognize \in BOOLEAN /\ discard \in {FALSE, recognize}
  /\ src = << >> /\ rc = FALSE
  /\ shown = << >> /\ chunk = << >> /\ refused = FALSE

-----------------------------------------------------------------------------

First(s, n) == SubSeq(s, 1, n)
Rest(s, n)  == SubSeq(s, n + 1, Len(s))

\* Tag m stands in s from i on
Occurs(m, s, i) == IsPrefix(Tag[m], Rest(s, i - 1))

Recognized == IF recognize THEN Rows ELSE {"think_open", "think_close"}

\* Where the markers that s holds begin
MarkersIn(s) == {i \in 1..Len(s) : \E m \in Recognized : Occurs(m, s, i)}

\* mutant: the cut stays where it is
SafeUtf8Anywhere(s, n) == n

\* mutant: the cut moves back to the last byte that stands alone
SafeUtf8Ascii(s, n) == Max({0} \union {k \in 1..n : s[k + 1] \notin Lead \union Cont})

\* A cut after n bytes moves back until the byte behind it begins a character
SafeUtf8(s, n) ==
  IF n < Len(s) THEN Max({0} \union {k \in 1..n : s[k + 1] \notin Cont}) ELSE n

\* The bytes after the first n may be the beginning of a marker
CouldBePrefix(s, n) ==
  n < Len(s) /\ \E m \in Rows : Len(s) - n < Len(Tag[m]) /\ IsPrefix(Rest(s, n), Tag[m])

BackOff(s, n) == Max({0} \union {k \in 1..n : ~CouldBePrefix(s, k)})

\* mutant: one byte short of a marker's beginning
KeepLess == MaxMarker - 2

Keep == MaxMarker - 1

\* slm_think_emit: to the callback, whose answer is r, or to the buffer of
\* the call
Show(s, r) ==
  /\ chunk' = IF mode = "tool_call" THEN << >> ELSE s
  /\ shown' = shown \o [i \in 1..Len(chunk') |-> <<mode, chunk'[i]>>]
  /\ r => chunk' # << >>
  /\ refused' = (refused \/ r)

Collected(s) == IF mode = "tool_call" THEN call \o s ELSE call

EmitBytes(s, r) == Show(s, r) /\ call' = Collected(s)

Quiet == chunk' = << >> /\ UNCHANGED <<call, shown, refused>>

-----------------------------------------------------------------------------
(* slm_think_filter_push                                                   *)

\* The model says some more: a piece is any bytes, but where calls are
\* recognized a marker, which has a token of its own, comes alone
Push ==
  /\ pc = "idle" /\ ~rc /\ next <= Len(text)
  /\ \E n \in 1..MaxPiece :
       /\ next + n - 1 <= Len(text)
       /\ src' = SubSeq(text, next, next + n - 1)
       /\ recognize => \A m \in Rows : (\E i \in 1..n : Occurs(m, src', i)) => src' = Tag[m]
       /\ next' = next + n
  /\ pc' = "copy"
  /\ Quiet
  /\ UNCHANGED <<input, mode, hold, ready, rc>>

\* mutant: the whole piece is copied
CopyAll ==
  /\ pc = "copy"
  /\ hold' = hold \o src /\ src' = << >>
  /\ pc' = "markers"
  /\ Quiet
  /\ UNCHANGED <<input, next, mode, ready, rc>>

\* When the hold is full its front goes out; then what fits is copied
Copy ==
  /\ pc = "copy"
  /\ LET full   == Len(hold) >= HoldSize
         emit_n == IF full THEN SafeUtf8(hold, Len(hold) - Keep) ELSE 0
         kept   == IF emit_n > 0 THEN Rest(hold, emit_n) ELSE hold
         n      == Min({Len(src), HoldSize - Len(kept)})
     IN /\ IF emit_n > 0
           THEN \E r \in BOOLEAN : EmitBytes(First(hold, emit_n), r) /\ rc' = (rc \/ r)
           ELSE Quiet /\ UNCHANGED rc
        /\ hold' = kept \o First(src, n)
        /\ src' = Rest(src, n)
  /\ pc' = "markers"
  /\ UNCHANGED <<input, next, mode, ready>>

\* The first marker in the hold: what is before it goes out, the marker goes
\* away, the mode changes.  Leaving a call drops it or ends the push;
\* entering one empties the buffer.
TakeMarker ==
  /\ pc = "markers" /\ ~rc
  /\ MarkersIn(hold) # {}
  /\ LET at    == Min(MarkersIn(hold))
         m     == CHOOSE m \in Recognized : Occurs(m, hold, at)
         out   == First(hold, at - 1)
         to    == ModeAfter[m]
         leave == mode = "tool_call" /\ to # "tool_call"
         enter == mode # "tool_call" /\ to = "tool_call"
     IN /\ mode' = to
        /\ hold' = Rest(hold, at + Len(Tag[m]) - 1)
        /\ ready' = (ready \/ (leave /\ ~discard))
        /\ call' = IF enter \/ (leave /\ discard) THEN << >> ELSE Collected(out)
        /\ \E r \in BOOLEAN : Show(out, r) /\ rc' = (r \/ (leave /\ ~discard))
  /\ UNCHANGED <<pc, input, next, src>>

\* What no marker can begin in goes out, and the rest of the piece follows
Flush ==
  /\ pc = "markers"
  /\ rc \/ MarkersIn(hold) = {}
  /\ LET safe == IF ~rc /\ Len(hold) > Keep
                 THEN SafeUtf8(hold, BackOff(hold, Len(hold) - Keep)) ELSE 0
     IN IF safe > 0
        THEN /\ \E r \in BOOLEAN : EmitBytes(First(hold, safe), r) /\ rc' = r
             /\ hold' = Rest(hold, safe)
        ELSE Quiet /\ UNCHANGED <<hold, rc>>
  /\ pc' = IF src # << >> /\ ~rc' THEN "copy" ELSE "idle"
  /\ UNCHANGED <<input, next, mode, ready, src>>

-----------------------------------------------------------------------------
(* slm_think_filter_finish, after the last push or an abort                *)

Finish ==
  /\ pc = "idle" /\ (rc \/ next > Len(text))
  /\ pc' = "finish" /\ rc' = FALSE
  /\ Quiet
  /\ UNCHANGED <<input, next, mode, hold, ready, src>>

FinishMarker ==
  /\ pc = "finish" /\ ~rc
  /\ MarkersIn(hold) # {}
  /\ LET at == Min(MarkersIn(hold))
         m  == CHOOSE m \in Recognized : Occurs(m, hold, at)
     IN /\ mode' = ModeAfter[m]
        /\ hold' = Rest(hold, at + Len(Tag[m]) - 1)
        /\ \E r \in BOOLEAN : EmitBytes(First(hold, at - 1), r) /\ rc' = r
  /\ UNCHANGED <<pc, input, next, ready, src>>

\* mutant: what is held goes nowhere
FinishDrops ==
  /\ pc = "finish"
  /\ rc \/ MarkersIn(hold) = {}
  /\ pc' = "end"
  /\ Quiet
  /\ UNCHANGED <<input, next, mode, hold, ready, src, rc>>

FinishRest ==
  /\ pc = "finish"
  /\ rc \/ MarkersIn(hold) = {}
  /\ IF hold # << >> /\ ~rc
     THEN /\ \E r \in BOOLEAN : EmitBytes(hold, r) /\ rc' = r
          /\ hold' = << >>
     ELSE Quiet /\ UNCHANGED <<hold, rc>>
  /\ pc' = "end"
  /\ UNCHANGED <<input, next, mode, ready, src>>

Step == Copy \/ TakeMarker \/ Flush \/ Finish \/ FinishMarker \/ FinishRest

Next == Push \/ Step

\* The code of a push runs on; whether the model says more is its own affair
Spec == Init /\ [][Next]_vars /\ WF_vars(Copy \/ TakeMarker \/ Flush)

-----------------------------------------------------------------------------
(* What the whole text means, with no hold and no pieces.                  *)

\* The marker that begins at i
MarkerAt(i) == CHOOSE m \in Recognized : Occurs(m, text, i)

\* at: where the markers begin
InMarker(i, at) == \E j \in at : j <= i /\ i < j + Len(Tag[MarkerAt(j)])

ModeAt(i, at) ==
  LET earlier == {j \in at : j < i}
  IN IF earlier = {} THEN "content" ELSE ModeAfter[MarkerAt(Max(earlier))]

\* The markers that end a call
Closers ==
  LET at == MarkersIn(text)
  IN {j \in at : ModeAt(j, at) = "tool_call" /\ ModeAfter[MarkerAt(j)] # "tool_call"}

\* The text up to the marker that ends the call to run, or all of it
Limit == IF discard \/ Closers = {} THEN Len(text) ELSE Min(Closers) - 1

\* The bytes in some modes up to each place in the text, each with its mode
Meant(modes) ==
  LET at == MarkersIn(text)
      upto[i \in 0..Limit] ==
        IF i = 0 THEN << >>
        ELSE IF InMarker(i, at) \/ ModeAt(i, at) \notin modes THEN upto[i - 1]
        ELSE Append(upto[i - 1], <<ModeAt(i, at), text[i]>>)
  IN upto

BytesOf(marked) == [k \in 1..Len(marked) |-> marked[k][2]]

MeantToShow == Meant({"content", "reasoning"})[Limit]
MeantCall   == BytesOf(Meant({"tool_call"})[Limit])

\* Characters of the text are whole
WellFormed ==
  \A i \in 1..Len(text) :
    /\ text[i] \in Lead => i < Len(text) /\ text[i + 1] \in Cont
    /\ text[i] \in Cont => i > 1 /\ text[i - 1] \in Lead \union Cont

TypeOK ==
  /\ pc \in {"idle", "copy", "markers", "finish", "end"}
  /\ Len(hold) <= HoldSize
  /\ mode \in {"content", "reasoning", "tool_call"}
  /\ {ready, rc, refused} \subseteq BOOLEAN
  /\ next \in 1..Len(text) + 1

(* However the text was cut into pieces, what is shown is a beginning of   *)
(* what the text means, each byte in its mode: no byte of a marker or of a *)
(* call, none out of order, none twice.                                    *)
ShowsWhatIsMeant ==
  ~refused => IF ready THEN IsPrefix(MeantToShow, shown) ELSE IsPrefix(shown, MeantToShow)

(* At the end all of it was shown; and a call that is complete was         *)
(* collected whole, though it is read only after finish has run.           *)
NothingIsLost ==
  pc = "end" /\ ~refused =>
    /\ ~ready => shown = MeantToShow
    /\ ready <=> ~discard /\ Closers # {}
    /\ ready => call = MeantCall

(* A chunk is made of whole characters: the client turns each into a       *)
(* string of its own.                                                      *)
WholeCharacters ==
  WellFormed /\ chunk # << >> /\ ~refused /\ ~ready =>
    /\ chunk[1] \notin Cont
    /\ chunk[Len(chunk)] \notin Lead

\* No run of continuation bytes covers what a full hold may give away
RunsAreShort ==
  \A i \in 1..Len(text) :
    LET j == i + HoldSize - Keep - 1
    IN j <= Len(text) => \E k \in i..j : text[k] \notin Cont

(* A push comes to its end, whether or not the text's characters are       *)
(* whole, as long as its runs of continuation bytes are short.  A longer   *)
(* one leaves a full hold of which nothing may go out, and push spins: so  *)
(* does the code, at 52 bytes.                                             *)
PushEnds == pc = "copy" /\ RunsAreShort ~> pc = "idle"
=============================================================================
