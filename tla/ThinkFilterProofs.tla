-------------------------- MODULE ThinkFilterProofs --------------------------
(***************************************************************************)
(* For any text, cut into any pieces, with markers of any length and a     *)
(* hold that has room for the longest: what is shown is what the text      *)
(* means, nothing of it is lost, and characters stay whole.                *)
(***************************************************************************)
EXTENDS ThinkFilter, NumberFacts, SequenceTheorems, TLAPS

Modes  == {"content", "reasoning", "tool_call"}
Marked == Modes \X Bytes

-----------------------------------------------------------------------------
(* The invariant.                                                          *)

Types ==
  /\ pc \in {"idle", "copy", "markers", "finish", "end"}
  /\ text \in Seq(Bytes) /\ next \in 1..Len(text) + 1
  /\ mode \in Modes
  /\ {hold, src, call, chunk} \subseteq Seq(Bytes) /\ shown \in Seq(Marked)
  /\ Len(hold) <= HoldSize
  /\ {ready, rc, refused, recognize, discard} \subseteq BOOLEAN
  /\ discard => recognize

\* What has left the filter, as shown, collected or a marker
Pos == next - 1 - Len(src) - Len(hold)

\* The hold and the rest of the piece are the text that follows
Fits ==
  /\ Pos \in 0..Len(text)
  /\ \A i \in 1..Len(hold) : hold[i] = text[Pos + i]
  /\ \A i \in 1..Len(src)  : src[i] = text[Pos + Len(hold) + i]

\* A push that ended took its piece
Holding == Fits /\ (pc = "idle" => rc \/ src = << >>)

\* Where the markers of the text begin, and where the one that begins at j ends
At == MarkersIn(text)
End(j) == j + Len(Tag[MarkerAt(j)]) - 1

\* No marker lies across p, which is a place between two bytes
Between(p) == p \in 0..Len(text) /\ \A j \in At : j > p \/ End(j) <= p

\* Until the end of the call to run, what came out is what the text means so far
Tracks ==
  /\ Between(Pos) /\ Pos <= Limit
  /\ mode = ModeAt(Pos + 1, At)
  /\ shown = Meant({"content", "reasoning"})[Pos]
  /\ ~discard => call = BytesOf(Meant({"tool_call"})[Pos])
  /\ ~discard /\ mode # "tool_call" => Meant({"tool_call"})[Pos] = << >>
  /\ ~rc

\* After it, all of it came out
Came ==
  /\ ~discard /\ Closers # {}
  /\ IsPrefix(MeantToShow, shown) /\ call = MeantCall
  /\ mode # "tool_call" /\ MarkersIn(hold) = {}
  /\ pc # "copy" /\ (rc \/ pc \in {"finish", "end"})

\* Where the engine is
Stage ==
  /\ pc \in {"idle", "copy", "finish", "end"} => MarkersIn(hold) = {}
  /\ ~ready /\ pc \in {"idle", "finish", "end"} => src = << >>
  /\ ~ready /\ pc \in {"finish", "end"} => next > Len(text)
  /\ ~ready /\ pc = "end" => hold = << >>

\* A marker that came in a piece with other bytes began in an earlier one
Alone ==
  recognize =>
    /\ \A j \in At : j >= next - Len(src) /\ End(j) < next => j = next - Len(src)
    /\ pc = "markers" => \A i, j \in MarkersIn(hold) : i = j

\* Characters are whole where the text is cut
Whole ==
  WellFormed /\ ~ready =>
    /\ Pos < Len(text) => text[Pos + 1] \notin Cont
    /\ chunk # << >> => chunk[1] \notin Cont /\ chunk[Len(chunk)] \notin Lead

Filtered == (ready => Came) /\ (~ready => Tracks) /\ Stage /\ Alone /\ Whole

IInv == Types /\ Holding /\ (~refused => Filtered)

-----------------------------------------------------------------------------
(* Markers.                                                                *)

LEMMA LargestIs ==
  ASSUME NEW b \in Nat, NEW S, S \subseteq 0..b, S # {}
  PROVE  Max(S) \in S /\ \A x \in S : x <= Max(S)
<1> DEFINE T == {b - x : x \in S}
<1>1. T \subseteq Nat /\ T # {}
  <2>1. \A x \in S : x \in 0..b /\ b - x \in Nat
    <3> SUFFICES ASSUME NEW x \in S PROVE x \in 0..b /\ b - x \in Nat
      OBVIOUS
    <3>1. x \in 0..b
      OBVIOUS
    <3> QED BY <3>1
  <2> QED BY <2>1
<1>2. PICK m \in T : \A k \in T : m <= k
  BY ONLY <1>1, LeastOf
<1>3. PICK x \in S : m = b - x
  BY <1>2
<1>4. \A y \in S : y <= x
  <2> SUFFICES ASSUME NEW y \in S PROVE y <= x
    OBVIOUS
  <2>1. b - y \in T /\ x \in 0..b /\ y \in 0..b
    BY <1>3
  <2> QED BY <1>2, <1>3, <2>1
<1>5. \A y \in S : x >= y
  BY <1>4
<1> QED BY <1>5 DEF Max

LEMMA SmallestIs ==
  ASSUME NEW S, S \subseteq Nat, S # {}
  PROVE  Min(S) \in S /\ \A x \in S : Min(S) <= x
<1>1. PICK m \in S : \A k \in S : m <= k
  BY LeastOf
<1>2. \A y \in S : m =< y
  BY <1>1
<1> QED BY <1>2 DEF Min

LEMMA PrefixIs ==
  ASSUME NEW S, NEW s \in Seq(S), NEW t \in Seq(S)
  PROVE  IsPrefix(s, t) <=> Len(s) <= Len(t) /\ \A k \in 1..Len(s) : s[k] = t[k]
<1>1. Len(s) \in Nat /\ Len(t) \in Nat
  OBVIOUS
<1>2. SubSeq(s, 1, Len(s)) = s
  BY SubSeqFull
<1>3. CASE Len(s) <= Len(t)
  <2> DEFINE u == SubSeq(t, 1, Len(s))
  <2>1. u \in Seq(S) /\ Len(u) = Len(s) /\ \A k \in 1..Len(s) : u[k] = t[k]
    BY <1>1, <1>3
  <2> HIDE DEF u
  <2>2. s = u <=> \A k \in 1..Len(s) : s[k] = t[k]
    BY <1>1, <2>1, SeqEqual
  <2> QED BY <1>2, <1>3, <2>2 DEF IsPrefix, u
<1> QED BY <1>1, <1>3 DEF IsPrefix

LEMMA TagIs ==
  ASSUME NEW m \in Rows
  PROVE  /\ Tag[m] \in Seq(Bytes) /\ Len(Tag[m]) \in Nat
         /\ Len(Tag[m]) > 1 /\ Len(Tag[m]) <= MaxMarker
         /\ MaxMarker \in Nat /\ MaxMarker > 1
<1>1. \A r \in Rows : Tag[r] \in Seq(Bytes) /\ Len(Tag[r]) \in Nat /\ Len(Tag[r]) > 1
  BY TagsAssumption
<1> DEFINE S == {Len(Tag[r]) : r \in Rows}
           b == Len(Tag["think_open"]) + Len(Tag["think_close"])
                + Len(Tag["tool_open"]) + Len(Tag["tool_close"])
<1>2. b \in Nat /\ S \subseteq 0..b /\ S # {}
  <2>1. /\ Len(Tag["think_open"]) \in 0..b /\ Len(Tag["think_close"]) \in 0..b
        /\ Len(Tag["tool_open"]) \in 0..b /\ Len(Tag["tool_close"]) \in 0..b /\ b \in Nat
    <3>1. /\ "think_open" \in Rows /\ "think_close" \in Rows
          /\ "tool_open" \in Rows /\ "tool_close" \in Rows
      BY DEF Rows
    <3>2. /\ Len(Tag["think_open"]) \in Nat /\ Len(Tag["think_close"]) \in Nat
          /\ Len(Tag["tool_open"]) \in Nat /\ Len(Tag["tool_close"]) \in Nat
      BY <1>1, <3>1
    <3>3. \A w, x, y, z \in Nat : LET sum == w + x + y + z
                                  IN  /\ w \in 0..sum /\ x \in 0..sum /\ y \in 0..sum
                                      /\ z \in 0..sum /\ sum \in Nat
      OBVIOUS
    <3> QED BY ONLY <3>2, <3>3 DEF b
  <2> HIDE DEF b
  <2>2. \A r \in Rows : Len(Tag[r]) \in 0..b
    BY <2>1 DEF Rows
  <2> QED BY <2>1, <2>2
<1>3. MaxMarker = Max(S)
  BY DEF MaxMarker
<1> HIDE DEF S, b
<1>4. MaxMarker \in S /\ \A x \in S : x <= MaxMarker
  BY <1>2, <1>3, LargestIs
<1>5. MaxMarker \in Nat /\ Len(Tag[m]) \in S
  BY <1>2, <1>4 DEF S
<1> QED BY <1>1, <1>4, <1>5

\* Tag m stands in s from i on.
Stands(m, s, i) ==
  /\ i + Len(Tag[m]) - 1 <= Len(s)
  /\ \A k \in 1..Len(Tag[m]) : s[i + k - 1] = Tag[m][k]

LEMMA OccursIs ==
  ASSUME NEW s \in Seq(Bytes), NEW m \in Rows, NEW i \in Nat \ {0}
  PROVE  Occurs(m, s, i) <=> Stands(m, s, i)
<1> DEFINE t == SubSeq(s, i, Len(s))
           n == Len(s)
           l == Len(Tag[m])
<1>1. n \in Nat /\ l \in Nat /\ l > 1 /\ Tag[m] \in Seq(Bytes)
  BY TagIs
<1>2. /\ t \in Seq(Bytes) /\ Len(t) = IF i <= n THEN n - i + 1 ELSE 0
      /\ \A k \in 1..n - i + 1 : t[k] = s[i + k - 1]
  <2>1. \A k \in i..n : s[k] \in Bytes
    BY ElementOfSeq
  <2> QED BY <1>1, <2>1, SubSeqProperties
<1>3. Occurs(m, s, i) <=> IsPrefix(Tag[m], t)
  BY DEF Occurs, Rest
<1> HIDE DEF t
<1>4. IsPrefix(Tag[m], t) <=> l <= Len(t) /\ \A k \in 1..l : Tag[m][k] = t[k]
  <2>1. \A u, v \in Seq(Bytes) :
          IsPrefix(u, v) <=> Len(u) <= Len(v) /\ \A k \in 1..Len(u) : u[k] = v[k]
    BY ONLY PrefixIs
  <2>2. Tag[m] \in Seq(Bytes) /\ l = Len(Tag[m])
    BY <1>1
  <2> QED BY ONLY <1>2, <2>1, <2>2
<1>5. l <= Len(t) <=> i + l - 1 <= n
  BY <1>1, <1>2
<1>6. CASE i + l - 1 <= n
  <2>1. \A k \in 1..l : k \in 1..n - i + 1
    BY <1>1, <1>6
  <2> QED BY <1>2, <1>3, <1>4, <1>5, <1>6, <2>1 DEF Stands
<1> QED BY <1>3, <1>4, <1>5, <1>6 DEF Stands

LEMMA OneTag ==
  ASSUME NEW s \in Seq(Bytes), NEW i \in Nat \ {0}, NEW m \in Rows, NEW n \in Rows,
         Stands(m, s, i), Stands(n, s, i)
  PROVE  m = n
<1>1. /\ Tag[m] \in Seq(Bytes) /\ Len(Tag[m]) \in Nat
      /\ Tag[n] \in Seq(Bytes) /\ Len(Tag[n]) \in Nat
  BY TagIs
<1>2. CASE Len(Tag[m]) <= Len(Tag[n])
  <2>1. \A k \in 1..Len(Tag[m]) : Tag[m][k] = Tag[n][k]
    <3> SUFFICES ASSUME NEW k \in 1..Len(Tag[m]) PROVE Tag[m][k] = Tag[n][k]
      OBVIOUS
    <3>1. k \in 1..Len(Tag[n])
      BY <1>1, <1>2
    <3> QED BY <3>1 DEF Stands
  <2>2. IsPrefix(Tag[m], Tag[n])
    BY <1>1, <1>2, <2>1, PrefixIs
  <2> QED BY <2>2, TagsAssumption
<1>3. CASE Len(Tag[n]) <= Len(Tag[m])
  <2>1. \A k \in 1..Len(Tag[n]) : Tag[n][k] = Tag[m][k]
    <3> SUFFICES ASSUME NEW k \in 1..Len(Tag[n]) PROVE Tag[n][k] = Tag[m][k]
      OBVIOUS
    <3>1. k \in 1..Len(Tag[m])
      BY <1>1, <1>3
    <3> QED BY <3>1 DEF Stands
  <2>2. IsPrefix(Tag[n], Tag[m])
    BY <1>1, <1>3, <2>1, PrefixIs
  <2> QED BY <2>2, TagsAssumption
<1> QED BY <1>1, <1>2, <1>3

\* Markers do not overlap.
LEMMA TagsApart ==
  ASSUME NEW s \in Seq(Bytes), NEW i \in Nat \ {0}, NEW j \in Nat \ {0},
         NEW m \in Rows, NEW n \in Rows, Stands(m, s, i), Stands(n, s, j), i < j
  PROVE  i + Len(Tag[m]) - 1 < j
<1>1. Len(Tag[m]) \in Nat /\ Len(Tag[n]) \in Nat /\ Len(Tag[n]) > 1
  BY TagIs
<1>2. SUFFICES ASSUME j <= i + Len(Tag[m]) - 1 PROVE FALSE
  BY <1>1
<1> DEFINE k == j - i + 1
<1>3. k \in 2..Len(Tag[m]) /\ k \in 1..Len(Tag[m]) /\ i + k - 1 = j /\ j + 1 - 1 = j
  BY <1>1, <1>2
<1> HIDE DEF k
<1>4. s[j] = Tag[m][k]
  BY <1>3 DEF Stands
<1>5. s[j] = Tag[n][1]
  BY <1>1, <1>3 DEF Stands
<1> QED BY <1>3, <1>4, <1>5, TagsAssumption

LEMMA RecognizedAreRows == Recognized \subseteq Rows
BY DEF Recognized, Rows

\* The markers in s.
LEMMA MarkersAre ==
  ASSUME NEW s \in Seq(Bytes)
  PROVE  /\ MarkersIn(s) = {i \in 1..Len(s) : \E m \in Recognized : Stands(m, s, i)}
         /\ MarkersIn(s) \subseteq Nat
<1>1. \A i \in 1..Len(s), m \in Recognized : Occurs(m, s, i) <=> Stands(m, s, i)
  BY OccursIs, RecognizedAreRows
<1> QED BY <1>1 DEF MarkersIn

LEMMA MarkerIs ==
  ASSUME text \in Seq(Bytes), NEW j \in At
  PROVE  /\ j \in 1..Len(text) /\ MarkerAt(j) \in Recognized /\ MarkerAt(j) \in Rows
         /\ Stands(MarkerAt(j), text, j)
         /\ End(j) \in j + 1..Len(text)
         /\ \A m \in Recognized : Stands(m, text, j) => m = MarkerAt(j)
<1>1. j \in 1..Len(text) /\ j \in Nat \ {0} /\ \E m \in Recognized : Stands(m, text, j)
  BY MarkersAre DEF At
<1>2. \A m \in Recognized : Occurs(m, text, j) <=> Stands(m, text, j)
  BY <1>1, OccursIs, RecognizedAreRows
<1>3. MarkerAt(j) \in Recognized /\ Occurs(MarkerAt(j), text, j)
  BY <1>1, <1>2 DEF MarkerAt
<1>4. MarkerAt(j) \in Rows /\ Stands(MarkerAt(j), text, j)
  BY <1>2, <1>3, RecognizedAreRows
<1>5. End(j) \in j + 1..Len(text)
  <2>1. Len(Tag[MarkerAt(j)]) \in Nat /\ Len(Tag[MarkerAt(j)]) > 1
    BY <1>4, TagIs
  <2> QED BY <1>1, <1>4, <2>1 DEF Stands, End
<1>6. \A m \in Recognized : Stands(m, text, j) => m = MarkerAt(j)
  BY <1>1, <1>4, OneTag, RecognizedAreRows
<1> QED BY <1>1, <1>3, <1>4, <1>5, <1>6

LEMMA Apart ==
  ASSUME text \in Seq(Bytes), NEW i \in At, NEW j \in At, i < j
  PROVE  End(i) < j
<1>1. /\ i \in Nat \ {0} /\ MarkerAt(i) \in Rows /\ Stands(MarkerAt(i), text, i)
      /\ j \in Nat \ {0} /\ MarkerAt(j) \in Rows /\ Stands(MarkerAt(j), text, j)
  BY MarkerIs
<1>2. i + Len(Tag[MarkerAt(i)]) - 1 < j
  BY <1>1, TagsApart
<1> QED BY <1>2 DEF End

-----------------------------------------------------------------------------
(* What the text means.                                                    *)

\* The mode is that of the last marker.
LEMMA ModesAre ==
  ASSUME text \in Seq(Bytes), NEW i \in Nat
  PROVE  ModeAt(i, At) \in Modes
<1> DEFINE earlier == {j \in At : j < i}
<1>1. CASE earlier = {}
  BY <1>1 DEF ModeAt, Modes
<1>2. CASE earlier # {}
  <2>1. earlier \subseteq 0..i
    BY MarkersAre DEF At
  <2> HIDE DEF earlier
  <2>2. Max(earlier) \in earlier
    BY <1>2, <2>1, LargestIs
  <2>3. Max(earlier) \in At
    BY <2>2 DEF earlier
  <2>4. MarkerAt(Max(earlier)) \in Rows
    BY <2>3, MarkerIs
  <2>5. \A m \in Rows : ModeAfter[m] \in Modes
    BY DEF Rows, ModeAfter, Modes
  <2> QED BY <1>2, <2>4, <2>5 DEF ModeAt, earlier
<1> QED BY <1>1, <1>2

LEMMA ModeStays ==
  ASSUME NEW p \in Nat, NEW q \in Nat, p <= q, At \subseteq Nat, \A j \in At : j <= p \/ j > q
  PROVE  ModeAt(q + 1, At) = ModeAt(p + 1, At)
<1>1. ASSUME NEW j \in At PROVE j < q + 1 <=> j < p + 1
  <2>1. j \in Nat /\ (j <= p \/ j > q)
    OBVIOUS
  <2> QED BY <2>1
<1>2. {j \in At : j < q + 1} = {j \in At : j < p + 1}
  BY <1>1
<1> QED BY <1>2, Zenon DEF ModeAt

LEMMA ModeAfterEnd ==
  ASSUME text \in Seq(Bytes), NEW j \in At
  PROVE  /\ ModeAt(End(j) + 1, At) = ModeAfter[MarkerAt(j)]
         /\ Between(End(j)) /\ Between(j - 1)
<1>1. j \in 1..Len(text) /\ End(j) \in j + 1..Len(text)
  BY MarkerIs
<1>2. At \subseteq Nat /\ \A i \in At : End(i) \in Nat
  BY MarkersAre, MarkerIs DEF At
<1>3. \A i \in At : i < End(j) + 1 => i <= j
  BY <1>1, <1>2, Apart
<1> DEFINE earlier == {i \in At : i < End(j) + 1}
<1>4. Max(earlier) = j
  <2>1. j \in earlier /\ \A i \in earlier : i <= j
    BY <1>1, <1>3
  <2>2. earlier \subseteq 0..Len(text) /\ earlier \subseteq Nat /\ earlier # {}
        /\ Len(text) \in Nat
    <3>1. At \subseteq 0..Len(text) /\ Len(text) \in Nat
      BY MarkersAre DEF At
    <3>2. earlier \subseteq At /\ earlier # {}
      BY <2>1
    <3> HIDE DEF earlier
    <3>3. 0..Len(text) \subseteq Nat
      BY <3>1
    <3> QED BY <3>1, <3>2, <3>3
  <2> HIDE DEF earlier
  <2>3. Max(earlier) \in earlier /\ \A x \in earlier : x <= Max(earlier)
    BY <2>2, LargestIs
  <2>4. Max(earlier) \in Nat /\ j \in Nat /\ j <= Max(earlier) /\ Max(earlier) <= j
    BY <2>1, <2>2, <2>3
  <2> QED BY <2>4
<1>5. earlier # {}
  BY <1>1
<1>6. ModeAt(End(j) + 1, At) = ModeAfter[MarkerAt(j)]
  BY <1>4, <1>5 DEF ModeAt
<1>7. Between(End(j))
  <2>1. ASSUME NEW i \in At PROVE i > End(j) \/ End(i) <= End(j)
    <3>1. CASE i < j
      <4>1. End(i) < j
        BY <3>1, Apart
      <4> QED BY <1>1, <1>2, <4>1
    <3>2. CASE i = j
      BY <1>1, <3>2
    <3>3. CASE i > j
      <4>1. End(j) < i
        BY <3>3, Apart
      <4> QED BY <1>1, <1>2, <4>1
    <3> QED BY <1>1, <1>2, <3>1, <3>2, <3>3
  <2> QED BY <1>1, <2>1 DEF Between
<1>8. Between(j - 1)
  <2>1. ASSUME NEW i \in At PROVE i > j - 1 \/ End(i) <= j - 1
    <3>1. CASE i < j
      <4>1. End(i) < j
        BY <3>1, Apart
      <4> QED BY <1>1, <1>2, <4>1
    <3>2. CASE i >= j
      BY <1>1, <1>2, <3>2
    <3> QED BY <1>1, <1>2, <3>1, <3>2
  <2> QED BY <1>1, <2>1 DEF Between
<1> QED BY <1>6, <1>7, <1>8

\* Markers that end a call are markers; the text that counts ends before the
\* first, or with the text.
LEMMA LimitIs ==
  ASSUME text \in Seq(Bytes)
  PROVE  /\ Closers \subseteq At /\ Limit \in 0..Len(text)
         /\ discard \/ Closers = {} => Limit = Len(text)
         /\ ~discard => \A c \in Closers : Limit < c
         /\ ~discard /\ Closers # {} => Limit + 1 \in Closers
<1>1. Closers \subseteq At
  BY DEF Closers, At
<1>2. CASE discard \/ Closers = {}
  BY <1>1, <1>2 DEF Limit
<1>3. CASE ~discard /\ Closers # {}
  <2>1. Closers \subseteq 1..Len(text) /\ Closers \subseteq Nat
    BY <1>1, MarkersAre DEF At
  <2>2. Min(Closers) \in Closers /\ \A c \in Closers : Min(Closers) <= c
    BY <1>3, <2>1, SmallestIs
  <2>3. Limit = Min(Closers) - 1
    BY <1>3 DEF Limit
  <2>4. Min(Closers) \in 1..Len(text)
    BY <2>1, <2>2
  <2>5. Limit + 1 = Min(Closers)
    BY <2>3, <2>4
  <2>6. \A c \in Closers : Limit < c
    BY <2>1, <2>2, <2>3, <2>4
  <2> QED BY <1>1, <1>3, <2>2, <2>3, <2>4, <2>5, <2>6
<1> QED BY <1>1, <1>2, <1>3

\* What a place adds to what was meant before it, x.
Adds(modes, i, x) ==
  IF InMarker(i, At) \/ ModeAt(i, At) \notin modes THEN x
  ELSE Append(x, <<ModeAt(i, At), text[i]>>)

LEMMA MeantIs ==
  ASSUME text \in Seq(Bytes), NEW modes
  PROVE  /\ Meant(modes) \in [0..Limit -> Seq(Marked)]
         /\ Meant(modes)[0] = << >>
         /\ \A i \in 1..Limit : Meant(modes)[i] = Adds(modes, i, Meant(modes)[i - 1])
<1> DEFINE n == Limit
           V == Seq(Marked)
           Def(f) == f = [i \in 0..n |-> IF i = 0 THEN << >> ELSE Adds(modes, i, f[i - 1])]
           F == [i \in 1..n |-> [x \in V |-> Adds(modes, i, x)]]
<1>1. n \in Nat /\ n <= Len(text) /\ Len(text) \in Nat
  BY LimitIs
<1>2. F \in [1..n -> [V -> V]]
  <2>1. ASSUME NEW i \in 1..n, NEW x \in V PROVE Adds(modes, i, x) \in V
    <3>1. text[i] \in Bytes /\ ModeAt(i, At) \in Modes
      BY <1>1, ModesAre
    <3>2. <<ModeAt(i, At), text[i]>> \in Marked
      BY <3>1 DEF Marked
    <3>3. Append(x, <<ModeAt(i, At), text[i]>>) \in V
      BY <3>2, AppendProperties
    <3> QED BY <3>3 DEF Adds
  <2> HIDE DEF V
  <2> QED BY <2>1
<1>3. << >> \in V
  OBVIOUS
<1> HIDE DEF F, n, V
<1>4. PICK f \in [0..n -> V] : f[0] = << >> /\ \A i \in 1..n : f[i] = F[i][f[i - 1]]
  <2>1. IsDefined(n, V, << >>, F)
    BY <1>1, <1>2, <1>3, Recursion
  <2> QED BY <2>1 DEF IsDefined
<1>5. Def(f)
  <2>1. ASSUME NEW i \in 0..n
        PROVE  f[i] = IF i = 0 THEN << >> ELSE Adds(modes, i, f[i - 1])
    <3>1. CASE i = 0
      BY <1>4, <3>1
    <3>2. CASE i # 0
      <4>1. i \in 1..n /\ i - 1 \in 0..n
        BY <1>1, <3>2
      <4>2. f[i - 1] \in V
        BY <4>1
      <4> QED BY <1>4, <3>2, <4>1, <4>2 DEF F
    <3> QED BY <3>1, <3>2
  <2> QED BY <2>1
<1>6. Meant(modes) = CHOOSE g : Def(g)
  BY DEF Meant, Adds, At, n
<1>7. Def(Meant(modes))
  <2> HIDE DEF Def
  <2> QED BY <1>5, <1>6
<1> DEFINE g == Meant(modes)
<1> HIDE DEF g
<1>8. g = [i \in 0..n |-> IF i = 0 THEN << >> ELSE Adds(modes, i, g[i - 1])]
  BY <1>7 DEF g
<1>9. g[0] = << >> /\ \A i \in 1..n : g[i] = Adds(modes, i, g[i - 1])
  BY <1>1, <1>8
<1>10. g \in [0..n -> V]
  <2> DEFINE T == {i \in 0..n : g[i] \in V}
  <2>1. 0 \in T
    BY <1>1, <1>3, <1>9
  <2>2. ASSUME NEW i \in 1..n, i - 1 \in T PROVE i \in T
    <3>1. g[i] = Adds(modes, i, g[i - 1]) /\ g[i - 1] \in V
      BY <1>9, <2>2
    <3>2. Adds(modes, i, g[i - 1]) \in V
      <4>1. F[i] \in [V -> V] /\ F[i][g[i - 1]] \in V
        BY <1>2, <3>1
      <4> QED BY <3>1, <4>1 DEF F
    <3> QED BY <3>1, <3>2
  <2> HIDE DEF T
  <2>3. \A i \in 0..n : i \in T
    BY <1>1, <2>1, <2>2, UpTo
  <2> QED BY <1>8, <2>3 DEF T
<1> QED BY <1>9, <1>10 DEF g, n, V

LEMMA InMarkerIs ==
  ASSUME text \in Seq(Bytes), NEW i \in Nat
  PROVE  InMarker(i, At) <=> \E j \in At : j <= i /\ i <= End(j)
<1>1. ASSUME NEW j \in At PROVE i < j + Len(Tag[MarkerAt(j)]) <=> i <= End(j)
  <2>1. j \in Nat /\ MarkerAt(j) \in Rows
    BY MarkerIs
  <2>2. Len(Tag[MarkerAt(j)]) \in Nat
    BY <2>1, TagIs
  <2> QED BY <2>1, <2>2 DEF End
<1> QED BY <1>1 DEF InMarker

\* From p to q no marker begins or goes on.
Plain(p, q) ==
  /\ Between(p) /\ q \in p..Len(text)
  /\ \A j \in At : j <= p \/ j > q

LEMMA PlainIs ==
  ASSUME text \in Seq(Bytes), NEW p, NEW q, Plain(p, q)
  PROVE  /\ p \in Nat /\ q \in Nat /\ Between(q)
         /\ ModeAt(q + 1, At) = ModeAt(p + 1, At)
         /\ \A i \in p + 1..q : ~InMarker(i, At) /\ ModeAt(i, At) = ModeAt(p + 1, At)
<1>1. p \in 0..Len(text) /\ q \in p..Len(text) /\ Len(text) \in Nat /\ p \in Nat /\ q \in Nat
  BY DEF Plain, Between
<1>2. At \subseteq Nat /\ \A j \in At : End(j) \in Nat
  BY MarkersAre, MarkerIs DEF At
<1>3. \A j \in At : (j > p \/ End(j) <= p) /\ (j <= p \/ j > q)
  BY DEF Plain, Between
<1>4. Between(q)
  <2>1. ASSUME NEW j \in At PROVE j > q \/ End(j) <= q
    BY <1>1, <1>2, <1>3
  <2> QED BY <1>1, <2>1 DEF Between
<1>5. ModeAt(q + 1, At) = ModeAt(p + 1, At)
  BY <1>1, <1>2, <1>3, ModeStays
<1>6. ASSUME NEW i \in p + 1..q PROVE ~InMarker(i, At) /\ ModeAt(i, At) = ModeAt(p + 1, At)
  <2>1. i \in Nat /\ i - 1 \in Nat /\ p <= i - 1 /\ i - 1 + 1 = i
    BY <1>1
  <2>2. \A j \in At : j <= p \/ j > i - 1
    BY <1>1, <1>2, <1>3
  <2>3. ModeAt(i - 1 + 1, At) = ModeAt(p + 1, At)
    BY <1>1, <1>2, <2>1, <2>2, ModeStays
  <2>4. \A j \in At : ~(j <= i /\ i <= End(j))
    BY <1>1, <1>2, <1>3
  <2> QED BY <2>1, <2>3, <2>4, InMarkerIs
<1> QED BY <1>1, <1>4, <1>5, <1>6

\* The n bytes of the text after p, in a mode.
Said(m, p, n) == [k \in 1..n |-> <<m, text[p + k]>>]

LEMMA SaidIs ==
  ASSUME text \in Seq(Bytes), NEW m \in Modes, NEW p \in Nat, NEW n \in Nat, p + n <= Len(text)
  PROVE  Said(m, p, n) \in Seq(Marked) /\ Len(Said(m, p, n)) = n
<1>1. \A k \in 1..n : text[p + k] \in Bytes
  <2>1. \A k \in 1..n : p + k \in 1..Len(text)
    OBVIOUS
  <2> QED BY <2>1, ElementOfSeq
<1>2. \A k \in 1..n : <<m, text[p + k]>> \in Marked
  BY <1>1 DEF Marked
<1>3. Said(m, p, n) \in [1..n -> Marked]
  BY <1>2 DEF Said
<1> QED BY <1>3

\* Between markers the bytes are meant in the mode they are in.
Continues(modes, p, q) ==
  Meant(modes)[q] = IF ModeAt(p + 1, At) \in modes
                    THEN Meant(modes)[p] \o Said(ModeAt(p + 1, At), p, q - p)
                    ELSE Meant(modes)[p]

LEMMA PlainContinues ==
  ASSUME text \in Seq(Bytes), NEW p, NEW q, Plain(p, q), q <= Limit, NEW modes
  PROVE  Continues(modes, p, q)
<1> DEFINE f == Meant(modes)
           m == ModeAt(p + 1, At)
           S == {n \in 0..q - p :
                   f[p + n] = IF m \in modes THEN f[p] \o Said(m, p, n) ELSE f[p]}
<1>1. /\ p \in Nat /\ q \in Nat /\ p <= q /\ q <= Len(text) /\ Limit \in Nat /\ Len(text) \in Nat
      /\ \A i \in p + 1..q : ~InMarker(i, At) /\ ModeAt(i, At) = m
  BY PlainIs, LimitIs DEF Plain
<1>2. /\ f \in [0..Limit -> Seq(Marked)]
      /\ \A i \in 1..Limit : f[i] = Adds(modes, i, f[i - 1])
  BY MeantIs
<1>3. m \in Modes
  BY <1>1, ModesAre
<1> HIDE DEF f, m
<1>4. f[p] \in Seq(Marked)
  BY <1>1, <1>2
<1>5. 0 \in S
  <2>1. Said(m, p, 0) = << >>
    BY DEF Said
  <2>2. f[p] \o << >> = f[p]
    BY <1>4, ConcatEmptySeq
  <2>3. p + 0 = p /\ 0 \in 0..q - p
    BY <1>1
  <2> QED BY <2>1, <2>2, <2>3
<1>6. ASSUME NEW n \in 1..q - p, n - 1 \in S PROVE n \in S
  <2>1. p + n \in p + 1..q /\ p + n \in 1..Limit /\ p + n - 1 = p + (n - 1) /\ n - 1 \in Nat
        /\ n \in Nat /\ p + n <= Len(text) /\ p + (n - 1) <= Len(text)
    BY <1>1
  <2>2. f[p + n] = Adds(modes, p + n, f[p + (n - 1)])
    <3> DEFINE i == p + n
    <3>1. i \in 1..Limit /\ i - 1 = p + (n - 1)
      BY <1>1, <2>1
    <3> HIDE DEF i
    <3>2. f[i] = Adds(modes, i, f[i - 1])
      BY <1>2, <3>1
    <3>3. f[i] = Adds(modes, i, f[p + (n - 1)])
      BY ONLY <3>1, <3>2
    <3> QED BY ONLY <3>3 DEF i
  <2>3. ~InMarker(p + n, At) /\ ModeAt(p + n, At) = m
    BY <1>1, <2>1
  <2>4. CASE m \notin modes
    BY <1>6, <2>2, <2>3, <2>4 DEF Adds
  <2>5. CASE m \in modes
    <3> DEFINE a == Said(m, p, n - 1)
               b == Said(m, p, n)
               e == <<m, text[p + n]>>
    <3>1. f[p + n] = Append(f[p] \o a, e)
      BY <1>6, <2>2, <2>3, <2>5 DEF Adds
    <3>2. a \in Seq(Marked) /\ Len(a) = n - 1 /\ b \in Seq(Marked) /\ Len(b) = n
      BY <1>1, <1>3, <2>1, SaidIs
    <3>3. b[n] = e /\ \A k \in 1..n - 1 : b[k] = a[k]
      BY <2>1 DEF Said
    <3>4. e \in Marked
      <4>1. n \in 1..Len(b) /\ b \in Seq(Marked) /\ b[n] = e
        BY <3>2, <3>3, <2>1
      <4> HIDE DEF a, b, e
      <4> QED BY ONLY <4>1, ElementOfSeq
    <3> HIDE DEF a, b, e
    <3>5. b = Append(a, e)
      <4>1. Append(a, e) \in Seq(Marked) /\ Len(Append(a, e)) = n
            /\ Append(a, e)[n] = e /\ \A k \in 1..n - 1 : Append(a, e)[k] = a[k]
        BY <2>1, <3>2, <3>4, AppendProperties
      <4>2. \A k \in 1..n : b[k] = Append(a, e)[k]
        BY <2>1, <3>3, <4>1
      <4> QED BY <2>1, <3>2, <4>1, <4>2, SeqEqual
    <3>6. Append(f[p] \o a, e) = f[p] \o b
      <4>1. <<e>> \in Seq(Marked) /\ f[p] \o a \in Seq(Marked)
        BY <1>4, <3>2, <3>4, ConcatProperties
      <4>2. Append(f[p] \o a, e) = (f[p] \o a) \o <<e>> /\ b = a \o <<e>>
        BY <3>2, <3>4, <3>5, <4>1, AppendIsConcat
      <4>3. (f[p] \o a) \o <<e>> = f[p] \o (a \o <<e>>)
        <5>1. f[p] \in Seq(Marked) /\ a \in Seq(Marked) /\ <<e>> \in Seq(Marked)
          BY <1>4, <3>2, <4>1
        <5>2. \A x, y, z \in Seq(Marked) : (x \o y) \o z = x \o (y \o z)
          BY ONLY ConcatAssociative
        <5> QED BY ONLY <5>1, <5>2
      <4> QED BY <4>2, <4>3
    <3> QED BY <2>5, <3>1, <3>6 DEF b
  <2> QED BY <2>4, <2>5
<1>7. q - p \in Nat /\ q - p \in 0..q - p /\ p + (q - p) = q
  BY <1>1
<1> HIDE DEF S
<1>8. q - p \in S
  <2>1. \A n \in 0..q - p : n \in S
    BY <1>5, <1>6, <1>7, UpTo
  <2> QED BY <1>7, <2>1
<1> QED BY <1>7, <1>8 DEF S, Continues, f, m

\* A marker says nothing.
LEMMA MarkerIsSilent ==
  ASSUME text \in Seq(Bytes), NEW j \in At, End(j) <= Limit, NEW modes
  PROVE  Meant(modes)[End(j)] = Meant(modes)[j - 1]
<1> DEFINE f == Meant(modes)
           n == End(j) - (j - 1)
           S == {k \in 0..n : f[j - 1 + k] = f[j - 1]}
<1>1. j \in 1..Len(text) /\ End(j) \in j + 1..Len(text) /\ Limit \in Nat /\ Len(text) \in Nat
  BY MarkerIs, LimitIs
<1>2. \A i \in 1..Limit : f[i] = Adds(modes, i, f[i - 1])
  BY MeantIs
<1> HIDE DEF f
<1>3. 0 \in S
  BY <1>1
<1>4. ASSUME NEW k \in 1..n, k - 1 \in S PROVE k \in S
  <2>1. j - 1 + k \in 1..Limit /\ j - 1 + k - 1 = j - 1 + (k - 1) /\ j - 1 + k \in Nat
        /\ j <= j - 1 + k /\ j - 1 + k <= End(j)
    BY <1>1
  <2>2. InMarker(j - 1 + k, At)
    BY <2>1, InMarkerIs
  <2>3. f[j - 1 + k] = f[j - 1 + (k - 1)]
    <3> DEFINE i == j - 1 + k
    <3>1. i \in 1..Limit /\ i - 1 = j - 1 + (k - 1) /\ InMarker(i, At)
      BY <1>1, <2>1, <2>2
    <3> HIDE DEF i
    <3>2. f[i] = Adds(modes, i, f[i - 1])
      BY <1>2, <3>1
    <3>3. f[i] = f[j - 1 + (k - 1)]
      BY <3>1, <3>2 DEF Adds
    <3> QED BY ONLY <3>3 DEF i
  <2> QED BY <1>4, <2>3
<1>5. n \in Nat /\ j - 1 + n = End(j) /\ n \in 0..n
  BY <1>1
<1> HIDE DEF S, n
<1>6. n \in S
  <2>1. \A k \in 0..n : k \in S
    BY <1>3, <1>4, <1>5, UpTo
  <2> QED BY <1>5, <2>1
<1> QED BY <1>5, <1>6 DEF S, f

LEMMA PrefixOfConcat ==
  ASSUME NEW S, NEW s \in Seq(S), NEW t \in Seq(S), NEW u \in Seq(S), IsPrefix(s, t)
  PROVE  IsPrefix(s, t \o u) /\ IsPrefix(s, s)
<1>1. Len(s) \in Nat /\ Len(t) \in Nat /\ Len(u) \in Nat
  OBVIOUS
<1>2. Len(s) <= Len(t) /\ \A k \in 1..Len(s) : s[k] = t[k]
  BY PrefixIs
<1>3. /\ t \o u \in Seq(S) /\ Len(t \o u) = Len(t) + Len(u)
      /\ \A k \in 1..Len(t) : (t \o u)[k] = t[k]
  BY <1>1, ConcatProperties
<1>4. Len(s) <= Len(t \o u) /\ \A k \in 1..Len(s) : s[k] = (t \o u)[k]
  BY <1>1, <1>2, <1>3
<1>5. IsPrefix(s, t \o u)
  BY <1>3, <1>4, PrefixIs
<1> QED BY <1>1, <1>5, PrefixIs

\* What is meant up to p is a beginning of all that is meant.
LEMMA MeantSoFar ==
  ASSUME text \in Seq(Bytes), NEW p \in 0..Limit, NEW modes
  PROVE  IsPrefix(Meant(modes)[p], Meant(modes)[Limit])
<1> DEFINE f == Meant(modes)
           S == {n \in 0..Limit - p : IsPrefix(f[p], f[p + n])}
<1>1. Limit \in Nat /\ Limit <= Len(text) /\ Len(text) \in Nat /\ p \in Nat
  BY LimitIs
<1>2. /\ f \in [0..Limit -> Seq(Marked)]
      /\ \A i \in 1..Limit : f[i] = Adds(modes, i, f[i - 1])
  BY MeantIs
<1> HIDE DEF f
<1>3. 0 \in S
  <2>1. f[p] \in Seq(Marked) /\ p + 0 = p
    BY <1>1, <1>2
  <2>2. IsPrefix(f[p], f[p])
    BY <2>1, PrefixIs
  <2> QED BY <1>1, <2>1, <2>2
<1>4. ASSUME NEW n \in 1..Limit - p, n - 1 \in S PROVE n \in S
  <2>1. p + n \in 1..Limit /\ p + n - 1 = p + (n - 1) /\ p + (n - 1) \in 0..Limit
        /\ p + n \in 1..Len(text) /\ p + n \in Nat
    BY <1>1
  <2>2. f[p + n] = Adds(modes, p + n, f[p + (n - 1)]) /\ f[p + (n - 1)] \in Seq(Marked)
        /\ f[p] \in Seq(Marked)
    BY <1>2, <2>1
  <2> DEFINE e == <<ModeAt(p + n, At), text[p + n]>>
  <2>3. e \in Marked
    <3>1. text[p + n] \in Bytes /\ ModeAt(p + n, At) \in Modes
      BY <2>1, ModesAre, ElementOfSeq
    <3> QED BY <3>1 DEF Marked
  <2>4. f[p + n] = f[p + (n - 1)] \/ f[p + n] = Append(f[p + (n - 1)], e)
    BY <2>2 DEF Adds
  <2> HIDE DEF e
  <2>5. IsPrefix(f[p], f[p + (n - 1)])
    BY <1>4
  <2>6. IsPrefix(f[p], Append(f[p + (n - 1)], e))
    <3>1. Append(f[p + (n - 1)], e) = f[p + (n - 1)] \o <<e>> /\ <<e>> \in Seq(Marked)
      BY <2>2, <2>3, AppendIsConcat
    <3> QED BY <2>2, <2>5, <3>1, PrefixOfConcat
  <2>7. n \in 0..Limit - p /\ IsPrefix(f[p], f[p + n])
    <3>1. n \in 0..Limit - p
      BY <1>1
    <3> QED BY <2>4, <2>5, <2>6, <3>1
  <2> QED BY <2>7
<1>5. Limit - p \in Nat /\ Limit - p \in 0..Limit - p /\ p + (Limit - p) = Limit
  BY <1>1
<1> HIDE DEF S
<1>6. Limit - p \in S
  <2>1. \A n \in 0..Limit - p : n \in S
    BY <1>3, <1>4, <1>5, UpTo
  <2> QED BY <1>5, <2>1
<1> QED BY <1>5, <1>6 DEF S, f

\* The bytes of marked text.
LEMMA BytesOfIs ==
  ASSUME NEW s \in Seq(Marked), NEW t \in Seq(Marked)
  PROVE  /\ BytesOf(s) \in Seq(Bytes) /\ BytesOf(<< >>) = << >>
         /\ BytesOf(s \o t) = BytesOf(s) \o BytesOf(t)
<1>1. \A u \in Seq(Marked) : /\ BytesOf(u) \in Seq(Bytes) /\ Len(BytesOf(u)) = Len(u)
                             /\ \A k \in 1..Len(u) : BytesOf(u)[k] = u[k][2]
  <2> SUFFICES ASSUME NEW u \in Seq(Marked)
               PROVE  /\ BytesOf(u) \in Seq(Bytes) /\ Len(BytesOf(u)) = Len(u)
                      /\ \A k \in 1..Len(u) : BytesOf(u)[k] = u[k][2]
    OBVIOUS
  <2>1. \A k \in 1..Len(u) : u[k] \in Modes \X Bytes
    BY ElementOfSeq DEF Marked
  <2>2. \A k \in 1..Len(u) : u[k][2] \in Bytes
    BY <2>1
  <2>3. BytesOf(u) \in [1..Len(u) -> Bytes] /\ Len(u) \in Nat
    BY <2>2 DEF BytesOf
  <2> QED BY <2>3 DEF BytesOf
<1>2. BytesOf(<< >>) = << >>
  BY DEF BytesOf
<1>3. BytesOf(s \o t) = BytesOf(s) \o BytesOf(t)
  <2> DEFINE l == BytesOf(s \o t)
             r == BytesOf(s) \o BytesOf(t)
  <2>1. /\ s \o t \in Seq(Marked) /\ Len(s \o t) = Len(s) + Len(t)
        /\ Len(s) \in Nat /\ Len(t) \in Nat
        /\ \A i \in 1..Len(s) + Len(t) : (s \o t)[i] = IF i <= Len(s) THEN s[i] ELSE t[i - Len(s)]
    BY ConcatProperties
  <2>2. /\ l \in Seq(Bytes) /\ Len(l) = Len(s) + Len(t)
        /\ \A i \in 1..Len(s) + Len(t) : l[i] = (s \o t)[i][2]
    BY <1>1, <2>1
  <2>3. /\ r \in Seq(Bytes) /\ Len(r) = Len(s) + Len(t)
        /\ \A i \in 1..Len(s) + Len(t) :
             r[i] = IF i <= Len(s) THEN BytesOf(s)[i] ELSE BytesOf(t)[i - Len(s)]
    <3>1. /\ BytesOf(s) \in Seq(Bytes) /\ BytesOf(t) \in Seq(Bytes)
          /\ Len(BytesOf(s)) = Len(s) /\ Len(BytesOf(t)) = Len(t)
      BY <1>1
    <3> HIDE DEF BytesOf
    <3>2. \A x, y \in Seq(Bytes) :
            /\ x \o y \in Seq(Bytes) /\ Len(x \o y) = Len(x) + Len(y)
            /\ \A i \in 1..Len(x) + Len(y) : (x \o y)[i] = IF i <= Len(x) THEN x[i] ELSE y[i - Len(x)]
      BY ONLY ConcatProperties
    <3> DEFINE x == BytesOf(s)
               y == BytesOf(t)
    <3> HIDE DEF x, y, r
    <3>3. x \in Seq(Bytes) /\ y \in Seq(Bytes) /\ Len(x) = Len(s) /\ Len(y) = Len(t)
      BY <3>1 DEF x, y
    <3>4. r = x \o y
      BY DEF r, x, y
    <3>5. /\ r \in Seq(Bytes) /\ Len(r) = Len(s) + Len(t)
          /\ \A i \in 1..Len(s) + Len(t) : r[i] = IF i <= Len(s) THEN x[i] ELSE y[i - Len(s)]
      <4>1. /\ x \o y \in Seq(Bytes) /\ Len(x \o y) = Len(x) + Len(y)
            /\ \A i \in 1..Len(x) + Len(y) : (x \o y)[i] = IF i <= Len(x) THEN x[i] ELSE y[i - Len(x)]
        BY ONLY <3>2, <3>3
      <4> QED BY ONLY <3>3, <3>4, <4>1
    <3> QED BY <3>5 DEF x, y
  <2> HIDE DEF l, r
  <2>4. \A i \in 1..Len(s) + Len(t) : l[i] = r[i]
    <3> SUFFICES ASSUME NEW i \in 1..Len(s) + Len(t) PROVE l[i] = r[i]
      OBVIOUS
    <3>1. CASE i <= Len(s)
      <4>1. i \in 1..Len(s)
        BY <2>1, <3>1
      <4> QED BY <1>1, <2>1, <2>2, <2>3, <3>1, <4>1
    <3>2. CASE ~(i <= Len(s))
      <4> DEFINE k == i - Len(s)
      <4>1. k \in 1..Len(t)
        BY <2>1, <3>2
      <4>2. (s \o t)[i] = t[k]
        BY <2>1, <3>2
      <4> HIDE DEF k
      <4> QED BY <1>1, <2>1, <2>2, <2>3, <3>2, <4>1, <4>2 DEF k
    <3> QED BY <3>1, <3>2
  <2> QED BY <2>2, <2>3, <2>4, SeqEqual DEF l, r
<1> QED BY <1>1, <1>2, <1>3

-----------------------------------------------------------------------------
(* The hold.                                                               *)

LEMMA Cuts ==
  ASSUME NEW S, NEW s \in Seq(S), NEW n \in 0..Len(s)
  PROVE  /\ First(s, n) \in Seq(S) /\ Len(First(s, n)) = n
         /\ \A i \in 1..n : First(s, n)[i] = s[i]
         /\ Rest(s, n) \in Seq(S) /\ Len(Rest(s, n)) = Len(s) - n
         /\ \A i \in 1..Len(s) - n : Rest(s, n)[i] = s[n + i]
<1> DEFINE l == Len(s)
<1>1. l \in Nat /\ \A i \in 1..l : s[i] \in S
  BY ElementOfSeq
<1> HIDE DEF l
<1>2. 1 \in Int /\ n \in Int /\ n + 1 \in Int /\ l \in Int /\ n \in Nat /\ n <= l
  BY <1>1 DEF l
<1>3. (\A i \in 1..n : s[i] \in S) /\ (\A i \in n + 1..l : s[i] \in S)
  BY <1>1, <1>2
<1>4. /\ SubSeq(s, 1, n) \in Seq(S)
      /\ Len(SubSeq(s, 1, n)) = IF 1 <= n THEN n - 1 + 1 ELSE 0
      /\ \A i \in 1..n - 1 + 1 : SubSeq(s, 1, n)[i] = s[1 + i - 1]
  BY ONLY <1>2, <1>3, SubSeqProperties
<1>5. /\ SubSeq(s, n + 1, l) \in Seq(S)
      /\ Len(SubSeq(s, n + 1, l)) = IF n + 1 <= l THEN l - (n + 1) + 1 ELSE 0
      /\ \A i \in 1..l - (n + 1) + 1 : SubSeq(s, n + 1, l)[i] = s[n + 1 + i - 1]
  BY ONLY <1>2, <1>3, SubSeqProperties
<1>6. /\ First(s, n) \in Seq(S) /\ Len(First(s, n)) = n
      /\ \A i \in 1..n : First(s, n)[i] = s[i]
  BY <1>2, <1>4 DEF First
<1>7. /\ Rest(s, n) \in Seq(S) /\ Len(Rest(s, n)) = l - n
      /\ \A i \in 1..l - n : Rest(s, n)[i] = s[n + i]
  <2>1. Rest(s, n) = SubSeq(s, n + 1, l)
    BY DEF Rest, l
  <2>2. \A i \in 1..l - n : n + 1 + i - 1 = n + i /\ i \in 1..l - (n + 1) + 1
    BY <1>2
  <2> QED BY <1>2, <1>5, <2>1, <2>2
<1> QED BY <1>6, <1>7 DEF l

LEMMA SafeUtf8Is ==
  ASSUME NEW s \in Seq(Bytes), NEW n \in 0..Len(s)
  PROVE  /\ SafeUtf8(s, n) \in 0..n
         /\ n < Len(s) /\ SafeUtf8(s, n) > 0 => s[SafeUtf8(s, n) + 1] \notin Cont
<1>1. n \in Nat /\ Len(s) \in Nat
  OBVIOUS
<1>2. CASE n < Len(s)
  <2> DEFINE S == {0} \union {k \in 1..n : s[k + 1] \notin Cont}
  <2>1. S \subseteq 0..n /\ S # {}
    BY <1>1
  <2>2. \A k \in S : k = 0 \/ s[k + 1] \notin Cont
    OBVIOUS
  <2>3. SafeUtf8(s, n) = Max(S)
    BY <1>2 DEF SafeUtf8
  <2> HIDE DEF S
  <2>4. Max(S) \in S
    BY <1>1, <2>1, LargestIs
  <2>5. Max(S) \in 0..n /\ (Max(S) = 0 \/ s[Max(S) + 1] \notin Cont)
    BY <2>1, <2>2, <2>4
  <2> QED BY ONLY <1>1, <2>3, <2>5
<1>3. CASE ~(n < Len(s))
  BY <1>1, <1>3 DEF SafeUtf8
<1> QED BY <1>2, <1>3

LEMMA BackOffIs ==
  ASSUME NEW s \in Seq(Bytes), NEW n \in Nat
  PROVE  BackOff(s, n) \in 0..n
<1> DEFINE S == {0} \union {k \in 1..n : ~CouldBePrefix(s, k)}
<1>1. S \subseteq 0..n /\ S # {}
  OBVIOUS
<1>2. BackOff(s, n) = Max(S)
  BY DEF BackOff
<1> HIDE DEF S
<1>3. Max(S) \in S
  BY <1>1, LargestIs
<1> QED BY <1>1, <1>2, <1>3

\* h is the text after p.
Part(h, p) ==
  /\ h \in Seq(Bytes) /\ p \in Nat /\ p + Len(h) <= Len(text)
  /\ \A i \in 1..Len(h) : h[i] = text[p + i]

LEMMA PartMarkers ==
  ASSUME text \in Seq(Bytes), NEW h, NEW p, Part(h, p)
  PROVE  /\ MarkersIn(h) = {i \in 1..Len(h) : p + i \in At /\ End(p + i) <= p + Len(h)}
         /\ \A i \in MarkersIn(h) :
              (CHOOSE m \in Recognized : Occurs(m, h, i)) = MarkerAt(p + i)
<1>1. h \in Seq(Bytes) /\ p \in Nat /\ Len(h) \in Nat /\ Len(text) \in Nat /\ p + Len(h) <= Len(text)
  BY DEF Part
<1>2. ASSUME NEW i \in 1..Len(h), NEW m \in Rows
      PROVE  Stands(m, h, i) <=> /\ Stands(m, text, p + i)
                                 /\ p + i + Len(Tag[m]) - 1 <= p + Len(h)
  <2>1. Len(Tag[m]) \in Nat
    BY TagIs
  <2>2. CASE i + Len(Tag[m]) - 1 <= Len(h)
    <3>1. \A k \in 1..Len(Tag[m]) : h[i + k - 1] = text[p + i + k - 1]
      <4> SUFFICES ASSUME NEW k \in 1..Len(Tag[m]) PROVE h[i + k - 1] = text[p + i + k - 1]
        OBVIOUS
      <4>1. i + k - 1 \in 1..Len(h) /\ p + (i + k - 1) = p + i + k - 1
        BY <1>1, <2>1, <2>2
      <4>2. h[i + k - 1] = text[p + (i + k - 1)]
        BY <4>1 DEF Part
      <4> QED BY <4>1, <4>2
    <3>2. p + i + Len(Tag[m]) - 1 <= p + Len(h) /\ p + i + Len(Tag[m]) - 1 <= Len(text)
      <4> DEFINE l == Len(Tag[m])
      <4> HIDE DEF l
      <4>1. l \in Nat /\ i + l - 1 <= Len(h) /\ i \in Nat
        BY <1>1, <2>1, <2>2 DEF l
      <4>2. p + i + l - 1 <= p + Len(h) /\ p + i + l - 1 <= Len(text)
        BY ONLY <1>1, <4>1
      <4> QED BY <4>2 DEF l
    <3> QED BY <2>2, <3>1, <3>2 DEF Stands
  <2>3. CASE ~(i + Len(Tag[m]) - 1 <= Len(h))
    <3>1. ~(p + i + Len(Tag[m]) - 1 <= p + Len(h))
      <4> DEFINE l == Len(Tag[m])
      <4> HIDE DEF l
      <4>1. l \in Nat /\ ~(i + l - 1 <= Len(h)) /\ i \in Nat
        BY <1>1, <2>1, <2>3 DEF l
      <4>2. ~(p + i + l - 1 <= p + Len(h))
        BY ONLY <1>1, <4>1
      <4> QED BY <4>2 DEF l
    <3> QED BY <2>3, <3>1 DEF Stands
  <2> QED BY <2>2, <2>3
<1>3. ASSUME NEW i \in 1..Len(h)
      PROVE  /\ i \in MarkersIn(h) <=> p + i \in At /\ End(p + i) <= p + Len(h)
             /\ i \in MarkersIn(h) =>
                  (CHOOSE m \in Recognized : Occurs(m, h, i)) = MarkerAt(p + i)
  <2>1. i \in Nat \ {0} /\ p + i \in 1..Len(text)
    BY <1>1
  <2>2. p + i \in At <=> \E m \in Recognized : Stands(m, text, p + i)
    BY <2>1, MarkersAre DEF At
  <2>3. i \in MarkersIn(h) <=> \E m \in Recognized : Stands(m, h, i)
    BY <1>1, MarkersAre
  <2>4. ASSUME p + i \in At
        PROVE  /\ MarkerAt(p + i) \in Recognized
               /\ \A m \in Recognized : Stands(m, text, p + i) <=> m = MarkerAt(p + i)
    BY <2>4, MarkerIs
  <2>5. ASSUME NEW m \in Recognized, Stands(m, h, i)
        PROVE  /\ p + i \in At /\ m = MarkerAt(p + i) /\ End(p + i) <= p + Len(h)
    <3>1. m \in Rows
      BY RecognizedAreRows
    <3>2. Stands(m, text, p + i) /\ p + i + Len(Tag[m]) - 1 <= p + Len(h)
      BY <1>2, <2>5, <3>1
    <3>3. p + i \in At /\ m = MarkerAt(p + i)
      BY <2>2, <2>4, <3>2
    <3> QED BY <3>2, <3>3 DEF End
  <2>6. ASSUME p + i \in At, End(p + i) <= p + Len(h)
        PROVE  Stands(MarkerAt(p + i), h, i)
    BY <1>2, <2>4, <2>6, RecognizedAreRows DEF End
  <2>7. i \in MarkersIn(h) <=> p + i \in At /\ End(p + i) <= p + Len(h)
    BY <2>3, <2>4, <2>5, <2>6
  <2>8. ASSUME i \in MarkersIn(h)
        PROVE  (CHOOSE m \in Recognized : Occurs(m, h, i)) = MarkerAt(p + i)
    <3>1. \A m \in Recognized : Occurs(m, h, i) <=> Stands(m, h, i)
      BY <1>1, <2>1, OccursIs, RecognizedAreRows
    <3>2. \A m \in Recognized : Occurs(m, h, i) => m = MarkerAt(p + i)
      BY <2>5, <3>1
    <3>3. \E m \in Recognized : Occurs(m, h, i)
      BY <2>3, <2>8, <3>1
    <3> QED BY <3>2, <3>3
  <2> QED BY <2>7, <2>8
<1>4. MarkersIn(h) \subseteq 1..Len(h)
  BY DEF MarkersIn
<1> QED BY <1>3, <1>4

\* at is where the first marker in the hold begins, m which it is.
FirstIs(at, m) ==
  /\ at \in 1..Len(hold) /\ m \in Recognized /\ m \in Rows
  /\ Pos + at \in At /\ MarkerAt(Pos + at) = m
  /\ End(Pos + at) = Pos + at + Len(Tag[m]) - 1
  /\ End(Pos + at) \in Pos + at + 1..Pos + Len(hold)
  /\ at + Len(Tag[m]) - 1 \in at + 1..Len(hold)
  /\ \A j \in At : j <= Pos \/ j >= Pos + at

LEMMA HoldIsPart ==
  ASSUME Types, Holding
  PROVE  /\ Part(hold, Pos) /\ Pos \in Nat /\ Len(hold) \in Nat /\ Len(src) \in Nat
         /\ Len(text) \in Nat /\ Pos + Len(hold) + Len(src) = next - 1 /\ next \in Nat
         /\ Pos + Len(hold) + Len(src) <= Len(text) /\ text \in Seq(Bytes)
<1>1. /\ hold \in Seq(Bytes) /\ src \in Seq(Bytes) /\ text \in Seq(Bytes)
      /\ Len(hold) \in Nat /\ Len(src) \in Nat /\ Len(text) \in Nat /\ next \in 1..Len(text) + 1
  BY DEF Types
<1>2. Pos \in 0..Len(text) /\ Pos = next - 1 - Len(src) - Len(hold)
  BY DEF Holding, Fits, Pos
<1> QED BY <1>1, <1>2 DEF Part, Holding, Fits

LEMMA FirstMarker ==
  ASSUME Types, Holding, MarkersIn(hold) # {}
  PROVE  FirstIs(Min(MarkersIn(hold)),
                 CHOOSE m \in Recognized : Occurs(m, hold, Min(MarkersIn(hold))))
<1> DEFINE p == Pos
           at == Min(MarkersIn(hold))
           m == CHOOSE r \in Recognized : Occurs(r, hold, at)
<1>1. Part(hold, p) /\ p \in Nat /\ Len(hold) \in Nat /\ text \in Seq(Bytes) /\ hold \in Seq(Bytes)
  BY HoldIsPart DEF Part
<1> HIDE DEF p
<1>2. MarkersIn(hold) = {i \in 1..Len(hold) : p + i \in At /\ End(p + i) <= p + Len(hold)}
  BY <1>1, PartMarkers
<1>3. at \in MarkersIn(hold) /\ \A i \in MarkersIn(hold) : at <= i
  <2>1. MarkersIn(hold) \subseteq Nat
    BY <1>2
  <2> QED BY <2>1, SmallestIs
<1>4. m = MarkerAt(p + at)
  BY <1>1, <1>3, PartMarkers
<1> HIDE DEF at, m
<1>5. at \in 1..Len(hold) /\ p + at \in At /\ End(p + at) <= p + Len(hold)
  BY <1>2, <1>3
<1>6. m \in Recognized /\ m \in Rows /\ End(p + at) \in p + at + 1..Len(text)
  BY <1>1, <1>4, <1>5, MarkerIs
<1>7. End(p + at) = p + at + Len(Tag[m]) - 1 /\ Len(Tag[m]) \in Nat
  BY <1>4, <1>6, TagIs DEF End
<1>8. End(p + at) \in p + at + 1..p + Len(hold) /\ at + Len(Tag[m]) - 1 \in at + 1..Len(hold)
  <2> DEFINE l == Len(Tag[m])
             e == End(p + at)
  <2> HIDE DEF l, e
  <2>1. l \in Nat /\ e = p + at + l - 1 /\ e \in p + at + 1..Len(text) /\ e <= p + Len(hold)
        /\ p \in Nat /\ at \in Nat /\ Len(hold) \in Nat /\ Len(text) \in Nat
    <3>1. Len(text) \in Nat /\ at \in Nat
      BY <1>1, <1>5
    <3>2. l \in Nat /\ e = p + at + l - 1
      BY <1>7 DEF l, e
    <3>3. e \in p + at + 1..Len(text) /\ e <= p + Len(hold)
      BY <1>5, <1>6 DEF e
    <3> QED BY <1>1, <3>1, <3>2, <3>3
  <2>2. e \in p + at + 1..p + Len(hold) /\ at + l - 1 \in at + 1..Len(hold)
    BY ONLY <2>1
  <2> QED BY <2>2 DEF l, e
<1>9. ASSUME NEW j \in At PROVE j <= p \/ j >= p + at
  <2>1. j \in Nat /\ End(j) \in Nat
    BY <1>1, MarkerIs
  <2> SUFFICES ASSUME p < j, j < p + at PROVE FALSE
    BY <1>1, <1>5, <2>1
  <2>2. End(j) < p + at
    BY <1>1, <1>5, Apart
  <2> DEFINE i == j - p
  <2>3. i \in 1..Len(hold) /\ p + i = j /\ i < at /\ End(j) <= p + Len(hold)
    BY <1>1, <1>5, <2>1, <2>2
  <2> HIDE DEF i
  <2>4. i \in MarkersIn(hold)
    BY <1>2, <2>3
  <2> QED BY <1>3, <1>5, <2>3, <2>4
<1> QED BY <1>4, <1>5, <1>6, <1>7, <1>8, <1>9 DEF FirstIs, p, at, m

\* Where no marker is complete in the hold, what leaves room behind it for one
\* has no part of a marker.
LEMMA FrontIsPlain ==
  ASSUME Types, Holding, Between(Pos), MarkersIn(hold) = {}, NEW k \in Nat,
         k <= Len(hold) - Keep \/ (k = Len(hold) /\ next > Len(text) /\ src = << >>)
  PROVE  Plain(Pos, Pos + k)
<1> DEFINE p == Pos
<1>1. /\ Part(hold, p) /\ p \in Nat /\ Len(hold) \in Nat /\ Len(src) \in Nat /\ Len(text) \in Nat
      /\ p + Len(hold) + Len(src) = next - 1 /\ next \in Nat
      /\ p + Len(hold) + Len(src) <= Len(text) /\ text \in Seq(Bytes)
  BY HoldIsPart
<1>2. Between(p)
  OBVIOUS
<1> HIDE DEF p
<1>3. MaxMarker \in Nat /\ MaxMarker > 1 /\ Keep = MaxMarker - 1
  BY TagIs DEF Keep, Rows
<1>4. k <= Len(hold) /\ p + k \in p..Len(text)
  BY <1>1, <1>3
<1>5. ASSUME NEW j \in At PROVE j <= p \/ j > p + k
  <2>1. j \in Nat /\ End(j) \in j + 1..Len(text) /\ MarkerAt(j) \in Rows
    BY <1>1, MarkerIs
  <2> SUFFICES ASSUME p < j, j <= p + k PROVE FALSE
    BY <1>1, <2>1
  <2>2. End(j) <= p + Len(hold)
    <3>1. CASE k <= Len(hold) - Keep
      <4>1. Len(Tag[MarkerAt(j)]) \in Nat /\ Len(Tag[MarkerAt(j)]) <= MaxMarker
        BY <2>1, TagIs
      <4>2. End(j) <= j + MaxMarker - 1
        BY <1>3, <2>1, <4>1 DEF End
      <4> QED BY <1>1, <1>3, <2>1, <3>1, <4>2
    <3>2. CASE k = Len(hold) /\ next > Len(text) /\ src = << >>
      <4>1. Len(src) = 0
        BY <3>2
      <4> QED BY <1>1, <2>1, <3>2, <4>1
    <3> QED BY <3>1, <3>2
  <2> DEFINE i == j - p
  <2>3. i \in 1..Len(hold) /\ p + i = j
    BY <1>1, <1>4, <2>1
  <2> HIDE DEF i
  <2>4. i \in MarkersIn(hold)
    BY <1>1, <2>2, <2>3, PartMarkers
  <2> QED BY <2>4
<1> QED BY <1>2, <1>4, <1>5 DEF Plain, p

-----------------------------------------------------------------------------
(* Steps.                                                                  *)

\* The text and what it means do not change.
LEMMA InputStays ==
  ASSUME UNCHANGED input
  PROVE  /\ text' = text /\ recognize' = recognize /\ discard' = discard
         /\ At' = At /\ Limit' = Limit /\ Closers' = Closers
         /\ (WellFormed' <=> WellFormed)
         /\ MeantToShow' = MeantToShow /\ MeantCall' = MeantCall
         /\ MarkersIn(hold)' = MarkersIn(hold')
<1>1. text' = text /\ recognize' = recognize /\ discard' = discard
  BY DEF input
<1>2. At' = At
  BY <1>1 DEF At, MarkersIn, Recognized
<1>3. Closers' = Closers
  BY <1>1 DEF Closers, MarkersIn, Recognized, ModeAt, MarkerAt
<1>4. Limit' = Limit
  BY <1>1, <1>3 DEF Limit
<1>5. WellFormed' <=> WellFormed
  BY <1>1 DEF WellFormed
<1>6. MeantToShow' = MeantToShow /\ MeantCall' = MeantCall
  BY <1>1, <1>4 DEF MeantToShow, MeantCall, Meant, BytesOf, MarkersIn, Recognized, InMarker, ModeAt,
     MarkerAt
<1>7. MarkersIn(hold)' = MarkersIn(hold')
  BY <1>1 DEF MarkersIn, Recognized
<1> QED BY <1>1, <1>2, <1>3, <1>4, <1>5, <1>6, <1>7

LEMMA MeaningStays ==
  ASSUME UNCHANGED input
  PROVE  /\ \A j : End(j)' = End(j)
         /\ \A i : ModeAt(i, At)' = ModeAt(i, At)
         /\ \A modes : Meant(modes)' = Meant(modes)
<1>1. text' = text /\ recognize' = recognize /\ discard' = discard /\ At' = At /\ Limit' = Limit
  BY InputStays
<1>2. \A j : MarkerAt(j)' = MarkerAt(j)
  BY <1>1 DEF MarkerAt, Recognized
<1>3. \A j : End(j)' = End(j)
  BY <1>2 DEF End
<1>4. \A i : ModeAt(i, At)' = ModeAt(i, At)
  BY <1>1, <1>2 DEF ModeAt
<1>5. ASSUME NEW modes PROVE Meant(modes)' = Meant(modes)
  BY <1>1 DEF Meant, MarkersIn, Recognized, InMarker, ModeAt, MarkerAt
<1> QED BY <1>3, <1>4, <1>5

\* The first k bytes leave the hold.
LEMMA DropKeeps ==
  ASSUME Types, Holding, NEW k \in 0..Len(hold), hold' = Rest(hold, k),
         src' = src, next' = next, text' = text
  PROVE  Pos' = Pos + k /\ Fits' /\ hold' \in Seq(Bytes)
<1>1. /\ Part(hold, Pos) /\ Pos \in Nat /\ Len(hold) \in Nat /\ Len(src) \in Nat /\ next \in Nat
      /\ Len(text) \in Nat /\ Pos + Len(hold) + Len(src) = next - 1
      /\ Pos + Len(hold) + Len(src) <= Len(text) /\ hold \in Seq(Bytes)
  BY HoldIsPart DEF Part
<1>2. /\ hold' \in Seq(Bytes) /\ Len(hold') = Len(hold) - k
      /\ \A i \in 1..Len(hold) - k : hold'[i] = hold[k + i]
  <2>1. hold' = Rest(hold, k) /\ k \in 0..Len(hold) /\ hold \in Seq(Bytes)
    BY <1>1
  <2> QED BY ONLY <2>1, Cuts
<1>3. Pos' = Pos + k
  <2>1. Pos' = next - 1 - Len(src) - (Len(hold) - k)
    BY <1>2 DEF Pos
  <2> QED BY <1>1, <2>1 DEF Pos
<1>4. \A i \in 1..Len(hold') : hold'[i] = text[Pos + k + i]
  <2> SUFFICES ASSUME NEW i \in 1..Len(hold') PROVE hold'[i] = text[Pos + k + i]
    OBVIOUS
  <2>1. k + i \in 1..Len(hold) /\ Pos + (k + i) = Pos + k + i /\ i \in 1..Len(hold) - k
    BY <1>1, <1>2
  <2>2. hold[k + i] = text[Pos + (k + i)]
    BY <1>1, <2>1 DEF Part
  <2> QED BY <1>2, <2>1, <2>2
<1>5. \A i \in 1..Len(src) : src[i] = text[Pos + k + Len(hold') + i]
  <2> SUFFICES ASSUME NEW i \in 1..Len(src) PROVE src[i] = text[Pos + k + Len(hold') + i]
    OBVIOUS
  <2>1. Pos + k + Len(hold') + i = Pos + Len(hold) + i
    BY <1>1, <1>2
  <2> QED BY <2>1 DEF Holding, Fits
<1>6. Pos + k \in 0..Len(text)
  BY <1>1
<1> QED BY <1>2, <1>3, <1>4, <1>5, <1>6 DEF Fits

\* What is shown and collected has its type.
LEMMA ShowTypes ==
  ASSUME Types, NEW s \in Seq(Bytes), NEW r \in BOOLEAN, Show(s, r)
  PROVE  /\ chunk' \in Seq(Bytes) /\ shown' \in Seq(Marked) /\ refused' \in BOOLEAN
         /\ Collected(s) \in Seq(Bytes)
         /\ ~refused' => ~refused /\ ~r
<1>1. chunk' \in Seq(Bytes)
  BY EmptySeq DEF Show
<1>2. [i \in 1..Len(chunk') |-> <<mode, chunk'[i]>>] \in Seq(Marked)
  <2>1. Len(chunk') \in Nat /\ \A i \in 1..Len(chunk') : chunk'[i] \in Bytes
    BY <1>1, ElementOfSeq
  <2>2. \A i \in 1..Len(chunk') : <<mode, chunk'[i]>> \in Marked
    BY <2>1 DEF Types, Marked
  <2>3. [i \in 1..Len(chunk') |-> <<mode, chunk'[i]>>] \in [1..Len(chunk') -> Marked]
    BY <2>2
  <2> QED BY <2>1, <2>3
<1>3. shown' \in Seq(Marked)
  BY <1>2, ConcatProperties DEF Types, Show
<1>4. Collected(s) \in Seq(Bytes)
  BY ConcatProperties DEF Types, Collected
<1>5. refused' \in BOOLEAN /\ (~refused' => ~refused /\ ~r)
  BY DEF Show, Types
<1> QED BY <1>1, <1>3, <1>4, <1>5

\* Saying nothing is saying the first 0 bytes.
LEMMA QuietIsEmpty ==
  ASSUME Types, Quiet
  PROVE  EmitBytes(First(hold, 0), FALSE)
<1>1. First(hold, 0) = << >>
  BY DEF First
<1>2. chunk' = << >> /\ shown' = shown /\ call' = call /\ refused' = refused
  BY DEF Quiet
<1>3. shown \o << >> = shown /\ call \o << >> = call
  BY ConcatEmptySeq DEF Types
<1>4. [i \in 1..Len(<< >>) |-> <<mode, << >>[i]>>] = << >>
  OBVIOUS
<1>5. Show(<< >>, FALSE)
  BY <1>2, <1>3, <1>4 DEF Show, Types
<1>6. call' = Collected(<< >>)
  BY <1>2, <1>3 DEF Collected
<1> QED BY <1>1, <1>5, <1>6 DEF EmitBytes

\* A step puts the first e bytes of the hold out; a cut leaves a character
\* behind it.
Puts(e, r) ==
  /\ e \in 0..Len(hold) /\ r \in BOOLEAN
  /\ EmitBytes(First(hold, e), r) /\ rc' = (rc \/ r)
  /\ e > 0 /\ e < Len(hold) => hold[e + 1] \notin Cont

LEMMA QuietPuts ==
  ASSUME Types, Quiet, rc' = rc
  PROVE  Puts(0, FALSE)
<1>1. 0 \in 0..Len(hold) /\ FALSE \in BOOLEAN /\ ~(0 > 0)
  BY DEF Types
<1>2. rc' = (rc \/ FALSE)
  <2>1. rc \in BOOLEAN
    BY DEF Types
  <2> QED BY <2>1
<1>3. EmitBytes(First(hold, 0), FALSE)
  BY QuietIsEmpty
<1> QED BY <1>1, <1>2, <1>3 DEF Puts

LEMMA PutsTypes ==
  ASSUME Types, NEW e, NEW r, Puts(e, r)
  PROVE  /\ {call, chunk}' \subseteq Seq(Bytes) /\ shown' \in Seq(Marked)
         /\ refused' \in BOOLEAN /\ rc' \in BOOLEAN
         /\ ~refused' => ~refused /\ rc' = rc
<1>1. e \in 0..Len(hold) /\ r \in BOOLEAN /\ hold \in Seq(Bytes) /\ rc \in BOOLEAN
  BY DEF Puts, Types
<1>2. First(hold, e) \in Seq(Bytes)
  BY <1>1, Cuts
<1>3. Show(First(hold, e), r) /\ call' = Collected(First(hold, e))
  BY DEF Puts, EmitBytes
<1>4. /\ chunk' \in Seq(Bytes) /\ shown' \in Seq(Marked) /\ refused' \in BOOLEAN
      /\ Collected(First(hold, e)) \in Seq(Bytes)
      /\ ~refused' => ~refused /\ ~r
  BY <1>1, <1>2, <1>3, ShowTypes
<1>5. rc' \in BOOLEAN /\ (~r => rc' = rc)
  BY <1>1 DEF Puts
<1> QED BY <1>3, <1>4, <1>5

CopyDid(e, n, r) ==
  /\ Puts(e, r) /\ (e = 0 \/ e <= Len(hold) - Keep)
  /\ n \in 0..Len(src) /\ Len(hold) - e + n <= HoldSize
  /\ hold' = Rest(hold, e) \o First(src, n) /\ src' = Rest(src, n)
  /\ pc = "copy" /\ pc' = "markers" /\ UNCHANGED <<input, next, mode, ready>>

LEMMA CopyDoes ==
  ASSUME Types, Copy
  PROVE  \E e, n, r : CopyDid(e, n, r)
<1> DEFINE full   == Len(hold) >= HoldSize
           emit_n == IF full THEN SafeUtf8(hold, Len(hold) - Keep) ELSE 0
           kept   == IF emit_n > 0 THEN Rest(hold, emit_n) ELSE hold
           n      == Min({Len(src), HoldSize - Len(kept)})
<1>1. /\ hold \in Seq(Bytes) /\ src \in Seq(Bytes) /\ Len(hold) \in Nat /\ Len(src) \in Nat
      /\ rc \in BOOLEAN
  BY DEF Types
<1>2. /\ MaxMarker \in Nat /\ MaxMarker > 1 /\ Keep = MaxMarker - 1
      /\ HoldSize \in Nat /\ HoldSize >= MaxMarker
  BY TagIs, SizesAssumption DEF Rows, Keep
<1>3. emit_n \in 0..Len(hold) /\ (emit_n = 0 \/ emit_n <= Len(hold) - Keep)
      /\ (emit_n > 0 => hold[emit_n + 1] \notin Cont)
  <2>1. CASE full
    <3>1. Len(hold) - Keep \in 0..Len(hold) /\ Len(hold) - Keep < Len(hold)
      BY <1>1, <1>2, <2>1
    <3>2. /\ SafeUtf8(hold, Len(hold) - Keep) \in 0..Len(hold) - Keep
          /\ SafeUtf8(hold, Len(hold) - Keep) > 0 =>
               hold[SafeUtf8(hold, Len(hold) - Keep) + 1] \notin Cont
      BY <1>1, <3>1, SafeUtf8Is
    <3> QED BY <1>1, <1>2, <2>1, <3>1, <3>2
  <2>2. CASE ~full
    BY <1>1, <2>2
  <2> QED BY <2>1, <2>2
<1>4. \/ emit_n > 0 /\ \E r \in BOOLEAN : EmitBytes(First(hold, emit_n), r) /\ rc' = (rc \/ r)
      \/ ~(emit_n > 0) /\ Quiet /\ rc' = rc
  BY DEF Copy
<1>5. hold' = kept \o First(src, n) /\ src' = Rest(src, n)
  BY DEF Copy
<1>6. pc = "copy" /\ pc' = "markers" /\ UNCHANGED <<input, next, mode, ready>>
  BY DEF Copy
<1>7. kept = Rest(hold, emit_n)
  <2>1. Rest(hold, 0) = hold
    BY <1>1, SubSeqFull DEF Rest
  <2> HIDE DEF emit_n
  <2> QED BY <1>3, <2>1
<1>8. Len(kept) = Len(hold) - emit_n /\ Len(kept) \in Nat /\ Len(kept) <= HoldSize
  <2>1. Len(kept) = Len(hold) - emit_n
    <3>1. kept = Rest(hold, emit_n) /\ emit_n \in 0..Len(hold) /\ hold \in Seq(Bytes)
      BY <1>1, <1>3, <1>7
    <3> HIDE DEF kept, emit_n
    <3> QED BY ONLY <3>1, Cuts
  <2>2. Len(hold) <= HoldSize
    BY DEF Types
  <2> HIDE DEF emit_n, kept
  <2> QED BY <1>1, <1>2, <1>3, <2>1, <2>2
<1> HIDE DEF emit_n, kept
<1>9. n \in 0..Len(src) /\ n <= HoldSize - Len(kept)
  <2> DEFINE S == {Len(src), HoldSize - Len(kept)}
  <2>1. S \subseteq Nat /\ S # {}
    BY <1>1, <1>2, <1>8
  <2>2. Min(S) \in S /\ \A x \in S : Min(S) <= x
    BY <2>1, SmallestIs
  <2> QED BY <1>1, <1>2, <1>8, <2>1, <2>2
<1> HIDE DEF n
<1>10. Len(hold) - emit_n + n <= HoldSize
  BY <1>1, <1>2, <1>3, <1>8, <1>9
<1>11. \E r : Puts(emit_n, r)
  <2>1. CASE emit_n > 0
    BY <1>3, <1>4, <2>1 DEF Puts
  <2>2. CASE ~(emit_n > 0)
    <3>1. emit_n = 0
      BY <1>3, <2>2
    <3>2. Puts(0, FALSE)
      BY <1>4, <2>2, QuietPuts
    <3> QED BY <3>1, <3>2
  <2> QED BY <2>1, <2>2
<1> QED BY <1>3, <1>5, <1>6, <1>7, <1>9, <1>10, <1>11 DEF CopyDid

FlushDid(e, r) ==
  /\ Puts(e, r) /\ (e = 0 \/ (~rc /\ e <= Len(hold) - Keep))
  /\ hold' = Rest(hold, e)
  /\ pc = "markers" /\ (rc \/ MarkersIn(hold) = {})
  /\ pc' = IF src # << >> /\ ~rc' THEN "copy" ELSE "idle"
  /\ UNCHANGED <<input, next, mode, ready, src>>

LEMMA FlushDoes ==
  ASSUME Types, Flush
  PROVE  \E e, r : FlushDid(e, r)
<1> DEFINE b    == BackOff(hold, Len(hold) - Keep)
           safe == IF ~rc /\ Len(hold) > Keep THEN SafeUtf8(hold, b) ELSE 0
<1>1. hold \in Seq(Bytes) /\ Len(hold) \in Nat /\ rc \in BOOLEAN
  BY DEF Types
<1>2. MaxMarker \in Nat /\ MaxMarker > 1 /\ Keep = MaxMarker - 1
  BY TagIs DEF Rows, Keep
<1>3. safe \in 0..Len(hold) /\ (safe = 0 \/ (~rc /\ safe <= Len(hold) - Keep))
      /\ (safe > 0 => hold[safe + 1] \notin Cont)
  <2>1. CASE ~rc /\ Len(hold) > Keep
    <3>1. Len(hold) - Keep \in Nat
      BY <1>1, <1>2, <2>1
    <3>2. b \in 0..Len(hold) - Keep
      BY <1>1, <3>1, BackOffIs
    <3> HIDE DEF b
    <3>3. b \in 0..Len(hold) /\ b < Len(hold) /\ b <= Len(hold) - Keep
      BY <1>1, <1>2, <3>1, <3>2
    <3>4. /\ SafeUtf8(hold, b) \in 0..b
          /\ SafeUtf8(hold, b) > 0 => hold[SafeUtf8(hold, b) + 1] \notin Cont
      BY <1>1, <3>3, SafeUtf8Is
    <3> QED BY <1>1, <1>2, <2>1, <3>3, <3>4
  <2>2. CASE ~(~rc /\ Len(hold) > Keep)
    BY <1>1, <2>2
  <2> QED BY <2>1, <2>2
<1>4. /\ pc = "markers" /\ (rc \/ MarkersIn(hold) = {})
      /\ pc' = IF src # << >> /\ ~rc' THEN "copy" ELSE "idle"
      /\ UNCHANGED <<input, next, mode, ready, src>>
  BY DEF Flush
<1>5. \/ /\ safe > 0 /\ hold' = Rest(hold, safe)
         /\ \E r \in BOOLEAN : EmitBytes(First(hold, safe), r) /\ rc' = r
      \/ ~(safe > 0) /\ Quiet /\ hold' = hold /\ rc' = rc
  BY DEF Flush
<1> HIDE DEF safe
<1>6. CASE safe > 0
  <2>1. PICK r \in BOOLEAN : EmitBytes(First(hold, safe), r) /\ rc' = r
    BY <1>5, <1>6
  <2>2. ~rc
    BY <1>3, <1>6
  <2>3. Puts(safe, r)
    BY <1>3, <2>1, <2>2 DEF Puts
  <2> QED BY <1>3, <1>4, <1>5, <1>6, <2>3 DEF FlushDid
<1>7. CASE ~(safe > 0)
  <2>1. Rest(hold, 0) = hold
    BY <1>1, SubSeqFull DEF Rest
  <2>3. Puts(0, FALSE)
    BY <1>5, <1>7, QuietPuts
  <2> QED BY <1>4, <1>5, <1>7, <2>1, <2>3 DEF FlushDid
<1> QED BY <1>6, <1>7

FinishRestDid(e, r) ==
  /\ Puts(e, r) /\ (e = Len(hold) \/ rc)
  /\ hold' = Rest(hold, e)
  /\ pc = "finish" /\ (rc \/ MarkersIn(hold) = {})
  /\ pc' = "end"
  /\ UNCHANGED <<input, next, mode, ready, src>>

LEMMA FinishRestDoes ==
  ASSUME Types, FinishRest
  PROVE  \E e, r : FinishRestDid(e, r)
<1>1. hold \in Seq(Bytes) /\ Len(hold) \in Nat /\ rc \in BOOLEAN
  BY DEF Types
<1>2. /\ pc = "finish" /\ (rc \/ MarkersIn(hold) = {}) /\ pc' = "end"
      /\ UNCHANGED <<input, next, mode, ready, src>>
  BY DEF FinishRest
<1>3. CASE hold # << >> /\ ~rc
  <2>1. PICK r \in BOOLEAN : EmitBytes(hold, r) /\ rc' = r
    BY <1>3 DEF FinishRest
  <2>2. First(hold, Len(hold)) = hold /\ Rest(hold, Len(hold)) = << >>
    BY <1>1, SubSeqFull, SubSeqEmpty DEF First, Rest
  <2>3. Puts(Len(hold), r)
    BY <1>1, <1>3, <2>1, <2>2 DEF Puts
  <2>4. hold' = << >>
    BY <1>3 DEF FinishRest
  <2> QED BY <1>2, <2>2, <2>3, <2>4 DEF FinishRestDid
<1>4. CASE ~(hold # << >> /\ ~rc)
  <2>1. Quiet /\ hold' = hold /\ rc' = rc
    BY <1>4 DEF FinishRest
  <2>2. Rest(hold, 0) = hold
    BY <1>1, SubSeqFull DEF Rest
  <2>4. Puts(0, FALSE)
    BY <2>1, QuietPuts
  <2>5. Len(hold) = 0 \/ rc
    BY <1>1, <1>4
  <2> QED BY <1>2, <2>1, <2>2, <2>4, <2>5 DEF FinishRestDid
<1> QED BY <1>3, <1>4

-----------------------------------------------------------------------------
(* What goes out.                                                          *)

LEMMA PlainInLimit ==
  ASSUME text \in Seq(Bytes), NEW p, NEW q, Plain(p, q), p <= Limit
  PROVE  q <= Limit
<1>1. p \in Nat /\ q \in Nat /\ q <= Len(text) /\ \A j \in At : j <= p \/ j > q
  BY DEF Plain, Between
<1>2. Limit \in Nat
  BY LimitIs
<1>3. CASE discard \/ Closers = {}
  BY <1>1, <1>3, LimitIs
<1>4. CASE ~(discard \/ Closers = {})
  <2>1. Limit + 1 \in At
    BY <1>4, LimitIs
  <2>2. Limit + 1 <= p \/ Limit + 1 > q
    BY <1>1, <2>1
  <2> QED BY <1>1, <1>2, <2>2
<1> QED BY <1>3, <1>4

\* What is shown and collected after k more bytes is the meaning of the text up
\* to there.
Told(q, s) ==
  /\ q <= Limit /\ Between(q) /\ mode = ModeAt(q + 1, At)
  /\ shown' = Meant({"content", "reasoning"})[q]
  /\ ~discard => Collected(s) = BytesOf(Meant({"tool_call"})[q])
  /\ ~discard /\ mode # "tool_call" => Meant({"tool_call"})[q] = << >>

LEMMA PlainIsTold ==
  ASSUME Types, Holding, Tracks, NEW k \in 0..Len(hold), Plain(Pos, Pos + k),
         NEW r, Show(First(hold, k), r)
  PROVE  Told(Pos + k, First(hold, k))
<1> DEFINE p == Pos
           q == Pos + k
           s == First(hold, k)
           f == Meant({"content", "reasoning"})
           g == Meant({"tool_call"})
           d == Said(mode, p, k)
<1>1. /\ Part(hold, p) /\ p \in Nat /\ Len(hold) \in Nat /\ Len(text) \in Nat /\ text \in Seq(Bytes)
      /\ p + Len(hold) + Len(src) <= Len(text) /\ Len(src) \in Nat /\ hold \in Seq(Bytes)
  BY HoldIsPart DEF Part
<1>2. /\ p <= Limit /\ mode = ModeAt(p + 1, At) /\ shown = f[p]
      /\ ~discard => call = BytesOf(g[p])
      /\ ~discard /\ mode # "tool_call" => g[p] = << >>
  BY DEF Tracks
<1>3. q <= Limit /\ Between(q) /\ mode = ModeAt(q + 1, At)
  BY <1>1, <1>2, PlainIs, PlainInLimit
<1>4. /\ s \in Seq(Bytes) /\ Len(s) = k /\ \A i \in 1..k : s[i] = text[p + i]
  <2>1. s \in Seq(Bytes) /\ Len(s) = k /\ \A i \in 1..k : s[i] = hold[i]
    BY <1>1, Cuts
  <2>2. \A i \in 1..k : i \in 1..Len(hold)
    BY <1>1
  <2> QED BY <1>1, <2>1, <2>2 DEF Part
<1>5. Continues({"content", "reasoning"}, p, q) /\ Continues({"tool_call"}, p, q)
  BY <1>1, <1>3, PlainContinues
<1>6. mode \in Modes
  BY DEF Types
<1>7. d \in Seq(Marked) /\ Len(d) = k /\ d = [i \in 1..k |-> <<mode, text[p + i]>>]
  <2>1. k \in Nat /\ p + k <= Len(text)
    BY <1>1
  <2>2. Said(mode, p, k) \in Seq(Marked) /\ Len(Said(mode, p, k)) = k
    BY ONLY <1>1, <1>6, <2>1, SaidIs
  <2> QED BY <2>2 DEF Said
<1>8. q - p = k /\ p \in 0..Limit
  BY <1>1, <1>2
<1>9. f[p] \in Seq(Marked) /\ g[p] \in Seq(Marked)
  BY <1>1, <1>8, MeantIs
<1>10. chunk' = (IF mode = "tool_call" THEN << >> ELSE s)
       /\ shown' = shown \o [i \in 1..Len(chunk') |-> <<mode, chunk'[i]>>]
  BY DEF Show
<1> HIDE DEF p, q, s, f, g, d
<1>11. CASE mode = "tool_call"
  <2>1. shown' = f[p]
    <3>1. [i \in 1..Len(<< >>) |-> <<mode, << >>[i]>>] = << >>
      OBVIOUS
    <3> QED BY <1>2, <1>9, <1>10, <1>11, <3>1, ConcatEmptySeq
  <2>2. f[q] = f[p] /\ g[q] = g[p] \o d
    BY <1>2, <1>5, <1>8, <1>11 DEF Continues, f, g, d
  <2>3. BytesOf(d) = s
    <3>1. BytesOf(d) = [i \in 1..k |-> text[p + i]]
      BY <1>7 DEF BytesOf
    <3>2. s = [i \in 1..k |-> s[i]]
      BY <1>4
    <3> QED BY <1>4, <3>1, <3>2
  <2>4. BytesOf(g[q]) = BytesOf(g[p]) \o s
    BY <1>7, <1>9, <2>2, <2>3, BytesOfIs
  <2>5. ~discard => Collected(s) = BytesOf(g[q])
    BY <1>2, <1>11, <2>4 DEF Collected
  <2> QED BY <1>3, <1>11, <2>1, <2>2, <2>5 DEF Told, q, s, f, g
<1>12. CASE mode # "tool_call"
  <2>1. mode \in {"content", "reasoning"}
    BY <1>6, <1>12 DEF Modes
  <2>2. f[q] = f[p] \o d /\ g[q] = g[p]
    BY <1>2, <1>5, <1>8, <1>12, <2>1 DEF Continues, f, g, d
  <2>3. [i \in 1..Len(s) |-> <<mode, s[i]>>] = d
    BY <1>4, <1>7
  <2>4. shown' = f[q]
    BY <1>2, <1>10, <1>12, <2>2, <2>3
  <2>5. Collected(s) = call
    BY <1>12 DEF Collected
  <2> QED BY <1>2, <1>3, <2>2, <2>4, <2>5 DEF Told, q, s, f, g
<1> QED BY <1>11, <1>12

\* What goes out ends where a character begins.
LEMMA ChunkIsWhole ==
  ASSUME Types, Holding, Whole, WellFormed, ~ready, NEW k \in 0..Len(hold), NEW r,
         Show(First(hold, k), r), Pos + k < Len(text) => text[Pos + k + 1] \notin Cont
  PROVE  chunk' # << >> => chunk'[1] \notin Cont /\ chunk'[Len(chunk')] \notin Lead
<1> DEFINE p == Pos
           s == First(hold, k)
<1>1. /\ Part(hold, p) /\ p \in Nat /\ Len(hold) \in Nat /\ Len(text) \in Nat /\ text \in Seq(Bytes)
      /\ p + Len(hold) + Len(src) <= Len(text) /\ Len(src) \in Nat /\ hold \in Seq(Bytes)
  BY HoldIsPart DEF Part
<1>2. p < Len(text) => text[p + 1] \notin Cont
  BY DEF Whole
<1>3. p + k < Len(text) => text[p + k + 1] \notin Cont
  OBVIOUS
<1>4. chunk' = << >> \/ chunk' = s
  BY DEF Show
<1>5. s \in Seq(Bytes) /\ Len(s) = k /\ \A i \in 1..k : s[i] = hold[i]
  BY <1>1, Cuts
<1> HIDE DEF p, s
<1> SUFFICES ASSUME chunk' # << >>
             PROVE  chunk'[1] \notin Cont /\ chunk'[Len(chunk')] \notin Lead
  OBVIOUS
<1>6. chunk' = s /\ s # << >>
  BY <1>4
<1>7. k \in Nat /\ k > 0
  <2>1. k # 0
    BY <1>5, <1>6
  <2> QED BY <1>1, <2>1
<1>8. s[1] = text[p + 1] /\ s[k] = text[p + k] /\ p + 1 <= Len(text) /\ p + k \in 1..Len(text)
  <2>1. 1 \in 1..k /\ k \in 1..k /\ 1 \in 1..Len(hold) /\ k \in 1..Len(hold)
    BY <1>1, <1>7
  <2>2. p + 1 <= Len(text) /\ p + k \in 1..Len(text)
    BY <1>1, <1>7
  <2> QED BY <1>1, <1>5, <2>1, <2>2 DEF Part
<1>9. text[p + k] \notin Lead
  <2>1. text[p + k] \in Lead => p + k < Len(text) /\ text[p + k + 1] \in Cont
    BY <1>8 DEF WellFormed
  <2> QED BY <1>3, <2>1
<1>10. s[1] \notin Cont
  BY <1>1, <1>2, <1>8
<1> QED BY <1>5, <1>6, <1>8, <1>9, <1>10

-----------------------------------------------------------------------------
(* Each step keeps the types, and the hold at its place in the text.       *)

LEMMA PushKeeps ==
  ASSUME Types, Holding, Push
  PROVE  /\ Types' /\ Holding' /\ Pos' = Pos /\ src = << >>
         /\ \E n \in Nat : /\ next' = next + n /\ next + n - 1 <= Len(text) /\ Len(src') = n
                           /\ \A i \in 1..n : src'[i] = text[next - 1 + i]
                           /\ recognize => \A m \in Rows :
                                (\E i \in 1..n : Occurs(m, src', i)) => src' = Tag[m]
<1>1. PICK n \in 1..MaxPiece :
        /\ next + n - 1 <= Len(text) /\ src' = SubSeq(text, next, next + n - 1)
        /\ recognize => \A m \in Rows : (\E i \in 1..n : Occurs(m, src', i)) => src' = Tag[m]
        /\ next' = next + n
  BY DEF Push
<1>2. /\ pc = "idle" /\ ~rc /\ pc' = "copy" /\ Quiet
      /\ UNCHANGED <<input, mode, hold, ready, rc>>
  BY DEF Push
<1>3. /\ Part(hold, Pos) /\ Pos \in Nat /\ Len(hold) \in Nat /\ Len(src) \in Nat
      /\ Len(text) \in Nat /\ Pos + Len(hold) + Len(src) = next - 1 /\ next \in Nat
      /\ text \in Seq(Bytes)
  BY HoldIsPart
<1>4. src = << >> /\ Len(src) = 0
  BY <1>2 DEF Holding
<1>5. n \in Nat /\ next \in 1..Len(text) + 1
  BY SizesAssumption DEF Types
<1>6. src' \in Seq(Bytes) /\ Len(src') = n /\ \A i \in 1..n : src'[i] = text[next - 1 + i]
  <2> DEFINE l == Len(text)
             q == next + n - 1
  <2>1. l \in Nat /\ \A i \in 1..l : text[i] \in Bytes
    BY <1>3, ElementOfSeq
  <2>2. q \in Int /\ q <= l /\ next \in Int /\ next >= 1 /\ q - next + 1 = n /\ n \in 1..MaxPiece
        /\ MaxPiece \in Nat /\ next <= q
    BY <1>1, <1>3, <1>5, SizesAssumption
  <2> HIDE DEF l, q
  <2>3. \A i \in next..q : text[i] \in Bytes
    BY <2>1, <2>2
  <2>4. /\ SubSeq(text, next, q) \in Seq(Bytes)
        /\ Len(SubSeq(text, next, q)) = IF next <= q THEN q - next + 1 ELSE 0
        /\ \A i \in 1..q - next + 1 : SubSeq(text, next, q)[i] = text[next + i - 1]
    BY ONLY <2>2, <2>3, SubSeqProperties
  <2>5. src' = SubSeq(text, next, q)
    BY <1>1 DEF q
  <2>6. \A i \in 1..n : next + i - 1 = next - 1 + i
    BY <1>5, <2>2
  <2> QED BY <2>2, <2>4, <2>5, <2>6
<1>7. Pos' = Pos
  <2>1. Pos' = next + n - 1 - n - Len(hold)
    BY <1>1, <1>2, <1>6 DEF Pos
  <2>2. Pos = next - 1 - Len(hold)
    BY <1>3, <1>4 DEF Pos
  <2> QED BY <1>3, <1>5, <2>1, <2>2
<1>8. text' = text /\ recognize' = recognize /\ discard' = discard
  BY <1>2, InputStays
<1>9. Types'
  <2>1. next' \in 1..Len(text) + 1
    BY <1>1, <1>3, <1>5
  <2> QED BY <1>2, <1>6, <1>8, <2>1 DEF Types, Quiet
<1>10. Holding'
  <2>1. \A i \in 1..Len(src') : src'[i] = text[Pos + Len(hold) + i]
    <3>1. Pos + Len(hold) = next - 1
      BY <1>3, <1>4
    <3> QED BY <1>6, <3>1
  <2>2. Fits'
    BY <1>2, <1>7, <1>8, <2>1 DEF Holding, Fits
  <2> QED BY <1>2, <2>2 DEF Holding
<1> QED BY <1>1, <1>4, <1>5, <1>6, <1>7, <1>9, <1>10

LEMMA CopyKeeps ==
  ASSUME Types, Holding, NEW e, NEW n, NEW r, CopyDid(e, n, r)
  PROVE  /\ Types' /\ Holding' /\ Pos' = Pos + e
         /\ Len(hold') = Len(hold) - e + n /\ Len(src') = Len(src) - n
<1>1. /\ Puts(e, r) /\ n \in 0..Len(src) /\ Len(hold) - e + n <= HoldSize
      /\ hold' = Rest(hold, e) \o First(src, n) /\ src' = Rest(src, n)
      /\ pc = "copy" /\ pc' = "markers" /\ UNCHANGED <<input, next, mode, ready>>
  BY DEF CopyDid
<1>2. e \in 0..Len(hold)
  BY <1>1 DEF Puts
<1>3. /\ Part(hold, Pos) /\ Pos \in Nat /\ Len(hold) \in Nat /\ Len(src) \in Nat
      /\ Len(text) \in Nat /\ Pos + Len(hold) + Len(src) = next - 1 /\ next \in Nat
      /\ Pos + Len(hold) + Len(src) <= Len(text) /\ text \in Seq(Bytes)
  BY HoldIsPart
<1>4. hold \in Seq(Bytes) /\ src \in Seq(Bytes)
  BY DEF Types
<1> DEFINE k == Rest(hold, e)
           s == First(src, n)
<1>5. k \in Seq(Bytes) /\ Len(k) = Len(hold) - e /\ \A i \in 1..Len(hold) - e : k[i] = hold[e + i]
  BY <1>2, <1>4, Cuts
<1>6. s \in Seq(Bytes) /\ Len(s) = n /\ \A i \in 1..n : s[i] = src[i]
  BY <1>1, <1>4, Cuts
<1>7. src' \in Seq(Bytes) /\ Len(src') = Len(src) - n /\ \A i \in 1..Len(src) - n : src'[i] = src[n + i]
  BY <1>1, <1>4, Cuts
<1> HIDE DEF k, s
<1>8. /\ hold' \in Seq(Bytes) /\ Len(hold') = Len(k) + Len(s)
      /\ \A i \in 1..Len(k) + Len(s) : hold'[i] = IF i <= Len(k) THEN k[i] ELSE s[i - Len(k)]
  <2>1. hold' = k \o s
    BY <1>1 DEF k, s
  <2> QED BY <1>5, <1>6, <2>1, ConcatProperties
<1>9. Len(hold') = Len(hold) - e + n
  BY <1>5, <1>6, <1>8
<1>10. text' = text /\ recognize' = recognize /\ discard' = discard
  BY <1>1, InputStays
<1>11. Pos' = Pos + e
  <2>1. Pos' = next - 1 - (Len(src) - n) - (Len(hold) - e + n)
    BY <1>1, <1>7, <1>9 DEF Pos
  <2>2. Pos + Len(hold) + Len(src) = next - 1 /\ e \in Nat /\ n \in Nat /\ Pos \in Nat
        /\ Len(hold) \in Nat /\ Len(src) \in Nat /\ next \in Nat
    BY <1>1, <1>2, <1>3
  <2> QED BY ONLY <2>1, <2>2
<1>12. Types'
  <2>1. {call, chunk}' \subseteq Seq(Bytes) /\ shown' \in Seq(Marked)
        /\ refused' \in BOOLEAN /\ rc' \in BOOLEAN
    BY <1>1, PutsTypes
  <2> QED BY <1>1, <1>7, <1>8, <1>9, <1>10, <2>1 DEF Types
<1>13. \A i \in 1..Len(hold') : hold'[i] = text[Pos + e + i]
  <2> SUFFICES ASSUME NEW i \in 1..Len(hold') PROVE hold'[i] = text[Pos + e + i]
    OBVIOUS
  <2>1. CASE i <= Len(k)
    <3>1. e + i \in 1..Len(hold) /\ Pos + (e + i) = Pos + e + i /\ i \in 1..Len(hold) - e
          /\ i \in 1..Len(k) + Len(s)
      BY <1>1, <1>2, <1>3, <1>5, <1>6, <2>1
    <3>2. hold[e + i] = text[Pos + (e + i)]
      BY <1>3, <3>1 DEF Part
    <3> QED BY <1>5, <1>8, <2>1, <3>1, <3>2
  <2>2. CASE ~(i <= Len(k))
    <3> DEFINE j == i - Len(k)
    <3>1. j \in 1..n /\ j \in 1..Len(src) /\ i \in 1..Len(k) + Len(s)
          /\ Pos + Len(hold) + j = Pos + e + i
      BY <1>1, <1>2, <1>3, <1>5, <1>6, <1>9, <2>2
    <3>2. hold'[i] = s[j]
      BY <1>8, <2>2, <3>1
    <3> HIDE DEF j
    <3>3. src[j] = text[Pos + Len(hold) + j]
      BY <3>1 DEF Holding, Fits
    <3> QED BY <1>6, <3>1, <3>2, <3>3
  <2> QED BY <2>1, <2>2
<1>14. \A i \in 1..Len(src') : src'[i] = text[Pos + e + Len(hold') + i]
  <2> SUFFICES ASSUME NEW i \in 1..Len(src') PROVE src'[i] = text[Pos + e + Len(hold') + i]
    OBVIOUS
  <2>1. n + i \in 1..Len(src) /\ i \in 1..Len(src) - n
        /\ Pos + Len(hold) + (n + i) = Pos + e + Len(hold') + i
    <3>1. /\ Pos \in Nat /\ Len(hold) \in Nat /\ Len(src) \in Nat /\ e \in 0..Len(hold)
          /\ n \in 0..Len(src) /\ Len(hold') = Len(hold) - e + n /\ i \in 1..Len(src) - n
      BY <1>1, <1>2, <1>3, <1>7, <1>9
    <3> QED BY ONLY <3>1
  <2>2. src[n + i] = text[Pos + Len(hold) + (n + i)]
    BY <2>1 DEF Holding, Fits
  <2> QED BY <1>7, <2>1, <2>2
<1>15. Pos + e \in 0..Len(text)
  BY <1>2, <1>3
<1>16. Fits'
  BY <1>10, <1>11, <1>13, <1>14, <1>15 DEF Fits
<1>17. Holding'
  BY <1>1, <1>16 DEF Holding
<1> QED BY <1>7, <1>9, <1>11, <1>12, <1>17

\* Flush and FinishRest drop what they put out.
LEMMA PutKeeps ==
  ASSUME Types, Holding, NEW e, NEW r, Puts(e, r), hold' = Rest(hold, e),
         UNCHANGED <<input, next, mode, ready, src>>,
         pc' \in {"idle", "copy", "markers", "finish", "end"},
         pc' = "idle" => rc' \/ src = << >>
  PROVE  Types' /\ Holding' /\ Pos' = Pos + e
<1>1. e \in 0..Len(hold)
  BY DEF Puts
<1>2. text' = text /\ recognize' = recognize /\ discard' = discard
  BY InputStays
<1>3. Pos' = Pos + e /\ Fits' /\ hold' \in Seq(Bytes)
  BY <1>1, <1>2, DropKeeps
<1>4. {call, chunk}' \subseteq Seq(Bytes) /\ shown' \in Seq(Marked)
      /\ refused' \in BOOLEAN /\ rc' \in BOOLEAN
  BY PutsTypes
<1>5. Len(hold') <= HoldSize
  <2>1. hold \in Seq(Bytes) /\ Len(hold) \in Nat /\ Len(hold) <= HoldSize /\ HoldSize \in Nat
    BY SizesAssumption DEF Types
  <2>2. Len(hold') = Len(hold) - e
    BY <1>1, <2>1, Cuts
  <2> QED BY <1>1, <2>1, <2>2
<1>6. Types'
  BY <1>2, <1>3, <1>4, <1>5 DEF Types
<1> QED BY <1>3, <1>6 DEF Holding

\* The marker that is first in the hold leaves it, with what is before it.
TookDid(at, m, r) ==
  /\ FirstIs(at, m) /\ r \in BOOLEAN /\ Show(First(hold, at - 1), r)
  /\ mode' = ModeAfter[m] /\ hold' = Rest(hold, at + Len(Tag[m]) - 1)
  /\ UNCHANGED <<pc, input, next, src>>

LEMMA TookKeeps ==
  ASSUME Types, Holding, NEW at, NEW m, NEW r, TookDid(at, m, r), pc # "idle",
         call' \in {<< >>, Collected(First(hold, at - 1))}, ready' \in BOOLEAN, rc' \in BOOLEAN
  PROVE  Types' /\ Holding' /\ Pos' = End(Pos + at) /\ (~refused' => ~refused /\ ~r)
<1>1. FirstIs(at, m) /\ r \in BOOLEAN /\ Show(First(hold, at - 1), r)
  BY DEF TookDid
<1>2. /\ Part(hold, Pos) /\ Pos \in Nat /\ Len(hold) \in Nat /\ hold \in Seq(Bytes)
      /\ HoldSize \in Nat /\ Len(hold) <= HoldSize
  BY HoldIsPart, SizesAssumption DEF Part, Types
<1> DEFINE k == at + Len(Tag[m]) - 1
<1>3. at \in 1..Len(hold) /\ m \in Rows /\ k \in at + 1..Len(hold) /\ End(Pos + at) = Pos + at + Len(Tag[m]) - 1
      /\ Len(Tag[m]) \in Nat
  BY <1>1, TagIs DEF FirstIs
<1>4. k \in 0..Len(hold) /\ at - 1 \in 0..Len(hold) /\ End(Pos + at) = Pos + k
  <2>1. /\ at \in 1..Len(hold) /\ Len(hold) \in Nat /\ Pos \in Nat /\ Len(Tag[m]) \in Nat
        /\ k \in at + 1..Len(hold) /\ k = at + Len(Tag[m]) - 1
        /\ End(Pos + at) = Pos + at + Len(Tag[m]) - 1
    BY <1>2, <1>3
  <2> DEFINE l == Len(Tag[m])
  <2> HIDE DEF k, l
  <2>2. k \in 0..Len(hold) /\ at - 1 \in 0..Len(hold)
    BY ONLY <2>1
  <2>3. at \in Nat /\ Pos \in Nat /\ l \in Nat /\ k = at + l - 1
    BY ONLY <2>1 DEF l
  <2>4. Pos + at + l - 1 = Pos + k
    BY ONLY <2>3
  <2> QED BY <2>1, <2>2, <2>4 DEF l
<1>5. hold' = Rest(hold, k) /\ src' = src /\ next' = next /\ pc' = pc /\ mode' = ModeAfter[m]
      /\ UNCHANGED input
  BY DEF TookDid
<1>6. text' = text /\ recognize' = recognize /\ discard' = discard
  BY <1>5, InputStays
<1> HIDE DEF k
<1>7. Pos' = Pos + k /\ Fits' /\ hold' \in Seq(Bytes)
  BY <1>4, <1>5, <1>6, DropKeeps
<1>8. First(hold, at - 1) \in Seq(Bytes)
  BY <1>2, <1>4, Cuts
<1>9. /\ chunk' \in Seq(Bytes) /\ shown' \in Seq(Marked) /\ refused' \in BOOLEAN
      /\ Collected(First(hold, at - 1)) \in Seq(Bytes)
      /\ ~refused' => ~refused /\ ~r
  BY <1>1, <1>8, ShowTypes
<1>10. Len(hold') <= HoldSize
  <2>1. Len(hold') = Len(hold) - k
    BY <1>2, <1>4, <1>5, Cuts
  <2> QED BY <1>2, <1>4, <2>1
<1>11. mode' \in Modes
  BY <1>3, <1>5 DEF Rows, ModeAfter, Modes
<1>12. call' \in Seq(Bytes)
  BY <1>9, EmptySeq
<1>13. Types'
  BY <1>5, <1>6, <1>7, <1>9, <1>10, <1>11, <1>12 DEF Types
<1>14. Holding'
  BY <1>5, <1>7 DEF Holding
<1> QED BY <1>4, <1>7, <1>9, <1>13, <1>14

LEMMA TakeMarkerDoes ==
  ASSUME Types, Holding, TakeMarker
  PROVE  \E at, m, r :
           /\ TookDid(at, m, r)
           /\ LET leave == mode = "tool_call" /\ ModeAfter[m] # "tool_call"
                  enter == mode # "tool_call" /\ ModeAfter[m] = "tool_call"
              IN /\ ready' = (ready \/ (leave /\ ~discard)) /\ rc' = (r \/ (leave /\ ~discard))
                 /\ call' = IF enter \/ (leave /\ discard) THEN << >>
                            ELSE Collected(First(hold, at - 1))
<1> DEFINE at == Min(MarkersIn(hold))
           m  == CHOOSE q \in Recognized : Occurs(q, hold, at)
<1>1. FirstIs(at, m)
  BY FirstMarker DEF TakeMarker
<1>2. \E r \in BOOLEAN :
        /\ TookDid(at, m, r)
        /\ LET leave == mode = "tool_call" /\ ModeAfter[m] # "tool_call"
               enter == mode # "tool_call" /\ ModeAfter[m] = "tool_call"
           IN /\ ready' = (ready \/ (leave /\ ~discard)) /\ rc' = (r \/ (leave /\ ~discard))
              /\ call' = IF enter \/ (leave /\ discard) THEN << >>
                         ELSE Collected(First(hold, at - 1))
  BY <1>1 DEF TakeMarker, TookDid
<1> HIDE DEF at, m
<1> QED BY <1>2

LEMMA FinishMarkerDoes ==
  ASSUME Types, Holding, FinishMarker
  PROVE  \E at, m, r :
           /\ TookDid(at, m, r) /\ ready' = ready /\ rc' = r
           /\ call' = Collected(First(hold, at - 1))
<1> DEFINE at == Min(MarkersIn(hold))
           m  == CHOOSE q \in Recognized : Occurs(q, hold, at)
<1>1. FirstIs(at, m)
  BY FirstMarker DEF FinishMarker
<1>2. \E r \in BOOLEAN : /\ TookDid(at, m, r) /\ ready' = ready /\ rc' = r
                         /\ call' = Collected(First(hold, at - 1))
  BY <1>1 DEF FinishMarker, TookDid, EmitBytes
<1> QED BY <1>2

LEMMA BasicsKeep ==
  ASSUME Types, Holding, [Next]_vars
  PROVE  Types' /\ Holding'
<1>1. CASE Push
  BY <1>1, PushKeeps
<1>2. CASE Copy
  BY <1>2, CopyDoes, CopyKeeps
<1>3. CASE TakeMarker
  <2>1. PICK at, m, r :
          /\ TookDid(at, m, r)
          /\ LET leave == mode = "tool_call" /\ ModeAfter[m] # "tool_call"
                 enter == mode # "tool_call" /\ ModeAfter[m] = "tool_call"
             IN /\ ready' = (ready \/ (leave /\ ~discard)) /\ rc' = (r \/ (leave /\ ~discard))
                /\ call' = IF enter \/ (leave /\ discard) THEN << >>
                           ELSE Collected(First(hold, at - 1))
    BY <1>3, TakeMarkerDoes
  <2>2. pc # "idle" /\ ready \in BOOLEAN /\ r \in BOOLEAN /\ discard \in BOOLEAN
    BY <1>3, <2>1 DEF TakeMarker, Types, TookDid
  <2>3. ready' \in BOOLEAN /\ rc' \in BOOLEAN
    BY <2>1, <2>2
  <2>4. call' \in {<< >>, Collected(First(hold, at - 1))}
    BY <2>1
  <2> QED BY <2>1, <2>2, <2>3, <2>4, TookKeeps
<1>4. CASE Flush
  <2>1. PICK e, r : FlushDid(e, r)
    BY <1>4, FlushDoes
  <2> QED BY <2>1, PutKeeps DEF FlushDid
<1>5. CASE Finish
  <2>1. UNCHANGED <<input, next, mode, hold, ready, src>> /\ Quiet /\ pc' = "finish" /\ rc' = FALSE
    BY <1>5 DEF Finish
  <2>2. text' = text /\ recognize' = recognize /\ discard' = discard
    BY <2>1, InputStays
  <2>3. Types'
    BY <2>1, <2>2, EmptySeq DEF Types, Quiet
  <2> QED BY <2>1, <2>2, <2>3 DEF Holding, Fits, Pos
<1>6. CASE FinishMarker
  <2>1. PICK at, m, r : /\ TookDid(at, m, r) /\ ready' = ready /\ rc' = r
                        /\ call' = Collected(First(hold, at - 1))
    BY <1>6, FinishMarkerDoes
  <2>2. pc # "idle" /\ ready' \in BOOLEAN /\ rc' \in BOOLEAN
    BY <1>6, <2>1 DEF FinishMarker, Types, TookDid
  <2>3. call' \in {<< >>, Collected(First(hold, at - 1))}
    BY <2>1
  <2> QED BY <2>1, <2>2, <2>3, TookKeeps
<1>7. CASE FinishRest
  <2>1. PICK e, r : FinishRestDid(e, r)
    BY <1>7, FinishRestDoes
  <2> QED BY <2>1, PutKeeps DEF FinishRestDid
<1>8. CASE UNCHANGED vars
  BY <1>8 DEF vars, input, Types, Holding, Fits, Pos
<1> QED BY <1>1, <1>2, <1>3, <1>4, <1>5, <1>6, <1>7, <1>8 DEF Next, Step

-----------------------------------------------------------------------------
(* Each step keeps what came out true to the text.                         *)

\* Tracks, of a next state.
TracksAt(p, m, s, c) ==
  /\ Between(p) /\ p <= Limit /\ m = ModeAt(p + 1, At)
  /\ s = Meant({"content", "reasoning"})[p]
  /\ ~discard => c = BytesOf(Meant({"tool_call"})[p])
  /\ ~discard /\ m # "tool_call" => Meant({"tool_call"})[p] = << >>

LEMMA TracksNext ==
  ASSUME UNCHANGED input, TracksAt(Pos', mode', shown', call'), ~rc'
  PROVE  Tracks'
<1>1. text' = text /\ discard' = discard /\ At' = At /\ Limit' = Limit
  BY InputStays
<1>2. Between(Pos)'
  BY <1>1, MeaningStays DEF TracksAt, Between
<1>3. ModeAt(Pos + 1, At)' = ModeAt(Pos' + 1, At)
  BY MeaningStays
<1>4. /\ (Meant({"content", "reasoning"})[Pos])' = Meant({"content", "reasoning"})[Pos']
      /\ (Meant({"tool_call"})[Pos])' = Meant({"tool_call"})[Pos']
  BY MeaningStays
<1>5. BytesOf(Meant({"tool_call"})[Pos])' = BytesOf(Meant({"tool_call"})[Pos'])
  BY <1>4 DEF BytesOf
<1> QED BY <1>1, <1>2, <1>3, <1>4, <1>5 DEF TracksAt, Tracks

\* Some of the hold went out.
LEMMA PutTracks ==
  ASSUME Types, Holding, Tracks, NEW e, NEW r, Puts(e, r), Plain(Pos, Pos + e), ~refused',
         UNCHANGED <<input, mode>>, Pos' = Pos + e
  PROVE  Tracks'
<1>1. e \in 0..Len(hold) /\ Show(First(hold, e), r) /\ call' = Collected(First(hold, e))
  BY DEF Puts, EmitBytes
<1>2. Told(Pos + e, First(hold, e))
  BY <1>1, PlainIsTold
<1>3. rc' = rc /\ ~rc
  BY PutsTypes DEF Tracks
<1>4. TracksAt(Pos', mode', shown', call')
  BY <1>1, <1>2 DEF Told, TracksAt
<1> QED BY <1>3, <1>4, TracksNext

LEMMA PutWhole ==
  ASSUME Types, Holding, Whole, NEW e, NEW r, Puts(e, r),
         e < Len(hold) \/ e = 0 \/ Pos + e = Len(text),
         UNCHANGED <<input, ready>>, Pos' = Pos + e
  PROVE  Whole'
<1>1. /\ e \in 0..Len(hold) /\ Show(First(hold, e), r)
      /\ (e > 0 /\ e < Len(hold) => hold[e + 1] \notin Cont)
  BY DEF Puts, EmitBytes
<1>2. text' = text /\ (WellFormed' <=> WellFormed) /\ ready' = ready
  BY InputStays
<1>3. /\ Part(hold, Pos) /\ Pos \in Nat /\ Len(hold) \in Nat /\ Len(text) \in Nat
      /\ text \in Seq(Bytes)
  BY HoldIsPart
<1> SUFFICES ASSUME WellFormed, ~ready
             PROVE  /\ Pos' < Len(text) => text[Pos' + 1] \notin Cont
                    /\ chunk' # << >> => chunk'[1] \notin Cont /\ chunk'[Len(chunk')] \notin Lead
  BY <1>2 DEF Whole
<1>4. Pos + e < Len(text) => text[Pos + e + 1] \notin Cont
  <2>1. CASE e = 0
    <3>1. Pos + e = Pos
      BY <1>3, <2>1
    <3> QED BY <3>1 DEF Whole
  <2>2. CASE e > 0 /\ e < Len(hold)
    <3>1. e + 1 \in 1..Len(hold) /\ Pos + (e + 1) = Pos + e + 1
      BY <1>1, <1>3, <2>2
    <3>2. hold[e + 1] = text[Pos + (e + 1)]
      BY <1>3, <3>1 DEF Part
    <3> QED BY <1>1, <2>2, <3>1, <3>2
  <2>3. CASE Pos + e = Len(text)
    BY <1>3, <2>3
  <2> QED BY <1>1, <1>3, <2>1, <2>2, <2>3
<1>5. chunk' # << >> => chunk'[1] \notin Cont /\ chunk'[Len(chunk')] \notin Lead
  BY <1>1, <1>4, ChunkIsWhole
<1> QED BY <1>4, <1>5

\* A marker the hold lost; which markers it still has.
LEMMA MarkersLeft ==
  ASSUME Types, Holding, NEW k \in 0..Len(hold), hold' = Rest(hold, k), Pos' = Pos + k, Fits',
         UNCHANGED input
  PROVE  \A i \in MarkersIn(hold') : i \in Nat \ {0} /\ k + i \in MarkersIn(hold)
<1>1. /\ Part(hold, Pos) /\ Pos \in Nat /\ Len(hold) \in Nat /\ Len(text) \in Nat
      /\ text \in Seq(Bytes) /\ hold \in Seq(Bytes) /\ Pos + Len(hold) <= Len(text)
  BY HoldIsPart DEF Part
<1>2. hold' \in Seq(Bytes) /\ Len(hold') = Len(hold) - k
  BY <1>1, Cuts
<1>3. Part(hold', Pos + k)
  <2>1. text' = text
    BY InputStays
  <2>2. Pos + k \in Nat /\ Pos + k + Len(hold') <= Len(text)
    BY <1>1, <1>2
  <2> QED BY <1>2, <2>1, <2>2 DEF Part, Fits
<1> DEFINE p == Pos
           h == hold'
<1>4. MarkersIn(hold) = {i \in 1..Len(hold) : p + i \in At /\ End(p + i) <= p + Len(hold)}
  BY <1>1, PartMarkers
<1>5. MarkersIn(h) = {i \in 1..Len(h) : p + k + i \in At /\ End(p + k + i) <= p + k + Len(h)}
  <2>1. Part(h, p + k) /\ p + k \in Nat
    BY <1>1, <1>3
  <2> HIDE DEF h, p
  <2> QED BY <1>1, <2>1, PartMarkers
<1>6. h = hold' /\ p \in Nat
  BY <1>1
<1> HIDE DEF p, h
<1> SUFFICES ASSUME NEW i \in MarkersIn(h)
             PROVE  i \in Nat \ {0} /\ k + i \in MarkersIn(hold)
  BY <1>6
<1>7. i \in 1..Len(h) /\ p + k + i \in At /\ End(p + k + i) <= p + k + Len(h)
  BY <1>5
<1>8. p + (k + i) = p + k + i /\ k + i \in 1..Len(hold) /\ p + k + Len(h) = p + Len(hold)
      /\ i \in Nat \ {0}
  <2>1. /\ i \in 1..Len(h) /\ Len(h) = Len(hold) - k /\ Len(hold) \in Nat /\ p \in Nat
        /\ k \in 0..Len(hold)
    BY <1>1, <1>2, <1>6, <1>7
  <2> QED BY ONLY <2>1
<1> QED BY <1>4, <1>7, <1>8

\* Within a call, calls are recognized.
LEMMA CallIsRecognized ==
  ASSUME text \in Seq(Bytes), NEW i \in Nat, ModeAt(i, At) = "tool_call"
  PROVE  recognize
<1> DEFINE earlier == {j \in At : j < i}
<1>1. earlier # {} /\ ModeAfter[MarkerAt(Max(earlier))] = "tool_call"
  BY DEF ModeAt
<1>2. Max(earlier) \in At
  <2>1. earlier \subseteq 0..i
    BY MarkersAre DEF At
  <2>2. earlier \subseteq At
    OBVIOUS
  <2> HIDE DEF earlier
  <2>3. Max(earlier) \in earlier
    BY <1>1, <2>1, LargestIs
  <2> QED BY <2>2, <2>3
<1> HIDE DEF earlier
<1>3. MarkerAt(Max(earlier)) \in Recognized
  BY <1>2, MarkerIs
<1> QED BY <1>1, <1>3 DEF Recognized, ModeAfter

\* A marker that begins within the limit and ends no call to run ends within it.
LEMMA EndsInLimit ==
  ASSUME text \in Seq(Bytes), NEW j \in At, j - 1 <= Limit, discard \/ j \notin Closers
  PROVE  End(j) <= Limit
<1>1. j \in 1..Len(text) /\ End(j) \in j + 1..Len(text) /\ Len(text) \in Nat /\ Limit \in Nat
  BY MarkerIs, LimitIs
<1>2. CASE discard \/ Closers = {}
  BY <1>1, <1>2, LimitIs
<1>3. CASE ~(discard \/ Closers = {})
  <2>1. Limit + 1 \in Closers /\ Limit + 1 \in At /\ j # Limit + 1
    BY <1>3, LimitIs
  <2>2. j < Limit + 1
    BY <1>1, <2>1
  <2>3. End(j) < Limit + 1
    BY <2>1, <2>2, Apart
  <2> QED BY <1>1, <2>3
<1> QED BY <1>2, <1>3

\* What is before the first marker is told, and that marker is the text's next.
LEMMA TookTells ==
  ASSUME Types, Holding, Tracks, NEW at, NEW m, NEW r, TookDid(at, m, r)
  PROVE  /\ Pos + at \in At /\ MarkerAt(Pos + at) = m /\ at \in 1..Len(hold)
         /\ Told((Pos + at) - 1, First(hold, at - 1)) /\ mode = ModeAt(Pos + at, At)
<1>1. FirstIs(at, m) /\ Show(First(hold, at - 1), r)
  BY DEF TookDid
<1>2. /\ Pos \in Nat /\ Len(hold) \in Nat /\ Len(text) \in Nat /\ Len(src) \in Nat
      /\ Pos + Len(hold) + Len(src) <= Len(text)
  BY HoldIsPart
<1>3. at \in 1..Len(hold) /\ Pos + at \in At /\ \A j \in At : j <= Pos \/ j >= Pos + at
  BY <1>1 DEF FirstIs
<1>4. at - 1 \in 0..Len(hold) /\ (Pos + at) - 1 = Pos + (at - 1) /\ Pos + (at - 1) + 1 = Pos + at
      /\ Pos + (at - 1) \in Pos..Len(text)
  BY <1>2, <1>3
<1>5. Plain(Pos, Pos + (at - 1))
  <2>1. ASSUME NEW j \in At PROVE j <= Pos \/ j > Pos + (at - 1)
    <3>1. j \in Nat
      BY MarkersAre DEF At, Types
    <3>2. j <= Pos \/ j >= Pos + at
      BY <1>3
    <3> QED BY <1>2, <1>3, <1>4, <3>1, <3>2
  <2> QED BY <1>4, <2>1 DEF Plain, Tracks
<1>6. Told(Pos + (at - 1), First(hold, at - 1))
  BY <1>1, <1>4, <1>5, PlainIsTold
<1>7. mode = ModeAt(Pos + at, At)
  BY <1>4, <1>6 DEF Told
<1> QED BY <1>1, <1>3, <1>4, <1>6, <1>7 DEF FirstIs

\* A marker that does not end a call to run.
LEMMA TookTracks ==
  ASSUME Types, Holding, Tracks, NEW at, NEW m, NEW r, TookDid(at, m, r),
         ~(mode = "tool_call" /\ ModeAfter[m] # "tool_call" /\ ~discard),
         call' = IF (mode # "tool_call" /\ ModeAfter[m] = "tool_call") \/
                    (mode = "tool_call" /\ ModeAfter[m] # "tool_call" /\ discard)
                 THEN << >> ELSE Collected(First(hold, at - 1)),
         Pos' = End(Pos + at), ~rc'
  PROVE  Tracks'
<1> DEFINE j == Pos + at
           f == Meant({"content", "reasoning"})
           g == Meant({"tool_call"})
           s == First(hold, at - 1)
<1>1. /\ j \in At /\ MarkerAt(j) = m /\ Told(j - 1, s) /\ mode = ModeAt(j, At)
  BY TookTells
<1>2. text \in Seq(Bytes)
  BY DEF Types
<1>3. /\ j - 1 <= Limit /\ shown' = f[j - 1]
      /\ ~discard => Collected(s) = BytesOf(g[j - 1])
      /\ ~discard /\ mode # "tool_call" => g[j - 1] = << >>
  BY <1>1 DEF Told
<1>4. Pos' = End(j) /\ mode' = ModeAfter[m] /\ UNCHANGED input
  BY DEF TookDid
<1> HIDE DEF j, f, g, s
<1>5. discard \/ j \notin Closers
  <2>1. j \in Closers => ModeAt(j, At) = "tool_call" /\ ModeAfter[MarkerAt(j)] # "tool_call"
    BY DEF Closers, At
  <2> QED BY <1>1, <2>1
<1>6. End(j) <= Limit
  BY <1>1, <1>2, <1>3, <1>5, EndsInLimit
<1>7. f[End(j)] = f[j - 1] /\ g[End(j)] = g[j - 1]
  BY <1>1, <1>2, <1>6, MarkerIsSilent DEF f, g
<1>8. mode' = ModeAt(End(j) + 1, At) /\ Between(End(j))
  BY <1>1, <1>2, <1>4, ModeAfterEnd
<1>9. ~discard => call' = BytesOf(g[End(j)])
  <2>1. BytesOf(<< >>) = << >>
    BY EmptySeq, BytesOfIs
  <2> QED BY <1>3, <1>7, <2>1 DEF s
<1>10. ~discard /\ mode' # "tool_call" => g[End(j)] = << >>
  BY <1>3, <1>4, <1>7
<1>11. TracksAt(Pos', mode', shown', call')
  BY <1>3, <1>4, <1>6, <1>7, <1>8, <1>9, <1>10 DEF TracksAt, f, g
<1> QED BY <1>4, <1>11, TracksNext

\* The marker that ends the call to run.
LEMMA TookLast ==
  ASSUME Types, Holding, Tracks, NEW at, NEW m, NEW r, TookDid(at, m, r),
         mode = "tool_call", ModeAfter[m] # "tool_call", ~discard,
         call' = Collected(First(hold, at - 1))
  PROVE  /\ Closers # {} /\ recognize /\ shown' = MeantToShow /\ call' = MeantCall
         /\ IsPrefix(MeantToShow, shown')
<1> DEFINE j == Pos + at
<1>1. /\ j \in At /\ MarkerAt(j) = m /\ Told(j - 1, First(hold, at - 1))
      /\ mode = ModeAt(j, At)
  BY TookTells
<1>2. text \in Seq(Bytes) /\ j \in Nat /\ Limit \in Nat
  BY <1>1, MarkersAre, LimitIs DEF At, Types
<1> HIDE DEF j
<1>3. j \in Closers
  BY <1>1 DEF Closers, At
<1>4. Limit < j
  BY <1>2, <1>3, LimitIs
<1>5. j - 1 = Limit
  BY <1>1, <1>2, <1>4 DEF Told
<1>6. shown' = MeantToShow /\ call' = MeantCall
  BY <1>1, <1>5 DEF Told, MeantToShow, MeantCall
<1>7. recognize
  BY <1>1, <1>2, CallIsRecognized
<1>8. IsPrefix(MeantToShow, MeantToShow)
  <2>1. MeantToShow \in Seq(Marked)
    <3>1. Limit \in 0..Limit
      BY <1>2
    <3> QED BY <1>2, <3>1, MeantIs DEF MeantToShow
  <2>2. \A s, t \in Seq(Marked) :
          IsPrefix(s, t) <=> Len(s) <= Len(t) /\ \A k \in 1..Len(s) : s[k] = t[k]
    BY ONLY PrefixIs
  <2>3. Len(MeantToShow) \in Nat
    BY <2>1
  <2> QED BY ONLY <2>1, <2>2, <2>3
<1> QED BY <1>3, <1>6, <1>7, <1>8

\* The same pieces, and a hold with no two markers.
LEMMA AloneNext ==
  ASSUME Alone, UNCHANGED <<input, next, src>>,
         recognize /\ pc' = "markers" => MarkersIn(hold') = {}
  PROVE  Alone'
<1>1. recognize' = recognize /\ At' = At /\ MarkersIn(hold)' = MarkersIn(hold')
  BY InputStays
<1>2. \A j : End(j)' = End(j)
  BY MeaningStays
<1> QED BY <1>1, <1>2 DEF Alone

\* The marker that was taken was the only one in the hold.
LEMMA TookAlone ==
  ASSUME Types, Holding, Alone, pc = "markers", recognize, NEW at, NEW m, NEW r,
         TookDid(at, m, r), Pos' = End(Pos + at), Fits'
  PROVE  MarkersIn(hold') = {}
<1> DEFINE k == at + Len(Tag[m]) - 1
<1>1. FirstIs(at, m) /\ hold' = Rest(hold, k) /\ UNCHANGED input
  BY DEF TookDid
<1>2. /\ Part(hold, Pos) /\ Pos \in Nat /\ Len(hold) \in Nat /\ Len(text) \in Nat
      /\ text \in Seq(Bytes)
  BY HoldIsPart
<1>3. /\ at \in 1..Len(hold) /\ m \in Rows /\ Pos + at \in At
      /\ End(Pos + at) = Pos + at + Len(Tag[m]) - 1 /\ k \in at + 1..Len(hold)
      /\ End(Pos + at) \in Pos + at + 1..Pos + Len(hold)
  BY <1>1 DEF FirstIs
<1>4. at \in MarkersIn(hold)
  <2>1. MarkersIn(hold) = {i \in 1..Len(hold) : Pos + i \in At /\ End(Pos + i) <= Pos + Len(hold)}
    BY <1>2, PartMarkers
  <2> QED BY <1>2, <1>3, <2>1
<1>5. Len(Tag[m]) \in Nat
  BY <1>3, TagIs
<1>6. k \in 0..Len(hold) /\ Pos' = Pos + k
  <2> DEFINE l == Len(Tag[m])
             p == Pos
             q == Pos'
  <2>1. at \in Nat /\ p \in Nat /\ l \in Nat /\ k = at + l - 1 /\ k \in at + 1..Len(hold)
        /\ Len(hold) \in Nat /\ q = p + at + l - 1
    <3>1. q = p + at + l - 1
      BY <1>3
    <3>2. k = at + l - 1 /\ k \in at + 1..Len(hold)
      BY <1>3
    <3>3. at \in Nat
      BY <1>2, <1>3
    <3>4. p \in Nat /\ l \in Nat /\ Len(hold) \in Nat
      BY <1>2, <1>5
    <3> QED BY ONLY <3>1, <3>2, <3>3, <3>4
  <2> HIDE DEF k, l, p, q
  <2>2. k \in 0..Len(hold) /\ q = p + k
    BY ONLY <2>1
  <2> QED BY <2>2 DEF p, q
<1> HIDE DEF k
<1>7. \A i \in MarkersIn(hold') : i \in Nat \ {0} /\ k + i \in MarkersIn(hold)
  BY <1>1, <1>6, MarkersLeft
<1>8. \A i \in MarkersIn(hold) : i = at
  BY <1>4 DEF Alone
<1>9. ASSUME NEW i \in MarkersIn(hold') PROVE FALSE
  <2>1. i \in Nat \ {0} /\ k + i = at
    BY <1>7, <1>8
  <2>2. k \in Nat /\ at \in Nat /\ at < k
    BY <1>2, <1>3
  <2> QED BY ONLY <2>1, <2>2
<1> QED BY <1>9

\* Neither side of a marker is inside a character.
LEMMA TookWhole ==
  ASSUME Types, Holding, Whole, NEW at, NEW m, NEW r, TookDid(at, m, r),
         Pos' = End(Pos + at), ~ready' => ~ready
  PROVE  Whole'
<1> DEFINE j == Pos + at
<1>1. FirstIs(at, m) /\ Show(First(hold, at - 1), r) /\ UNCHANGED input
  BY DEF TookDid
<1>2. text' = text /\ (WellFormed' <=> WellFormed)
  BY <1>1, InputStays
<1>3. Pos \in Nat /\ Len(hold) \in Nat /\ Len(text) \in Nat /\ text \in Seq(Bytes)
  BY HoldIsPart
<1>4. at \in 1..Len(hold) /\ m \in Rows /\ j \in At /\ MarkerAt(j) = m
  BY <1>1 DEF FirstIs
<1>5. Stands(m, text, j) /\ j \in 1..Len(text) /\ End(j) \in j + 1..Len(text)
  BY <1>3, <1>4, MarkerIs
<1>6. Len(Tag[m]) \in Nat /\ Len(Tag[m]) > 1 /\ End(j) = j + Len(Tag[m]) - 1
      /\ \A i \in 1..Len(Tag[m]) : Tag[m][i] \notin Lead \union Cont
  BY <1>4, TagIs, TagsAssumption DEF End
<1>7. j = Pos + (at - 1) + 1 /\ at - 1 \in 0..Len(hold) /\ j \in Nat
  BY <1>3, <1>4
<1>8. text[j] \notin Cont /\ text[End(j)] \notin Lead \union Cont
  <2> DEFINE l == Len(Tag[m])
             x == End(j)
  <2>1. \A i \in 1..l : text[j + i - 1] = Tag[m][i]
    BY <1>5 DEF Stands
  <2>2. l \in Nat /\ l > 1 /\ x = j + l - 1
    BY <1>6
  <2> HIDE DEF l, x, j
  <2>3. 1 \in 1..l /\ l \in 1..l /\ j + 1 - 1 = j
    BY <1>7, <2>2
  <2>4. text[j] = Tag[m][1] /\ text[x] = Tag[m][l]
    BY <2>1, <2>2, <2>3
  <2> QED BY <1>6, <2>3, <2>4 DEF l, x
<1> SUFFICES ASSUME WellFormed, ~ready
             PROVE  /\ Pos' < Len(text) => text[Pos' + 1] \notin Cont
                    /\ chunk' # << >> => chunk'[1] \notin Cont /\ chunk'[Len(chunk')] \notin Lead
  BY <1>2 DEF Whole
<1>9. Pos' < Len(text) => text[Pos' + 1] \notin Cont
  <2> DEFINE x == End(j)
  <2>1. x \in 1..Len(text) /\ x \in Nat
    BY <1>3, <1>5, <1>7
  <2>2. Pos' = x /\ text[x] \notin Lead \union Cont
    BY <1>8
  <2> HIDE DEF x, j
  <2> SUFFICES ASSUME x < Len(text), text[x + 1] \in Cont PROVE FALSE
    BY <2>2
  <2>3. x + 1 \in 1..Len(text) /\ (x + 1) - 1 = x
    BY <1>3, <2>1
  <2>4. text[(x + 1) - 1] \in Lead \union Cont
    BY <2>3 DEF WellFormed
  <2> QED BY <2>2, <2>3, <2>4
<1>10. chunk' # << >> => chunk'[1] \notin Cont /\ chunk'[Len(chunk')] \notin Lead
  <2>1. text[Pos + (at - 1) + 1] \notin Cont
    BY <1>7, <1>8
  <2> QED BY <1>1, <1>7, <2>1, ChunkIsWhole
<1> QED BY <1>9, <1>10

LEMMA TakeMarkerFilters ==
  ASSUME Types, Holding, Filtered, TakeMarker, ~refused'
  PROVE  Filtered'
<1>1. pc = "markers" /\ ~rc
  BY DEF TakeMarker
<1>2. ~ready /\ Tracks /\ Alone /\ Whole
  BY <1>1 DEF Filtered, Came
<1>3. PICK at, m, r :
        /\ TookDid(at, m, r)
        /\ LET leave == mode = "tool_call" /\ ModeAfter[m] # "tool_call"
               enter == mode # "tool_call" /\ ModeAfter[m] = "tool_call"
           IN /\ ready' = (ready \/ (leave /\ ~discard)) /\ rc' = (r \/ (leave /\ ~discard))
              /\ call' = IF enter \/ (leave /\ discard) THEN << >>
                         ELSE Collected(First(hold, at - 1))
  BY TakeMarkerDoes
<1>4. UNCHANGED <<pc, input, next, src>> /\ mode' = ModeAfter[m] /\ r \in BOOLEAN
  BY <1>3 DEF TookDid
<1>5. ready \in BOOLEAN /\ discard \in BOOLEAN
  BY DEF Types
<1>6. Types' /\ Holding' /\ Pos' = End(Pos + at) /\ ~r
  <2>1. ready' \in BOOLEAN /\ rc' \in BOOLEAN
    BY <1>3, <1>4, <1>5
  <2>2. call' \in {<< >>, Collected(First(hold, at - 1))}
    BY <1>3
  <2> QED BY <1>1, <1>3, <2>1, <2>2, TookKeeps
<1>7. Fits'
  BY <1>6 DEF Holding
<1>8. recognize => MarkersIn(hold') = {}
  BY <1>1, <1>2, <1>3, <1>6, <1>7, TookAlone
<1>9. Alone'
  BY <1>2, <1>4, <1>8, AloneNext
<1>10. Whole'
  BY <1>2, <1>3, <1>6, TookWhole
<1>11. Stage'
  BY <1>1, <1>4 DEF Stage
<1>12. CASE mode = "tool_call" /\ ModeAfter[m] # "tool_call" /\ ~discard
  <2>1. ready' /\ rc'
    BY <1>3, <1>12
  <2>2. call' = Collected(First(hold, at - 1))
    BY <1>3, <1>12
  <2>3. /\ Closers # {} /\ recognize /\ call' = MeantCall
        /\ IsPrefix(MeantToShow, shown')
    BY <1>2, <1>3, <1>12, <2>2, TookLast
  <2>4. /\ Closers' = Closers /\ discard' = discard /\ MeantToShow' = MeantToShow
        /\ MeantCall' = MeantCall /\ MarkersIn(hold)' = MarkersIn(hold')
    BY <1>4, InputStays
  <2>5. Came'
    BY <1>1, <1>4, <1>8, <1>12, <2>1, <2>3, <2>4 DEF Came
  <2> QED BY <1>9, <1>10, <1>11, <2>1, <2>5 DEF Filtered
<1>13. CASE ~(mode = "tool_call" /\ ModeAfter[m] # "tool_call" /\ ~discard)
  <2>1. ~ready' /\ ~rc'
    BY <1>2, <1>3, <1>6, <1>13
  <2>2. call' = IF (mode # "tool_call" /\ ModeAfter[m] = "tool_call") \/
                   (mode = "tool_call" /\ ModeAfter[m] # "tool_call" /\ discard)
                THEN << >> ELSE Collected(First(hold, at - 1))
    BY <1>3
  <2>3. Tracks'
    BY <1>2, <1>3, <1>6, <1>13, <2>1, <2>2, TookTracks
  <2> QED BY <1>9, <1>10, <1>11, <2>1, <2>3 DEF Filtered
<1> QED BY <1>12, <1>13

\* After the end of the call to run, nothing that goes out changes what was meant.
LEMMA PutCame ==
  ASSUME Types, Holding, Came, NEW e, NEW r, Puts(e, r), hold' = Rest(hold, e), Pos' = Pos + e,
         Fits', UNCHANGED <<input, mode>>, pc' # "copy", rc' \/ pc' \in {"finish", "end"}
  PROVE  Came'
<1>1. e \in 0..Len(hold) /\ Show(First(hold, e), r) /\ call' = Collected(First(hold, e))
  BY DEF Puts, EmitBytes
<1>2. /\ Closers' = Closers /\ discard' = discard /\ MeantToShow' = MeantToShow
      /\ MeantCall' = MeantCall /\ MarkersIn(hold)' = MarkersIn(hold') /\ text \in Seq(Bytes)
  BY InputStays DEF Types
<1>3. call' = call
  BY <1>1 DEF Came, Collected
<1>4. MarkersIn(hold') = {}
  <2>1. \A i \in MarkersIn(hold') : e + i \in MarkersIn(hold)
    BY <1>1, MarkersLeft
  <2> QED BY <2>1 DEF Came
<1>5. IsPrefix(MeantToShow, shown')
  <2> DEFINE d == [i \in 1..Len(chunk') |-> <<mode, chunk'[i]>>]
  <2>1. MeantToShow \in Seq(Marked)
    <3>1. Limit \in 0..Limit
      BY <1>2, LimitIs
    <3> QED BY <1>2, <3>1, MeantIs DEF MeantToShow
  <2>2. d \in Seq(Marked)
    <3>1. chunk' \in Seq(Bytes) /\ mode \in Modes
      BY PutsTypes DEF Types
    <3>2. Len(chunk') \in Nat /\ \A i \in 1..Len(chunk') : chunk'[i] \in Bytes
      BY <3>1, ElementOfSeq
    <3>3. \A i \in 1..Len(chunk') : <<mode, chunk'[i]>> \in Marked
      BY <3>1, <3>2 DEF Marked
    <3>4. d \in [1..Len(chunk') -> Marked] /\ Len(chunk') \in Nat
      BY <3>2, <3>3
    <3> HIDE DEF d
    <3> QED BY ONLY <3>4
  <2>3. shown' = shown \o d
    BY <1>1 DEF Show
  <2> HIDE DEF d
  <2>4. \A s, t, u \in Seq(Marked) : IsPrefix(s, t) => IsPrefix(s, t \o u)
    BY ONLY PrefixOfConcat
  <2>5. shown \in Seq(Marked) /\ IsPrefix(MeantToShow, shown)
    BY DEF Types, Came
  <2> QED BY ONLY <2>1, <2>2, <2>3, <2>4, <2>5
<1> QED BY <1>2, <1>3, <1>4, <1>5 DEF Came

LEMMA NothingIsPlain ==
  ASSUME Types, Holding, Tracks
  PROVE  Plain(Pos, Pos + 0)
<1>1. Pos \in Nat /\ Len(text) \in Nat /\ Pos <= Len(text) /\ text \in Seq(Bytes)
  BY HoldIsPart DEF Tracks, Between
<1>2. Pos + 0 = Pos /\ Pos \in Pos..Len(text)
  BY <1>1
<1>3. \A j \in At : j <= Pos \/ j > Pos
  <2>1. At \subseteq Nat
    BY <1>1, MarkersAre DEF At
  <2> QED BY <1>1, <2>1
<1> QED BY <1>2, <1>3 DEF Plain, Tracks

LEMMA FlushFilters ==
  ASSUME Types, Holding, Filtered, Flush, ~refused'
  PROVE  Filtered'
<1>1. PICK e, r : FlushDid(e, r)
  BY FlushDoes
<1>2. /\ Puts(e, r) /\ (e = 0 \/ (~rc /\ e <= Len(hold) - Keep))
      /\ hold' = Rest(hold, e)
      /\ pc = "markers" /\ (rc \/ MarkersIn(hold) = {})
      /\ pc' = (IF src # << >> /\ ~rc' THEN "copy" ELSE "idle")
      /\ UNCHANGED <<input, next, mode, ready, src>>
  BY <1>1 DEF FlushDid
<1>3. Types' /\ Holding' /\ Pos' = Pos + e /\ rc' = rc
  BY <1>2, PutKeeps, PutsTypes
<1>4. Fits'
  BY <1>3 DEF Holding
<1>5. MarkersIn(hold) = {}
  BY <1>2 DEF Filtered, Came, Tracks
<1>6. e \in 0..Len(hold) /\ Len(hold) \in Nat
  BY <1>2 DEF Puts, Types
<1>7. MarkersIn(hold') = {} /\ MarkersIn(hold)' = MarkersIn(hold')
  <2>1. \A i \in MarkersIn(hold') : e + i \in MarkersIn(hold)
    BY <1>2, <1>3, <1>4, <1>6, MarkersLeft
  <2> QED BY <1>2, <1>5, <2>1, InputStays
<1>8. Alone'
  BY <1>2, <1>7, AloneNext DEF Filtered
<1>9. Keep \in Nat /\ Keep > 0
  BY TagIs DEF Keep, Rows
<1>10. Whole'
  <2>1. e < Len(hold) \/ e = 0
    BY <1>2, <1>6, <1>9
  <2> QED BY <1>2, <1>3, <2>1, PutWhole DEF Filtered
<1>11. Stage'
  <2>1. ~ready => ~rc'
    BY <1>3 DEF Filtered, Tracks
  <2> QED BY <1>2, <1>7, <2>1 DEF Stage
<1>12. CASE ready
  <2>1. Came /\ rc
    BY <1>2, <1>12 DEF Filtered, Came
  <2>2. Came'
    BY <1>2, <1>3, <1>4, <2>1, PutCame
  <2> QED BY <1>2, <1>8, <1>10, <1>11, <1>12, <2>2 DEF Filtered
<1>13. CASE ~ready
  <2>1. Tracks
    BY <1>13 DEF Filtered
  <2>2. Plain(Pos, Pos + e)
    <3>1. CASE e = 0
      BY <2>1, <3>1, NothingIsPlain
    <3>2. CASE e <= Len(hold) - Keep
      BY <1>5, <1>6, <2>1, <3>2, FrontIsPlain DEF Tracks
    <3> QED BY <1>2, <3>1, <3>2
  <2>3. Tracks'
    BY <1>2, <1>3, <2>1, <2>2, PutTracks
  <2> QED BY <1>2, <1>8, <1>10, <1>11, <1>13, <2>3 DEF Filtered
<1> QED BY <1>12, <1>13

LEMMA NextPart ==
  ASSUME Types', Holding', UNCHANGED input
  PROVE  Part(hold', Pos') /\ Pos' \in Nat /\ Pos' + Len(hold') + Len(src') = next' - 1
<1>1. text' = text
  BY InputStays
<1>2. /\ hold' \in Seq(Bytes) /\ src' \in Seq(Bytes) /\ Len(hold') \in Nat /\ Len(src') \in Nat
      /\ text \in Seq(Bytes) /\ Len(text) \in Nat /\ next' \in 1..Len(text) + 1
  BY <1>1 DEF Types
<1>3. Pos' \in 0..Len(text) /\ Pos' = next' - 1 - Len(src') - Len(hold')
  BY <1>1 DEF Holding, Fits, Pos
<1>4. Pos' \in Nat /\ Pos' + Len(hold') + Len(src') = next' - 1 /\ Pos' + Len(hold') <= Len(text)
  BY <1>2, <1>3
<1>5. \A i \in 1..Len(hold') : hold'[i] = text[Pos' + i]
  BY <1>1 DEF Holding, Fits
<1> QED BY <1>2, <1>4, <1>5 DEF Part

\* A marker that came in one piece is the only one that is complete after a copy.
LEMMA CopyAlone ==
  ASSUME Types, Holding, Alone, MarkersIn(hold) = {}, NEW e, NEW n, NEW r, CopyDid(e, n, r)
  PROVE  Alone'
<1>1. n \in 0..Len(src) /\ UNCHANGED <<input, next>> /\ e \in 0..Len(hold)
  BY DEF CopyDid, Puts
<1>2. /\ Types' /\ Holding' /\ Pos' = Pos + e
      /\ Len(hold') = Len(hold) - e + n /\ Len(src') = Len(src) - n
  BY CopyKeeps
<1>3. /\ Part(hold, Pos) /\ Pos \in Nat /\ Len(hold) \in Nat /\ Len(src) \in Nat
      /\ Pos + Len(hold) + Len(src) = next - 1 /\ next \in Nat /\ text \in Seq(Bytes)
  BY HoldIsPart
<1>4. recognize' = recognize /\ At' = At /\ MarkersIn(hold)' = MarkersIn(hold')
      /\ \A j : End(j)' = End(j)
  BY <1>1, InputStays, MeaningStays
<1> DEFINE p == Pos
           h == hold'
           b == next - Len(src)
<1>5. Part(h, p + e) /\ p \in Nat /\ p + e \in Nat
  BY <1>1, <1>2, <1>3, NextPart
<1>6. b = p + Len(hold) + 1 /\ b \in Nat /\ Len(h) = Len(hold) - e + n /\ n \in Nat /\ e \in Nat
  BY <1>1, <1>2, <1>3
<1>7. MarkersIn(hold) = {i \in 1..Len(hold) : p + i \in At /\ End(p + i) <= p + Len(hold)}
  BY <1>3, PartMarkers
<1>8. next = b + Len(src) /\ next - Len(src') = b + n
  BY <1>1, <1>2, <1>3
<1> HIDE DEF p, h, b
<1>9. MarkersIn(h) = {i \in 1..Len(h) : p + e + i \in At /\ End(p + e + i) <= p + e + Len(h)}
  BY <1>3, <1>5, PartMarkers
<1> SUFFICES ASSUME recognize
             PROVE  /\ \A j \in At : j >= b + n /\ End(j) < next => j = b + n
                    /\ \A i, j \in MarkersIn(h) : i = j
  BY <1>1, <1>4, <1>8 DEF Alone, h
<1>10. \A j \in At : j >= b /\ End(j) < next => j = b
  BY DEF Alone, b
<1>11. ASSUME NEW j \in At, j >= b + n, End(j) < next PROVE j = b + n
  <2>1. j \in Nat
    BY <1>3, MarkersAre DEF At
  <2>2. j = b
    BY <1>6, <1>10, <1>11, <2>1
  <2> QED BY <1>6, <1>11, <2>1, <2>2
<1>12. ASSUME NEW i \in MarkersIn(h), NEW j \in MarkersIn(h), i < j PROVE FALSE
  <2> DEFINE x == p + e + i
             y == p + e + j
  <2>1. /\ i \in 1..Len(h) /\ x \in At /\ End(x) <= p + e + Len(h)
        /\ j \in 1..Len(h) /\ y \in At /\ End(y) <= p + e + Len(h)
    BY <1>9
  <2>2. /\ x = p + (e + i) /\ x < y /\ x \in Nat /\ y \in Nat
    BY <1>5, <1>6, <1>12, <2>1
  <2> HIDE DEF x, y
  <2>3. End(x) \in Nat /\ End(x) >= x /\ End(x) < y /\ End(y) \in Nat
    <3>1. End(x) \in x + 1..Len(text) /\ End(y) \in y + 1..Len(text)
      BY <1>3, <2>1, MarkerIs
    <3>2. End(x) < y
      BY <1>3, <2>1, <2>2, Apart
    <3> QED BY <2>2, <3>1, <3>2
  <2>4. End(x) >= b
    <3> SUFFICES ASSUME End(x) < b PROVE FALSE
      BY <1>6, <2>3
    <3>1. e + i \in 1..Len(hold) /\ End(x) <= p + Len(hold)
      <4> DEFINE z == End(x)
                 k == e + i
      <4>1. z \in Nat /\ z >= x /\ z < b /\ b = p + Len(hold) + 1 /\ x = p + k
        BY <1>6, <2>2, <2>3
      <4>2. k \in Nat /\ k > 0 /\ p \in Nat /\ Len(hold) \in Nat
        BY <1>3, <1>5, <1>6, <2>1
      <4> HIDE DEF z, k
      <4>3. k \in 1..Len(hold) /\ z <= p + Len(hold)
        BY ONLY <4>1, <4>2
      <4> QED BY <4>3 DEF z, k
    <3>2. e + i \in MarkersIn(hold)
      BY <1>7, <2>1, <2>2, <3>1
    <3> QED BY <3>2
  <2>5. y >= b /\ y # b
    BY <1>6, <2>2, <2>3, <2>4
  <2>6. End(y) < next
    <3>1. p + e + Len(h) = b + n - 1
      BY <1>3, <1>5, <1>6
    <3>2. n <= Len(src) /\ Len(src) \in Nat /\ n \in Nat
      BY <1>1, <1>3
    <3> DEFINE z == End(y)
    <3>3. z <= b + n - 1 /\ z \in Nat /\ b \in Nat /\ next = b + Len(src)
      BY <1>6, <1>8, <2>1, <2>3, <3>1
    <3> HIDE DEF z
    <3>4. z < next
      BY ONLY <3>2, <3>3
    <3> QED BY <3>4 DEF z
  <2> QED BY <1>10, <2>1, <2>5, <2>6
<1>13. ASSUME NEW i \in MarkersIn(h), NEW j \in MarkersIn(h) PROVE i = j
  <2>1. i \in Nat /\ j \in Nat
    BY <1>9
  <2> QED BY <1>12, <2>1
<1> QED BY <1>11, <1>13

LEMMA CopyFilters ==
  ASSUME Types, Holding, Filtered, Copy, ~refused'
  PROVE  Filtered'
<1>1. PICK e, n, r : CopyDid(e, n, r)
  BY CopyDoes
<1>2. /\ Puts(e, r) /\ (e = 0 \/ e <= Len(hold) - Keep) /\ n \in 0..Len(src)
      /\ pc = "copy" /\ pc' = "markers" /\ UNCHANGED <<input, next, mode, ready>>
  BY <1>1 DEF CopyDid
<1>3. Types' /\ Holding' /\ Pos' = Pos + e
  BY <1>1, CopyKeeps
<1>4. ~ready /\ Tracks /\ MarkersIn(hold) = {} /\ Alone /\ Whole
  BY <1>2 DEF Filtered, Came, Stage
<1>5. e \in 0..Len(hold) /\ Len(hold) \in Nat
  BY <1>2 DEF Puts, Types
<1>6. Keep \in Nat /\ Keep > 0
  BY TagIs DEF Keep, Rows
<1>7. Plain(Pos, Pos + e)
  <2>1. CASE e = 0
    BY <1>4, <2>1, NothingIsPlain
  <2>2. CASE e <= Len(hold) - Keep
    BY <1>4, <1>5, <2>2, FrontIsPlain DEF Tracks
  <2> QED BY <1>2, <2>1, <2>2
<1>8. Tracks'
  BY <1>2, <1>3, <1>4, <1>7, PutTracks
<1>9. Whole'
  <2>1. e < Len(hold) \/ e = 0
    BY <1>2, <1>5, <1>6
  <2> QED BY <1>2, <1>3, <1>4, <2>1, PutWhole
<1>10. Alone'
  BY <1>1, <1>4, CopyAlone
<1>11. Stage'
  BY <1>2 DEF Stage
<1> QED BY <1>2, <1>4, <1>8, <1>9, <1>10, <1>11 DEF Filtered

LEMMA FinishRestFilters ==
  ASSUME Types, Holding, Filtered, FinishRest, ~refused'
  PROVE  Filtered'
<1>1. PICK e, r : FinishRestDid(e, r)
  BY FinishRestDoes
<1>2. /\ Puts(e, r) /\ (e = Len(hold) \/ rc) /\ hold' = Rest(hold, e)
      /\ pc = "finish" /\ pc' = "end" /\ UNCHANGED <<input, next, mode, ready, src>>
  BY <1>1 DEF FinishRestDid
<1>3. Types' /\ Holding' /\ Pos' = Pos + e
  BY <1>2, PutKeeps
<1>4. Fits'
  BY <1>3 DEF Holding
<1>5. MarkersIn(hold) = {} /\ Alone /\ Whole
  BY <1>2 DEF Filtered, Stage
<1>6. e \in 0..Len(hold) /\ Len(hold) \in Nat /\ hold \in Seq(Bytes)
  BY <1>2 DEF Puts, Types
<1>7. MarkersIn(hold)' = {}
  <2>1. \A i \in MarkersIn(hold') : e + i \in MarkersIn(hold)
    BY <1>2, <1>3, <1>4, <1>6, MarkersLeft
  <2> QED BY <1>2, <1>5, <2>1, InputStays
<1>8. Alone'
  BY <1>2, <1>5, AloneNext
<1>9. CASE ready
  <2>1. Came
    BY <1>9 DEF Filtered
  <2>2. Came'
    BY <1>2, <1>3, <1>4, <2>1, PutCame
  <2>3. Stage' /\ Whole'
    BY <1>2, <1>7, <1>9 DEF Stage, Whole
  <2> QED BY <1>2, <1>8, <1>9, <2>2, <2>3 DEF Filtered
<1>10. CASE ~ready
  <2>1. Tracks /\ ~rc /\ src = << >> /\ next > Len(text)
    BY <1>2, <1>10 DEF Filtered, Tracks, Stage
  <2>2. e = Len(hold)
    BY <1>2, <2>1
  <2>3. Plain(Pos, Pos + e)
    BY <1>5, <1>6, <2>1, <2>2, FrontIsPlain DEF Tracks
  <2>4. Tracks'
    BY <1>2, <1>3, <2>1, <2>3, PutTracks
  <2>5. Pos + e = Len(text)
    <3>1. /\ Pos \in Nat /\ Len(text) \in Nat /\ Len(src) \in Nat /\ next \in Nat
          /\ Pos + Len(hold) + Len(src) = next - 1 /\ Pos + Len(hold) + Len(src) <= Len(text)
      BY HoldIsPart
    <3>2. Len(src) = 0
      BY <2>1
    <3> QED BY <1>6, <2>1, <2>2, <3>1, <3>2
  <2>6. Whole'
    BY <1>2, <1>3, <1>5, <2>5, PutWhole
  <2>7. hold' = << >>
    <3>1. hold' \in Seq(Bytes) /\ Len(hold') = Len(hold) - Len(hold)
      BY <1>2, <1>6, <2>2, Cuts
    <3>2. Len(hold') = 0
      BY <1>6, <3>1
    <3> QED BY <3>1, <3>2, EmptySeq
  <2>8. text' = text
    BY <1>2, InputStays
  <2>9. Stage'
    BY <1>2, <1>7, <2>1, <2>7, <2>8 DEF Stage
  <2> QED BY <1>2, <1>8, <1>10, <2>4, <2>6, <2>9 DEF Filtered
<1> QED BY <1>9, <1>10

LEMMA QuietTracks ==
  ASSUME Tracks, UNCHANGED <<input, mode, shown, call, rc>>, Pos' = Pos
  PROVE  Tracks'
<1>1. TracksAt(Pos', mode', shown', call') /\ ~rc'
  BY DEF Tracks, TracksAt
<1> QED BY <1>1, TracksNext

LEMMA QuietWhole ==
  ASSUME Whole, UNCHANGED <<input, ready>>, chunk' = << >>, Pos' = Pos
  PROVE  Whole'
<1>1. text' = text /\ (WellFormed' <=> WellFormed)
  BY InputStays
<1> QED BY <1>1 DEF Whole

LEMMA PushFilters ==
  ASSUME Types, Holding, Filtered, Push, ~refused'
  PROVE  Filtered'
<1>1. /\ pc = "idle" /\ ~rc /\ pc' = "copy" /\ chunk' = << >>
      /\ UNCHANGED <<input, mode, hold, ready, rc, call, shown>>
  BY DEF Push, Quiet
<1>2. PICK n \in Nat : /\ next' = next + n /\ next + n - 1 <= Len(text) /\ Len(src') = n
                       /\ \A i \in 1..n : src'[i] = text[next - 1 + i]
                       /\ recognize => \A m \in Rows :
                            (\E i \in 1..n : Occurs(m, src', i)) => src' = Tag[m]
  BY PushKeeps
<1>3. Types' /\ Holding' /\ Pos' = Pos
  BY PushKeeps
<1>4. ~ready /\ Tracks /\ MarkersIn(hold) = {} /\ Whole
  BY <1>1 DEF Filtered, Came, Stage
<1>5. text' = text /\ recognize' = recognize /\ At' = At /\ MarkersIn(hold)' = MarkersIn(hold')
      /\ \A j : End(j)' = End(j)
  BY <1>1, InputStays, MeaningStays
<1>6. Tracks' /\ Whole'
  BY <1>1, <1>3, <1>4, QuietTracks, QuietWhole
<1>7. Stage'
  BY <1>1, <1>4, <1>5 DEF Stage
<1>8. next \in Nat \ {0} /\ text \in Seq(Bytes) /\ Len(text) \in Nat /\ src' \in Seq(Bytes)
  BY <1>3 DEF Types
<1>9. ASSUME recognize, NEW j \in At, j >= next, End(j) < next + n PROVE j = next
  <2> DEFINE m == MarkerAt(j)
             l == Len(Tag[m])
             i == j - next + 1
  <2>1. /\ m \in Rows /\ Stands(m, text, j) /\ j \in 1..Len(text) /\ End(j) = j + l - 1
    BY <1>8, MarkerIs DEF End
  <2>2. l \in Nat /\ l > 1
    BY <2>1, TagIs
  <2>3. \A k \in 1..l : text[j + k - 1] = Tag[m][k]
    BY <2>1 DEF Stands
  <2>4. j \in Nat /\ j + l - 1 < next + n /\ j >= next
    BY <1>8, <1>9, <2>1
  <2> HIDE DEF m, l
  <2>5. i \in 1..n /\ i + l - 1 <= n
    BY <1>8, <2>2, <2>4
  <2>6. j = next - 1 + i
    BY <1>8, <2>4
  <2> HIDE DEF i
  <2>7. \A k \in 1..l : src'[i + k - 1] = Tag[m][k]
    <3> SUFFICES ASSUME NEW k \in 1..l PROVE src'[i + k - 1] = Tag[m][k]
      OBVIOUS
    <3>1. i + k - 1 \in 1..n /\ next - 1 + (i + k - 1) = j + k - 1
      BY <1>8, <2>2, <2>4, <2>5, <2>6
    <3>2. src'[i + k - 1] = text[next - 1 + (i + k - 1)]
      BY <1>2, <3>1
    <3> QED BY <2>3, <3>1, <3>2
  <2>8. Stands(m, src', i)
    BY <1>2, <2>5, <2>7 DEF Stands, l
  <2>9. i \in Nat \ {0}
    BY <2>5
  <2>10. Occurs(m, src', i)
    BY <1>8, <2>1, <2>8, <2>9, OccursIs DEF m
  <2>11. src' = Tag[m]
    BY <1>2, <1>9, <2>1, <2>5, <2>10
  <2>12. n = l
    BY <1>2, <2>11 DEF l
  <2> QED BY <1>8, <2>2, <2>4, <2>5, <2>6, <2>12
<1>10. Alone'
  <2>1. next' - Len(src') = next
    BY <1>2, <1>8
  <2>2. \A j \in At : recognize /\ j >= next /\ End(j) < next' => j = next
    BY <1>2, <1>9
  <2> QED BY <1>1, <1>5, <2>1, <2>2 DEF Alone
<1> QED BY <1>1, <1>4, <1>6, <1>7, <1>10 DEF Filtered

LEMMA FinishFilters ==
  ASSUME Types, Holding, Filtered, Finish, ~refused'
  PROVE  Filtered'
<1>1. /\ pc = "idle" /\ (rc \/ next > Len(text)) /\ pc' = "finish" /\ rc' = FALSE /\ chunk' = << >>
      /\ UNCHANGED <<input, next, mode, hold, ready, src, call, shown>>
  BY DEF Finish, Quiet
<1>2. Pos' = Pos
  BY <1>1 DEF Pos
<1>3. /\ text' = text /\ discard' = discard /\ Closers' = Closers /\ MarkersIn(hold)' = MarkersIn(hold)
      /\ MeantToShow' = MeantToShow /\ MeantCall' = MeantCall
  BY <1>1, InputStays
<1>4. Alone' /\ Whole'
  BY <1>1, <1>2, AloneNext, QuietWhole DEF Filtered
<1>5. CASE ready
  <2>1. Came'
    BY <1>1, <1>3, <1>5 DEF Filtered, Came
  <2>2. Stage'
    BY <1>1, <1>3, <1>5 DEF Filtered, Stage
  <2> QED BY <1>1, <1>4, <1>5, <2>1, <2>2 DEF Filtered
<1>6. CASE ~ready
  <2>1. Tracks /\ rc = FALSE
    BY <1>6 DEF Filtered, Tracks, Types
  <2>2. Tracks'
    BY <1>1, <1>2, <2>1, QuietTracks
  <2>3. Stage'
    BY <1>1, <1>3, <1>6, <2>1 DEF Filtered, Stage
  <2> QED BY <1>1, <1>4, <1>6, <2>2, <2>3 DEF Filtered
<1> QED BY <1>5, <1>6

\* As long as the callback takes every chunk, no step of the filter goes wrong.
LEMMA FilteredKeeps ==
  ASSUME Types, Holding, Filtered, [Next]_vars, ~refused'
  PROVE  Filtered'
<1>1. CASE Push
  BY <1>1, PushFilters
<1>2. CASE Copy
  BY <1>2, CopyFilters
<1>3. CASE TakeMarker
  BY <1>3, TakeMarkerFilters
<1>4. CASE Flush
  BY <1>4, FlushFilters
<1>5. CASE Finish
  BY <1>5, FinishFilters
<1>6. CASE FinishMarker
  BY <1>6 DEF FinishMarker, Filtered, Stage
<1>7. CASE FinishRest
  BY <1>7, FinishRestFilters
<1>8. CASE UNCHANGED vars
  <2>1. /\ UNCHANGED <<input, next, mode, hold, ready, src, call, shown, rc, pc, chunk>>
        /\ Pos' = Pos
    BY <1>8 DEF vars, Pos
  <2>2. /\ Closers' = Closers /\ MarkersIn(hold)' = MarkersIn(hold) /\ text' = text
        /\ MeantToShow' = MeantToShow /\ MeantCall' = MeantCall /\ discard' = discard
        /\ recognize' = recognize /\ At' = At /\ (WellFormed' <=> WellFormed)
        /\ \A j : End(j)' = End(j)
    BY <2>1, InputStays, MeaningStays
  <2>3. Tracks => Tracks'
    BY <2>1, QuietTracks
  <2>4. (Came => Came') /\ (Stage => Stage')
    BY <2>1, <2>2 DEF Came, Stage
  <2>5. (Alone => Alone') /\ (Whole => Whole')
    BY <2>1, <2>2 DEF Alone, Whole
  <2> QED BY <2>1, <2>3, <2>4, <2>5 DEF Filtered
<1> QED BY <1>1, <1>2, <1>3, <1>4, <1>5, <1>6, <1>7, <1>8 DEF Next, Step

LEMMA RefusedStays ==
  ASSUME Types, [Next]_vars, ~refused'
  PROVE  ~refused
<1>1. refused' = refused \/ \E r : refused' = (refused \/ r)
  BY DEF Next, Step, Push, Copy, TakeMarker, Flush, Finish, FinishMarker, FinishRest, Quiet,
     EmitBytes, Show, vars
<1> QED BY <1>1 DEF Types

-----------------------------------------------------------------------------
(* The invariant, and what follows from it.                                *)

LEMMA InitIsIn ==
  ASSUME Init
  PROVE  IInv
<1>1. /\ pc = "idle" /\ text \in Seq(Bytes) /\ next = 1 /\ mode = "content"
      /\ hold = << >> /\ call = << >> /\ ready = FALSE /\ recognize \in BOOLEAN
      /\ discard \in {FALSE, recognize} /\ src = << >> /\ rc = FALSE
      /\ shown = << >> /\ chunk = << >> /\ refused = FALSE
  BY SizesAssumption DEF Init
<1>2. /\ Len(text) \in Nat /\ << >> \in Seq(Bytes) /\ << >> \in Seq(Marked)
      /\ Len(hold) = 0 /\ Len(src) = 0
  BY <1>1, EmptySeq
<1>3. Types
  <2>1. next \in 1..Len(text) + 1 /\ Len(hold) <= HoldSize
    BY <1>1, <1>2, SizesAssumption
  <2>2. {ready, rc, refused, recognize, discard} \subseteq BOOLEAN /\ (discard => recognize)
    <3>1. discard = FALSE \/ discard = recognize
      BY <1>1
    <3>2. recognize \in BOOLEAN
      BY <1>1
    <3>3. CASE discard = FALSE
      BY <1>1, <3>3
    <3>4. CASE discard = recognize
      <4>1. discard \in BOOLEAN
        BY <3>2, <3>4
      <4>2. discard => recognize
        BY <3>4, Zenon
      <4> QED BY <1>1, <4>1, <4>2
    <3> QED BY <3>1, <3>3, <3>4
  <2>3. {hold, src, call, chunk} \subseteq Seq(Bytes) /\ shown \in Seq(Marked)
    BY <1>1, <1>2
  <2> QED BY <1>1, <2>1, <2>2, <2>3 DEF Types, Modes
<1>4. Pos = 0 /\ 0 \in 0..Len(text)
  <2>1. next = 1 /\ Len(hold) = 0 /\ Len(src) = 0 /\ Len(text) \in Nat
    BY <1>1, <1>2
  <2> QED BY ONLY <2>1 DEF Pos
<1>5. Holding
  BY <1>1, <1>2, <1>4 DEF Holding, Fits
<1>6. \A j \in At : /\ j \in Nat \ {0} /\ End(j) \in Nat /\ End(j) > j
                    /\ j \in 1..Len(text) /\ MarkerAt(j) \in Rows
  BY <1>1, <1>2, MarkerIs
<1>7. MarkersIn(hold) = {}
  BY <1>1, <1>2 DEF MarkersIn
<1>8. Tracks
  <2>1. Between(0)
    BY <1>2, <1>6 DEF Between
  <2>2. 0 <= Limit
    BY <1>1, LimitIs
  <2>3. ModeAt(0 + 1, At) = "content"
    <3>1. {j \in At : j < 0 + 1} = {}
      BY <1>6
    <3> QED BY <3>1 DEF ModeAt
  <2>4. Meant({"content", "reasoning"})[0] = << >> /\ Meant({"tool_call"})[0] = << >>
    BY <1>1, MeantIs
  <2>5. BytesOf(<< >>) = << >>
    BY <1>2, BytesOfIs
  <2> QED BY <1>1, <1>4, <2>1, <2>2, <2>3, <2>4, <2>5 DEF Tracks
<1>9. Stage
  BY <1>1, <1>7 DEF Stage
<1>10. Alone
  BY <1>1, <1>2, <1>6 DEF Alone
<1>11. Whole
  <2>1. WellFormed /\ 0 < Len(text) => text[0 + 1] \notin Cont
    <3> SUFFICES ASSUME WellFormed, 0 < Len(text), text[1] \in Cont PROVE FALSE
      OBVIOUS
    <3>1. 1 \in 1..Len(text)
      BY <1>2
    <3>2. 1 > 1
      BY <3>1 DEF WellFormed
    <3> QED BY <3>2
  <2> QED BY <1>1, <1>4, <2>1 DEF Whole
<1> QED BY <1>1, <1>3, <1>5, <1>8, <1>9, <1>10, <1>11 DEF IInv, Filtered

LEMMA NextKeeps ==
  ASSUME IInv, [Next]_vars
  PROVE  IInv'
<1>1. Types' /\ Holding'
  BY BasicsKeep DEF IInv
<1>2. ASSUME ~refused' PROVE Filtered'
  <2>1. ~refused
    BY <1>2, RefusedStays DEF IInv
  <2> QED BY <1>2, <2>1, FilteredKeeps DEF IInv
<1> QED BY <1>1, <1>2 DEF IInv

\* The hold is the text between what came out and what is still to be pushed,
\* and what came out is what that much of the text means.
THEOREM IInvHolds == Spec => []IInv
<1>1. Init => IInv
  BY InitIsIn
<1>2. IInv /\ [Next]_vars => IInv'
  BY NextKeeps
<1> QED BY <1>1, <1>2, PTL DEF Spec

\* slm_think_filter never shows a byte of a marker or of a call, nor one twice,
\* out of order or in another mode, in whatever pieces the text comes.
THEOREM ShowsWhatIsMeantHolds == Spec => []ShowsWhatIsMeant
<1>1. IInv => ShowsWhatIsMeant
  <2> SUFFICES ASSUME IInv, ~refused
               PROVE  IF ready THEN IsPrefix(MeantToShow, shown) ELSE IsPrefix(shown, MeantToShow)
    BY DEF ShowsWhatIsMeant
  <2>1. Types /\ Filtered
    BY DEF IInv
  <2>2. CASE ready
    BY <2>1, <2>2 DEF Filtered, Came
  <2>3. CASE ~ready
    <3>1. Pos \in Nat /\ Pos <= Limit /\ shown = Meant({"content", "reasoning"})[Pos]
      BY <2>1, <2>3 DEF Filtered, Tracks, Between
    <3>2. text \in Seq(Bytes) /\ Limit \in Nat
      BY <2>1, LimitIs DEF Types
    <3>3. IsPrefix(Meant({"content", "reasoning"})[Pos], Meant({"content", "reasoning"})[Limit])
      BY <3>1, <3>2, MeantSoFar
    <3> QED BY <2>3, <3>1, <3>3 DEF MeantToShow
  <2> QED BY <2>2, <2>3
<1> QED BY <1>1, IInvHolds, PTL

\* After slm_think_filter_finish nothing is left in the hold, and a complete
\* call was collected, all of it and no more.
THEOREM NothingIsLostHolds == Spec => []NothingIsLost
<1>1. IInv => NothingIsLost
  <2> SUFFICES ASSUME IInv, pc = "end", ~refused
               PROVE  /\ ~ready => shown = MeantToShow
                      /\ ready <=> ~discard /\ Closers # {}
                      /\ ready => call = MeantCall
    BY DEF NothingIsLost
  <2>1. Types /\ Holding /\ Filtered
    BY DEF IInv
  <2>2. CASE ready
    BY <2>1, <2>2 DEF Filtered, Came
  <2>3. CASE ~ready
    <3>1. Tracks /\ hold = << >> /\ src = << >> /\ next > Len(text)
      BY <2>1, <2>3 DEF Filtered, Stage
    <3>2. /\ Pos \in Nat /\ Len(text) \in Nat /\ next \in Nat /\ text \in Seq(Bytes)
          /\ Pos + Len(hold) + Len(src) = next - 1 /\ Pos + Len(hold) + Len(src) <= Len(text)
      BY <2>1, HoldIsPart
    <3>3. Len(hold) = 0 /\ Len(src) = 0
      BY <3>1
    <3>4. Pos = Len(text)
      BY <3>1, <3>2, <3>3
    <3>5. Limit \in 0..Len(text) /\ Pos <= Limit
      BY <3>1, <3>2, LimitIs DEF Tracks
    <3>6. Limit = Len(text) /\ Pos = Limit
      BY <3>2, <3>4, <3>5
    <3>7. shown = MeantToShow
      BY <3>1, <3>6 DEF Tracks, MeantToShow
    <3>8. discard \/ Closers = {}
      <4> SUFFICES ASSUME ~(discard \/ Closers = {}) PROVE FALSE
        OBVIOUS
      <4>1. Limit + 1 \in At
        BY <3>2, LimitIs
      <4>2. Limit + 1 \in 1..Len(text)
        BY <3>2, <4>1, MarkerIs
      <4> QED BY <3>2, <3>6, <4>2
    <3> QED BY <2>1, <2>3, <3>7, <3>8 DEF Types
  <2> QED BY <2>2, <2>3
<1> QED BY <1>1, IInvHolds, PTL

\* slm_safe_utf8_cut keeps characters whole: a text whose characters are whole
\* comes out in chunks whose characters are.
THEOREM WholeCharactersHolds == Spec => []WholeCharacters
<1>1. IInv => WholeCharacters
  BY DEF IInv, Filtered, Whole, WholeCharacters
<1> QED BY <1>1, IInvHolds, PTL

\* hold_data is never written past its end.
THEOREM TypeOKHolds == Spec => []TypeOK
<1>1. IInv => TypeOK
  BY DEF IInv, Types, TypeOK, Modes
<1> QED BY <1>1, IInvHolds, PTL

==============================================================================
