------------------------------ MODULE Tokenizer ------------------------------
(***************************************************************************)
(* The byte-level BPE tokenizer (tokenizer.c).  A text is a sequence of    *)
(* bytes, as is a string of the vocabulary.  The tables are those of a     *)
(* GGUF file; struct map is used through what it promises (Dictionary): a  *)
(* key put twice keeps its last value.                                     *)
(***************************************************************************)
EXTENDS Integers, Sequences, SequencesExt, FiniteSetsExt

CONSTANT Known   \* the texts of <|endoftext|>, <|im_start|> and <|im_end|>

VARIABLES
  vocab_strs,    \* the vocabulary; the id of a string is its place, from 0
  vocab_to_id,
  merge_rank     \* pair of strings -> place among the merges

tokenizer == <<vocab_strs, vocab_to_id, merge_rank>>

ASSUME KnownAssumption ==
  Known \in Seq(Seq(33..126) \ {<< >>})

Suffix(s, i) == SubSeq(s, i, Len(s))

\* A set of numbers as a sequence, the smallest first
Ordered(S) ==
  [k \in 1..Cardinality(S) |-> CHOOSE x \in S : Cardinality({y \in S : y < x}) = k - 1]

-----------------------------------------------------------------------------
(* Bytes as visible characters                                             *)

Printable == (33..126) \union (161..172) \union (174..255)

\* A byte without a visible character of its own gets one from 256 on
bytes_to_unicode_cp(b) ==
  IF b \in Printable THEN b ELSE 256 + Cardinality((0..(b - 1)) \ Printable)

byte_to_uni == [b \in 0..255 |-> bytes_to_unicode_cp(b)]

\* mutant: room for the characters of one byte only
uni_to_byteShort == [cp \in {byte_to_uni[b] : b \in Printable} |-> cp]

uni_to_byte ==
  [cp \in {byte_to_uni[b] : b \in 0..255} |-> Max({b \in 0..255 : byte_to_uni[b] = cp})]

\* No code point of a byte takes more than two bytes
utf8_encode_cp(cp) == IF cp < 128 THEN <<cp>> ELSE <<192 + (cp \div 64), 128 + (cp % 64)>>

Visible(b) == utf8_encode_cp(byte_to_uni[b])

\* The bytes of the character that c begins, by its leading bits; 0 if none
Width(c) ==
  CASE c < 128 -> 1 [] c \div 32 = 6 -> 2 [] c \div 16 = 14 -> 3 [] c \div 8 = 30 -> 4
    [] OTHER -> 0

LeadBits == <<128, 32, 16, 8>>

\* The first character of a text that is not empty, and the bytes it takes
utf8_decode_one(s) ==
  LET n == Width(s[1])
      cp[i \in 1..n] == IF i = 1 THEN s[1] % LeadBits[n] ELSE cp[i - 1] * 64 + (s[i] % 64)
  IN IF n = 0 \/ n > Len(s) THEN [cp |-> 65533, adv |-> 1] ELSE [cp |-> cp[n], adv |-> n]

-----------------------------------------------------------------------------
(* Loading                                                                 *)

LastPlaces(s) == [x \in Range(s) |-> Max({i \in DOMAIN s : s[i] = x}) - 1]

\* tokenizer_load of a file with these tokens and merges
Load(tokens, merges) ==
  /\ vocab_strs = tokens
  /\ vocab_to_id = LastPlaces(tokens)
  /\ merge_rank = LastPlaces(merges)

\* The known markers the vocabulary has
Specials == {i \in DOMAIN Known : Known[i] \in DOMAIN vocab_to_id}

-----------------------------------------------------------------------------
(* Encoding                                                                *)

\* tokenizer_match_special: the markers that stand at place i
Matches(text, i) ==
  {k \in Specials : /\ i + Len(Known[k]) - 1 <= Len(text)
                    /\ SubSeq(text, i, i + Len(Known[k]) - 1) = Known[k]}

\* A space begins a word, and belongs to it
Words(text) ==
  LET starts == Ordered({1} \union {i \in DOMAIN text : text[i] = 32})
  IN [k \in DOMAIN starts |->
        SubSeq(text, starts[k], IF k = Len(starts) THEN Len(text) ELSE starts[k + 1] - 1)]

Pieces(word) == [i \in DOMAIN word |-> Visible(word[i])]

Rank(toks, i) == merge_rank[<<toks[i], toks[i + 1]>>]

Mergeable(toks) ==
  {i \in 1..(Len(toks) - 1) : <<toks[i], toks[i + 1]>> \in DOMAIN merge_rank}

\* mutant: the last of the pairs with the lowest rank
BestRight(toks) ==
  CHOOSE i \in Mergeable(toks) :
    \A j \in Mergeable(toks) :
      Rank(toks, i) < Rank(toks, j) \/ (Rank(toks, i) = Rank(toks, j) /\ i >= j)

\* The leftmost pair with the lowest rank
Best(toks) ==
  CHOOSE i \in Mergeable(toks) :
    \A j \in Mergeable(toks) :
      Rank(toks, i) < Rank(toks, j) \/ (Rank(toks, i) = Rank(toks, j) /\ i <= j)

MergeAt(toks, i) ==
  SubSeq(toks, 1, i - 1) \o <<toks[i] \o toks[i + 1]>> \o Suffix(toks, i + 2)

\* One pair after the other, while there is one
Merged(toks) ==
  LET after[n \in 0..Len(toks)] ==
        IF n = 0 THEN toks
        ELSE LET now == after[n - 1]
             IN IF Mergeable(now) = {} THEN now ELSE MergeAt(now, Best(now))
  IN after[Len(toks)]

\* A piece the vocabulary does not have is dropped
Ids(toks) ==
  FlattenSeq([i \in DOMAIN toks |->
               IF toks[i] \in DOMAIN vocab_to_id THEN <<vocab_to_id[toks[i]]>> ELSE << >>])

tokenizer_encode_bpe(text) ==
  IF text = << >> THEN << >>
  ELSE LET words == Words(text)
       IN FlattenSeq([i \in DOMAIN words |-> Ids(Merged(Pieces(words[i])))])

\* Text up to the next marker, the marker's id, and so on
tokenizer_encode(text) ==
  LET from[pos \in 1..(Len(text) + 1)] ==
        LET marks == {i \in pos..Len(text) : Matches(text, i) # {}} IN
        IF marks = {} THEN tokenizer_encode_bpe(Suffix(text, pos))
        ELSE LET at == Min(marks)
                 mark == Known[Min(Matches(text, at))]
             IN tokenizer_encode_bpe(SubSeq(text, pos, at - 1))
                \o <<vocab_to_id[mark]>> \o from[at + Len(mark)]
  IN from[1]

-----------------------------------------------------------------------------
(* Decoding                                                                *)

\* The bytes a string stands for.  A character that stands for none goes out
\* as it is
BytesOf(s) ==
  LET from[pos \in 1..(Len(s) + 1)] ==
        IF pos > Len(s) THEN << >>
        ELSE LET c == utf8_decode_one(Suffix(s, pos))
             IN (IF c.cp \in DOMAIN uni_to_byte THEN <<uni_to_byte[c.cp]>>
                 ELSE SubSeq(s, pos, pos + c.adv - 1)) \o from[pos + c.adv]
  IN from[1]

tokenizer_decode_one(id) ==
  IF id \in 0..(Len(vocab_strs) - 1) THEN BytesOf(vocab_strs[id + 1]) ELSE << >>

Decoded(ids) == FlattenSeq([i \in DOMAIN ids |-> tokenizer_decode_one(ids[i])])
==============================================================================
