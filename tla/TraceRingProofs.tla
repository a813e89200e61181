---------------------------- MODULE TraceRingProofs ----------------------------
(***************************************************************************)
(* For every capacity of the ring, every length of the shown log and every *)
(* number of calls: with one thread at a time in _trace_, messages are     *)
(* owned, the Debug tab's log is the trace, and a reader that checks the   *)
(* head after its copy has what it asked for.                              *)
(***************************************************************************)
EXTENDS TraceRing, NumberFacts, SequenceTheorems, TLAPS

-----------------------------------------------------------------------------
(* Slots.                                                                  *)

LEMMA SlotType == ASSUME NEW n \in Nat PROVE Slot(n) \in 0..Capacity - 1
  BY RingAssumption, ModType DEF Slot

\* Two entries less than Capacity apart have slots of their own.
LEMMA SlotsApart ==
  ASSUME NEW n \in Nat, NEW m \in Nat, m < n, n - m < Capacity
  PROVE  Slot(n) # Slot(m)
<1>1. n \in Int /\ m \in Int /\ m - n < Capacity /\ Capacity \in Nat \ {0}
  BY RingAssumption
<1>2. (n % Capacity) = (m % Capacity) => n = m
  BY <1>1, SameSlot
<1> QED BY <1>2 DEF Slot

-----------------------------------------------------------------------------
(* Types.                                                                  *)

LEMMA TrimmedType ==
  ASSUME NEW s \in Seq(Line), NEW line \in Line, Len(s) <= MaxLines
  PROVE  Trimmed(s, line) \in Seq(Line) /\ Len(Trimmed(s, line)) <= MaxLines
<1> DEFINE all == Append(s, line)
           from == IF Len(all) > MaxLines THEN Len(all) - MaxLines + 1 ELSE 1
<1>1. all \in Seq(Line) /\ Len(all) = Len(s) + 1 /\ Len(s) \in Nat /\ MaxLines \in Nat
  BY RingAssumption
<1>2. from \in 1..Len(all) + 1 /\ Len(all) - from + 1 <= MaxLines
  BY <1>1, RingAssumption
<1>3. Trimmed(s, line) = SubSeq(all, from, Len(all))
  BY DEF Trimmed
<1> HIDE DEF all, from
<1>4. /\ SubSeq(all, from, Len(all)) \in Seq(Line)
      /\ Len(SubSeq(all, from, Len(all))) = Len(all) - from + 1
  BY <1>1, <1>2, SubSeqProperties
<1> QED BY <1>2, <1>3, <1>4

LEMMA TypeInit == Init => TypeOK
<1>1. << >> \in Seq(Line) /\ Len(<< >>) = 0 /\ << >> \in Seq(Nat \union {None, Garbage})
  OBVIOUS
<1>2. MaxLines \in Nat
  BY RingAssumption
<1> SUFFICES ASSUME Init PROVE TypeOK
  OBVIOUS
<1>3. /\ ring \in [0..Capacity - 1 -> Nat \union {None}]
      /\ pc \in [Writers -> {"idle", "free", "clear", "fill", "publish", "observe"}]
      /\ idx \in [Writers -> Nat] /\ number \in [Writers -> Nat]
  BY DEF Init
<1>4. queue \in Seq(Line) /\ lines \in Seq(Line) /\ Len(lines) <= MaxLines
  BY <1>1, <1>2 DEF Init
<1>5. got \in Seq(Nat \union {None, Garbage}) /\ asked \in Nat \union {None}
  BY <1>1 DEF Init
<1> QED BY <1>3, <1>4, <1>5 DEF Init, TypeOK

LEMMA TypeStep == TypeOK /\ [Next]_vars => TypeOK'
<1> SUFFICES ASSUME TypeOK, [Next]_vars PROVE TypeOK'
  OBVIOUS
<1> USE DEF TypeOK, writer, tab, reader, Goto
<1>1. ASSUME NEW w \in Writers, Trace(w) PROVE TypeOK'
  BY <1>1 DEF Trace
<1>2. ASSUME NEW w \in Writers, FreeOld(w) PROVE TypeOK'
  <2>1. Slot(idx[w]) \in 0..Capacity - 1
    BY SlotType
  <2> QED BY <1>2, <2>1 DEF FreeOld
<1>3. ASSUME NEW w \in Writers, Clear(w) PROVE TypeOK'
  BY <1>3 DEF Clear
<1>4. ASSUME NEW w \in Writers, Fill(w) PROVE TypeOK'
  <2>1. Slot(idx[w]) \in 0..Capacity - 1
    BY SlotType
  <2>2. PICK m \in {number[w], None, ring[Slot(idx[w])]} :
          ring' = [ring EXCEPT ![Slot(idx[w])] = m]
    BY <1>4 DEF Fill
  <2>3. m \in Nat \union {None}
    BY <2>1, <2>2
  <2> QED BY <1>4, <2>2, <2>3 DEF Fill
<1>5. ASSUME NEW w \in Writers, Publish(w) PROVE TypeOK'
  BY <1>5 DEF Publish
<1>6. ASSUME NEW w \in Writers, Observe(w) PROVE TypeOK'
  <2>1. Slot(idx[w]) \in 0..Capacity - 1
    BY SlotType
  <2>2. [index |-> idx[w], message |-> Text(ring[Slot(idx[w])])] \in Line
    BY <2>1 DEF Line, Text
  <2> QED BY <1>6, <2>1, <2>2 DEF Observe
<1>7. CASE SubscribeOnce \/ RunTests \/ TestsEnd
  BY <1>7 DEF SubscribeOnce, RunTests, TestsEnd
<1>8. CASE AppendLine
  <2>1. Head(queue) \in Line /\ Tail(queue) \in Seq(Line)
    BY <1>8 DEF AppendLine
  <2>2. lines' \in Seq(Line) /\ Len(lines') <= MaxLines
    BY <1>8, <2>1, TrimmedType DEF AppendLine
  <2> QED BY <1>8, <2>1, <2>2 DEF AppendLine
<1>9. CASE ClearLog
  BY <1>9, RingAssumption DEF ClearLog
<1>10. CASE Look
  BY <1>10 DEF Look
<1>11. CASE Copy
  <2>1. asked \in Nat
    BY <1>11 DEF Copy
  <2>2. Text(ring[Slot(asked)]) \in Nat \union {None, Garbage}
    BY <2>1, SlotType DEF Text
  <2> QED BY <1>11, <2>2 DEF Copy
<1>12. CASE Forget
  BY <1>12 DEF Forget
<1>13. CASE UNCHANGED vars
  BY <1>13 DEF vars
<1> QED BY <1>1, <1>2, <1>3, <1>4, <1>5, <1>6, <1>7, <1>8, <1>9, <1>10, <1>11, <1>12, <1>13
        DEF Next

\* Every variable keeps its shape, whether or not calls of trace() overlap.
THEOREM TypeCorrect == Spec => []TypeOK
  BY TypeInit, TypeStep, PTL DEF Spec

-----------------------------------------------------------------------------
(* The inductive invariant, for one thread at a time in _trace_.           *)

Alone == \A v, w \in Writers : pc[v] # "idle" /\ pc[w] # "idle" => v = w

Busy(w) == pc[w] \in {"free", "clear", "fill", "publish"}

\* The thread in _trace_ works on the newest entry
Numbers ==
  /\ \A w \in Writers : Busy(w) => idx[w] = head /\ number[w] = head /\ calls = head + 1
  /\ \A w \in Writers : pc[w] = "observe" => head = idx[w] + 1
  /\ (\A w \in Writers : ~Busy(w)) => calls = head

\* A slot holds a message of an entry that goes there, which is not freed
\* unless the writer is about to forget it; messages of the future are not freed
Memory ==
  /\ \A m \in freed : m < head
  /\ \A s \in 0..Capacity - 1 : ring[s] # None =>
       /\ ring[s] < head \/ \E w \in Writers : pc[w] = "publish" /\ ring[s] = head
       /\ Slot(ring[s]) = s
       /\ ring[s] \in freed => \E w \in Writers : pc[w] = "clear" /\ s = Slot(idx[w])
  /\ \A w \in Writers : pc[w] = "fill" => ring[Slot(idx[w])] = None
  /\ \A w \in Writers : pc[w] = "publish" => ring[Slot(idx[w])] \in {idx[w], None}

\* The entries whose slot has not been taken for a later one are in it
Window == \A n \in Nat : n < head /\ calls - n <= Capacity => ring[Slot(n)] \in {n, None}

Owned == TypeOK /\ Alone /\ Numbers /\ Memory /\ Window /\ ~fault

\* A log that ends with entry last: consecutive entries, each with its message
Entries(s, last) ==
  /\ \A i \in 1..Len(s) : s[i].message \in {s[i].index, None}
  /\ \A i \in 1..Len(s) - 1 : s[i + 1].index = s[i].index + 1
  /\ s # << >> => s[Len(s)].index = last

Newest == IF \E w \in Writers : pc[w] = "observe" THEN head - 2 ELSE head - 1

\* The shown lines and the posted ones; nothing is posted before somebody listens
Logged ==
  /\ Entries(lines \o queue, Newest)
  /\ lines \o queue # << >> \/ (\E w \in Writers : pc[w] = "observe") => subscribed

\* The reader asked for an entry there was, and what it copied
Copied == asked < head /\ ReadsWhatItAsked

-----------------------------------------------------------------------------
(* The ring.                                                               *)

LEMMA OwnedInit == Init => Owned
<1> SUFFICES ASSUME Init PROVE Owned
  OBVIOUS
<1>1. TypeOK
  BY TypeInit
<1>2. Alone /\ Numbers
  BY DEF Init, Alone, Numbers, Busy
<1>3. Memory
  BY DEF Init, Memory
<1>4. Window /\ ~fault
  BY DEF Init, Window
<1> QED BY <1>1, <1>2, <1>3, <1>4 DEF Owned

LEMMA TraceOwned ==
  ASSUME Owned, TypeOK', ~Overlap, NEW w \in Writers, Trace(w)
  PROVE  Owned'
<1> USE DEF Owned
<1>1. /\ \A v \in Writers : pc[v] = "idle"
      /\ pc' = [pc EXCEPT ![w] = "free"] /\ idx' = [idx EXCEPT ![w] = head]
      /\ number' = [number EXCEPT ![w] = calls] /\ calls' = calls + 1
      /\ head' = head /\ ring' = ring /\ freed' = freed /\ fault' = fault
  BY DEF Trace, Goto
<1>2. calls = head
  BY <1>1 DEF Numbers, Busy
<1>3. /\ pc'[w] = "free" /\ \A v \in Writers \ {w} : pc'[v] = "idle"
      /\ idx'[w] = head /\ number'[w] = head
  BY <1>1, <1>2 DEF TypeOK
<1>4. Alone'
  BY <1>3 DEF Alone
<1>5. Numbers'
  BY <1>1, <1>2, <1>3 DEF Numbers, Busy
<1>6. Memory'
  BY <1>1, <1>3 DEF Memory
<1>7. Window'
  <2>1. calls \in Int /\ Capacity \in Int
    BY RingAssumption DEF TypeOK
  <2> QED BY <2>1, <1>1 DEF Window
<1> QED BY <1>1, <1>4, <1>5, <1>6, <1>7

LEMMA FreeOwned ==
  ASSUME Owned, TypeOK', NEW w \in Writers, FreeOld(w)
  PROVE  Owned'
<1> USE DEF Owned
<1> DEFINE k == Slot(idx[w])
           m == ring[k]
<1>1. /\ pc[w] = "free" /\ pc' = [pc EXCEPT ![w] = "clear"]
      /\ freed' = freed \union ({m} \ {None}) /\ fault' = (fault \/ m \in freed)
      /\ UNCHANGED <<head, ring, idx, number, calls>>
  BY DEF FreeOld, Goto
<1>2. pc'[w] = "clear" /\ \A v \in Writers \ {w} : pc[v] = "idle" /\ pc'[v] = "idle"
  BY <1>1 DEF Alone, TypeOK
<1>3. k \in 0..Capacity - 1 /\ idx[w] = head /\ m \in Nat \union {None}
  BY <1>1, SlotType DEF Numbers, Busy, TypeOK
<1>4. m # None => m < head /\ m \notin freed
  BY <1>1, <1>2, <1>3 DEF Memory
<1>5. None \notin freed
  BY DEF TypeOK, None
<1>6. ~fault'
  BY <1>1, <1>4, <1>5
<1>7. Alone' /\ Numbers'
  BY <1>1, <1>2 DEF Alone, Numbers, Busy
<1>8. Memory'
  <2>1. \A x \in freed' : x < head'
    BY <1>1, <1>4 DEF Memory
  <2>2. ASSUME NEW s \in 0..Capacity - 1, ring[s] # None
        PROVE  ring[s] < head /\ Slot(ring[s]) = s
    BY <2>2, <1>1, <1>2 DEF Memory
  <2>3. ASSUME NEW s \in 0..Capacity - 1, ring[s] # None, ring[s] \in freed'
        PROVE  s = k
    <3>1. ring[s] \notin freed
      BY <2>3, <1>1, <1>2 DEF Memory
    <3>2. ring[s] = m /\ m # None
      BY <3>1, <2>3, <1>1
    <3> QED BY <3>2, <2>2, <1>3
  <2> QED BY <2>1, <2>2, <2>3, <1>1, <1>2 DEF Memory
<1>9. Window'
  BY <1>1 DEF Window
<1> QED BY <1>6, <1>7, <1>8, <1>9

LEMMA ClearOwned ==
  ASSUME Owned, TypeOK', NEW w \in Writers, Clear(w)
  PROVE  Owned'
<1> USE DEF Owned
<1> DEFINE k == Slot(idx[w])
<1>1. /\ pc[w] = "clear" /\ pc' = [pc EXCEPT ![w] = "fill"]
      /\ ring' = [ring EXCEPT ![k] = None]
      /\ UNCHANGED <<head, freed, idx, number, calls, fault>>
  BY DEF Clear, Goto
<1>2. pc'[w] = "fill" /\ \A v \in Writers \ {w} : pc[v] = "idle" /\ pc'[v] = "idle"
  BY <1>1 DEF Alone, TypeOK
<1>3. k \in 0..Capacity - 1 /\ ring'[k] = None
  BY <1>1, SlotType DEF TypeOK
<1>4. \A s \in 0..Capacity - 1 : s # k => ring'[s] = ring[s]
  BY <1>1, <1>3 DEF TypeOK
<1>5. Alone' /\ Numbers'
  BY <1>1, <1>2 DEF Alone, Numbers, Busy
<1>6. Memory'
  BY <1>1, <1>2, <1>3, <1>4 DEF Memory
<1>7. Window'
  BY <1>1, <1>3, <1>4, SlotType DEF Window
<1> QED BY <1>1, <1>5, <1>6, <1>7

LEMMA FillOwned ==
  ASSUME Owned, TypeOK', NEW w \in Writers, Fill(w)
  PROVE  Owned'
<1> USE DEF Owned
<1> DEFINE k == Slot(idx[w])
<1>1. /\ pc[w] = "fill" /\ pc' = [pc EXCEPT ![w] = "publish"]
      /\ UNCHANGED <<head, freed, idx, number, calls, fault>>
  BY DEF Fill, Goto
<1>2. pc'[w] = "publish" /\ \A v \in Writers \ {w} : pc[v] = "idle" /\ pc'[v] = "idle"
  BY <1>1 DEF Alone, TypeOK
<1>3. k \in 0..Capacity - 1 /\ idx[w] = head /\ number[w] = head /\ calls = head + 1
  BY <1>1, SlotType DEF Numbers, Busy, TypeOK
<1>4. PICK m \in {head, None} : ring' = [ring EXCEPT ![k] = m]
  BY <1>1, <1>3 DEF Fill, Memory
<1>5. ring'[k] = m /\ \A s \in 0..Capacity - 1 : s # k => ring'[s] = ring[s]
  BY <1>3, <1>4 DEF TypeOK
<1>6. head \notin freed /\ head \in Nat /\ Slot(head) = k
  BY <1>3 DEF Memory, TypeOK
<1>7. Alone' /\ Numbers'
  BY <1>1, <1>2 DEF Alone, Numbers, Busy
<1>8. Memory'
  BY <1>1, <1>2, <1>3, <1>4, <1>5, <1>6 DEF Memory
<1>9. Window'
  <2>1. ASSUME NEW n \in Nat, n < head, calls - n <= Capacity
        PROVE  ring'[Slot(n)] \in {n, None}
    <3>1. Slot(n) # k /\ Slot(n) \in 0..Capacity - 1
      BY <2>1, <1>3, <1>6, SlotType, SlotsApart, RingAssumption
    <3> QED BY <2>1, <3>1, <1>5 DEF Window
  <2> QED BY <2>1, <1>1 DEF Window
<1> QED BY <1>1, <1>7, <1>8, <1>9

LEMMA PublishOwned ==
  ASSUME Owned, TypeOK', NEW w \in Writers, Publish(w)
  PROVE  Owned'
<1> USE DEF Owned
<1>1. /\ pc[w] = "publish"
      /\ pc' = [pc EXCEPT ![w] = IF subscribed THEN "observe" ELSE "idle"]
      /\ head' = idx[w] + 1
      /\ UNCHANGED <<ring, freed, idx, number, calls, fault>>
  BY DEF Publish, Goto
<1>2. /\ pc'[w] \in {"observe", "idle"}
      /\ \A v \in Writers \ {w} : pc[v] = "idle" /\ pc'[v] = "idle"
  BY <1>1 DEF Alone, TypeOK
<1>3. idx[w] = head /\ calls = head + 1 /\ head \in Nat /\ head' = head + 1
  BY <1>1 DEF Numbers, Busy, TypeOK
<1>4. Alone' /\ Numbers'
  BY <1>1, <1>2, <1>3 DEF Alone, Numbers, Busy
<1>5. Memory'
  <2>1. \A x \in freed : x \in Nat
    BY DEF TypeOK
  <2>2. \A s \in 0..Capacity - 1 : ring[s] # None => ring[s] \in Nat
    BY DEF TypeOK
  <2> QED BY <2>1, <2>2, <1>1, <1>2, <1>3 DEF Memory
<1>6. Window'
  <2>1. ring[Slot(head)] \in {head, None}
    BY <1>1, <1>3 DEF Memory
  <2> QED BY <2>1, <1>1, <1>3 DEF Window
<1> QED BY <1>1, <1>4, <1>5, <1>6

LEMMA ObserveOwned ==
  ASSUME Owned, TypeOK', NEW w \in Writers, Observe(w)
  PROVE  /\ Owned'
         /\ Text(ring[Slot(idx[w])]) \in {idx[w], None}
<1> USE DEF Owned
<1> DEFINE m == ring[Slot(idx[w])]
<1>1. /\ pc[w] = "observe" /\ pc' = [pc EXCEPT ![w] = "idle"]
      /\ fault' = (fault \/ m \in freed)
      /\ UNCHANGED <<head, ring, freed, idx, number, calls>>
  BY DEF Observe, Goto
<1>2. pc'[w] = "idle" /\ \A v \in Writers \ {w} : pc[v] = "idle" /\ pc'[v] = "idle"
  BY <1>1 DEF Alone, TypeOK
<1>3. calls = head /\ head = idx[w] + 1 /\ idx[w] \in Nat /\ Capacity \in Nat \ {0}
  BY <1>1, <1>2, RingAssumption DEF Numbers, Busy, TypeOK
<1>4. m \in {idx[w], None}
  BY <1>3 DEF Window
<1>5. Slot(idx[w]) \in 0..Capacity - 1 /\ None \notin freed
  <2>1. None \notin freed
    BY DEF TypeOK, None
  <2> QED BY <1>3, <2>1, SlotType
<1>6. m \notin freed
  BY <1>1, <1>2, <1>5 DEF Memory
<1>7. Text(m) \in {idx[w], None}
  BY <1>4, <1>6 DEF Text
<1>8. Alone' /\ Numbers'
  BY <1>1, <1>2 DEF Alone, Numbers, Busy
<1>9. Memory'
  BY <1>1, <1>2 DEF Memory
<1>10. Window'
  BY <1>1 DEF Window
<1> QED BY <1>1, <1>6, <1>7, <1>8, <1>9, <1>10

\* Steps of the Debug tab and the reader leave the ring alone.
LEMMA OthersOwned ==
  ASSUME Owned, TypeOK', UNCHANGED <<head, writer, fault>>
  PROVE  Owned'
  BY DEF Owned, writer, Alone, Numbers, Busy, Memory, Window

LEMMA OwnedStep ==
  ASSUME Owned, ~Overlap, [Next]_vars
  PROVE  Owned'
<1>1. TypeOK'
  BY TypeStep DEF Owned
<1>2. CASE \E w \in Writers : Trace(w)
  BY <1>1, <1>2, TraceOwned
<1>3. CASE \E w \in Writers : FreeOld(w)
  BY <1>1, <1>3, FreeOwned
<1>4. CASE \E w \in Writers : Clear(w)
  BY <1>1, <1>4, ClearOwned
<1>5. CASE \E w \in Writers : Fill(w)
  BY <1>1, <1>5, FillOwned
<1>6. CASE \E w \in Writers : Publish(w)
  BY <1>1, <1>6, PublishOwned
<1>7. CASE \E w \in Writers : Observe(w)
  BY <1>1, <1>7, ObserveOwned
<1>8. CASE \/ SubscribeOnce \/ RunTests \/ TestsEnd \/ AppendLine \/ ClearLog
           \/ Look \/ Copy \/ Forget \/ UNCHANGED vars
  <2>1. UNCHANGED <<head, writer, fault>>
    BY <1>8 DEF SubscribeOnce, RunTests, TestsEnd, AppendLine, ClearLog, Look, Copy,
                Forget, vars
  <2> QED BY <1>1, <2>1, OthersOwned
<1> QED BY <1>2, <1>3, <1>4, <1>5, <1>6, <1>7, <1>8 DEF Next

\* No message is freed twice or read after it was freed (trace.c frees the old
\* message of a slot before it forgets the pointer), as long as one thread at
\* a time is in _trace_.
THEOREM MessagesAreOwned ==
  ASSUME ~Overlap
  PROVE  Spec => []MessagesOwned
<1>1. Init => Owned
  BY OwnedInit
<1>2. Owned /\ [Next]_vars => Owned'
  BY OwnedStep
<1>3. Owned => MessagesOwned
  BY DEF Owned, MessagesOwned
<1> QED BY <1>1, <1>2, <1>3, PTL DEF Spec

-----------------------------------------------------------------------------
(* The reader.                                                             *)

LEMMA HeadGrows ==
  ASSUME Owned, [Next]_vars
  PROVE  head' \in {head, head + 1}
<1>1. CASE \E w \in Writers : Publish(w)
  BY <1>1 DEF Publish, Goto, Owned, Numbers, Busy
<1>2. CASE ~\E w \in Writers : Publish(w)
  BY <1>2 DEF Next, Trace, FreeOld, Clear, Fill, Observe, SubscribeOnce, RunTests,
              TestsEnd, AppendLine, ClearLog, Look, Copy, Forget, vars
<1> QED BY <1>1, <1>2

\* A slot that may be read as entry n's holds it or nothing.
LEMMA ReadInWindow ==
  ASSUME Owned, NEW n \in Nat, n < head, head - n < Capacity
  PROVE  Text(ring[Slot(n)]) \in {n, None}
<1> USE DEF Owned
<1>1. /\ head \in Nat /\ calls \in Nat /\ Capacity \in Nat /\ n \in Nat
      /\ Slot(n) \in 0..Capacity - 1 /\ None \notin freed
  <2>1. None \notin freed
    BY DEF TypeOK, None
  <2> QED BY <2>1, RingAssumption, SlotType DEF TypeOK
<1>2. calls \in {head, head + 1}
  BY DEF Numbers
<1>3. ring[Slot(n)] \in {n, None}
  BY <1>1, <1>2 DEF Window
<1>4. ring[Slot(n)] \notin freed
  <2> SUFFICES ASSUME ring[Slot(n)] \in freed PROVE FALSE
    OBVIOUS
  <2>1. PICK w \in Writers : pc[w] = "clear" /\ Slot(n) = Slot(idx[w])
    BY <1>1 DEF Memory
  <2>2. idx[w] = head
    BY <2>1 DEF Numbers, Busy
  <2> QED BY <1>1, <2>1, <2>2, SlotsApart
<1> QED BY <1>3, <1>4 DEF Text

LEMMA CopiedStep ==
  ASSUME Owned, Copied, [Next]_vars
  PROVE  Copied'
<1>1. /\ head \in Nat /\ Capacity \in Nat /\ head' \in {head, head + 1}
      /\ asked \in Nat \union {None} /\ None \in Int
  BY HeadGrows, RingAssumption DEF Owned, TypeOK, None
<1>2. CASE Copy
  <2>1. /\ asked \in Nat /\ UNCHANGED <<head, asked>>
        /\ got' = <<Text(ring[Slot(asked)])>>
    BY <1>1, <1>2 DEF Copy
  <2>2. head - asked < Capacity => got'[1] \in {asked, None}
    BY <2>1, ReadInWindow DEF Copied
  <2> QED BY <2>1, <2>2 DEF Copied, ReadsWhatItAsked
<1>3. CASE Look
  <2>1. asked' < head' /\ got' = << >>
    BY <1>3 DEF Look, At
  <2> QED BY <2>1 DEF Copied, ReadsWhatItAsked
<1>4. CASE Forget
  <2>1. asked' = -1 /\ got' = << >> /\ head' = head
    BY <1>4 DEF Forget, None
  <2> QED BY <1>1, <2>1 DEF Copied, ReadsWhatItAsked
<1>5. CASE ~(Look \/ Copy \/ Forget)
  <2>1. UNCHANGED <<asked, got>>
    BY <1>5 DEF Next, Trace, FreeOld, Clear, Fill, Publish, Observe, SubscribeOnce,
                RunTests, TestsEnd, AppendLine, ClearLog, reader, vars
  <2>2. asked \in Int /\ asked < head
    BY <1>1 DEF Copied
  <2>3. asked < head' /\ (head' - asked < Capacity => head - asked < Capacity)
    <3>1. (head' = head \/ head' = head + 1) /\ head \in Int /\ Capacity \in Int
      BY <1>1
    <3> QED BY <3>1, <2>2
  <2> QED BY <2>1, <2>3 DEF Copied, ReadsWhatItAsked
<1> QED BY <1>2, <1>3, <1>4, <1>5

\* With no lock between them, a reader that finds the head less than Capacity
\* ahead after its copy has copied the entry trace_at was asked for.
THEOREM ReaderIsRight ==
  ASSUME ~Overlap
  PROVE  Spec => []ReadsWhatItAsked
<1>1. Init => Owned /\ Copied
  <2>1. Init => asked < head /\ ReadsWhatItAsked
    BY DEF Init, ReadsWhatItAsked, None
  <2> QED BY <2>1, OwnedInit DEF Copied
<1>2. Owned /\ Copied /\ [Next]_vars => (Owned /\ Copied)'
  BY OwnedStep, CopiedStep
<1>3. Copied => ReadsWhatItAsked
  BY DEF Copied
<1> QED BY <1>1, <1>2, <1>3, PTL DEF Spec

-----------------------------------------------------------------------------
(* The Debug tab.                                                          *)

LEMMA EntriesAppend ==
  ASSUME NEW s \in Seq(Line), NEW e \in Line, NEW last \in Int, Entries(s, last),
         e.index = last + 1, e.message \in {e.index, None}
  PROVE  Entries(Append(s, e), last + 1)
<1> DEFINE t == Append(s, e)
<1>1. /\ Len(t) = Len(s) + 1 /\ t # << >> /\ t[Len(s) + 1] = e
      /\ \A i \in 1..Len(s) : t[i] = s[i]
      /\ Len(s) \in Nat /\ (Len(s) > 0 => s # << >>)
  BY AppendProperties
<1> HIDE DEF t
<1>2. \A i \in 1..Len(t) : t[i].message \in {t[i].index, None}
  BY <1>1 DEF Entries
<1>3. ASSUME NEW i \in 1..Len(t) - 1 PROVE t[i + 1].index = t[i].index + 1
  <2>1. CASE i = Len(s)
    <3>1. s # << >> /\ t[i] = s[Len(s)] /\ t[i + 1] = e
      BY <1>1, <2>1
    <3> QED BY <3>1 DEF Entries
  <2>2. CASE i # Len(s)
    <3>1. i \in 1..Len(s) - 1 /\ i + 1 \in 1..Len(s) /\ i \in 1..Len(s)
      BY <1>1, <2>2
    <3> QED BY <1>1, <3>1 DEF Entries
  <2> QED BY <2>1, <2>2
<1>4. t[Len(t)].index = last + 1
  BY <1>1
<1> QED BY <1>2, <1>3, <1>4 DEF Entries, t

LEMMA EntriesSuffix ==
  ASSUME NEW s \in Seq(Line), NEW last \in Int, Entries(s, last),
         NEW t \in Seq(Line), NEW d \in Nat, Len(s) = Len(t) + d,
         \A i \in 1..Len(t) : t[i] = s[i + d]
  PROVE  Entries(t, last)
<1>1. Len(t) \in Nat /\ Len(s) \in Nat
  OBVIOUS
<1>2. \A i \in 1..Len(t) : t[i].message \in {t[i].index, None}
  BY <1>1 DEF Entries
<1>3. ASSUME NEW i \in 1..Len(t) - 1 PROVE t[i + 1].index = t[i].index + 1
  <2>1. /\ t[i] = s[i + d] /\ t[i + 1] = s[(i + 1) + d]
        /\ i + d \in 1..Len(s) - 1 /\ (i + 1) + d = (i + d) + 1
    BY <1>1
  <2> QED BY <2>1 DEF Entries
<1>4. t # << >> => t[Len(t)].index = last
  <2> SUFFICES ASSUME t # << >> PROVE t[Len(t)].index = last
    OBVIOUS
  <2>1. Len(t) \in 1..Len(t)
    BY <1>1
  <2>2. t[Len(t)] = s[Len(s)] /\ Len(s) > 0
    BY <2>1, <1>1
  <2>3. s # << >>
    BY <2>2
  <2> QED BY <2>2, <2>3 DEF Entries
<1> QED BY <1>2, <1>3, <1>4 DEF Entries

\* The log after a line has been shown is the log before, or its newest part.
LEMMA ShownIsSuffix ==
  ASSUME TypeOK, AppendLine
  PROVE  \E d \in Nat : /\ Len(lines \o queue) = Len(lines' \o queue') + d
                        /\ \A i \in 1..Len(lines' \o queue') :
                             (lines' \o queue')[i] = (lines \o queue)[i + d]
<1> DEFINE h == Head(queue)
           all == Append(lines, h)
           from == IF Len(all) > MaxLines THEN Len(all) - MaxLines + 1 ELSE 1
<1>1. /\ queue \in Seq(Line) /\ lines \in Seq(Line) /\ queue # << >>
      /\ queue' = Tail(queue) /\ lines' = SubSeq(all, from, Len(all))
  BY DEF TypeOK, AppendLine, Trimmed
<1>2. /\ h \in Line /\ h = queue[1] /\ Tail(queue) \in Seq(Line)
      /\ Len(queue) \in Nat /\ Len(Tail(queue)) = Len(queue) - 1
      /\ \A i \in 1..Len(queue) - 1 : Tail(queue)[i] = queue[i + 1]
  BY <1>1, HeadTailProperties
<1>3. /\ all \in Seq(Line) /\ Len(all) = Len(lines) + 1 /\ Len(lines) \in Nat
      /\ \A i \in 1..Len(lines) : all[i] = lines[i]
      /\ all[Len(lines) + 1] = h
  BY <1>1, <1>2, AppendProperties
<1>4. from \in 1..Len(all) /\ from \in Int /\ Len(all) \in Int
  BY <1>3, RingAssumption
<1> HIDE DEF h, all, from
<1>5. /\ lines' \in Seq(Line) /\ Len(lines') = Len(all) - from + 1
      /\ \A i \in 1..Len(all) - from + 1 : lines'[i] = all[from + i - 1]
  BY <1>1, <1>3, <1>4, SubSeqProperties
<1>6. /\ Len(lines' \o queue') = Len(lines') + Len(queue')
      /\ \A i \in 1..Len(lines') + Len(queue') : (lines' \o queue')[i] =
           IF i <= Len(lines') THEN lines'[i] ELSE queue'[i - Len(lines')]
  BY <1>1, <1>2, <1>5, ConcatProperties
<1>7. /\ Len(lines \o queue) = Len(lines) + Len(queue)
      /\ \A i \in 1..Len(lines) + Len(queue) : (lines \o queue)[i] =
           IF i <= Len(lines) THEN lines[i] ELSE queue[i - Len(lines)]
  BY <1>1, ConcatProperties
<1>8. /\ from - 1 \in Nat
      /\ Len(lines \o queue) = Len(lines' \o queue') + (from - 1)
  BY <1>1, <1>2, <1>3, <1>4, <1>5, <1>6, <1>7
<1>9. ASSUME NEW i \in 1..Len(lines' \o queue')
      PROVE  (lines' \o queue')[i] = (lines \o queue)[i + (from - 1)]
  <2>0. i \in 1..Len(lines') + Len(queue') /\ i + (from - 1) \in 1..Len(lines) + Len(queue)
    BY <1>1, <1>2, <1>3, <1>4, <1>5, <1>6
  <2>1. CASE i < Len(lines')
    <3>1. i \in 1..Len(all) - from + 1 /\ from + i - 1 \in 1..Len(lines)
      BY <2>0, <2>1, <1>3, <1>4, <1>5
    <3>2. lines'[i] = lines[from + i - 1] /\ from + i - 1 = i + (from - 1)
      BY <3>1, <1>3, <1>5, <2>0, <1>4
    <3> QED BY <2>0, <2>1, <3>1, <3>2, <1>6, <1>7
  <2>2. CASE i = Len(lines')
    <3>1. /\ i \in 1..Len(all) - from + 1 /\ from + i - 1 = Len(lines) + 1
          /\ i + (from - 1) = Len(lines) + 1 /\ ~(Len(lines) + 1 <= Len(lines))
          /\ Len(lines) + 1 - Len(lines) = 1
      BY <2>0, <2>2, <1>3, <1>4, <1>5
    <3>2. lines'[i] = queue[1]
      BY <3>1, <1>2, <1>3, <1>5
    <3> QED BY <2>0, <2>2, <3>1, <3>2, <1>6, <1>7
  <2>3. CASE i > Len(lines')
    <3>1. /\ i - Len(lines') \in 1..Len(queue) - 1
          /\ ~(i <= Len(lines')) /\ ~(i + (from - 1) <= Len(lines))
          /\ (i - Len(lines')) + 1 = (i + (from - 1)) - Len(lines)
      BY <2>0, <2>3, <1>1, <1>2, <1>3, <1>4, <1>5
    <3>2. queue'[i - Len(lines')] = queue[(i + (from - 1)) - Len(lines)]
      BY <3>1, <1>1, <1>2
    <3> QED BY <2>0, <3>1, <3>2, <1>6, <1>7
  <2>4. i < Len(lines') \/ i = Len(lines') \/ i > Len(lines')
    <3>1. Len(lines') \in Int /\ i \in Int
      BY <1>3, <1>4, <1>5
    <3> QED BY <3>1
  <2> QED BY <2>1, <2>2, <2>3, <2>4
<1> QED BY <1>8, <1>9

\* The entries of a log go on through every step.
LEMMA LoggedStep ==
  ASSUME Owned, Owned', Logged, ~Overlap, [Next]_vars
  PROVE  Logged'
<1> DEFINE log == lines \o queue
           Observing == \E w \in Writers : pc[w] = "observe"
<1>1. /\ log \in Seq(Line) /\ log' \in Seq(Line) /\ head \in Nat
      /\ queue \in Seq(Line) /\ lines \in Seq(Line) /\ Newest \in Int
  BY ConcatProperties DEF Owned, TypeOK, Newest
<1>2. Entries(log, Newest) /\ (log # << >> \/ Observing => subscribed)
  BY DEF Logged
<1>3. Newest = IF Observing THEN head - 2 ELSE head - 1
  BY DEF Newest
<1> SUFFICES Entries(log', Newest') /\ (log' # << >> \/ Observing' => subscribed')
  BY DEF Logged
<1> HIDE DEF log
<1>4. CASE AppendLine
  <2>1. PICK d \in Nat : /\ Len(log) = Len(log') + d
                         /\ \A i \in 1..Len(log') : log'[i] = log[i + d]
    BY <1>4, ShownIsSuffix DEF Owned, log
  <2>2. Newest' = Newest /\ subscribed' = subscribed /\ Observing' = Observing
    BY <1>4 DEF AppendLine, Newest, writer
  <2>3. Entries(log', Newest)
    BY <1>1, <1>2, <2>1, EntriesSuffix
  <2>4. log # << >>
    BY <1>1, <1>4 DEF AppendLine, log
  <2> QED BY <1>2, <2>2, <2>3, <2>4
<1>5. CASE ClearLog
  <2>1. /\ lines' = << >> /\ queue' = queue
        /\ Newest' = Newest /\ subscribed' = subscribed /\ Observing' = Observing
    BY <1>5 DEF ClearLog, Newest, writer
  <2>2. log' = queue
    BY <1>1, <2>1 DEF log
  <2>3. /\ Len(lines) \in Nat /\ Len(log) = Len(queue) + Len(lines) /\ Len(queue) \in Nat
        /\ \A i \in 1..Len(queue) : queue[i] = log[i + Len(lines)]
    BY <1>1, ConcatProperties DEF log
  <2>4. Entries(log', Newest)
    BY <1>1, <1>2, <2>2, <2>3, EntriesSuffix
  <2>5. log' # << >> => log # << >>
    BY <1>1, <2>2 DEF log
  <2> QED BY <1>2, <2>1, <2>4, <2>5
<1>6. CASE \E w \in Writers : Observe(w)
  <2>1. PICK w \in Writers : Observe(w)
    BY <1>6
  <2> DEFINE e == [index |-> idx[w], message |-> Text(ring[Slot(idx[w])])]
  <2>2. /\ pc[w] = "observe" /\ pc' = [pc EXCEPT ![w] = "idle"] /\ head' = head
        /\ queue' = Append(queue, e) /\ lines' = lines /\ subscribed' = subscribed
    BY <2>1 DEF Observe, Goto, tab
  <2>3. e.message \in {e.index, None}
    BY <2>1, ObserveOwned DEF Owned
  <2>4. e \in Line /\ e.index = head - 1
    <3>1. e.index \in Nat /\ e.message \in Nat \union {None, Garbage}
      BY <2>3 DEF Owned, TypeOK
    <3> QED BY <2>2, <3>1 DEF Line, Owned, TypeOK, Numbers
  <2>5. Observing /\ ~Observing'
    BY <2>2 DEF Owned, Alone, TypeOK
  <2>6. log' = Append(log, e)
    BY <1>1, <2>2, <2>4 DEF log
  <2>7. Newest = head - 2 /\ Newest' = head - 1
    BY <1>3, <2>2, <2>5 DEF Newest
  <2> HIDE DEF e
  <2>8. e.index = Newest + 1 /\ Newest' = Newest + 1
    BY <1>1, <2>4, <2>7
  <2>9. Entries(log', Newest')
    BY <1>1, <1>2, <2>3, <2>4, <2>6, <2>8, EntriesAppend
  <2> QED BY <1>2, <2>2, <2>5, <2>9
<1>7. CASE \E w \in Writers : Publish(w)
  <2>1. PICK w \in Writers : Publish(w)
    BY <1>7
  <2>2. /\ pc[w] = "publish"
        /\ pc' = [pc EXCEPT ![w] = IF subscribed THEN "observe" ELSE "idle"]
        /\ head' = head + 1 /\ UNCHANGED <<lines, queue, subscribed>>
    BY <2>1 DEF Publish, Goto, tab, Owned, Numbers, Busy
  <2>3. ~Observing /\ (Observing' <=> subscribed) /\ log' = log
    BY <2>2 DEF Owned, Alone, TypeOK, log
  <2>4. CASE subscribed
    <3>1. Newest' = Newest
      BY <1>1, <1>3, <2>2, <2>3, <2>4 DEF Newest
    <3> QED BY <1>2, <2>2, <2>3, <2>4, <3>1
  <2>5. CASE ~subscribed
    <3>1. log' = << >>
      BY <1>2, <2>3, <2>5
    <3>2. Entries(<< >>, Newest')
      BY DEF Entries
    <3> QED BY <2>2, <2>3, <2>5, <3>1, <3>2
  <2> QED BY <2>4, <2>5
<1>8. CASE ~(AppendLine \/ ClearLog \/ \E w \in Writers : Observe(w) \/ Publish(w))
  <2>1. /\ UNCHANGED <<head, lines, queue>>
        /\ subscribed => subscribed'
    BY <1>8 DEF Next, Trace, FreeOld, Clear, Fill, SubscribeOnce, RunTests, TestsEnd,
                Look, Copy, Forget, vars, tab
  <2>2. Observing' <=> Observing
    <3>1. CASE \E w \in Writers, from, to \in {"idle", "free", "clear", "fill", "publish"} :
                 Goto(w, from, to)
      BY <3>1 DEF Goto, Owned, TypeOK
    <3>2. CASE UNCHANGED pc
      BY <3>2
    <3>3. \/ \E w \in Writers, from, to \in {"idle", "free", "clear", "fill", "publish"} :
               Goto(w, from, to)
          \/ UNCHANGED pc
      BY <1>8 DEF Next, Trace, FreeOld, Clear, Fill, SubscribeOnce, RunTests, TestsEnd,
                  Look, Copy, Forget, vars, writer
    <3> QED BY <3>1, <3>2, <3>3
  <2>3. Newest' = Newest /\ log' = log
    BY <2>1, <2>2 DEF Newest, log
  <2> QED BY <1>2, <2>1, <2>2, <2>3
<1> QED BY <1>4, <1>5, <1>6, <1>7, <1>8

\* The Debug tab shows consecutive entries of the trace, each with its own
\* message or none, up to the newest.
THEOREM TabShowsTheTrace ==
  ASSUME ~Overlap
  PROVE  Spec => []LogIsTheTrace
<1>1. Init => Owned /\ Logged
  <2>1. Init => lines \o queue = << >> /\ ~\E w \in Writers : pc[w] = "observe"
    BY DEF Init
  <2>2. Entries(<< >>, Newest)
    BY DEF Entries
  <2> QED BY <2>1, <2>2, OwnedInit DEF Logged
<1>2. Owned /\ Logged /\ [Next]_vars => (Owned /\ Logged)'
  BY OwnedStep, LoggedStep
<1>3. Owned /\ Logged => LogIsTheTrace
  <2> SUFFICES ASSUME Owned, Logged PROVE LogIsTheTrace
    OBVIOUS
  <2>1. lines \o queue \in Seq(Line)
    BY ConcatProperties DEF Owned, TypeOK
  <2>2. DOMAIN (lines \o queue) = 1..Len(lines \o queue)
    BY <2>1
  <2>3. (\A w \in Writers : pc[w] = "idle") => Newest = head - 1
    BY DEF Newest
  <2> QED BY <2>2, <2>3 DEF Logged, Entries, LogIsTheTrace
<1> QED BY <1>1, <1>2, <1>3, PTL DEF Spec
=============================================================================
