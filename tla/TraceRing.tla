------------------------------ MODULE TraceRing ------------------------------
(***************************************************************************)
(* utils/trace.c and the Debug tab: a ring of entries with heap messages,  *)
(* written by whichever thread runs in the library, an observer called on  *)
(* that thread, the lines it posts to the main actor, and a reader of      *)
(* trace_at on a thread of its own.                                        *)
(*                                                                         *)
(* A message is the number of its trace() call.  That of the entry with    *)
(* index n is n if no two calls overlap.  Overlap says whether they may:   *)
(* the file asks for one writer, the Debug tab's tests run on a task       *)
(* beside that of a turn or a load.                                        *)
(***************************************************************************)
EXTENDS Integers, Sequences, SequencesExt

CONSTANTS
  Runtime, Tests,   \* the task of a turn or a load, and that of the tests
  Capacity,         \* TRACE_RING_CAPACITY
  MaxLines,         \* the lines the Debug tab keeps
  Overlap,          \* the two tasks may trace at once
  MaxCalls          \* bound: calls of trace()

None    == -1      \* no message: a fresh slot, or malloc failed
Garbage == -2      \* what a freed message reads as
Writers == {Runtime, Tests}

ASSUME RingAssumption ==
  /\ Capacity \in Nat \ {0} /\ MaxLines \in Nat \ {0} /\ MaxCalls \in Nat
  /\ Overlap \in BOOLEAN /\ Runtime # Tests

VARIABLES
  head, ring,       \* g_trace_head; slot -> message
  freed,            \* the messages given back to the allocator
  pc, idx, number,  \* of each writer: where it is in trace(), its index,
                    \* the number of its call
  calls,            \* calls of trace() so far
  subscribed,       \* g_trace_observer is set
  testing,          \* runTests waits for its task
  queue, lines,     \* posted to the main actor; shown by the Debug tab
  totalObserved,
  asked, got,       \* the reader: the index it looks up, what it copied
  fault             \* something was freed twice or read after it was freed

writer == <<ring, freed, pc, idx, number, calls>>
tab    == <<testing, lines, totalObserved>>
reader == <<asked, got>>
vars   == <<head, writer, subscribed, queue, tab, reader, fault>>

Init ==
  /\ head = 0 /\ ring = [s \in 0..Capacity - 1 |-> None] /\ freed = {}
  /\ pc = [w \in Writers |-> "idle"] /\ idx = [w \in Writers |-> 0]
  /\ number = [w \in Writers |-> 0] /\ calls = 0
  /\ subscribed = FALSE /\ testing = FALSE
  /\ queue = << >> /\ lines = << >> /\ totalObserved = 0
  /\ asked = None /\ got = << >>
  /\ fault = FALSE

Slot(n) == n % Capacity

Goto(w, from, to) == pc[w] = from /\ pc' = [pc EXCEPT ![w] = to]

\* Reading message m yields its text, or nothing that can be told
Text(m) == IF m \in freed THEN Garbage ELSE m

-----------------------------------------------------------------------------
(* _trace_                                                                 *)

\* mutant: the head moves when the slot is taken
TraceEarly(w) ==
  /\ w = Tests => testing
  /\ Overlap \/ \A v \in Writers : pc[v] = "idle"
  /\ calls < MaxCalls
  /\ Goto(w, "idle", "free")
  /\ idx' = [idx EXCEPT ![w] = head]
  /\ head' = head + 1
  /\ number' = [number EXCEPT ![w] = calls]
  /\ calls' = calls + 1
  /\ UNCHANGED <<ring, freed, subscribed, queue, tab, reader, fault>>

\* The slot of the current head is taken
Trace(w) ==
  /\ w = Tests => testing
  /\ Overlap \/ \A v \in Writers : pc[v] = "idle"
  /\ calls < MaxCalls
  /\ Goto(w, "idle", "free")
  /\ idx' = [idx EXCEPT ![w] = head]
  /\ number' = [number EXCEPT ![w] = calls]
  /\ calls' = calls + 1
  /\ UNCHANGED <<head, ring, freed, subscribed, queue, tab, reader, fault>>

\* Its message is freed,
FreeOld(w) ==
  /\ Goto(w, "free", "clear")
  /\ LET m == ring[Slot(idx[w])]
     IN /\ freed' = freed \union ({m} \ {None})
        /\ fault' = (fault \/ m \in freed)
  /\ UNCHANGED <<head, ring, idx, number, calls, subscribed, queue, tab, reader>>

\* mutant: the message of the entry before is left in the slot
ClearNot(w) ==
  /\ Goto(w, "clear", "fill")
  /\ UNCHANGED <<head, ring, freed, idx, number, calls, subscribed, queue, tab, reader, fault>>

\* and forgotten.
Clear(w) ==
  /\ Goto(w, "clear", "fill")
  /\ ring' = [ring EXCEPT ![Slot(idx[w])] = None]
  /\ UNCHANGED <<head, freed, idx, number, calls, subscribed, queue, tab, reader, fault>>

\* The text is formatted into memory of its own, or malloc fails, or there
\* is no text and the slot is left alone
Fill(w) ==
  /\ Goto(w, "fill", "publish")
  /\ \E m \in {number[w], None, ring[Slot(idx[w])]} : ring' = [ring EXCEPT ![Slot(idx[w])] = m]
  /\ UNCHANGED <<head, freed, idx, number, calls, subscribed, queue, tab, reader, fault>>

\* The head moves, and the observer is looked up
Publish(w) ==
  /\ Goto(w, "publish", IF subscribed THEN "observe" ELSE "idle")
  /\ head' = idx[w] + 1
  /\ UNCHANGED <<ring, freed, idx, number, calls, subscribed, queue, tab, reader, fault>>

\* mutant: the callback looks the latest entry up after another may be on
\* its way
ObserveLatest(w) ==
  /\ Goto(w, "observe", "idle")
  /\ queue' = Append(queue, [index |-> head, message |-> Text(ring[Slot(head)])])
  /\ UNCHANGED <<head, ring, freed, idx, number, calls, subscribed, tab, reader, fault>>

\* traceCallbackCFn makes a line of the entry and posts it
Observe(w) ==
  /\ Goto(w, "observe", "idle")
  /\ LET m == ring[Slot(idx[w])]
     IN /\ queue' = Append(queue, [index |-> idx[w], message |-> Text(m)])
        /\ fault' = (fault \/ m \in freed)
  /\ UNCHANGED <<head, ring, freed, idx, number, calls, subscribed, tab, reader>>

-----------------------------------------------------------------------------
(* The Debug tab, on the main actor                                        *)

SubscribeOnce ==
  /\ ~subscribed /\ subscribed' = TRUE
  /\ UNCHANGED <<head, writer, queue, tab, reader, fault>>

RunTests ==
  /\ ~testing /\ testing' = TRUE
  /\ UNCHANGED <<head, writer, subscribed, queue, lines, totalObserved, reader, fault>>

TestsEnd ==
  /\ testing /\ pc[Tests] = "idle" /\ testing' = FALSE
  /\ UNCHANGED <<head, writer, subscribed, queue, lines, totalObserved, reader, fault>>

\* mutant: the cap is looked at before the line is there
TrimmedLate(s, line) ==
  LET all == Append(s, line)
  IN SubSeq(all, IF Len(s) > MaxLines THEN Len(all) - MaxLines + 1 ELSE 1, Len(all))

\* The newest MaxLines of the lines and one more
Trimmed(s, line) ==
  LET all == Append(s, line)
  IN SubSeq(all, IF Len(all) > MaxLines THEN Len(all) - MaxLines + 1 ELSE 1, Len(all))

AppendLine ==
  /\ queue # << >>
  /\ lines' = Trimmed(lines, Head(queue))
  /\ totalObserved' = totalObserved + 1
  /\ queue' = Tail(queue)
  /\ UNCHANGED <<head, writer, subscribed, testing, reader, fault>>

ClearLog ==
  /\ lines # << >> /\ lines' = << >>
  /\ UNCHANGED <<head, writer, subscribed, queue, testing, totalObserved, reader, fault>>

-----------------------------------------------------------------------------
(* A reader: trace_at(n), then a copy of the entry                         *)

\* Not in the future, and not wrapped over
At(n) == n < head /\ ~(head > Capacity /\ n < head - Capacity)

Look ==
  /\ asked = None
  /\ \E n \in 0..MaxCalls : At(n) /\ asked' = n
  /\ got' = << >>
  /\ UNCHANGED <<head, writer, subscribed, queue, tab, fault>>

Copy ==
  /\ asked # None /\ got = << >>
  /\ got' = << Text(ring[Slot(asked)]) >>
  /\ UNCHANGED <<head, writer, subscribed, queue, tab, asked, fault>>

Forget ==
  /\ got # << >>
  /\ asked' = None /\ got' = << >>
  /\ UNCHANGED <<head, writer, subscribed, queue, tab, fault>>

-----------------------------------------------------------------------------

Next ==
  \/ \E w \in Writers : Trace(w) \/ FreeOld(w) \/ Clear(w) \/ Fill(w) \/ Publish(w) \/ Observe(w)
  \/ SubscribeOnce \/ RunTests \/ TestsEnd \/ AppendLine \/ ClearLog
  \/ Look \/ Copy \/ Forget

Spec == Init /\ [][Next]_vars

-----------------------------------------------------------------------------

Line == [index : Nat, message : Nat \union {None, Garbage}]

TypeOK ==
  /\ head \in Nat /\ calls \in Nat
  /\ ring \in [0..Capacity - 1 -> Nat \union {None}] /\ freed \subseteq Nat
  /\ pc \in [Writers -> {"idle", "free", "clear", "fill", "publish", "observe"}]
  /\ idx \in [Writers -> Nat] /\ number \in [Writers -> Nat]
  /\ subscribed \in BOOLEAN /\ testing \in BOOLEAN /\ fault \in BOOLEAN
  /\ queue \in Seq(Line) /\ lines \in Seq(Line) /\ Len(lines) <= MaxLines
  /\ totalObserved \in Nat
  /\ asked \in Nat \union {None} /\ got \in Seq(Nat \union {None, Garbage})

(* No message is freed twice, and none is read after it was freed by the   *)
(* callback: free(e->message) with e->message = NULL a step later is safe  *)
(* only as long as one thread at a time is in _trace_.                     *)
MessagesOwned == ~fault

(* The Debug tab and what is on its way to it are a run of consecutive     *)
(* entries, each with its own message or none; when nobody is in trace()   *)
(* they end with the newest entry.                                         *)
LogIsTheTrace ==
  LET log == lines \o queue
  IN /\ \A i \in DOMAIN log : log[i].message \in {log[i].index, None}
     /\ \A i \in 1..Len(log) - 1 : log[i + 1].index = log[i].index + 1
     /\ log # << >> /\ (\A w \in Writers : pc[w] = "idle") => log[Len(log)].index = head - 1

(* A reader whose index is less than Capacity behind the head after it has *)
(* copied has copied that entry, though no lock keeps the writer away.     *)
ReadsWhatItAsked ==
  got # << >> /\ head - asked < Capacity => got[1] \in {asked, None}
=============================================================================
