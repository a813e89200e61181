------------------------- MODULE HashMapPromptProofs --------------------------
(***************************************************************************)
(* The maps the tokenizer keeps its tables in, and the prompt that is made *)
(* with them.                                                              *)
(*                                                                         *)
(* For any keys, any hash function and tables of any size: a key that was  *)
(* put is found, whatever it collided with; every value is in the map or   *)
(* was freed once; without removals every probe ends; and the map          *)
(* implements Dictionary.                                                  *)
(*                                                                         *)
(* For any wording, texts and merges: the first turn reads as the template *)
(* renders it; merging greedily is merging in the order of training;       *)
(* and the log is the conversation encoded as one text.                    *)
(***************************************************************************)
EXTENDS HashMap, Prompt, NumberFacts, FiniteSetTheorems, SequenceTheorems, TLAPS

-----------------------------------------------------------------------------
(* Slots and tables.                                                       *)

Slot == {EMPTY, TOMBSTONE} \cup {Entry(k, v) : k \in Keys, v \in Nat}

Table(n) == [0..n - 1 -> Slot]

Hash == hash \in [Keys -> Nat]

\* What a slot can be.
LEMMA SlotCases ==
  ASSUME NEW e \in Slot
  PROVE  /\ e = EMPTY \/ e = TOMBSTONE \/ e.state = "LIVE"
         /\ e.state = "LIVE" => /\ e # EMPTY /\ e # TOMBSTONE
                                /\ e.key \in Keys /\ e.value \in Nat
                                /\ e = Entry(e.key, e.value)
         /\ EMPTY.state # "LIVE" /\ TOMBSTONE.state # "LIVE" /\ EMPTY # TOMBSTONE
BY DEF Slot, EMPTY, TOMBSTONE, Entry

LEMMA EntryIsLive ==
  ASSUME NEW k \in Keys, NEW v \in Nat
  PROVE  /\ Entry(k, v) \in Slot /\ Entry(k, v).state = "LIVE"
         /\ Entry(k, v).key = k /\ Entry(k, v).value = v
         /\ Entry(k, v) # EMPTY /\ Entry(k, v) # TOMBSTONE
BY DEF Slot, EMPTY, TOMBSTONE, Entry

LEMMA TableHas ==
  ASSUME NEW n \in Nat, NEW t \in Table(n)
  PROVE  /\ DOMAIN t = 0..n - 1 /\ Capacity(t) = n
         /\ LiveSlots(t) \subseteq 0..n - 1
         /\ \A s \in 0..n - 1 : t[s] \in Slot
         /\ t = NoTable <=> n = 0
<1>1. DOMAIN t = 0..n - 1 /\ \A s \in 0..n - 1 : t[s] \in Slot
  BY DEF Table
<1>2. Cardinality(0..n - 1) = n
  BY FS_Interval
<1>3. t = NoTable <=> n = 0
  <2>1. CASE n = 0
    <3>1. 0..n - 1 = {}
      BY <2>1
    <3> QED BY <1>1, <2>1, <3>1 DEF NoTable, Table
  <2>2. CASE n # 0
    <3>1. 0 \in DOMAIN t /\ 0 \notin DOMAIN NoTable
      BY <1>1, <2>2 DEF NoTable
    <3> QED BY <2>2, <3>1
  <2> QED BY <2>1, <2>2
<1> QED BY <1>1, <1>2, <1>3 DEF Capacity, LiveSlots

LEMMA NewTableIsEmpty ==
  ASSUME NEW n \in Nat
  PROVE  NewTable(n) \in Table(n) /\ \A s \in 0..n - 1 : NewTable(n)[s] = EMPTY
BY DEF NewTable, Table, Slot

-----------------------------------------------------------------------------
(* Probes.  At(k, i, n) is the slot that turn i of a probe in n slots      *)
(* looks at.                                                               *)

Slot0(k, i, n) == (hash[k] + i) % n

\* Every turn looks at a slot, and every slot has its turn.
LEMMA SlotsTurn ==
  ASSUME Hash, NEW n \in Nat \ {0}, NEW k \in Keys
  PROVE  /\ \A i \in 0..n - 1 : Slot0(k, i, n) \in 0..n - 1
         /\ \A s \in 0..n - 1 : \E i \in 0..n - 1 : Slot0(k, i, n) = s
<1>1. hash[k] \in Int
  BY DEF Hash
<1>2. ASSUME NEW i \in 0..n - 1 PROVE Slot0(k, i, n) \in 0..n - 1
  <2>1. hash[k] + i \in Int
    BY <1>1
  <2> QED BY <2>1, ModType DEF Slot0
<1>3. ASSUME NEW s \in 0..n - 1 PROVE \E i \in 0..n - 1 : Slot0(k, i, n) = s
  <2> DEFINE i == (s - hash[k]) % n
  <2>1. s - hash[k] \in Int /\ s \in Int
    BY <1>1
  <2>2. i \in 0..n - 1 /\ i \in Int
    BY <2>1, ModType
  <2>3. (i + hash[k]) % n = ((s - hash[k]) + hash[k]) % n
    BY <1>1, <2>1, ModAdd
  <2> HIDE DEF i
  <2>4. i + hash[k] = hash[k] + i /\ (s - hash[k]) + hash[k] = s
    BY <1>1, <2>1, <2>2
  <2>5. s % n = s
    BY ModSmall
  <2> QED BY <2>2, <2>3, <2>4, <2>5 DEF Slot0
<1> QED BY <1>2, <1>3

LEMMA ProbedIs ==
  ASSUME NEW n \in Nat, NEW t \in Table(n), NEW k, NEW i
  PROVE  Probed(t, k, i) = Slot0(k, i, n)
BY TableHas DEF Probed, Slot0

\* The least number of a set.
LEMMA MinIs ==
  ASSUME NEW S, S \subseteq Nat, S # {}
  PROVE  Min(S) \in S /\ \A x \in S : Min(S) <= x
BY LeastOf DEF Min

\* Where a probe for k may end
Stops(t, k, i, n) == t[Slot0(k, i, n)] = EMPTY \/ Holds(t[Slot0(k, i, n)], k)

\* A probe ends in the first turn in which it may.
LEMMA ProbeEnds ==
  ASSUME Hash, NEW n \in Nat, NEW t \in Table(n), NEW k \in Keys
  PROVE  /\ \A i \in Probe(t, k) : /\ i \in 0..n - 1 /\ Stops(t, k, i, n)
                                   /\ \A j \in 0..i - 1 : ~Stops(t, k, j, n)
         /\ \A i \in 0..n - 1 : /\ Stops(t, k, i, n)
                                /\ \A j \in 0..i - 1 : ~Stops(t, k, j, n)
                                => Probe(t, k) = {i}
         /\ Probe(t, k) = {} => \A i \in 0..n - 1 : ~Stops(t, k, i, n)
<1> DEFINE S == {i \in 0..n - 1 : Stops(t, k, i, n)}
<1>1. Probe(t, k) = IF S = {} THEN {} ELSE {Min(S)}
  <2>1. {i \in 0..(Capacity(t) - 1) :
           LET e == t[Probed(t, k, i)] IN e = EMPTY \/ Holds(e, k)} = S
    BY TableHas, ProbedIs DEF Stops
  <2> HIDE DEF S
  <2> QED BY <2>1 DEF Probe
<1>2. S \subseteq Nat /\ \A i \in S : i \in 0..n - 1 /\ Stops(t, k, i, n)
  OBVIOUS
<1>3. \A i \in 0..n - 1 : Stops(t, k, i, n) => i \in S
  OBVIOUS
<1> HIDE DEF S
<1>4. S # {} => Min(S) \in S /\ \A x \in S : Min(S) <= x
  BY <1>2, MinIs
<1>5. ASSUME NEW i \in Probe(t, k)
      PROVE  /\ i \in 0..n - 1 /\ Stops(t, k, i, n)
             /\ \A j \in 0..i - 1 : ~Stops(t, k, j, n)
  <2>1. S # {} /\ i = Min(S) /\ i \in S
    BY <1>1, <1>4
  <2>2. ASSUME NEW j \in 0..i - 1, Stops(t, k, j, n) PROVE FALSE
    <3>1. i \in 0..n - 1 /\ j \in 0..n - 1 /\ ~(i <= j)
      BY <1>2, <2>1
    <3> QED BY <1>3, <1>4, <2>1, <2>2, <3>1
  <2> QED BY <1>2, <2>1, <2>2
<1>6. ASSUME NEW i \in 0..n - 1, Stops(t, k, i, n), \A j \in 0..i - 1 : ~Stops(t, k, j, n)
      PROVE  Probe(t, k) = {i}
  <2>1. S # {} /\ Min(S) \in S /\ Min(S) <= i
    BY <1>3, <1>4, <1>6
  <2>2. Min(S) \in 0..n - 1 /\ Stops(t, k, Min(S), n)
    BY <1>2, <2>1
  <2>3. Min(S) \notin 0..i - 1
    BY <1>6, <2>2
  <2>4. Min(S) = i
    BY <2>1, <2>2, <2>3
  <2> QED BY <1>1, <2>1, <2>4
<1> QED BY <1>1, <1>2, <1>3, <1>5, <1>6

-----------------------------------------------------------------------------
(* Good tables: a live entry is where the probe for its key ends, and no   *)
(* two have the same key.                                                  *)

\* Turn i of the probe for k finds slot s, and no turn before it stops
Finds(t, k, i, s, n) ==
  Slot0(k, i, n) = s /\ \A j \in 0..i - 1 : ~Stops(t, k, j, n)

OnItsWay(t, n) ==
  \A s \in LiveSlots(t) : \E i \in 0..n - 1 : Finds(t, t[s].key, i, s, n)

OneSlotPerKey(t) == \A r, s \in LiveSlots(t) : t[r].key = t[s].key => r = s

Good(t, n) == t \in Table(n) /\ OnItsWay(t, n) /\ OneSlotPerKey(t)

Ents(t) == {t[i] : i \in LiveSlots(t)}

\* A probe for the key of a live entry ends at that entry.
LEMMA LiveIsFound ==
  ASSUME Hash, NEW n \in Nat, NEW t, Good(t, n), NEW s \in LiveSlots(t)
  PROVE  /\ t[s].key \in Keys
         /\ \E i \in 0..n - 1 : Slot0(t[s].key, i, n) = s /\ Probe(t, t[s].key) = {i}
<1>1. t \in Table(n) /\ s \in 0..n - 1 /\ t[s] \in Slot /\ t[s].state = "LIVE"
  BY TableHas DEF Good, LiveSlots
<1>2. t[s].key \in Keys
  BY <1>1, SlotCases
<1>3. PICK i \in 0..n - 1 : Finds(t, t[s].key, i, s, n)
  BY DEF Good, OnItsWay
<1>4. Stops(t, t[s].key, i, n)
  BY <1>1, <1>3 DEF Finds, Stops, Holds
<1> QED BY <1>1, <1>2, <1>3, <1>4, ProbeEnds DEF Finds

\* map_get answers with the value of the live entry of that key, if there is
\* one.
LEMMA GetIs ==
  ASSUME Hash, NEW n \in Nat, NEW t, Good(t, n), NEW k \in Keys
  PROVE  /\ \A s \in LiveSlots(t) : t[s].key = k => Get(t, k) = {t[s].value}
         /\ (\A s \in LiveSlots(t) : t[s].key # k) => Get(t, k) = {}
<1>1. t \in Table(n)
  BY DEF Good
<1>2. ASSUME NEW s \in LiveSlots(t), t[s].key = k
      PROVE  Get(t, k) = {t[s].value}
  <2>1. PICK i \in 0..n - 1 : Slot0(k, i, n) = s /\ Probe(t, k) = {i}
    BY <1>2, LiveIsFound
  <2>2. Probed(t, k, i) = s /\ Holds(t[s], k)
    BY <1>1, <1>2, <2>1, ProbedIs DEF LiveSlots, Holds
  <2> QED BY <2>1, <2>2 DEF Get
<1>3. ASSUME \A s \in LiveSlots(t) : t[s].key # k
      PROVE  Get(t, k) = {}
  <2>1. ASSUME NEW j \in Probe(t, k), Holds(t[Probed(t, k, j)], k)
        PROVE  FALSE
    <3>1. CASE n = 0
      BY <1>1, <3>1, <2>1, ProbeEnds
    <3>2. CASE n # 0
      <4>1. j \in 0..n - 1 /\ Probed(t, k, j) \in 0..n - 1
        BY <1>1, <2>1, <3>2, ProbeEnds, ProbedIs, SlotsTurn
      <4>2. Probed(t, k, j) \in LiveSlots(t)
        BY <1>1, <2>1, <4>1, TableHas DEF LiveSlots, Holds
      <4> QED BY <1>3, <2>1, <4>2 DEF Holds
    <3> QED BY <3>1, <3>2
  <2> QED BY <2>1 DEF Get
<1> QED BY <1>2, <1>3

\* A probe for k comes by slot s in turn i, and k is nowhere else
MayTake(t, k, i, s, n) ==
  /\ i \in 0..n - 1 /\ s \in 0..n - 1
  /\ Finds(t, k, i, s, n) /\ \A j \in 0..i - 1 : Slot0(k, j, n) # s
  /\ \A r \in LiveSlots(t) : t[r].key = k <=> r = s

\* The table u is t with the entry of k in slot s
Took(t, u, k, v, s, n) ==
  /\ Good(u, n) /\ LiveSlots(u) = LiveSlots(t) \cup {s}
  /\ u[s] = Entry(k, v) /\ \A r \in 0..n - 1 : r # s => u[r] = t[r]

\* Writing the entry of k where a probe for it comes by leaves a good table.
LEMMA Placed ==
  ASSUME Hash, NEW n \in Nat, NEW t, Good(t, n), NEW k \in Keys, NEW v \in Nat,
         NEW i, NEW s, MayTake(t, k, i, s, n)
  PROVE  Took(t, [t EXCEPT ![s] = Entry(k, v)], k, v, s, n)
<1> DEFINE u == [t EXCEPT ![s] = Entry(k, v)]
<1>0. /\ i \in 0..n - 1 /\ s \in 0..n - 1
      /\ Finds(t, k, i, s, n) /\ \A j \in 0..i - 1 : Slot0(k, j, n) # s
      /\ \A r \in LiveSlots(t) : t[r].key = k <=> r = s
  BY DEF MayTake
<1>1. t \in Table(n) /\ DOMAIN t = 0..n - 1 /\ LiveSlots(t) \subseteq 0..n - 1
  BY TableHas DEF Good
<1>2. u \in Table(n) /\ u[s] = Entry(k, v) /\ \A r \in 0..n - 1 : r # s => u[r] = t[r]
  BY <1>0, <1>1, EntryIsLive DEF Table
<1> HIDE DEF u
<1>3. LiveSlots(u) = LiveSlots(t) \cup {s}
  <2>1. DOMAIN u = 0..n - 1 /\ u[s].state = "LIVE"
    BY <1>2, TableHas, EntryIsLive
  <2> QED BY <1>0, <1>1, <1>2, <2>1 DEF LiveSlots
<1>4. OneSlotPerKey(u)
  <2>1. u[s].key = k
    BY <1>2, EntryIsLive
  <2>2. \A r \in LiveSlots(t) : r # s => u[r] = t[r] /\ t[r].key # k
    BY <1>0, <1>1, <1>2
  <2>3. \A p, r \in LiveSlots(t) : t[p].key = t[r].key => p = r
    BY DEF OneSlotPerKey, Good
  <2> QED BY <1>3, <2>1, <2>2, <2>3 DEF OneSlotPerKey
<1>5. ASSUME NEW r \in LiveSlots(u)
      PROVE  \E m \in 0..n - 1 : Finds(u, u[r].key, m, r, n)
  <2>1. n \in Nat \ {0}
    BY <1>0
  <2>2. CASE r = s
    <3>1. ASSUME NEW j \in 0..i - 1 PROVE ~Stops(u, k, j, n)
      <4>1. j \in 0..n - 1
        BY <1>0
      <4>2. Slot0(k, j, n) \in 0..n - 1 /\ Slot0(k, j, n) # s
        BY <1>0, <2>1, <4>1, SlotsTurn
      <4> QED BY <1>0, <1>2, <4>2 DEF Finds, Stops
    <3>2. u[r].key = k /\ Slot0(k, i, n) = r
      BY <1>0, <1>2, <2>2, EntryIsLive DEF Finds
    <3> QED BY <1>0, <3>1, <3>2 DEF Finds
  <2>3. CASE r # s
    <3>1. r \in LiveSlots(t) /\ r \in 0..n - 1 /\ u[r] = t[r]
      BY <1>1, <1>2, <1>3, <2>3
    <3>2. u[r].key \in Keys /\ u[r].key # k
      BY <1>0, <2>3, <3>1, LiveIsFound
    <3>3. PICK m \in 0..n - 1 : Finds(t, u[r].key, m, r, n)
      BY <3>1 DEF Good, OnItsWay
    <3>4. ASSUME NEW j \in 0..m - 1 PROVE ~Stops(u, u[r].key, j, n)
      <4>0. j \in 0..n - 1
        OBVIOUS
      <4>1. Slot0(u[r].key, j, n) \in 0..n - 1
        BY <2>1, <3>2, <4>0, SlotsTurn
      <4>2. u[s] # EMPTY /\ ~Holds(u[s], u[r].key)
        BY <1>2, <3>2, EntryIsLive DEF Holds
      <4>3. ~Stops(t, u[r].key, j, n)
        BY <3>3 DEF Finds
      <4> QED BY <1>2, <4>1, <4>2, <4>3 DEF Stops
    <3> QED BY <3>3, <3>4 DEF Finds
  <2> QED BY <2>2, <2>3
<1>6. Good(u, n)
  BY <1>2, <1>4, <1>5 DEF Good, OnItsWay
<1> QED BY <1>2, <1>3, <1>6 DEF Took, u

\* So does leaving a tombstone for a live entry.
Lost(t, u, s, n) ==
  /\ Good(u, n) /\ LiveSlots(u) = LiveSlots(t) \ {s}
  /\ \A r \in LiveSlots(u) : u[r] = t[r]

LEMMA Buried ==
  ASSUME Hash, NEW n \in Nat, NEW t, Good(t, n), NEW s \in LiveSlots(t)
  PROVE  Lost(t, [t EXCEPT ![s] = TOMBSTONE], s, n)
<1> DEFINE u == [t EXCEPT ![s] = TOMBSTONE]
<1>1. t \in Table(n) /\ DOMAIN t = 0..n - 1 /\ LiveSlots(t) \subseteq 0..n - 1
  BY TableHas DEF Good
<1>2. u \in Table(n) /\ u[s] = TOMBSTONE /\ \A r \in 0..n - 1 : r # s => u[r] = t[r]
  BY <1>1 DEF Table, Slot
<1> HIDE DEF u
<1>3. LiveSlots(u) = LiveSlots(t) \ {s}
  <2>1. DOMAIN u = 0..n - 1
    BY <1>2, TableHas
  <2>2. u[s].state # "LIVE"
    BY <1>2 DEF TOMBSTONE
  <2> QED BY <1>1, <1>2, <2>1, <2>2 DEF LiveSlots
<1>4. OneSlotPerKey(u)
  BY <1>1, <1>2, <1>3 DEF OneSlotPerKey, Good
<1>5. ASSUME NEW r \in LiveSlots(u)
      PROVE  \E m \in 0..n - 1 : Finds(u, u[r].key, m, r, n)
  <2>0. r \in LiveSlots(t) /\ r \in 0..n - 1 /\ u[r] = t[r]
    BY <1>1, <1>2, <1>3
  <2>1. r \in LiveSlots(t) /\ r \in 0..n - 1 /\ u[r] = t[r] /\ n \in Nat \ {0}
    BY <2>0
  <2>2. u[r].key \in Keys
    BY <2>1, LiveIsFound
  <2>3. PICK m \in 0..n - 1 : Finds(t, u[r].key, m, r, n)
    BY <2>1 DEF Good, OnItsWay
  <2>4. ASSUME NEW j \in 0..m - 1 PROVE ~Stops(u, u[r].key, j, n)
    <3>1. j \in 0..n - 1 /\ Slot0(u[r].key, j, n) \in 0..n - 1
      BY <2>1, <2>2, SlotsTurn
    <3>2. u[s] # EMPTY /\ ~Holds(u[s], u[r].key)
      BY <1>2 DEF Holds, EMPTY, TOMBSTONE
    <3>3. ~Stops(t, u[r].key, j, n)
      BY <2>3 DEF Finds
    <3> QED BY <1>2, <3>1, <3>2, <3>3 DEF Stops
  <2> QED BY <2>3, <2>4 DEF Finds
<1>6. Good(u, n)
  BY <1>2, <1>4, <1>5 DEF Good, OnItsWay
<1>7. \A r \in LiveSlots(u) : u[r] = t[r]
  BY <1>1, <1>2, <1>3
<1> QED BY <1>3, <1>6, <1>7 DEF Lost, u

-----------------------------------------------------------------------------
(* Growing.                                                                *)

Tombs(t) == {s \in DOMAIN t : t[s] = TOMBSTONE}

\* The live entries among the first i slots
LiveBefore(t, i) == {s \in LiveSlots(t) : s < i}

\* The new table when the first i slots have been moved
MovedSoFar(t, i, u, m) ==
  /\ Good(u, m) /\ Tombs(u) = {}
  /\ Ents(u) = {t[s] : s \in LiveBefore(t, i)}
  /\ Cardinality(LiveSlots(u)) = Cardinality(LiveBefore(t, i))

\* Some slot of a table without tombstones is empty if fewer are live than
\* there are.
LEMMA HasRoom ==
  ASSUME NEW m \in Nat, NEW u \in Table(m), Tombs(u) = {},
         Cardinality(LiveSlots(u)) < m
  PROVE  \E s \in 0..m - 1 : u[s] = EMPTY
<1> SUFFICES ASSUME \A s \in 0..m - 1 : u[s] # EMPTY PROVE FALSE
  OBVIOUS
<1>1. LiveSlots(u) = 0..m - 1
  <2>1. ASSUME NEW s \in 0..m - 1 PROVE s \in LiveSlots(u)
    <3>1. s \in DOMAIN u /\ u[s] \in Slot
      BY TableHas
    <3> QED BY <3>1, SlotCases DEF LiveSlots, Tombs
  <2> QED BY <2>1, TableHas
<1>2. Cardinality(0..m - 1) = m
  BY FS_Interval
<1> QED BY <1>1, <1>2

\* What a table of n slots holds is finite.
LEMMA LiveIsFinite ==
  ASSUME NEW n \in Nat, NEW t \in Table(n)
  PROVE  /\ IsFiniteSet(LiveSlots(t)) /\ Cardinality(LiveSlots(t)) \in 0..n
         /\ \A i \in Nat : /\ IsFiniteSet(LiveBefore(t, i))
                           /\ Cardinality(LiveBefore(t, i)) \in 0..i
<1>1. IsFiniteSet(0..n - 1) /\ Cardinality(0..n - 1) = n
  BY FS_Interval
<1>2. LiveSlots(t) \subseteq 0..n - 1
  BY TableHas
<1>3. IsFiniteSet(LiveSlots(t)) /\ Cardinality(LiveSlots(t)) <= n /\ Cardinality(LiveSlots(t)) \in Nat
  BY <1>1, <1>2, FS_Subset, FS_CardinalityType
<1>4. ASSUME NEW i \in Nat
      PROVE  IsFiniteSet(LiveBefore(t, i)) /\ Cardinality(LiveBefore(t, i)) \in 0..i
  <2>1. LiveBefore(t, i) \subseteq 0..i - 1
    BY <1>2 DEF LiveBefore
  <2>2. IsFiniteSet(0..i - 1) /\ Cardinality(0..i - 1) = i
    BY FS_Interval
  <2>3. /\ IsFiniteSet(LiveBefore(t, i)) /\ Cardinality(LiveBefore(t, i)) <= i
        /\ Cardinality(LiveBefore(t, i)) \in Nat
    BY <2>1, <2>2, FS_Subset, FS_CardinalityType
  <2> QED BY <2>3
<1> QED BY <1>3, <1>4

\* Moving one slot more.
LEMMA MovesOne ==
  ASSUME Hash, NEW n \in Nat, NEW t, Good(t, n), NEW m \in Nat, n < m,
         NEW i \in 1..n, NEW u, MovedSoFar(t, i - 1, u, m)
  PROVE  MovedSoFar(t, i, Moved(u, t[i - 1]), m)
<1> DEFINE e == t[i - 1]
           w == Moved(u, e)
<1>1. /\ t \in Table(n) /\ u \in Table(m) /\ i - 1 \in 0..n - 1 /\ e \in Slot
      /\ i - 1 \in Nat /\ i \in Nat /\ DOMAIN t = 0..n - 1
  <2>1. t \in Table(n) /\ u \in Table(m) /\ i - 1 \in 0..n - 1
    BY DEF Good, MovedSoFar
  <2> QED BY <2>1, TableHas
<1>2. CASE e.state # "LIVE"
  <2>1. w = u
    BY <1>2 DEF Moved
  <2>2. LiveBefore(t, i) = LiveBefore(t, i - 1)
    BY <1>1, <1>2, TableHas DEF LiveBefore, LiveSlots
  <2> QED BY <2>1, <2>2 DEF MovedSoFar
<1>3. CASE e.state = "LIVE"
  <2> DEFINE k == e.key
             F == {j \in 0..m - 1 : u[Slot0(k, j, m)] = EMPTY}
             j == Min(F)
             s == Slot0(k, j, m)
  <2>1. k \in Keys /\ e.value \in Nat /\ e = Entry(k, e.value) /\ i - 1 \in LiveSlots(t)
    <3>1. i - 1 \in DOMAIN t
      BY <1>1
    <3> QED BY <1>1, <1>3, <3>1, SlotCases DEF LiveSlots
  <2>2. w = [u EXCEPT ![s] = e]
    <3>1. F = {x \in 0..(Capacity(u) - 1) : u[Probed(u, e.key, x)] = EMPTY}
      BY <1>1, TableHas, ProbedIs
    <3>2. Probed(u, k, j) = s
      BY <1>1, ProbedIs
    <3> HIDE DEF F
    <3> QED BY <1>3, <3>1, <3>2 DEF Moved
  <2>3. F \subseteq Nat /\ F # {}
    <3>1. Cardinality(LiveSlots(u)) < m
      <4>1. Cardinality(LiveBefore(t, i - 1)) \in 0..i - 1
        BY <1>1, LiveIsFinite
      <4> QED BY <4>1 DEF MovedSoFar
    <3>2. PICK x \in 0..m - 1 : u[x] = EMPTY
      BY <1>1, <3>1, HasRoom DEF MovedSoFar
    <3>3. \E y \in 0..m - 1 : Slot0(k, y, m) = x
      BY <2>1, <3>2, SlotsTurn
    <3> QED BY <3>2, <3>3
  <2>4. j \in 0..m - 1 /\ u[s] = EMPTY /\ \A x \in 0..m - 1 : u[Slot0(k, x, m)] = EMPTY => j <= x
    <3> HIDE DEF F
    <3>1. j \in F /\ \A x \in F : j <= x
      BY <2>3, MinIs
    <3> QED BY <3>1 DEF F
  <2> HIDE DEF j
  <2>5. s \in 0..m - 1 /\ s \notin LiveSlots(u) /\ m \in Nat \ {0}
    <3>1. m \in Nat \ {0}
      BY <2>4
    <3>2. s \in 0..m - 1
      BY <2>1, <2>4, <3>1, SlotsTurn
    <3> QED BY <2>4, <3>1, <3>2 DEF LiveSlots, EMPTY
  <2>6. \A r \in LiveSlots(u) : u[r].key # k
    <3> SUFFICES ASSUME NEW r \in LiveSlots(u), u[r].key = k PROVE FALSE
      OBVIOUS
    <3>1. u[r] \in Ents(u)
      BY DEF Ents
    <3>2. PICK p \in LiveBefore(t, i - 1) : u[r] = t[p]
      BY <3>1 DEF MovedSoFar
    <3>3. p \in LiveSlots(t) /\ p < i - 1 /\ t[p].key = t[i - 1].key
      BY <3>2 DEF LiveBefore
    <3> QED BY <1>1, <2>1, <3>3 DEF Good, OneSlotPerKey
  <2>7. Finds(u, k, j, s, m) /\ \A x \in 0..j - 1 : Slot0(k, x, m) # s
    <3> SUFFICES ASSUME NEW x \in 0..j - 1
                 PROVE  ~Stops(u, k, x, m) /\ Slot0(k, x, m) # s
      BY DEF Finds
    <3>1. x \in 0..m - 1 /\ ~(j <= x)
      BY <2>4
    <3>2. u[Slot0(k, x, m)] # EMPTY /\ Slot0(k, x, m) \in 0..m - 1
      BY <2>1, <2>4, <2>5, <3>1, SlotsTurn
    <3>3. ~Holds(u[Slot0(k, x, m)], k)
      BY <1>1, <2>6, <3>2, TableHas DEF Holds, LiveSlots
    <3> QED BY <2>4, <3>2, <3>3 DEF Stops
  <2>8. Good(u, m) /\ w = [u EXCEPT ![s] = Entry(k, e.value)]
    BY <2>1, <2>2 DEF MovedSoFar
  <2> DEFINE v == e.value
  <2>81. v \in Nat /\ MayTake(u, k, j, s, m)
    BY <2>1, <2>4, <2>5, <2>6, <2>7 DEF MayTake
  <2> HIDE DEF w, s, e, k, v
  <2>9. /\ Good(w, m) /\ LiveSlots(w) = LiveSlots(u) \cup {s}
        /\ w[s] = Entry(k, v) /\ \A r \in 0..m - 1 : r # s => w[r] = u[r]
    <3>1. Took(u, [u EXCEPT ![s] = Entry(k, v)], k, v, s, m)
      BY <2>1, <2>8, <2>81, Placed
    <3>2. Took(u, w, k, v, s, m)
      BY <2>8, <3>1 DEF v
    <3> QED BY <3>2 DEF Took
  <2>10. LiveBefore(t, i) = LiveBefore(t, i - 1) \cup {i - 1} /\ i - 1 \notin LiveBefore(t, i - 1)
    BY <1>1, <2>1, TableHas DEF LiveBefore
  <2>11. Tombs(w) = {}
    <3> SUFFICES ASSUME NEW r \in DOMAIN w, w[r] = TOMBSTONE PROVE FALSE
      BY DEF Tombs
    <3>1. w \in Table(m) /\ r \in 0..m - 1 /\ DOMAIN u = 0..m - 1
      BY <1>1, <2>9, TableHas DEF Good
    <3>2. w[s] # TOMBSTONE
      BY <2>1, <2>81, <2>9, EntryIsLive
    <3>3. u[r] = TOMBSTONE
      BY <2>9, <3>1, <3>2
    <3> QED BY <3>1, <3>3 DEF MovedSoFar, Tombs
  <2>12. Ents(w) = {t[x] : x \in LiveBefore(t, i)}
    <3>1. LiveSlots(u) \subseteq 0..m - 1
      BY <1>1, TableHas
    <3>2. \A r \in LiveSlots(u) : w[r] = u[r]
      BY <2>5, <2>9, <3>1
    <3>3. w[s] = t[i - 1]
      BY <2>1, <2>9 DEF e, k, v
    <3>4. Ents(w) = Ents(u) \cup {t[i - 1]}
      BY <2>9, <3>2, <3>3 DEF Ents
    <3>5. Ents(u) = {t[x] : x \in LiveBefore(t, i - 1)}
      BY DEF MovedSoFar
    <3> QED BY <2>10, <3>4, <3>5
  <2>13. Cardinality(LiveSlots(w)) = Cardinality(LiveBefore(t, i))
    <3>1. IsFiniteSet(LiveSlots(u)) /\ IsFiniteSet(LiveBefore(t, i - 1))
      BY <1>1, LiveIsFinite
    <3>2. Cardinality(LiveSlots(u) \cup {s}) = Cardinality(LiveSlots(u)) + 1
      BY <2>5, <3>1, FS_AddElement
    <3>3. Cardinality(LiveBefore(t, i - 1) \cup {i - 1}) = Cardinality(LiveBefore(t, i - 1)) + 1
      BY <2>10, <3>1, FS_AddElement
    <3>4. Cardinality(LiveSlots(u)) = Cardinality(LiveBefore(t, i - 1))
      BY DEF MovedSoFar
    <3> QED BY <2>9, <2>10, <3>2, <3>3, <3>4
  <2> QED BY <2>9, <2>11, <2>12, <2>13 DEF MovedSoFar, w, e
<1> QED BY <1>2, <1>3

\* The loop of map_grow is what its definition says, slot after slot.
LEMMA RehashedIs ==
  ASSUME NEW n \in Nat, NEW t \in Table(n), NEW m \in Nat
  PROVE  /\ Rehashed(t, m)[0] = NewTable(m)
         /\ \A i \in 1..n : Rehashed(t, m)[i] = Moved(Rehashed(t, m)[i - 1], t[i - 1])
<1> DEFINE Def(f) == f = [i \in 0..Capacity(t) |->
                            IF i = 0 THEN NewTable(m) ELSE Moved(f[i - 1], t[i - 1])]
           F == [i \in 1..n |-> [u \in Table(m) |-> Moved(u, t[i - 1])]]
<1>1. Capacity(t) = n
  BY TableHas
<1>2. F \in [1..n -> [Table(m) -> Table(m)]]
  <2>1. ASSUME NEW i \in 1..n, NEW u \in Table(m) PROVE Moved(u, t[i - 1]) \in Table(m)
    <3>1. i - 1 \in 0..n - 1 /\ t[i - 1] \in Slot
      <4>1. i - 1 \in 0..n - 1
        OBVIOUS
      <4> QED BY <4>1, TableHas
    <3>2. \A x : [u EXCEPT ![x] = t[i - 1]] \in Table(m)
      BY <3>1 DEF Table
    <3> QED BY <3>2 DEF Moved
  <2> QED BY <2>1
<1>3. NewTable(m) \in Table(m)
  BY NewTableIsEmpty
<1> HIDE DEF F
<1>4. PICK f \in [0..n -> Table(m)] :
        f[0] = NewTable(m) /\ \A i \in 1..n : f[i] = F[i][f[i - 1]]
  <2>1. IsDefined(n, Table(m), NewTable(m), F)
    BY <1>2, <1>3, Recursion
  <2> QED BY <2>1 DEF IsDefined
<1>5. Def(f)
  <2>1. ASSUME NEW i \in 0..n
        PROVE  f[i] = IF i = 0 THEN NewTable(m) ELSE Moved(f[i - 1], t[i - 1])
    <3>1. CASE i = 0
      BY <1>4, <3>1
    <3>2. CASE i # 0
      <4>1. i \in 1..n /\ i - 1 \in 0..n
        BY <3>2
      <4>2. f[i - 1] \in Table(m)
        BY <4>1
      <4> QED BY <1>4, <3>2, <4>1, <4>2 DEF F
    <3> QED BY <3>1, <3>2
  <2> QED BY <1>1, <2>1
<1>6. Rehashed(t, m) = CHOOSE r : Def(r)
  BY DEF Rehashed
<1>7. Def(Rehashed(t, m))
  <2> HIDE DEF Def
  <2> QED BY <1>5, <1>6
<1> DEFINE r == Rehashed(t, m)
<1> HIDE DEF r
<1>8. r = [i \in 0..n |-> IF i = 0 THEN NewTable(m) ELSE Moved(r[i - 1], t[i - 1])]
  BY <1>1, <1>7 DEF r
<1>9. r[0] = NewTable(m) /\ \A i \in 1..n : r[i] = Moved(r[i - 1], t[i - 1])
  BY <1>8
<1> QED BY <1>9 DEF r

\* A grown table is good, holds the same entries in as many slots, and no
\* tombstones.
LEMMA GrownIs ==
  ASSUME Hash, NEW n \in Nat, NEW t, Good(t, n), NEW m \in Nat, n < m
  PROVE  /\ Good(Grown(t, m), m) /\ Tombs(Grown(t, m)) = {}
         /\ Ents(Grown(t, m)) = Ents(t)
         /\ Cardinality(LiveSlots(Grown(t, m))) = Cardinality(LiveSlots(t))
<1> DEFINE r == Rehashed(t, m)
           S == {i \in 0..n : MovedSoFar(t, i, r[i], m)}
<1>1. t \in Table(n) /\ Capacity(t) = n /\ LiveSlots(t) \subseteq 0..n - 1
  BY TableHas DEF Good
<1>2. 0 \in S
  <2>1. r[0] = NewTable(m)
    BY <1>1, RehashedIs
  <2>2. /\ r[0] \in Table(m) /\ DOMAIN r[0] = 0..m - 1
        /\ \A s \in 0..m - 1 : r[0][s] = EMPTY
    BY <2>1, NewTableIsEmpty, TableHas
  <2>3. LiveSlots(r[0]) = {} /\ Tombs(r[0]) = {}
    BY <2>2 DEF LiveSlots, Tombs, EMPTY, TOMBSTONE
  <2>4. LiveBefore(t, 0) = {}
    BY <1>1 DEF LiveBefore
  <2>5. Good(r[0], m)
    BY <2>2, <2>3 DEF Good, OnItsWay, OneSlotPerKey
  <2> HIDE DEF r
  <2>6. MovedSoFar(t, 0, r[0], m)
    BY <2>3, <2>4, <2>5 DEF MovedSoFar, Ents
  <2> QED BY <2>6
<1>3. ASSUME NEW i \in 1..n, i - 1 \in S PROVE i \in S
  <2>1. MovedSoFar(t, i - 1, r[i - 1], m) /\ i \in 0..n
    BY <1>3
  <2>2. r[i] = Moved(r[i - 1], t[i - 1])
    BY <1>1, RehashedIs
  <2> HIDE DEF r
  <2>3. MovedSoFar(t, i, r[i], m)
    BY <2>1, <2>2, MovesOne
  <2> QED BY <2>1, <2>3
<1>4. MovedSoFar(t, n, r[n], m)
  <2> HIDE DEF S
  <2>1. n \in S
    <3>1. \A i \in 0..n : i \in S
      BY <1>2, <1>3, UpTo
    <3> QED BY <3>1
  <2> QED BY <2>1 DEF S
<1>5. LiveBefore(t, n) = LiveSlots(t)
  BY <1>1 DEF LiveBefore
<1>6. r[n] = Grown(t, m)
  BY <1>1 DEF Grown
<1> HIDE DEF r
<1> QED BY <1>4, <1>5, <1>6 DEF MovedSoFar, Ents

-----------------------------------------------------------------------------
(* What puts and removals do to a good table.                              *)

\* The table u is t after a put of v for k whose probe ended in turn i
PutInto(t, u, k, v, i, n) ==
  /\ Good(u, n) /\ Tombs(u) \subseteq Tombs(t)
  /\ Ents(u) = {e \in Ents(t) : e.key # k} \cup {Entry(k, v)}
  /\ Cardinality(LiveSlots(u)) = IF Holds(t[Probed(t, k, i)], k)
                                 THEN Cardinality(LiveSlots(t))
                                 ELSE Cardinality(LiveSlots(t)) + 1

\* The slot a put writes to is one its key may take.
LEMMA TargetMayTake ==
  ASSUME Hash, NEW n \in Nat, NEW t, Good(t, n), NEW k \in Keys, NEW i \in Probe(t, k)
  PROVE  /\ \E j \in 0..n - 1 : MayTake(t, k, j, Target(t, k, i), n)
         /\ Target(t, k, i) \in LiveSlots(t) <=> Holds(t[Probed(t, k, i)], k)
<1> DEFINE s == Slot0(k, i, n)
           T == {j \in 0..(i - 1) : t[Slot0(k, j, n)] = TOMBSTONE}
<1>1. t \in Table(n) /\ i \in 0..n - 1 /\ Stops(t, k, i, n) /\ n \in Nat \ {0}
      /\ \A j \in 0..i - 1 : ~Stops(t, k, j, n)
  <2>1. t \in Table(n)
    BY DEF Good
  <2>2. i \in 0..n - 1 /\ Stops(t, k, i, n) /\ \A j \in 0..i - 1 : ~Stops(t, k, j, n)
    BY <2>1, ProbeEnds
  <2>3. n # 0
    BY <2>2
  <2> QED BY <2>1, <2>2, <2>3
<1>2. /\ \A j \in 0..n - 1 : Slot0(k, j, n) \in 0..n - 1
      /\ \A r \in 0..n - 1 : t[r] \in Slot
  BY <1>1, SlotsTurn, TableHas
<1>3. /\ Probed(t, k, i) = s
      /\ Target(t, k, i) = IF Holds(t[s], k) \/ T = {} THEN s ELSE Slot0(k, Min(T), n)
  <2>1. {j \in 0..(i - 1) : t[Probed(t, k, j)] = TOMBSTONE} = T
    BY <1>1, ProbedIs
  <2> HIDE DEF T
  <2> QED BY <1>1, <2>1, ProbedIs DEF Target
<1>4. \A r \in LiveSlots(t) : t[r].key = k => Probe(t, k) = {i} /\ r = s
  <2> SUFFICES ASSUME NEW r \in LiveSlots(t), t[r].key = k
               PROVE  Probe(t, k) = {i} /\ r = s
    OBVIOUS
  <2>1. PICK j \in 0..n - 1 : Slot0(k, j, n) = r /\ Probe(t, k) = {j}
    BY LiveIsFound
  <2> QED BY <2>1
<1>5. \A j \in 0..i - 1 : j \in 0..n - 1
  BY <1>1
<1>6. CASE Holds(t[s], k)
  <2>1. s \in LiveSlots(t) /\ t[s].key = k /\ Target(t, k, i) = s
    BY <1>1, <1>2, <1>3, <1>6, TableHas DEF Holds, LiveSlots
  <2>2. \A j \in 0..i - 1 : Slot0(k, j, n) # s
    BY <1>1, <1>6 DEF Stops
  <2>3. \A r \in LiveSlots(t) : t[r].key = k <=> r = s
    BY <1>4, <2>1
  <2>4. MayTake(t, k, i, s, n)
    BY <1>1, <1>2, <2>2, <2>3 DEF MayTake, Finds
  <2> QED BY <1>1, <1>3, <1>6, <2>1, <2>4
<1>7. CASE ~Holds(t[s], k)
  <2>1. t[s] = EMPTY /\ s \notin LiveSlots(t)
    BY <1>1, <1>7 DEF Stops, LiveSlots, EMPTY
  <2>2. \A r \in LiveSlots(t) : t[r].key # k
    BY <1>4, <2>1
  <2>3. CASE T = {}
    <3>1. \A j \in 0..i - 1 : Slot0(k, j, n) # s
      BY <1>1, <2>1 DEF Stops
    <3>2. MayTake(t, k, i, s, n)
      BY <1>1, <1>2, <2>1, <2>2, <3>1 DEF MayTake, Finds
    <3> QED BY <1>1, <1>3, <1>7, <2>1, <2>3, <3>2
  <2>4. CASE T # {}
    <3> DEFINE m == Min(T)
               r == Slot0(k, m, n)
    <3>1. m \in T /\ \A x \in T : m <= x
      <4>1. T \subseteq Nat
        OBVIOUS
      <4> HIDE DEF T
      <4> QED BY <2>4, <4>1, MinIs
    <3> HIDE DEF m
    <3>2. /\ m \in 0..i - 1 /\ t[r] = TOMBSTONE
          /\ \A x \in 0..m - 1 : x \in 0..i - 1 /\ t[Slot0(k, x, n)] # TOMBSTONE
      <4>1. m \in 0..i - 1 /\ t[r] = TOMBSTONE
        BY <3>1
      <4>2. ASSUME NEW x \in 0..m - 1
            PROVE  x \in 0..i - 1 /\ t[Slot0(k, x, n)] # TOMBSTONE
        <5>1. x \in 0..i - 1 /\ ~(m <= x)
          BY <1>1, <4>1
        <5> QED BY <3>1, <5>1
      <4> QED BY <4>1, <4>2
    <3>3. r \notin LiveSlots(t) /\ r \in 0..n - 1 /\ m \in 0..n - 1
      BY <1>2, <1>5, <3>2 DEF LiveSlots, TOMBSTONE
    <3>4. MayTake(t, k, m, r, n)
      BY <1>1, <2>2, <3>2, <3>3 DEF MayTake, Finds
    <3>5. Target(t, k, i) = r
      BY <1>3, <1>7, <2>4 DEF m
    <3> QED BY <1>3, <1>7, <3>3, <3>4, <3>5
  <2> QED BY <2>3, <2>4
<1> QED BY <1>6, <1>7

\* map_put: k has its new value, every other entry is as before, and no
\* tombstone is new.
LEMMA PutIs ==
  ASSUME Hash, NEW n \in Nat, NEW t, Good(t, n), NEW k \in Keys, NEW v \in Nat,
         NEW i \in Probe(t, k)
  PROVE  PutInto(t, [t EXCEPT ![Target(t, k, i)] = Entry(k, v)], k, v, i, n)
<1> DEFINE s == Target(t, k, i)
           u == [t EXCEPT ![s] = Entry(k, v)]
<1>1. PICK j \in 0..n - 1 : MayTake(t, k, j, s, n)
  BY TargetMayTake
<1>2. s \in LiveSlots(t) <=> Holds(t[Probed(t, k, i)], k)
  BY TargetMayTake
<1> HIDE DEF s
<1>3. Took(t, u, k, v, s, n)
  BY <1>1, Placed
<1> HIDE DEF u
<1>4. /\ Good(u, n) /\ LiveSlots(u) = LiveSlots(t) \cup {s}
      /\ u[s] = Entry(k, v) /\ \A r \in 0..n - 1 : r # s => u[r] = t[r]
  BY <1>3 DEF Took
<1>5. s \in 0..n - 1 /\ \A r \in LiveSlots(t) : t[r].key = k <=> r = s
  BY <1>1 DEF MayTake
<1>6. t \in Table(n) /\ u \in Table(n) /\ DOMAIN t = 0..n - 1 /\ DOMAIN u = 0..n - 1
      /\ LiveSlots(t) \subseteq 0..n - 1
  BY <1>4, TableHas DEF Good
<1>7. Tombs(u) \subseteq Tombs(t)
  <2>1. u[s] # TOMBSTONE
    BY <1>4, EntryIsLive
  <2> QED BY <1>4, <1>6, <2>1 DEF Tombs
<1>8. Ents(u) = {e \in Ents(t) : e.key # k} \cup {Entry(k, v)}
  <2>1. ASSUME NEW r \in LiveSlots(u) PROVE u[r] \in {e \in Ents(t) : e.key # k} \cup {Entry(k, v)}
    BY <1>4, <1>5, <1>6 DEF Ents
  <2>2. ASSUME NEW r \in LiveSlots(t), t[r].key # k PROVE t[r] \in Ents(u)
    <3>1. r # s /\ r \in LiveSlots(u) /\ u[r] = t[r]
      BY <1>4, <1>5, <1>6, <2>2
    <3> QED BY <3>1 DEF Ents
  <2>3. Entry(k, v) \in Ents(u)
    BY <1>4 DEF Ents
  <2> QED BY <2>1, <2>2, <2>3 DEF Ents
<1>9. Cardinality(LiveSlots(u)) = IF s \in LiveSlots(t) THEN Cardinality(LiveSlots(t))
                                  ELSE Cardinality(LiveSlots(t)) + 1
  <2>1. IsFiniteSet(LiveSlots(t))
    BY <1>6, LiveIsFinite
  <2>2. CASE s \in LiveSlots(t)
    <3>1. LiveSlots(u) = LiveSlots(t)
      BY <1>4, <2>2
    <3> QED BY <2>2, <3>1
  <2>3. CASE s \notin LiveSlots(t)
    <3>1. Cardinality(LiveSlots(t) \cup {s}) = Cardinality(LiveSlots(t)) + 1
      BY <2>1, <2>3, FS_AddElement
    <3> QED BY <1>4, <2>3, <3>1
  <2> QED BY <2>2, <2>3
<1>10. PutInto(t, u, k, v, i, n)
  BY <1>2, <1>4, <1>7, <1>8, <1>9 DEF PutInto
<1> QED BY <1>10 DEF u, s

\* u is a good table of the entries of t but k's
Without(t, u, k, n) ==
  /\ Good(u, n)
  /\ Ents(u) = {e \in Ents(t) : e.key # k}
  /\ Cardinality(LiveSlots(u)) = Cardinality(LiveSlots(t)) - 1

\* map_remove: the entry of k is gone, every other is as before.
LEMMA RemoveIs ==
  ASSUME Hash, NEW n \in Nat, NEW t, Good(t, n), NEW k \in Keys,
         NEW i \in Probe(t, k), Holds(t[Probed(t, k, i)], k),
         NEW u, u = [t EXCEPT ![Probed(t, k, i)] = TOMBSTONE]
  PROVE  Without(t, u, k, n)
<1> DEFINE s == Probed(t, k, i)
<1>1. t \in Table(n)
  BY DEF Good
<1>2. s \in LiveSlots(t) /\ t[s].key = k
  <2>1. i \in 0..n - 1
    BY <1>1, ProbeEnds
  <2>2. n \in Nat \ {0}
    BY <2>1
  <2>3. s \in 0..n - 1
    BY <1>1, <2>1, <2>2, ProbedIs, SlotsTurn
  <2> QED BY <1>1, <2>3, TableHas DEF LiveSlots, Holds
<1>21. u = [t EXCEPT ![s] = TOMBSTONE]
  OBVIOUS
<1> HIDE DEF s
<1>3. /\ Good(u, n) /\ LiveSlots(u) = LiveSlots(t) \ {s}
      /\ \A r \in LiveSlots(u) : u[r] = t[r]
  <2>1. Lost(t, [t EXCEPT ![s] = TOMBSTONE], s, n)
    BY <1>2, Buried
  <2>2. Lost(t, u, s, n)
    BY <1>21, <2>1
  <2> QED BY <2>2 DEF Lost
<1>4. \A r \in LiveSlots(t) : t[r].key = k <=> r = s
  BY <1>2 DEF Good, OneSlotPerKey
<1>5. Ents(u) = {e \in Ents(t) : e.key # k}
  BY <1>3, <1>4 DEF Ents
<1>6. Cardinality(LiveSlots(t) \ {s}) = Cardinality(LiveSlots(t)) - 1
  BY <1>1, <1>2, LiveIsFinite, FS_RemoveElement
<1> QED BY <1>3, <1>5, <1>6 DEF Without

\* The number of live slots is the number of keys.
LEMMA KeysAreCounted ==
  ASSUME NEW n \in Nat, NEW t, Good(t, n)
  PROVE  Cardinality({e.key : e \in Ents(t)}) = Cardinality(LiveSlots(t))
<1> DEFINE K == {e.key : e \in Ents(t)}
           f == [s \in LiveSlots(t) |-> t[s].key]
<1>1. IsFiniteSet(LiveSlots(t))
  BY LiveIsFinite DEF Good
<1>2. f \in Bijection(LiveSlots(t), K)
  <2>1. f \in [LiveSlots(t) -> K]
    BY DEF Ents
  <2>2. IsInjective(f)
    BY DEF Good, OneSlotPerKey, IsInjective
  <2>3. \A x \in K : \E s \in LiveSlots(t) : f[s] = x
    BY DEF Ents
  <2> QED BY <2>1, <2>2, <2>3 DEF Bijection, Injection, Surjection
<1> HIDE DEF K, f
<1>3. Cardinality(K) = Cardinality(LiveSlots(t))
  BY <1>1, <1>2, FS_Bijection DEF ExistsBijection
<1> QED BY <1>3 DEF K

-----------------------------------------------------------------------------
(* The invariant.                                                          *)

\* The table is good, no more than three quarters of it are live, and it has
\* been made or is empty
Shape ==
  /\ Hash /\ puts \in Nat /\ Capacity(table) \in Nat
  /\ Good(table, Capacity(table))
  /\ count = Cardinality(LiveSlots(table))
  /\ 4 * count <= 3 * Capacity(table)
  /\ Capacity(table) # 0 => Capacity(table) >= 4

\* Only a removal leaves a tombstone, and only tombstones keep a probe from
\* ending
Graves ==
  /\ removed = {} => Tombs(table) = {}
  /\ endless => removed # {}

\* Values in the map are the map's
Owned ==
  /\ ~twice /\ freed \subseteq 1..puts
  /\ {e.value : e \in Ents(table)} = (1..puts) \ freed
  /\ \A e, f \in Ents(table) : e.value = f.value => e = f

IInv == Shape /\ Graves /\ Owned

LEMMA EntsAre ==
  ASSUME NEW n \in Nat, NEW t, Good(t, n)
  PROVE  /\ \A e \in Ents(t) : e.key \in Keys /\ e.value \in Nat /\ e = Entry(e.key, e.value)
         /\ \A e, f \in Ents(t) : e.key = f.key => e = f
<1>1. \A s \in LiveSlots(t) : t[s] \in Slot /\ t[s].state = "LIVE"
  BY TableHas DEF Good, LiveSlots
<1>2. \A s \in LiveSlots(t) : /\ t[s].key \in Keys /\ t[s].value \in Nat
                              /\ t[s] = Entry(t[s].key, t[s].value)
  BY <1>1, SlotCases
<1> QED BY <1>2 DEF Ents, Good, OneSlotPerKey

LEMMA EntryOf ==
  ASSUME NEW n \in Nat, NEW t, Good(t, n), Hash, NEW k \in Keys
  PROVE  Get(t, k) = {e.value : e \in {f \in Ents(t) : f.key = k}}
<1>1. CASE \E s \in LiveSlots(t) : t[s].key = k
  <2>1. PICK s \in LiveSlots(t) : t[s].key = k
    BY <1>1
  <2>2. Get(t, k) = {t[s].value}
    BY <2>1, GetIs
  <2>3. t[s] \in Ents(t)
    BY DEF Ents
  <2>4. \A f \in Ents(t) : f.key = k => f = t[s]
    BY <2>1, <2>3, EntsAre
  <2> QED BY <2>1, <2>2, <2>3, <2>4
<1>2. CASE \A s \in LiveSlots(t) : t[s].key # k
  <2>1. Get(t, k) = {}
    BY <1>2, GetIs
  <2>2. \A f \in Ents(t) : f.key # k
    BY <1>2 DEF Ents
  <2> QED BY <2>1, <2>2
<1> QED BY <1>1, <1>2

LEMMA MadeGood ==
  ASSUME NEW n \in Nat
  PROVE  /\ Good(NewTable(n), n) /\ Ents(NewTable(n)) = {} /\ Tombs(NewTable(n)) = {}
         /\ Cardinality(LiveSlots(NewTable(n))) = 0
<1> DEFINE t == NewTable(n)
<1>1. t \in Table(n) /\ DOMAIN t = 0..n - 1 /\ \A s \in 0..n - 1 : t[s] = EMPTY
  BY NewTableIsEmpty, TableHas
<1> HIDE DEF t
<1>2. LiveSlots(t) = {} /\ Tombs(t) = {}
  BY <1>1 DEF LiveSlots, Tombs, EMPTY, TOMBSTONE
<1>3. Good(t, n) /\ Ents(t) = {} /\ Tombs(t) = {} /\ Cardinality(LiveSlots(t)) = 0
  BY <1>1, <1>2, FS_EmptySet DEF Good, OnItsWay, OneSlotPerKey, Ents
<1> QED BY <1>3 DEF t

\* No table is one of no slots.
LEMMA NoTableIs == Good(NoTable, 0) /\ Ents(NoTable) = {} /\ Capacity(NoTable) = 0
                   /\ Tombs(NoTable) = {} /\ Cardinality(LiveSlots(NoTable)) = 0
<1>1. NewTable(0) = NoTable
  <2>1. NewTable(0) \in Table(0)
    BY NewTableIsEmpty
  <2> QED BY <2>1, TableHas
<1>2. Good(NoTable, 0)
  BY <1>1, MadeGood
<1> QED BY <1>1, <1>2, MadeGood, TableHas DEF Good

\* Before a put there is room for one entry more.
LEMMA RoomIs ==
  ASSUME Shape, NEW t, t = Room(table, count)
  PROVE  /\ Capacity(t) \in Nat /\ Capacity(t) >= 4 /\ Good(t, Capacity(t))
         /\ 4 * (count + 1) <= 3 * Capacity(t)
         /\ Ents(t) = Ents(table) /\ Cardinality(LiveSlots(t)) = count
         /\ t = table \/ (Capacity(t) # Capacity(table) /\ Tombs(t) = {})
<1> DEFINE n == Capacity(table)
<1>1. /\ Hash /\ n \in Nat /\ Good(table, n) /\ count = Cardinality(LiveSlots(table))
      /\ 4 * count <= 3 * n /\ (n # 0 => n >= 4) /\ (table = NoTable <=> n = 0)
      /\ count \in Nat
  <2>1. Hash /\ n \in Nat /\ Good(table, n) /\ count = Cardinality(LiveSlots(table))
        /\ 4 * count <= 3 * n /\ (n # 0 => n >= 4)
    BY DEF Shape
  <2>2. table \in Table(n)
    BY <2>1 DEF Good
  <2> HIDE DEF n
  <2>3. (table = NoTable <=> n = 0) /\ Cardinality(LiveSlots(table)) \in 0..n
    BY <2>1, <2>2, TableHas, LiveIsFinite
  <2> QED BY <2>1, <2>3
<1> HIDE DEF n
<1>2. CASE n = 0
  <2>1. FirstCapacity \in Nat /\ FirstCapacity >= 4
    BY HashMapAssumption
  <2>2. t = NewTable(FirstCapacity) /\ table = NoTable
    BY <1>1, <1>2 DEF Room
  <2>3. Capacity(t) = FirstCapacity
    BY <2>1, <2>2, MadeGood, TableHas DEF Good
  <2>4. count = 0 /\ Ents(table) = {}
    BY <1>1, <2>2, NoTableIs
  <2> QED BY <1>2, <2>1, <2>2, <2>3, <2>4, MadeGood DEF n
<1>3. CASE n # 0 /\ (count + 1) * 4 > n * 3
  <2>1. t = Grown(table, n * 2) /\ n * 2 \in Nat /\ n < n * 2
    BY <1>1, <1>3 DEF Room, n
  <2>2. /\ Good(t, n * 2) /\ Tombs(t) = {} /\ Ents(t) = Ents(table)
        /\ Cardinality(LiveSlots(t)) = count
    BY <1>1, <2>1, GrownIs
  <2>3. Capacity(t) = n * 2
    BY <2>1, <2>2, TableHas DEF Good
  <2>4. n * 2 >= 4 /\ 4 * (count + 1) <= 3 * (n * 2)
    BY <1>1, <1>3
  <2> QED BY <2>1, <2>2, <2>3, <2>4 DEF n
<1>4. CASE n # 0 /\ ~((count + 1) * 4 > n * 3)
  <2>1. t = table
    BY <1>1, <1>4 DEF Room, n
  <2>2. 4 * (count + 1) <= 3 * n
    BY <1>1, <1>4
  <2> QED BY <1>1, <1>4, <2>1, <2>2 DEF n
<1> QED BY <1>2, <1>3, <1>4

\* Where there are no tombstones every probe ends.
LEMMA SomeProbeEnds ==
  ASSUME Hash, NEW n \in Nat, NEW t, Good(t, n), Tombs(t) = {},
         Cardinality(LiveSlots(t)) < n, NEW k \in Keys
  PROVE  Probe(t, k) # {}
<1>1. t \in Table(n) /\ n \in Nat \ {0}
  <2>1. t \in Table(n)
    BY DEF Good
  <2> QED BY <2>1, LiveIsFinite
<1>2. PICK s \in 0..n - 1 : t[s] = EMPTY
  BY <1>1, HasRoom
<1>3. PICK i \in 0..n - 1 : Slot0(k, i, n) = s
  BY <1>1, SlotsTurn
<1>4. Stops(t, k, i, n)
  BY <1>2, <1>3 DEF Stops
<1> QED BY <1>1, <1>4, ProbeEnds

\* What is said of the next table with today's hash function may be said of
\* it then.
LEMMA NextShape ==
  ASSUME hash' = hash, NEW n \in Nat, Hash, Good(table', n), puts' \in Nat,
         count' = Cardinality(LiveSlots(table')), 4 * count' <= 3 * n, n # 0 => n >= 4
  PROVE  Shape'
<1>1. Capacity(table') = n
  BY TableHas DEF Good
<1>2. Good(table, Capacity(table))'
  <2>1. Capacity(table)' = n
    BY <1>1 DEF Capacity
  <2>2. (table \in Table(Capacity(table)))'
    BY <1>1 DEF Good, Table, Slot, EMPTY, TOMBSTONE, Entry, Capacity
  <2>3. OneSlotPerKey(table)'
    BY DEF Good, OneSlotPerKey, LiveSlots
  <2>4. OnItsWay(table, Capacity(table))'
    BY <1>1 DEF Good, OnItsWay, Finds, Stops, Slot0, Holds, LiveSlots, Capacity, EMPTY
  <2> QED BY <2>2, <2>3, <2>4 DEF Good
<1>3. Hash'
  BY DEF Hash
<1> QED BY <1>1, <1>2, <1>3 DEF Shape, LiveSlots, Capacity

ValuesOf(E) == {e.value : e \in E}

\* Of the values N, the entries E have those not in F, each value once
HasAllBut(E, N, F) ==
  /\ F \subseteq N /\ ValuesOf(E) = N \ F
  /\ \A e, f \in E : e.value = f.value => e = f

\* Without key k: its value joins those not in the map
GivenBack(E, N, F, k) ==
  LET V == ValuesOf({e \in E : e.key = k})
  IN  V \cap F = {} /\ HasAllBut({e \in E : e.key # k}, N, F \cup V)

LEMMA OwnedAfterRemove ==
  ASSUME NEW E, NEW N, NEW F, HasAllBut(E, N, F), NEW k
  PROVE  GivenBack(E, N, F, k)
<1> DEFINE V == ValuesOf({e \in E : e.key = k})
           R == {e \in E : e.key # k}
<1>1. \A e \in E : e.value \in N /\ e.value \notin F
  BY DEF ValuesOf, HasAllBut
<1>2. V \cap F = {} /\ F \cup V \subseteq N
  BY <1>1 DEF ValuesOf, HasAllBut
<1>3. ASSUME NEW x \in ValuesOf(R) PROVE x \in N \ (F \cup V)
  <2>1. PICK e \in E : e.key # k /\ x = e.value
    BY <1>3 DEF ValuesOf
  <2>2. x \notin V
    BY <2>1 DEF ValuesOf, HasAllBut
  <2> QED BY <1>1, <2>1, <2>2
<1>4. ASSUME NEW x \in N \ (F \cup V) PROVE x \in ValuesOf(R)
  <2>1. PICK e \in E : x = e.value
    BY <1>4 DEF ValuesOf, HasAllBut
  <2>2. e.key # k
    BY <1>4, <2>1 DEF ValuesOf
  <2> QED BY <2>1, <2>2 DEF ValuesOf
<1>5. ValuesOf(R) = N \ (F \cup V)
  BY <1>3, <1>4
<1>6. \A e, f \in R : e.value = f.value => e = f
  BY DEF HasAllBut
<1>7. HasAllBut(R, N, F \cup V)
  BY <1>2, <1>5, <1>6 DEF HasAllBut
<1> QED BY <1>2, <1>7 DEF GivenBack

LEMMA NextInv ==
  ASSUME Shape', removed' = {} => Tombs(table') = {}, endless' => removed' # {},
         ~twice', HasAllBut(Ents(table'), 1..puts', freed')
  PROVE  IInv'
<1>1. Graves'
  BY DEF Graves, Tombs, TOMBSTONE
<1>2. Owned'
  BY DEF Owned, Ents, LiveSlots, HasAllBut, ValuesOf
<1> QED BY <1>1, <1>2 DEF IInv

\* Nothing but a probe without end.
LEMMA StaysPut ==
  ASSUME IInv, UNCHANGED <<hash, table, count, puts, freed, twice, removed>>,
         endless' => removed # {}
  PROVE  IInv'
<1>1. Shape'
  BY DEF IInv, Shape, Good, OnItsWay, OneSlotPerKey, Finds, Stops, Slot0, Holds, Table, Slot, LiveSlots,
         Capacity, EMPTY, TOMBSTONE, Entry, Hash
<1>2. removed' = {} => Tombs(table') = {}
  BY DEF IInv, Graves
<1>3. HasAllBut(Ents(table'), 1..puts', freed')
  BY DEF IInv, Owned, HasAllBut, ValuesOf
<1>4. ~twice'
  BY DEF IInv, Owned
<1> QED BY <1>1, <1>2, <1>3, <1>4, NextInv

\* What an operation does to the entries and the values: K is the keys that
\* go, N the entries that come.
Changes(K, N) ==
  /\ Ents(table') = {e \in Ents(table) : e.key \notin K} \cup N
  /\ GiveBack(ValuesOf({e \in Ents(table) : e.key \in K}))

\* map_put of a new value keeps the invariant.
LEMMA PutKeeps ==
  ASSUME IInv, NEW k \in Keys, Put(k)
  PROVE  IInv' /\ (Changes({k}, {Entry(k, puts + 1)}) \/ Forever)
<1> DEFINE t == Room(table, count)
           n == Capacity(t)
           v == puts + 1
           E == Ents(table)
           V == ValuesOf({e \in E : e.key = k})
<1>1. /\ n \in Nat /\ n >= 4 /\ Good(t, n) /\ 4 * (count + 1) <= 3 * n
      /\ Ents(t) = E /\ Cardinality(LiveSlots(t)) = count
      /\ t = table \/ (n # Capacity(table) /\ Tombs(t) = {})
  BY RoomIs DEF IInv
<1>2. Hash /\ puts \in Nat /\ v \in Nat /\ count \in Nat /\ Capacity(table) \in Nat
  <2>1. Hash /\ puts \in Nat /\ Capacity(table) \in Nat /\ table \in Table(Capacity(table))
        /\ count = Cardinality(LiveSlots(table))
    BY DEF IInv, Shape, Good
  <2> QED BY <2>1, LiveIsFinite
<1>3. Get(t, k) = V
  BY <1>1, <1>2, EntryOf DEF ValuesOf
<1>4. \/ \E i \in Probe(t, k) :
           /\ table' = [t EXCEPT ![Target(t, k, i)] = Entry(k, v)]
           /\ count' = IF Holds(t[Probed(t, k, i)], k) THEN count ELSE count + 1
           /\ GiveBack(V) /\ puts' = v
           /\ removed' = IF n = Capacity(table) THEN removed ELSE {}
           /\ UNCHANGED <<hash, endless>>
      \/ Probe(t, k) = {} /\ Forever
  BY <1>3 DEF Put
<1>5. ~endless
  BY DEF Put
<1> HIDE DEF t, n, v, E, V
<1>6. ASSUME NEW i \in Probe(t, k),
             table' = [t EXCEPT ![Target(t, k, i)] = Entry(k, v)],
             count' = IF Holds(t[Probed(t, k, i)], k) THEN count ELSE count + 1,
             GiveBack(V), puts' = v,
             removed' = IF n = Capacity(table) THEN removed ELSE {},
             UNCHANGED <<hash, endless>>
      PROVE  IInv' /\ Changes({k}, {Entry(k, puts + 1)})
  <2>1. PutInto(t, table', k, v, i, n)
    BY <1>1, <1>2, <1>6, PutIs
  <2>2. /\ Good(table', n) /\ Tombs(table') \subseteq Tombs(t)
        /\ Ents(table') = {e \in E : e.key # k} \cup {Entry(k, v)}
        /\ count' = Cardinality(LiveSlots(table'))
    BY <1>1, <1>6, <2>1 DEF PutInto
  <2>3. Shape'
    <3>1. 4 * count' <= 3 * n /\ puts' \in Nat /\ hash' = hash
      BY <1>1, <1>2, <1>6
    <3> QED BY <1>1, <1>2, <2>2, <3>1, NextShape
  <2>4. removed' = {} => Tombs(table') = {}
    <3>1. removed = {} => Tombs(table) = {}
      BY DEF IInv, Graves
    <3>2. CASE n = Capacity(table)
      BY <1>1, <1>6, <2>2, <3>1, <3>2
    <3>3. CASE n # Capacity(table)
      <4>1. Tombs(t) = {}
        BY <1>1, <3>3 DEF n
      <4> QED BY <2>2, <4>1
    <3> QED BY <3>2, <3>3
  <2>5. ~twice /\ HasAllBut(E, 1..puts, freed)
    BY DEF IInv, Owned, HasAllBut, ValuesOf, E
  <2>6. V \cap freed = {} /\ HasAllBut({e \in E : e.key # k}, 1..puts, freed \cup V)
    <3>1. GivenBack(E, 1..puts, freed, k)
      BY <2>5, OwnedAfterRemove
    <3> QED BY <3>1 DEF V, GivenBack
  <2>7. 1..puts' = (1..puts) \cup {v} /\ v \notin 1..puts
    BY <1>2, <1>6 DEF v
  <2>8. ~twice' /\ freed' = freed \cup V
    BY <1>6, <2>5, <2>6 DEF GiveBack
  <2>9. Entry(k, v).value = v
    BY <1>2, EntryIsLive
  <2>10. HasAllBut(Ents(table'), 1..puts', freed')
    <3> DEFINE R == {e \in E : e.key # k}
    <3>1. HasAllBut(R, 1..puts, freed')
      BY <2>6, <2>8
    <3>2. Ents(table') = R \cup {Entry(k, v)}
      BY <2>2
    <3> HIDE DEF R
    <3>3. ValuesOf(Ents(table')) = ValuesOf(R) \cup {v}
      BY <2>9, <3>2 DEF ValuesOf
    <3>4. \A e \in R : e.value # v
      BY <2>7, <3>1 DEF ValuesOf, HasAllBut
    <3>5. ValuesOf(Ents(table')) = (1..puts') \ freed' /\ freed' \subseteq 1..puts'
      BY <2>7, <3>1, <3>3 DEF HasAllBut
    <3>6. \A e, f \in Ents(table') : e.value = f.value => e = f
      BY <2>9, <3>1, <3>2, <3>4 DEF HasAllBut
    <3> QED BY <3>5, <3>6 DEF HasAllBut
  <2>11. endless' => removed' # {}
    BY <1>5, <1>6
  <2>12. Changes({k}, {Entry(k, puts + 1)})
    BY <1>6, <2>2 DEF Changes, E, V, v
  <2> QED BY <2>3, <2>4, <2>8, <2>10, <2>11, <2>12, NextInv
<1>7. ASSUME Probe(t, k) = {}, Forever PROVE IInv'
  <2>1. Tombs(t) # {}
    <3>1. Cardinality(LiveSlots(t)) < n
      BY <1>1, <1>2
    <3> QED BY <1>1, <1>2, <1>7, <3>1, SomeProbeEnds
  <2>2. removed # {}
    BY <1>1, <2>1 DEF IInv, Graves
  <2> QED BY <1>7, <2>2, StaysPut DEF Forever
<1> QED BY <1>4, <1>6, <1>7

\* map_remove keeps the invariant.
LEMMA RemoveKeeps ==
  ASSUME IInv, NEW k \in Keys, RemoveKey(k)
  PROVE  IInv' /\ (Changes({k}, {}) \/ Forever)
<1> DEFINE n == Capacity(table)
           E == Ents(table)
           V == ValuesOf({e \in E : e.key = k})
<1>1. /\ Hash /\ n \in Nat /\ Good(table, n) /\ count = Cardinality(LiveSlots(table))
      /\ 4 * count <= 3 * n /\ (n # 0 => n >= 4) /\ puts \in Nat /\ count \in Nat
      /\ table # NoTable => n # 0
  <2>1. /\ Hash /\ n \in Nat /\ Good(table, n) /\ count = Cardinality(LiveSlots(table))
        /\ 4 * count <= 3 * n /\ (n # 0 => n >= 4) /\ puts \in Nat
    BY DEF IInv, Shape
  <2>2. table \in Table(n)
    BY <2>1 DEF Good
  <2> HIDE DEF n
  <2>3. (table = NoTable <=> n = 0) /\ Cardinality(LiveSlots(table)) \in 0..n
    BY <2>1, <2>2, TableHas, LiveIsFinite
  <2> QED BY <2>1, <2>3
<1>2. Get(table, k) = V
  BY <1>1, EntryOf DEF ValuesOf
<1>3. ~endless /\ table # NoTable
  BY DEF RemoveKey
<1>4. \/ \E i \in Probe(table, k) :
           /\ Holds(table[Probed(table, k, i)], k)
           /\ GiveBack(V)
           /\ table' = [table EXCEPT ![Probed(table, k, i)] = TOMBSTONE]
           /\ count' = count - 1 /\ removed' = removed \cup {k}
           /\ UNCHANGED <<hash, puts, endless>>
      \/ Probe(table, k) = {} /\ Forever
  BY <1>2 DEF RemoveKey
<1> HIDE DEF n, E, V
<1>5. ASSUME NEW i \in Probe(table, k), Holds(table[Probed(table, k, i)], k), GiveBack(V),
             table' = [table EXCEPT ![Probed(table, k, i)] = TOMBSTONE],
             count' = count - 1, removed' = removed \cup {k}, UNCHANGED <<hash, puts, endless>>
      PROVE  IInv' /\ Changes({k}, {})
  <2>1. /\ Good(table', n) /\ Ents(table') = {e \in E : e.key # k}
        /\ Cardinality(LiveSlots(table')) = count - 1
    <3>1. Without(table, table', k, n)
      BY <1>1, <1>5, RemoveIs
    <3> QED BY <1>1, <3>1 DEF E, Without
  <2>2. Shape'
    <3>1. 4 * count' <= 3 * n /\ puts' \in Nat /\ hash' = hash
      BY <1>1, <1>5
    <3> QED BY <1>1, <1>5, <2>1, <3>1, NextShape
  <2>3. ~twice /\ HasAllBut(E, 1..puts, freed)
    BY DEF IInv, Owned, HasAllBut, ValuesOf, E
  <2>4. V \cap freed = {} /\ HasAllBut({e \in E : e.key # k}, 1..puts, freed \cup V)
    <3>1. GivenBack(E, 1..puts, freed, k)
      BY <2>3, OwnedAfterRemove
    <3> QED BY <3>1 DEF V, GivenBack
  <2>5. ~twice' /\ freed' = freed \cup V
    BY <1>5, <2>3, <2>4 DEF GiveBack
  <2>6. HasAllBut(Ents(table'), 1..puts', freed')
    BY <1>5, <2>1, <2>4, <2>5
  <2>7. removed' # {}
    BY <1>5
  <2>8. Changes({k}, {})
    BY <1>5, <2>1 DEF Changes, E, V
  <2> QED BY <2>2, <2>5, <2>6, <2>7, <2>8, NextInv
<1>6. ASSUME Probe(table, k) = {}, Forever PROVE IInv'
  <2>1. Tombs(table) # {}
    <3>1. Cardinality(LiveSlots(table)) < n
      BY <1>1, <1>3
    <3> QED BY <1>1, <1>6, <3>1, SomeProbeEnds
  <2>2. removed # {}
    BY <2>1 DEF IInv, Graves
  <2> QED BY <1>6, <2>2, StaysPut DEF Forever
<1> QED BY <1>4, <1>5, <1>6

\* map_free keeps the invariant.
LEMMA FreeKeeps ==
  ASSUME IInv, Free
  PROVE  IInv'
<1>1. table' = NoTable /\ count' = 0 /\ removed' = {} /\ hash' = hash /\ puts' = puts
      /\ ~endless' /\ GiveBack(ValuesOf(Ents(table)))
  <2>1. {table[i].value : i \in LiveSlots(table)} = ValuesOf(Ents(table))
    BY DEF ValuesOf, Ents
  <2> QED BY <2>1 DEF Free
<1>2. Hash /\ puts \in Nat
  BY DEF IInv, Shape
<1>3. Shape'
  BY <1>1, <1>2, NoTableIs, NextShape
<1>4. ~twice /\ HasAllBut(Ents(table), 1..puts, freed)
  BY DEF IInv, Owned, HasAllBut, ValuesOf
<1>5. ~twice' /\ freed' = 1..puts'
  BY <1>1, <1>4 DEF GiveBack, HasAllBut
<1>6. HasAllBut(Ents(table'), 1..puts', freed')
  BY <1>1, <1>5, NoTableIs DEF HasAllBut, ValuesOf
<1> QED BY <1>1, <1>3, <1>5, <1>6, NoTableIs, NextInv

\* The invariant holds in every state.
LEMMA Invariant == Spec => []IInv
<1>1. Init => IInv
  <2> SUFFICES ASSUME Init PROVE IInv
    OBVIOUS
  <2>1. Shape
    <3>1. hash \in [Keys -> Nat]
      BY HashMapAssumption DEF Init
    <3>2. table = NoTable /\ count = 0 /\ puts = 0
      BY DEF Init
    <3> QED BY <3>1, <3>2, NoTableIs DEF Shape, Hash
  <2>2. Graves
    BY NoTableIs DEF Init, Graves
  <2>3. Owned
    BY NoTableIs DEF Init, Owned
  <2> QED BY <2>1, <2>2, <2>3 DEF IInv
<1>2. IInv /\ [Next]_vars => IInv'
  <2> SUFFICES ASSUME IInv, [Next]_vars PROVE IInv'
    OBVIOUS
  <2>1. CASE Next
    BY <2>1, PutKeeps, RemoveKeeps, FreeKeeps DEF Next
  <2>2. CASE UNCHANGED vars
    BY <2>2, StaysPut DEF vars, IInv, Graves
  <2> QED BY <2>1, <2>2
<1> QED BY <1>1, <1>2, PTL DEF Spec

-----------------------------------------------------------------------------
(* What follows from the invariant.                                        *)

\* map_get finds what was put last and count is the number of keys: for every
\* hash function, number of slots and run of puts, removals and frees.
THEOREM GetsWhatWasPutHolds == Spec => []GetsWhatWasPut
<1>1. IInv => GetsWhatWasPut
  <2> SUFFICES ASSUME IInv PROVE GetsWhatWasPut
    OBVIOUS
  <2> DEFINE n == Capacity(table)
  <2>1. Hash /\ n \in Nat /\ Good(table, n) /\ count = Cardinality(LiveSlots(table))
    BY DEF IInv, Shape
  <2> HIDE DEF n
  <2>2. Entries = Ents(table)
    BY DEF Entries, Ents
  <2>3. count = Cardinality({e.key : e \in Entries})
    BY <2>1, <2>2, KeysAreCounted
  <2>4. ASSUME NEW e \in Entries PROVE Get(table, e.key) = {e.value}
    <3>1. PICK s \in LiveSlots(table) : table[s] = e
      BY <2>4 DEF Entries
    <3>2. e.key \in Keys
      BY <2>1, <2>2, EntsAre
    <3> QED BY <2>1, <3>1, <3>2, GetIs
  <2> QED BY <2>3, <2>4 DEF GetsWhatWasPut
<1> QED BY <1>1, Invariant, PTL

\* A program that removes nothing never probes for ever.
THEOREM ProbesEndHolds == Spec => []ProbesEnd
<1>1. IInv => ProbesEnd
  <2> SUFFICES ASSUME IInv, removed = {}
               PROVE  ~endless /\ \A k \in Keys : table = NoTable \/ Probe(table, k) # {}
    BY DEF ProbesEnd
  <2> DEFINE n == Capacity(table)
  <2>1. /\ Hash /\ n \in Nat /\ Good(table, n) /\ count = Cardinality(LiveSlots(table))
        /\ 4 * count <= 3 * n
    BY DEF IInv, Shape
  <2>2. Tombs(table) = {} /\ ~endless
    BY DEF IInv, Graves
  <2> HIDE DEF n
  <2>3. table \in Table(n)
    BY <2>1 DEF Good
  <2>4. (table = NoTable <=> n = 0) /\ count \in 0..n
    BY <2>1, <2>3, TableHas, LiveIsFinite
  <2>5. n # 0 => Cardinality(LiveSlots(table)) < n
    BY <2>1, <2>4
  <2> QED BY <2>1, <2>2, <2>4, <2>5, SomeProbeEnds
<1> QED BY <1>1, Invariant, PTL

\* Every value put is in the map or freed, and none is freed twice.
THEOREM ValuesFreedOnceHolds == Spec => []ValuesFreedOnce
<1>1. IInv => ValuesFreedOnce
  BY DEF IInv, Owned, ValuesFreedOnce, Entries, Ents
<1> QED BY <1>1, Invariant, PTL

-----------------------------------------------------------------------------
(* The map implements a dictionary.                                        *)

DictOf(E) == [k \in {e.key : e \in E} |-> (CHOOSE e \in E : e.key = k).value]

LEMMA DictIs ==
  ASSUME NEW E, \A e, f \in E : e.key = f.key => e = f
  PROVE  /\ DOMAIN DictOf(E) = {e.key : e \in E}
         /\ DictOf(E) = [k \in {e.key : e \in E} |-> DictOf(E)[k]]
         /\ \A e \in E : DictOf(E)[e.key] = e.value
<1>1. ASSUME NEW e \in E PROVE DictOf(E)[e.key] = e.value
  <2>1. (CHOOSE f \in E : f.key = e.key) = e
    OBVIOUS
  <2> QED BY <2>1 DEF DictOf
<1> QED BY <1>1 DEF DictOf

LEMMA DictIsTheMaps ==
  ASSUME IInv
  PROVE  /\ dict = DictOf(Ents(table))
         /\ \A e, f \in Ents(table) : e.key = f.key => e = f
         /\ \A k : D!Held(k) = ValuesOf({e \in Ents(table) : e.key = k})
<1> DEFINE E == Ents(table)
<1>1. dict = DictOf(E)
  BY DEF dict, DictOf, Entries, Ents
<1>2. \A e, f \in E : e.key = f.key => e = f
  BY EntsAre DEF IInv, Shape
<1> HIDE DEF E
<1>3. DOMAIN dict = {e.key : e \in E} /\ \A e \in E : dict[e.key] = e.value
  BY <1>1, <1>2, DictIs
<1>4. ASSUME NEW k PROVE D!Held(k) = ValuesOf({e \in E : e.key = k})
  BY <1>3 DEF D!Held, ValuesOf
<1> QED BY <1>1, <1>2, <1>4 DEF E

LEMMA DictIsTheMapsNext ==
  ASSUME IInv'
  PROVE  /\ dict' = DictOf(Ents(table'))
         /\ \A e, f \in Ents(table') : e.key = f.key => e = f
<1>1. Entries' = Ents(table')
  BY DEF Entries, Ents, LiveSlots
<1>2. dict' = DictOf(Entries')
  BY DEF dict, DictOf
<1>3. OneSlotPerKey(table')
  BY DEF IInv, Shape, Good, OneSlotPerKey, LiveSlots
<1> QED BY <1>1, <1>2, <1>3 DEF OneSlotPerKey, Ents

LEMMA EmptyDict == DictOf({}) = << >>
BY DEF DictOf

\* A put of the code is a put of the dictionary, or nothing.
LEMMA PutPuts ==
  ASSUME IInv, IInv', NEW k \in Keys, Put(k)
  PROVE  (\E v \in Values : D!Put(k, v)) \/ UNCHANGED D!vars
<1> DEFINE E == Ents(table)
           F == Ents(table')
           v == puts + 1
<1>1. v \in Values /\ v \in Nat
  <2>1. puts \in Nat /\ puts < MaxPuts
    BY DEF Put, IInv, Shape
  <2> QED BY <2>1, HashMapAssumption DEF Values
<1>2. /\ dict = DictOf(E) /\ \A e, f \in E : e.key = f.key => e = f
      /\ D!Held(k) = ValuesOf({e \in E : e.key = k})
  BY DictIsTheMaps
<1>3. dict' = DictOf(F) /\ \A e, f \in F : e.key = f.key => e = f
  BY DictIsTheMapsNext
<1>4. Changes({k}, {Entry(k, v)}) \/ Forever
  BY PutKeeps
<1>5. Entry(k, v).key = k /\ Entry(k, v).value = v
  BY <1>1, EntryIsLive
<1>6. CASE Changes({k}, {Entry(k, v)})
  <2>1. F = {e \in E : e.key # k} \cup {Entry(k, v)}
    BY <1>6 DEF Changes
  <2>2. freed' = freed \cup D!Held(k)
    <3>1. {e \in E : e.key \in {k}} = {e \in E : e.key = k}
      OBVIOUS
    <3> QED BY <1>2, <1>6, <3>1 DEF Changes, GiveBack
  <2> HIDE DEF E, F, v
  <2>3. {e.key : e \in F} = {e.key : e \in E} \cup {k}
    BY <1>5, <2>1
  <2>4. /\ DOMAIN dict = {e.key : e \in E} /\ \A e \in E : dict[e.key] = e.value
        /\ dict' = [j \in {e.key : e \in F} |-> dict'[j]] /\ \A e \in F : dict'[e.key] = e.value
    BY <1>2, <1>3, DictIs
  <2>5. ASSUME NEW j \in {e.key : e \in F} PROVE dict'[j] = IF j = k THEN v ELSE dict[j]
    <3>1. PICK e \in F : e.key = j
      OBVIOUS
    <3> QED BY <1>5, <2>1, <2>4, <3>1
  <2>6. dict' = [j \in DOMAIN dict \cup {k} |-> IF j = k THEN v ELSE dict[j]]
    BY <2>3, <2>4, <2>5
  <2> QED BY <1>1, <2>2, <2>6 DEF D!Put
<1>7. CASE Forever
  <2>1. freed' = freed /\ E = F
    BY <1>7 DEF Forever, Ents, LiveSlots
  <2> QED BY <1>2, <1>3, <2>1 DEF D!vars
<1> QED BY <1>4, <1>6, <1>7

LEMMA RemoveRemoves ==
  ASSUME IInv, IInv', NEW k \in Keys, RemoveKey(k)
  PROVE  D!Remove(k) \/ UNCHANGED D!vars
<1> DEFINE E == Ents(table)
           F == Ents(table')
<1>2. /\ dict = DictOf(E) /\ \A e, f \in E : e.key = f.key => e = f
      /\ D!Held(k) = ValuesOf({e \in E : e.key = k})
  BY DictIsTheMaps
<1>3. dict' = DictOf(F) /\ \A e, f \in F : e.key = f.key => e = f
  BY DictIsTheMapsNext
<1>4. Changes({k}, {}) \/ Forever
  BY RemoveKeeps
<1>6. CASE Changes({k}, {})
  <2>1. F = {e \in E : e.key # k}
    BY <1>6 DEF Changes
  <2>2. freed' = freed \cup D!Held(k)
    <3>1. {e \in E : e.key \in {k}} = {e \in E : e.key = k}
      OBVIOUS
    <3> QED BY <1>2, <1>6, <3>1 DEF Changes, GiveBack
  <2> HIDE DEF E, F
  <2>3. {e.key : e \in F} = {e.key : e \in E} \ {k}
    BY <2>1
  <2>4. /\ DOMAIN dict = {e.key : e \in E} /\ \A e \in E : dict[e.key] = e.value
        /\ dict' = [j \in {e.key : e \in F} |-> dict'[j]] /\ \A e \in F : dict'[e.key] = e.value
    BY <1>2, <1>3, DictIs
  <2>5. ASSUME NEW j \in {e.key : e \in F} PROVE dict'[j] = dict[j]
    <3>1. PICK e \in F : e.key = j
      OBVIOUS
    <3> QED BY <2>1, <2>4, <3>1
  <2>6. dict' = [j \in DOMAIN dict \ {k} |-> dict[j]]
    BY <2>3, <2>4, <2>5
  <2>7. dict' = D!Restrict(dict, DOMAIN dict \ {k})
    BY <2>6 DEF D!Restrict
  <2> QED BY <2>2, <2>7 DEF D!Remove
<1>7. CASE Forever
  <2>1. freed' = freed /\ E = F
    BY <1>7 DEF Forever, Ents, LiveSlots
  <2> QED BY <1>2, <1>3, <2>1 DEF D!vars
<1> QED BY <1>4, <1>6, <1>7

LEMMA FreeFrees ==
  ASSUME IInv, IInv', Free
  PROVE  D!Free
<1> DEFINE E == Ents(table)
<1>1. /\ dict = DictOf(E) /\ \A e, f \in E : e.key = f.key => e = f
  BY DictIsTheMaps
<1>2. table' = NoTable /\ GiveBack(ValuesOf(E))
  <2>1. {table[i].value : i \in LiveSlots(table)} = ValuesOf(E)
    BY DEF ValuesOf, Ents
  <2> QED BY <2>1 DEF Free
<1>3. dict' = DictOf({})
  <2>1. dict' = DictOf(Ents(table'))
    BY DictIsTheMapsNext
  <2> QED BY <1>2, <2>1, NoTableIs
<1> HIDE DEF E
<1>4. {dict[k] : k \in DOMAIN dict} = ValuesOf(E)
  <2>1. DOMAIN dict = {e.key : e \in E} /\ \A e \in E : dict[e.key] = e.value
    BY <1>1, DictIs
  <2>2. ASSUME NEW x \in {dict[k] : k \in DOMAIN dict} PROVE x \in ValuesOf(E)
    BY <2>1 DEF ValuesOf
  <2>3. ASSUME NEW x \in ValuesOf(E) PROVE x \in {dict[k] : k \in DOMAIN dict}
    BY <2>1 DEF ValuesOf
  <2> QED BY <2>2, <2>3
<1> QED BY <1>2, <1>3, <1>4, EmptyDict DEF D!Free, GiveBack

\* Every behaviour of the map is one of the dictionary: map_put, map_remove
\* and map_free change keys, values and what is freed as it says, whatever
\* collides, is buried or is moved by growing.
THEOREM MapIsADictionary == Spec => IsDictionary
<1>1. Init => D!Init
  <2> SUFFICES ASSUME Init PROVE D!Init
    OBVIOUS
  <2>1. Entries = {}
    BY NoTableIs DEF Init, Entries, Ents
  <2>2. dict = DictOf({}) /\ freed = {}
    BY <2>1 DEF dict, DictOf, Init
  <2> QED BY <2>2, EmptyDict DEF D!Init
<1>2. IInv /\ IInv' /\ [Next]_vars => [D!Next]_(D!vars)
  <2> SUFFICES ASSUME IInv, IInv', [Next]_vars PROVE [D!Next]_(D!vars)
    OBVIOUS
  <2>1. CASE Next
    BY <2>1, PutPuts, RemoveRemoves, FreeFrees DEF Next, D!Next
  <2>2. CASE UNCHANGED vars
    BY <2>2 DEF vars, D!vars, dict, Entries, LiveSlots
  <2> QED BY <2>1, <2>2
<1> QED BY <1>1, <1>2, Invariant, PTL DEF Spec, D!Spec, IsDictionary

-----------------------------------------------------------------------------
(* Texts that are put together out of texts.                              *)

\* f is what has been joined after each of the texts ss
Joins(f, ss) ==
  f[0] = << >> /\ \A i \in 1..Len(ss) : f[i] = f[i - 1] \o ss[i]

Joined(f, ss, S) ==
  Joins(f, ss) /\ f[Len(ss)] = FlattenSeq(ss) /\ \A i \in 0..Len(ss) : f[i] \in Seq(S)

LEMMA FlattenIs ==
  ASSUME NEW S, NEW ss \in Seq(Seq(S))
  PROVE  \E f : Joined(f, ss, S)
<1> DEFINE n == Len(ss)
           V == Seq(S)
           F == [i \in 1..n |-> [x \in V |-> x \o ss[i]]]
           Def(g) == g = [i \in 1..n |-> IF i = 1 THEN ss[i] ELSE g[i - 1] \o ss[i]]
           h == CHOOSE g : Def(g)
<1>0. n \in Nat /\ \A i \in 1..n : ss[i] \in V
  OBVIOUS
<1>1. << >> \in V /\ \A i \in 1..n, x \in V : x \o ss[i] \in V
  BY <1>0
<1>2. F \in [1..n -> [V -> V]]
  BY <1>1
<1> HIDE DEF F
<1>3. PICK f \in [0..n -> V] : f[0] = << >> /\ \A i \in 1..n : f[i] = F[i][f[i - 1]]
  <2>1. IsDefined(n, V, << >>, F)
    BY <1>0, <1>1, <1>2, Recursion
  <2> QED BY <2>1 DEF IsDefined
<1>4. ASSUME NEW i \in 1..n PROVE i - 1 \in 0..n /\ f[i - 1] \in V /\ f[i] = f[i - 1] \o ss[i]
  <2>1. i - 1 \in 0..n
    OBVIOUS
  <2>2. f[i - 1] \in V
    BY <2>1
  <2> QED BY <1>3, <2>1, <2>2 DEF F
<1>5. Joins(f, ss)
  BY <1>3, <1>4 DEF Joins
<1>6. CASE n = 0
  <2>1. FlattenSeq(ss) = << >>
    BY <1>6 DEF FlattenSeq
  <2>2. f[Len(ss)] = << >>
    BY <1>3, <1>6
  <2> QED BY <1>5, <2>1, <2>2 DEF Joined
<1>7. CASE n # 0
  <2>1. n \in 1..n /\ 1 \in 1..n
    BY <1>0, <1>7
  <2> DEFINE k == [i \in 1..n |-> f[i]]
  <2>2. ASSUME NEW i \in 1..n
        PROVE  k[i] = IF i = 1 THEN ss[i] ELSE k[i - 1] \o ss[i]
    <3>1. CASE i = 1
      <4>0. i - 1 = 0
        BY <3>1
      <4>1. f[i] = f[0] \o ss[i] /\ ss[i] \in V
        BY <1>4, <1>0, <4>0
      <4> QED BY <4>1, <1>3, <3>1, ConcatEmptySeq
    <3>2. CASE i # 1
      <4>1. i - 1 \in 1..n
        BY <3>2
      <4>2. k[i - 1] = f[i - 1]
        BY <4>1
      <4> QED BY <1>4, <4>2, <3>2
    <3> QED BY <3>1, <3>2
  <2>3. Def(k)
    BY <2>2
  <2> HIDE DEF k
  <2>4. Def(h)
    <3> HIDE DEF Def
    <3> QED BY <2>3
  <2>5. FlattenSeq(ss) = h[n]
    BY <1>7 DEF FlattenSeq
  <2> HIDE DEF h
  <2> DEFINE T == {i \in 0..n : i = 0 \/ h[i] = f[i]}
  <2>6. 0 \in T
    BY <1>0
  <2>7. ASSUME NEW i \in 1..n, i - 1 \in T PROVE i \in T
    <3>1. h[i] = IF i = 1 THEN ss[i] ELSE h[i - 1] \o ss[i]
      BY <2>4
    <3>2. CASE i = 1
      <4>0. i - 1 = 0
        BY <3>2
      <4>1. f[i] = f[0] \o ss[i] /\ ss[i] \in V
        BY <1>4, <1>0, <4>0
      <4>2. h[i] = f[i]
        BY <4>1, <1>3, <3>1, <3>2, ConcatEmptySeq
      <4> QED BY <4>2
    <3>3. CASE i # 1
      <4>1. h[i - 1] = f[i - 1]
        BY <2>7, <3>3
      <4>2. h[i] = f[i]
        BY <4>1, <1>4, <3>1, <3>3
      <4> QED BY <4>2
    <3> QED BY <3>2, <3>3
  <2> HIDE DEF T
  <2>8. \A i \in 0..n : i \in T
    BY <1>0, <2>6, <2>7, UpTo
  <2>9. h[n] = f[n]
    BY <1>0, <1>7, <2>8 DEF T
  <2> QED BY <1>5, <2>5, <2>9 DEF Joined
<1> QED BY <1>6, <1>7

\* What is joined after n texts depends on those texts only
LEMMA JoinsAgree ==
  ASSUME NEW ss, NEW tt, NEW f, NEW g, Joins(f, ss), Joins(g, tt), NEW n \in Nat,
         n <= Len(ss), n <= Len(tt), Len(ss) \in Nat, Len(tt) \in Nat,
         \A i \in 1..n : ss[i] = tt[i]
  PROVE  f[n] = g[n]
<1> DEFINE S == {i \in 0..n : f[i] = g[i]}
<1>1. 0 \in S
  BY DEF Joins
<1>2. ASSUME NEW i \in 1..n, i - 1 \in S PROVE i \in S
  <2>1. i \in 1..Len(ss) /\ i \in 1..Len(tt)
    OBVIOUS
  <2>2. f[i] = f[i - 1] \o ss[i] /\ g[i] = g[i - 1] \o tt[i]
    BY <2>1 DEF Joins
  <2>3. ss[i] = tt[i] /\ f[i - 1] = g[i - 1] /\ i \in 0..n
    BY <1>2
  <2>4. f[i] = g[i]
    BY <2>2, <2>3
  <2> QED BY <2>3, <2>4
<1> HIDE DEF S
<1>3. \A i \in 0..n : i \in S
  BY <1>1, <1>2, UpTo
<1> QED BY <1>3 DEF S

LEMMA FlattenType ==
  ASSUME NEW S, NEW ss \in Seq(Seq(S))
  PROVE  FlattenSeq(ss) \in Seq(S)
<1>1. PICK f : Joined(f, ss, S)
  BY FlattenIs
<1>2. Len(ss) \in 0..Len(ss)
  OBVIOUS
<1> QED BY <1>1, <1>2 DEF Joined

LEMMA FlattenEmpty == FlattenSeq(<< >>) = << >>
BY DEF FlattenSeq

LEMMA FlattenAppend ==
  ASSUME NEW S, NEW ss \in Seq(Seq(S)), NEW x \in Seq(S)
  PROVE  FlattenSeq(Append(ss, x)) = FlattenSeq(ss) \o x
<1>a. PICK n, tt : n = Len(ss) /\ tt = Append(ss, x)
  OBVIOUS
<1>0. /\ tt \in Seq(Seq(S)) /\ n \in Nat /\ Len(tt) = n + 1
      /\ \A i \in 1..n : ss[i] = tt[i]
      /\ tt[n + 1] = x
  BY <1>a, AppendProperties
<1>1. PICK f : Joined(f, ss, S)
  BY FlattenIs
<1>2. PICK g : Joined(g, tt, S)
  BY <1>0, FlattenIs
<1>3. f[n] = g[n]
  <2>1. n <= Len(ss) /\ n <= Len(tt) /\ Len(ss) \in Nat /\ Len(tt) \in Nat
    BY <1>a, <1>0
  <2>2. Joins(f, ss) /\ Joins(g, tt)
    BY <1>1, <1>2 DEF Joined
  <2> QED BY <1>0, <2>1, <2>2, JoinsAgree
<1>4. g[n + 1] = g[n] \o x
  <2>1. n + 1 \in 1..Len(tt) /\ (n + 1) - 1 = n
    BY <1>0
  <2> QED BY <1>0, <1>2, <2>1 DEF Joined, Joins
<1>5. f[n] = FlattenSeq(ss) /\ g[n + 1] = FlattenSeq(tt)
  BY <1>a, <1>0, <1>1, <1>2 DEF Joined
<1> QED BY <1>a, <1>3, <1>4, <1>5

LEMMA FlattenOne ==
  ASSUME NEW S, NEW x \in Seq(S)
  PROVE  FlattenSeq(<<x>>) = x
<1>1. << >> \in Seq(Seq(S)) /\ <<x>> = Append(<< >>, x)
  OBVIOUS
<1>2. FlattenSeq(<<x>>) = FlattenSeq(<< >>) \o x
  BY <1>1, FlattenAppend
<1> QED BY <1>2, FlattenEmpty, ConcatEmptySeq

LEMMA FlattenConcat ==
  ASSUME NEW S, NEW ss \in Seq(Seq(S)), NEW tt \in Seq(Seq(S))
  PROVE  FlattenSeq(ss \o tt) = FlattenSeq(ss) \o FlattenSeq(tt)
<1>a. PICK m, n, uu : m = Len(ss) /\ n = Len(tt) /\ uu = ss \o tt
  OBVIOUS
<1>0. /\ uu \in Seq(Seq(S)) /\ m \in Nat /\ n \in Nat /\ Len(uu) = m + n
      /\ \A i \in 1..m + n : uu[i] = IF i <= m THEN ss[i] ELSE tt[i - m]
  BY <1>a, ConcatProperties
<1>b. \A i \in 1..m : uu[i] = ss[i]
  BY <1>0
<1>c. ASSUME NEW i \in 1..n PROVE uu[m + i] = tt[i]
  <2>1. m + i \in 1..m + n /\ ~(m + i <= m) /\ (m + i) - m = i
    BY <1>0
  <2> QED BY <1>0, <2>1
<1>1. PICK f : Joined(f, ss, S)
  BY FlattenIs
<1>2. PICK g : Joined(g, tt, S)
  BY FlattenIs
<1>3. PICK h : Joined(h, uu, S)
  BY <1>0, FlattenIs
<1>4. h[m] = f[m]
  <2>1. m <= Len(uu) /\ m <= Len(ss) /\ Len(ss) \in Nat /\ Len(uu) \in Nat
    BY <1>a, <1>0
  <2>2. Joins(f, ss) /\ Joins(h, uu)
    BY <1>1, <1>3 DEF Joined
  <2>3. m \in Nat
    BY <1>0
  <2> QED BY <1>b, <2>1, <2>2, <2>3, JoinsAgree
<1>5. PICK x : x = f[m]
  OBVIOUS
<1>6. x \in Seq(S) /\ x = FlattenSeq(ss) /\ g[0] = << >> /\ m + 0 = m
  <2>1. m \in 0..Len(ss)
    BY <1>a, <1>0
  <2> QED BY <1>a, <1>0, <1>1, <1>2, <1>5, <2>1 DEF Joined, Joins
<1>7. h[m + 0] = x \o g[0]
  BY <1>4, <1>5, <1>6, ConcatEmptySeq
<1>8. ASSUME NEW i \in 1..n, h[m + (i - 1)] = x \o g[i - 1]
      PROVE  h[m + i] = x \o g[i]
  <2>1. /\ m + i \in 1..Len(uu) /\ (m + i) - 1 = m + (i - 1)
        /\ i - 1 \in 0..Len(tt) /\ i \in 1..Len(tt)
    BY <1>a, <1>0
  <2>2. h[m + i] = h[m + (i - 1)] \o tt[i]
    <3>1. h[m + i] = h[(m + i) - 1] \o uu[m + i]
      BY <1>3, <2>1 DEF Joined, Joins
    <3> QED BY <1>c, <2>1, <3>1
  <2>3. g[i] = g[i - 1] \o tt[i]
    BY <1>2, <2>1 DEF Joined, Joins
  <2>4. PICK y, z : y = g[i - 1] /\ z = tt[i]
    OBVIOUS
  <2>5. y \in Seq(S) /\ z \in Seq(S)
    <3>1. tt[i] \in Seq(S)
      BY <2>1, ElementOfSeq
    <3> QED BY <1>2, <2>1, <2>4, <3>1 DEF Joined
  <2>6. (x \o y) \o z = x \o (y \o z)
    BY <1>6, <2>5, ConcatAssociative
  <2> QED BY <1>8, <2>2, <2>3, <2>4, <2>6
<1> DEFINE T == {i \in 0..n : h[m + i] = x \o g[i]}
<1>9. 0 \in T /\ \A i \in 1..n : i - 1 \in T => i \in T
  <2>1. 0 \in T
    BY <1>0, <1>7
  <2>2. ASSUME NEW i \in 1..n, i - 1 \in T PROVE i \in T
    <3>1. h[m + (i - 1)] = x \o g[i - 1] /\ i \in 0..n
      BY <2>2
    <3>2. h[m + i] = x \o g[i]
      BY <1>8, <3>1
    <3> QED BY <3>1, <3>2
  <2> QED BY <2>1, <2>2
<1> HIDE DEF T
<1>10. \A i \in 0..n : i \in T
  BY <1>0, <1>9, UpTo
<1>11. h[m + n] = x \o g[n]
  BY <1>0, <1>10 DEF T
<1>12. h[m + n] = FlattenSeq(uu) /\ g[n] = FlattenSeq(tt)
  BY <1>a, <1>0, <1>2, <1>3 DEF Joined
<1> QED BY <1>a, <1>6, <1>11, <1>12

LEMMA FlattenFirst ==
  ASSUME NEW S, NEW x \in Seq(S), NEW ss \in Seq(Seq(S))
  PROVE  FlattenSeq(<<x>> \o ss) = x \o FlattenSeq(ss)
<1>1. <<x>> \in Seq(Seq(S))
  OBVIOUS
<1>2. FlattenSeq(<<x>> \o ss) = FlattenSeq(<<x>>) \o FlattenSeq(ss)
  BY <1>1, FlattenConcat
<1> QED BY <1>2, FlattenOne

-----------------------------------------------------------------------------
(* The wording, and what is framed with it.                                *)

LEMMA Wordings ==
  /\ NL \in Said
  /\ \A n \in Wording : Lit[n] \in Said /\ Lit[n] # << >>
BY TextsAssumption DEF NL, Said

LEMMA Joined3 ==
  ASSUME NEW a \in Said, NEW b \in Said, NEW c \in Said
  PROVE  a \o b \o c \in Said /\ a \o b \o c = a \o (b \o c)
BY ConcatAssociative DEF Said

LEMMA OneMore ==
  ASSUME NEW x \in Said, NEW p \in Said, NEW c \in Said
  PROVE  p \o c \in Said /\ (x \o p) \o c = x \o (p \o c)
BY ConcatAssociative DEF Said

LEMMA OneMoreIs ==
  ASSUME NEW x \in Said, NEW p \in Said, NEW c \in Said
  PROVE  (x \o p) \o c = x \o (p \o c)
BY OneMore

LEMMA OneMoreIn ==
  ASSUME NEW p \in Said, NEW c \in Said
  PROVE  p \o c \in Said
BY DEF Said

LEMMA Joined3In ==
  ASSUME NEW a \in Said, NEW b \in Said, NEW c \in Said
  PROVE  a \o b \o c \in Said
<1>1. PICK p \in Said : p = a \o b
  BY OneMoreIn
<1>2. p \o c \in Said
  BY OneMoreIn
<1> QED BY <1>1, <1>2

LEMMA Joined4In ==
  ASSUME NEW x \in Said, NEW a \in Said, NEW b \in Said, NEW c \in Said
  PROVE  x \o a \o b \o c \in Said
<1>1. PICK p \in Said : p = x \o a \o b
  BY Joined3In
<1>2. p \o c \in Said
  BY OneMoreIn
<1> QED BY <1>1, <1>2

\* What is joined to the front of a text may be joined to its parts one by one
FourParts(x, a, b, c) == x \o a \o b \o c = x \o (a \o b \o c)
ThreeParts(x, a, b) == (x \o a) \o b = x \o (a \o b)

LEMMA ThreePartsAre ==
  ASSUME NEW x \in Said, NEW a \in Said, NEW b \in Said
  PROVE  ThreeParts(x, a, b)
BY OneMoreIs DEF ThreeParts

LEMMA FourPartsAre ==
  ASSUME NEW x \in Said, NEW a \in Said, NEW b \in Said, NEW c \in Said
  PROVE  FourParts(x, a, b, c)
<1>1. PICK p \in Said : p = a \o b
  BY OneMoreIn
<1>2. x \o a \o b = x \o p
  BY <1>1, OneMoreIs
<1>3. (x \o p) \o c = x \o (p \o c)
  BY OneMoreIs
<1> QED BY <1>1, <1>2, <1>3 DEF FourParts

\* Frames of eight parts; the parts are texts, one fact for all of them
Parts(x, a, b, c, d, e, f, g) ==
  {x, a, b, c, d, e, f, g} \subseteq Said

Flat(x, a, b, c, d, e, f, g) == x \o a \o b \o c \o d \o e \o f \o g
Rest(a, b, c, d, e, f, g) == a \o b \o c \o d \o e \o f \o g

\* What follows the first part of a frame, put together
LEMMA Regroup ==
  ASSUME NEW x, NEW a, NEW b, NEW c, NEW d, NEW e, NEW f, NEW g, Parts(x, a, b, c, d, e, f, g)
  PROVE  /\ Flat(x, a, b, c, d, e, f, g) = x \o Rest(a, b, c, d, e, f, g)
         /\ Rest(a, b, c, d, e, f, g) \in Said
<1>0. PICK x0 : x0 = x \o a
  OBVIOUS
<1>19. x \in Said /\ a \in Said
  BY DEF Parts
<1>1. PICK p1 : p1 = a \o b
  OBVIOUS
<1>2. PICK x1 : x1 = x0 \o b
  OBVIOUS
<1>3. p1 \in Said /\ x1 = x \o p1
  <2>1. x \in Said /\ a \in Said /\ b \in Said
    BY <1>19 DEF Parts
  <2> QED BY <1>0, <1>19, <1>1, <1>2, <2>1, OneMore
<1>4. PICK p2 : p2 = p1 \o c
  OBVIOUS
<1>5. PICK x2 : x2 = x1 \o c
  OBVIOUS
<1>6. p2 \in Said /\ x2 = x \o p2
  <2>1. x \in Said /\ p1 \in Said /\ c \in Said
    BY <1>3 DEF Parts
  <2> QED BY <1>3, <1>4, <1>5, <2>1, OneMore
<1>7. PICK p3 : p3 = p2 \o d
  OBVIOUS
<1>8. PICK x3 : x3 = x2 \o d
  OBVIOUS
<1>9. p3 \in Said /\ x3 = x \o p3
  <2>1. x \in Said /\ p2 \in Said /\ d \in Said
    BY <1>6 DEF Parts
  <2> QED BY <1>6, <1>7, <1>8, <2>1, OneMore
<1>10. PICK p4 : p4 = p3 \o e
  OBVIOUS
<1>11. PICK x4 : x4 = x3 \o e
  OBVIOUS
<1>12. p4 \in Said /\ x4 = x \o p4
  <2>1. x \in Said /\ p3 \in Said /\ e \in Said
    BY <1>9 DEF Parts
  <2> QED BY <1>9, <1>10, <1>11, <2>1, OneMore
<1>13. PICK p5 : p5 = p4 \o f
  OBVIOUS
<1>14. PICK x5 : x5 = x4 \o f
  OBVIOUS
<1>15. p5 \in Said /\ x5 = x \o p5
  <2>1. x \in Said /\ p4 \in Said /\ f \in Said
    BY <1>12 DEF Parts
  <2> QED BY <1>12, <1>13, <1>14, <2>1, OneMore
<1>16. PICK p6 : p6 = p5 \o g
  OBVIOUS
<1>17. PICK x6 : x6 = x5 \o g
  OBVIOUS
<1>18. p6 \in Said /\ x6 = x \o p6
  <2>1. x \in Said /\ p5 \in Said /\ g \in Said
    BY <1>15 DEF Parts
  <2> QED BY <1>15, <1>16, <1>17, <2>1, OneMore
<1> QED BY <1>0, <1>1, <1>2, <1>3, <1>4, <1>5, <1>6, <1>7, <1>8, <1>9, <1>10, <1>11, <1>12, <1>13, <1>14, <1>15, <1>16, <1>17, <1>18 DEF Flat, Rest

LEMMA Framing ==
  /\ \A role \in {"system", "user", "assistant"} : Open(role) \in Said
  /\ Close \in Said
  /\ \A think \in BOOLEAN : jinja_emit_gen_prompt(think) \in Said
<1>1. \A role \in {"system", "user", "assistant"} : Open(role) \in Said
  <2>1. Lit.im_start \in Said /\ NL \in Said
    BY Wordings DEF Wording
  <2>2. ASSUME NEW role \in {"system", "user", "assistant"} PROVE Open(role) \in Said
    <3>1. Lit[role] \in Said
      BY Wordings DEF Wording
    <3> QED BY <2>1, <3>1, Joined3 DEF Open
  <2> QED BY <2>2
<1>2. Close \in Said
  BY Wordings DEF Close, Wording, Said
<1>3. ASSUME NEW think \in BOOLEAN PROVE jinja_emit_gen_prompt(think) \in Said
  <2>1. Lit.think \in Said /\ Lit.end_think \in Said /\ NL \in Said /\ Open("assistant") \in Said
    BY <1>1, Wordings DEF Wording
  <2>2. Open("assistant") \o Lit.think \o NL \in Said /\ NL \o Lit.end_think \o NL \in Said
    BY <2>1, Joined3
  <2>3. NL \o Lit.end_think \o NL \o NL \in Said /\ << >> \in Said
    BY <2>1, <2>2 DEF Said
  <2> QED BY <2>2, <2>3 DEF jinja_emit_gen_prompt, Said
<1> QED BY <1>1, <1>2, <1>3

ThreeTexts(a, b, c) == Cat(<<a, b, c>>) = a \o b \o c

LEMMA ThreeTextsAre ==
  ASSUME NEW S, NEW a \in Seq(S), NEW b \in Seq(S), NEW c \in Seq(S)
  PROVE  ThreeTexts(a, b, c)
<1>1. <<a>> \in Seq(Seq(S)) /\ <<a, b>> \in Seq(Seq(S))
  OBVIOUS
<1>2. <<a, b>> = Append(<<a>>, b) /\ <<a, b, c>> = Append(<<a, b>>, c)
  OBVIOUS
<1>3. FlattenSeq(<<a, b>>) = FlattenSeq(<<a>>) \o b
  BY <1>1, <1>2, FlattenAppend
<1>4. FlattenSeq(<<a, b, c>>) = FlattenSeq(<<a, b>>) \o c
  BY <1>1, <1>2, FlattenAppend
<1> QED BY <1>3, <1>4, FlattenOne DEF ThreeTexts, Cat

LEMMA NoInk == Trimmed(<< >>) = << >>
BY DEF Trimmed

\* A message without text has neither text nor thinking behind a marker
LEMMA NothingSaid ==
  ASSUME NEW word \in Said, word # << >>
  PROVE  Places(word, << >>) = {}
<1>1. Len(<< >>) = 0 /\ Len(word) \in Nat /\ Len(word) > 0
  BY EmptySeq DEF Said
<1> QED BY <1>1 DEF Places

-----------------------------------------------------------------------------
(* A first turn, rendered as a whole.                                      *)

LEMMA FrontOfUser ==
  ASSUME NEW msgs_, msgs_[1].role = "user"
  PROVE  Prelude(msgs_, << >>) = << >>
BY DEF Prelude

LEMMA DeltaIs ==
  ASSUME NEW u \in Said, NEW think \in BOOLEAN
  PROVE  /\ Open("user") \o u \o Close \in Said
         /\ jinja_format_turn_delta(u, think)
              = (Open("user") \o u \o Close) \o jinja_emit_gen_prompt(think)
BY Framing, Joined3 DEF jinja_format_turn_delta

LEMMA OneFrame ==
  ASSUME NEW S, NEW x \in S, NEW f, f = [i \in 1..1 |-> f[i]], f[1] = x
  PROVE  f = <<x>>
<1>1. f \in Seq(S) /\ Len(f) = 1
  <2>1. \A i \in 1..1 : f[i] \in S
    OBVIOUS
  <2> QED BY <2>1
<1>2. <<x>> \in Seq(S) /\ Len(<<x>>) = 1
  OBVIOUS
<1>3. \A i \in 1..1 : f[i] = <<x>>[i]
  OBVIOUS
<1> QED BY <1>1, <1>2, <1>3, SeqEqual

LEMMA ThreeFrames ==
  ASSUME NEW S, NEW x \in S, NEW y \in S, NEW z \in S, NEW f, f = [i \in 1..3 |-> f[i]],
         f[1] = x, f[2] = y, f[3] = z
  PROVE  f = <<x, y, z>>
<1>1. f \in Seq(S) /\ Len(f) = 3
  <2>1. \A i \in 1..3 : f[i] \in S
    OBVIOUS
  <2> QED BY <2>1
<1>2. <<x, y, z>> \in Seq(S) /\ Len(<<x, y, z>>) = 3
  OBVIOUS
<1>3. \A i \in 1..3 : f[i] = <<x, y, z>>[i]
  OBVIOUS
<1> QED BY <1>1, <1>2, <1>3, SeqEqual

LEMMA AskedIs ==
  ASSUME NEW u \in Said, NEW think \in BOOLEAN, Trimmed(u) = u
  PROVE  jinja_apply(<<Message("user", u, << >>)>>, << >>, TRUE, think)
           = jinja_format_turn_delta(u, think)
<1> DEFINE ms == <<Message("user", u, << >>)>>
           frame == Open("user") \o u \o Close
           frames == [i \in DOMAIN ms |-> jinja_emit_message(ms, i)]
<1>1. ms[1].role = "user" /\ ms[1].content = u /\ DOMAIN ms = 1..1
  BY DEF Message
<1>2. jinja_emit_message(ms, 1) = frame
  BY <1>1 DEF jinja_emit_message
<1>3. frame \in Said
  BY DeltaIs
<1>4. Prelude(ms, << >>) = << >>
  BY <1>1, FrontOfUser
<1>5. frames = [i \in 1..1 |-> frames[i]] /\ frames[1] = frame
  <2> HIDE DEF ms, frame
  <2>1. frames[1] = frame
    BY <1>1, <1>2
  <2>2. frames = [i \in 1..1 |-> frames[i]]
    BY <1>1
  <2> QED BY <2>1, <2>2
<1>6. jinja_apply(ms, << >>, TRUE, think)
        = Prelude(ms, << >>) \o Cat(frames) \o jinja_emit_gen_prompt(think)
  BY DEF jinja_apply
<1> HIDE DEF ms, frame, frames
<1>7. frames = <<frame>>
  BY <1>3, <1>5, OneFrame
<1>8. Cat(frames) = frame
  BY <1>3, <1>7, FlattenOne DEF Cat, Said
<1>9. << >> \o frame = frame
  BY <1>3, ConcatEmptySeq DEF Said
<1> QED BY <1>4, <1>6, <1>8, <1>9, DeltaIs DEF ms, frame

LEMMA NoText == << >> \in Said /\ \A x \in Said : x \o << >> = x /\ << >> \o x = x
BY EmptySeq, ConcatEmptySeq DEF Said

\* The prompt for an answer that is not thought about
LEMMA ClosedThinking ==
  Open("assistant")
    \o (Lit.think \o NL \o << >> \o NL \o Lit.end_think \o NL \o NL)
    = jinja_emit_gen_prompt(FALSE)
<1>1. PICK o, t, e : o = Open("assistant") /\ t = Lit.think /\ e = Lit.end_think
  OBVIOUS
<1>2. o \in Said /\ t \in Said /\ e \in Said /\ NL \in Said /\ << >> \in Said
  BY <1>1, Framing, Wordings, NoText DEF Wording
<1>3. Parts(o, t, NL, << >>, NL, e, NL, NL)
  BY <1>2 DEF Parts
<1>4. o \o (t \o NL \o << >> \o NL \o e \o NL \o NL)
        = o \o t \o NL \o << >> \o NL \o e \o NL \o NL
  <2>1. Flat(o, t, NL, << >>, NL, e, NL, NL) = o \o Rest(t, NL, << >>, NL, e, NL, NL)
    BY <1>3, Regroup
  <2> QED BY <2>1 DEF Flat, Rest
<1>5. PICK p : p = o \o t \o NL
  OBVIOUS
<1>6. p \in Said
  BY <1>2, <1>5, Joined3In
<1>7. p \o << >> = p
  BY <1>6, NoText
<1>9. /\ p \o NL \o e \o NL = p \o (NL \o e \o NL)
      /\ NL \o e \o NL \in Said
  <2>1. FourParts(p, NL, e, NL)
    BY <1>2, <1>6, FourPartsAre
  <2>2. NL \o e \o NL \in Said
    BY <1>2, Joined3In
  <2> QED BY <2>1, <2>2 DEF FourParts
<1>10. (p \o (NL \o e \o NL)) \o NL = p \o ((NL \o e \o NL) \o NL)
  <2>1. PICK q \in Said : q = NL \o e \o NL
    BY <1>9
  <2>2. ThreeParts(p, q, NL)
    BY <1>2, <1>6, ThreePartsAre
  <2> QED BY <2>1, <2>2 DEF ThreeParts
<1>11. jinja_emit_gen_prompt(FALSE) = p \o (NL \o e \o NL \o NL)
  BY <1>1, <1>5 DEF jinja_emit_gen_prompt
<1> QED BY <1>1, <1>4, <1>5, <1>7, <1>9, <1>10, <1>11

\* The model's call, which the template shows as w, put in a message of its
\* own
LEMMA CallIs ==
  ASSUME NEW cs, NEW w \in Said, jinja_emit_tool_calls(cs, FALSE) = w
  PROVE  Assistant(Message("assistant", NULL, cs), TRUE)
           = (jinja_emit_gen_prompt(FALSE) \o w) \o Close
<1> DEFINE m == Message("assistant", NULL, cs)
<1>1. m.content = << >> /\ m.calls = cs
  BY DEF Message, NULL
<1>2. Places(Lit.end_think, << >>) = {}
  BY NothingSaid, Wordings DEF Wording
<1>3. jinja_content_after_think(<< >>) = << >> /\ jinja_extract_reasoning(<< >>) = << >>
  BY <1>2 DEF jinja_content_after_think, jinja_extract_reasoning, NULL
<1>4. jinja_content_visible(<< >>) = FALSE
  BY NoInk DEF jinja_content_visible
<1>5. PICK t : t = Lit.think \o NL \o << >> \o NL \o Lit.end_think \o NL \o NL
  OBVIOUS
<1>6. Assistant(m, TRUE) = Open("assistant") \o t \o Trimmed(<< >>) \o jinja_emit_tool_calls(cs, FALSE) \o Close
  <2> HIDE DEF m
  <2> QED BY <1>1, <1>3, <1>4, <1>5 DEF Assistant
<1>7. Open("assistant") \o t = jinja_emit_gen_prompt(FALSE)
  BY <1>5, ClosedThinking
<1>8. jinja_emit_gen_prompt(FALSE) \o << >> = jinja_emit_gen_prompt(FALSE)
  BY Framing, NoText
<1> QED BY <1>6, <1>7, <1>8, NoInk

Answered(r) == Open("user") \o Lit.response \o NL \o r \o NL \o Lit.end_response \o Close

LEMMA AnsweredIs ==
  ASSUME NEW r \in Said
  PROVE  Answered(r) \in Said
<1>1. PICK o, a, z, c : o = Open("user") /\ a = Lit.response /\ z = Lit.end_response /\ c = Close
  OBVIOUS
<1>2. o \in Said /\ a \in Said /\ z \in Said /\ c \in Said /\ NL \in Said
  BY <1>1, Framing, Wordings DEF Wording
<1>5. PICK p : p = o \o a \o NL \o r \o NL \o z \o c
  OBVIOUS
<1>6. p \in Said
  <2>1. o \o a \o NL \o r \in Said
    BY <1>2, Joined4In
  <2>2. (o \o a \o NL \o r) \o NL \o z \o c \in Said
    BY <1>2, <2>1, Joined4In
  <2> QED BY <1>5, <2>2
<1> QED BY <1>1, <1>5, <1>6 DEF Answered

\* The answer of a tool that follows a call
LEMMA ToolIs ==
  ASSUME NEW ms, ms[2].role = "assistant", ms[3].content = Trimmed(ms[3].content), Len(ms) = 3
  PROVE  Tool(ms, 3) = Answered(ms[3].content)
<1>1. Open("user") = Lit.im_start \o Lit.user \o NL
  BY DEF Open
<1>2. 3 - 1 = 2 /\ ~(3 < 3)
  OBVIOUS
<1> QED BY <1>1, <1>2 DEF Tool, Answered

\* The text that is logged in a round, put together
LEMMA InjectIs ==
  ASSUME NEW c \in Said, NEW r \in Said
  PROVE  Inject(c, r) = ((c \o Close) \o Answered(r)) \o jinja_emit_gen_prompt(FALSE)
<1>1. PICK x, o, a, z, k : /\ x = c \o Close /\ o = Open("user") /\ a = Lit.response
                           /\ z = Lit.end_response /\ k = Close
  OBVIOUS
<1>2. o \in Said /\ a \in Said /\ z \in Said /\ k \in Said /\ NL \in Said
  BY <1>1, Framing, Wordings DEF Wording
<1>3. x \in Said
  BY <1>1, Framing DEF Said
<1>4. Parts(x, o, a, NL, r, NL, z, k)
  BY <1>2, <1>3 DEF Parts
<1>5. Flat(x, o, a, NL, r, NL, z, k) = x \o Rest(o, a, NL, r, NL, z, k)
  BY <1>4, Regroup
<1>6. Rest(o, a, NL, r, NL, z, k) = Answered(r)
  BY <1>1 DEF Rest, Answered
<1>7. Inject(c, r) = Flat(x, o, a, NL, r, NL, z, k) \o jinja_emit_gen_prompt(FALSE)
  BY <1>1 DEF Inject, Flat
<1> QED BY <1>1, <1>5, <1>6, <1>7

\* Two ways to put a turn with a tool round together
Together(f, g, c, k, t) ==
  (f \o ((g \o c) \o k)) \o t \o g = (f \o g) \o (((c \o k) \o t) \o g)

LEMMA RoundTogether ==
  ASSUME NEW f \in Said, NEW g \in Said, NEW c \in Said, NEW k \in Said, NEW t \in Said
  PROVE  Together(f, g, c, k, t)
<1>1. PICK x \in Said : x = f \o g
  BY OneMoreIn
<1>2. PICK p \in Said : p = c \o k \o t
  <2>a. PICK y \in Said : y = c \o k
    BY OneMoreIn
  <2>b. y \o t \in Said
    BY OneMoreIn
  <2>1. c \o k \o t \in Said
    BY <2>a, <2>b
  <2> QED BY <2>1
<1>3. FourParts(f, g, c, k) /\ FourParts(x, c, k, t) /\ ThreeParts(x, p, g)
  BY FourPartsAre, ThreePartsAre
<1>4. f \o (g \o c \o k) = x \o c \o k
  BY <1>1, <1>3 DEF FourParts
<1>5. x \o c \o k \o t = x \o p
  BY <1>2, <1>3 DEF FourParts
<1>6. (x \o p) \o g = x \o (p \o g)
  BY <1>3 DEF ThreeParts
<1> QED BY <1>1, <1>2, <1>4, <1>5, <1>6 DEF Together

LEMMA RoundIs ==
  ASSUME NEW u \in Said, NEW cs, NEW c \in Said, jinja_emit_tool_calls(cs, FALSE) = c,
         NEW r \in Said, Trimmed(u) = u, Trimmed(r) = r, ~jinja_is_tool_response(u)
  PROVE  jinja_apply(<<Message("user", u, << >>), Message("assistant", NULL, cs),
                       Message("tool", r, << >>)>>, << >>, TRUE, FALSE)
           = jinja_format_turn_delta(u, FALSE) \o Inject(c, r)
<1> DEFINE ms == <<Message("user", u, << >>), Message("assistant", NULL, cs),
                   Message("tool", r, << >>)>>
           frame == Open("user") \o u \o Close
           call == (jinja_emit_gen_prompt(FALSE) \o c) \o Close
           frames == [i \in DOMAIN ms |-> jinja_emit_message(ms, i)]
<1>1. /\ ms[1].role = "user" /\ ms[1].content = u
      /\ ms[2].role = "assistant" /\ ms[2] = Message("assistant", NULL, cs)
      /\ ms[3].role = "tool" /\ ms[3].content = r
      /\ Len(ms) = 3
  BY DEF Message
<1>2. DOMAIN ms = 1..3
  <2>1. ms \in Seq({ms[1], ms[2], ms[3]})
    OBVIOUS
  <2> HIDE DEF ms
  <2> QED BY <1>1, <2>1
<1> HIDE DEF ms
<1>3. jinja_find_last_query_index(ms) = 1
  <2>1. Queries(ms) = {1}
    BY <1>1, <1>2 DEF Queries
  <2>2. Max({1}) = 1
    BY DEF Max
  <2> QED BY <2>1, <2>2 DEF jinja_find_last_query_index
<1>4. jinja_emit_message(ms, 1) = frame
  BY <1>1 DEF jinja_emit_message
<1>5. jinja_emit_message(ms, 2) = call
  <2>1. 2 > 1
    OBVIOUS
  <2>2. jinja_emit_message(ms, 2) = Assistant(ms[2], 2 > 1)
    BY <1>1, <1>3 DEF jinja_emit_message
  <2> QED BY <1>1, <2>1, <2>2, CallIs
<1>6. jinja_emit_message(ms, 3) = Answered(r)
  <2>1. Tool(ms, 3) = Answered(r)
    BY <1>1, ToolIs
  <2>2. jinja_emit_message(ms, 3) = Tool(ms, 3)
    BY <1>1 DEF jinja_emit_message
  <2> QED BY <2>1, <2>2
<1>7. frame \in Said /\ call \in Said /\ Answered(r) \in Said
  <2>1. Close \in Said /\ jinja_emit_gen_prompt(FALSE) \in Said
    BY Framing
  <2>2. call \in Said
    BY <2>1, Joined3In
  <2> QED BY <2>2, DeltaIs, AnsweredIs
<1>8. Prelude(ms, << >>) = << >>
  BY <1>1, FrontOfUser
<1>9. jinja_apply(ms, << >>, TRUE, FALSE)
        = Prelude(ms, << >>) \o Cat(frames) \o jinja_emit_gen_prompt(FALSE)
  BY DEF jinja_apply
<1>10. frames = [i \in 1..3 |-> frames[i]] /\ frames[1] = frame /\ frames[2] = call
         /\ frames[3] = Answered(r)
  <2> HIDE DEF frame, call
  <2>1. 1 \in 1..3 /\ 2 \in 1..3 /\ 3 \in 1..3
    OBVIOUS
  <2>2. frames[1] = frame /\ frames[2] = call /\ frames[3] = Answered(r)
    BY <1>2, <1>4, <1>5, <1>6, <2>1
  <2>3. frames = [i \in 1..3 |-> frames[i]]
    BY <1>2
  <2> QED BY <2>2, <2>3
<1> HIDE DEF frame, call, frames
<1>11. frames = <<frame, call, Answered(r)>>
  BY <1>7, <1>10, ThreeFrames
<1>12. Cat(frames) = frame \o call \o Answered(r)
  <2>1. ThreeTexts(frame, call, Answered(r))
    BY <1>7, ThreeTextsAre DEF Said
  <2> QED BY <1>11, <2>1 DEF ThreeTexts
<1>13. Cat(frames) \in Said
  <2>a. PICK y \in Said : y = frame \o call
    BY <1>7, OneMoreIn
  <2>b. y \o Answered(r) \in Said
    BY <1>7, OneMoreIn
  <2>1. frame \o call \o Answered(r) \in Said
    BY <2>a, <2>b
  <2> QED BY <1>12, <2>1
<1>14. << >> \o Cat(frames) = Cat(frames)
  BY <1>13, NoText
<1>15. jinja_apply(ms, << >>, TRUE, FALSE)
         = (frame \o call) \o Answered(r) \o jinja_emit_gen_prompt(FALSE)
  BY <1>8, <1>9, <1>12, <1>14, Zenon
<1>16. jinja_format_turn_delta(u, FALSE) = frame \o jinja_emit_gen_prompt(FALSE)
  BY DeltaIs DEF frame
<1>17. PICK g, cc, k, t : /\ g = jinja_emit_gen_prompt(FALSE) /\ cc = c /\ k = Close
                          /\ t = Answered(r)
  OBVIOUS
<1>18. g \in Said /\ cc \in Said /\ k \in Said /\ t \in Said
  BY <1>7, <1>17, Framing
<1>19. (frame \o ((g \o cc) \o k)) \o t \o g = (frame \o g) \o (((cc \o k) \o t) \o g)
  <2>1. Together(frame, g, cc, k, t)
    BY <1>7, <1>18, RoundTogether
  <2> QED BY <2>1 DEF Together
<1>20. Inject(c, r) = ((cc \o k) \o t) \o g
  BY <1>17, InjectIs
<1>21. call = (g \o cc) \o k
  BY <1>17 DEF call
<1>22. jinja_apply(ms, << >>, TRUE, FALSE) = (frame \o g) \o (((cc \o k) \o t) \o g)
  BY <1>15, <1>17, <1>19, <1>21, Zenon
<1>23. jinja_format_turn_delta(u, FALSE) \o Inject(c, r)
         = (frame \o g) \o (((cc \o k) \o t) \o g)
  BY <1>16, <1>17, <1>20, Zenon
<1>24. jinja_apply(ms, << >>, TRUE, FALSE) = jinja_format_turn_delta(u, FALSE) \o Inject(c, r)
  BY <1>22, <1>23, Zenon
<1> QED BY <1>24 DEF ms

\* What stands behind the first text
LEMMA Behind ==
  ASSUME NEW S, NEW s \in Seq(S), NEW t \in Seq(S)
  PROVE  Suffix(s \o t, Len(s) + 1) = t
<1>1. PICK w, m, n : w = s \o t /\ m = Len(s) /\ n = Len(t)
  OBVIOUS
<1>2. /\ w \in Seq(S) /\ m \in Nat /\ n \in Nat /\ Len(w) = m + n
      /\ \A i \in 1..m + n : w[i] = IF i <= m THEN s[i] ELSE t[i - m]
  BY <1>1, ConcatProperties
<1>3. PICK v : v = SubSeq(w, m + 1, m + n)
  OBVIOUS
<1>4. m + 1 \in Int /\ m + n \in Int /\ \A i \in (m + 1)..(m + n) : w[i] \in S
  BY <1>2
<1>5. /\ v \in Seq(S)
      /\ Len(v) = IF m + 1 <= m + n THEN (m + n) - (m + 1) + 1 ELSE 0
      /\ \A i \in 1..((m + n) - (m + 1) + 1) : v[i] = w[m + 1 + i - 1]
  BY <1>3, <1>4, SubSeqProperties
<1>6. Len(v) = n
  BY <1>2, <1>5
<1>7. ASSUME NEW i \in 1..n PROVE v[i] = t[i]
  <2>1. v[i] = w[m + i]
    BY <1>2, <1>5
  <2>2. w[m + i] = t[i]
    BY <1>2
  <2> QED BY <2>1, <2>2
<1>8. v = t
  BY <1>1, <1>5, <1>6, <1>7, SeqEqual
<1> QED BY <1>1, <1>2, <1>3, <1>8 DEF Suffix

-----------------------------------------------------------------------------
(* What a conversation has logged, as far as the first turn goes.          *)

Messages ==
  [role : {"user", "assistant", "tool"}, content : Said, calls : {<< >>} \union {r.calls : r \in ToolRounds}]

\* The call of a round between its markers, as it goes back
Echoed(r) == Lit.tool_call \o r.raw \o Lit.end_tool_call

\* The messages that a user asked
Users(ms) == {i \in DOMAIN ms : ms[i].role = "user"}

TwoTurns == \E i, j \in Users(msgs) : i # j

Asked(u) == <<Message("user", u, << >>)>>
Called(u, r) ==
  <<Message("user", u, << >>), Message("assistant", NULL, r.calls), Message("tool", r.result, << >>)>>

\* Behind the system block there is the framing of the first turn, and
\* perhaps that of its tool round
FirstTurn ==
  \E pre \in Said, u \in UserTexts :
    /\ block = Len(pre)
    /\ \/ msgs = Asked(u) /\ text = pre \o jinja_format_turn_delta(u, ctrl.think)
       \/ \E r \in ToolRounds :
            /\ msgs = Called(u, r) /\ echo = Echoed(r)
            /\ text = (pre \o jinja_format_turn_delta(u, ctrl.think)) \o Inject(echo, r.result)

Framed ==
  phase # "chat" =>
    /\ phase \in {"new", "idle", "answering"}
    /\ ctrl.think \in BOOLEAN
    /\ text \in Said
    /\ msgs \in Seq(Messages)
    /\ phase = "new" => text = << >> /\ msgs = << >>
    /\ phase = "idle" => (msgs = << >> /\ block = Len(text)) \/ Users(msgs) # {}
    /\ phase = "answering" => FirstTurn \/ TwoTurns

-----------------------------------------------------------------------------
(* The texts that are framed.                                              *)

LEMMA RoundsAre ==
  ASSUME NEW r \in ToolRounds
  PROVE  Echoed(r) \in Said /\ r.result \in Said
<1>1. r.raw \in Said /\ r.result \in Said /\ Lit.tool_call \in Said /\ Lit.end_tool_call \in Said
  BY TextsAssumption, Wordings DEF Wording
<1> QED BY <1>1, Joined3 DEF Echoed

LEMMA TurnText ==
  ASSUME NEW u \in Said, NEW think \in BOOLEAN
  PROVE  jinja_format_turn_delta(u, think) \in Said
<1>1. PICK f \in Said, g \in Said :
        f = Open("user") \o u \o Close /\ g = jinja_emit_gen_prompt(think)
  BY DeltaIs, Framing
<1>2. f \o g \in Said
  BY OneMoreIn
<1> QED BY <1>1, <1>2, DeltaIs

LEMMA RoundText ==
  ASSUME NEW c \in Said, NEW r \in Said
  PROVE  Inject(c, r) \in Said
<1>1. Close \in Said /\ Answered(r) \in Said /\ jinja_emit_gen_prompt(FALSE) \in Said
  BY Framing, AnsweredIs
<1>2. PICK x \in Said : x = c \o Close
  BY <1>1, OneMoreIn
<1>3. PICK y \in Said : y = x \o Answered(r)
  BY <1>1, OneMoreIn
<1>4. y \o jinja_emit_gen_prompt(FALSE) \in Said
  BY <1>1, OneMoreIn
<1> QED BY <1>2, <1>3, <1>4, InjectIs

LEMMA ToolListText ==
  ASSUME NEW tools \in Seq(Said)
  PROVE  ToolList(tools) \in Said
<1> DEFINE texts == [i \in DOMAIN tools |-> NL \o tools[i]]
<1>1. texts = [i \in 1..Len(tools) |-> texts[i]] /\ Len(tools) \in Nat
  OBVIOUS
<1>2. ASSUME NEW i \in 1..Len(tools) PROVE texts[i] \in Said
  <2>1. tools[i] \in Said /\ NL \in Said
    BY Wordings
  <2>2. NL \o tools[i] \in Said
    BY <2>1, OneMoreIn
  <2> QED BY <1>1, <2>2
<1> HIDE DEF texts
<1>3. texts \in Seq(Said)
  BY <1>1, <1>2
<1>4. PICK t \in Said : t = Cat(texts)
  BY <1>3, FlattenType DEF Cat, Said
<1>5. PICK a \in Said, e \in Said, i \in Said : a = Lit.tools /\ e = Lit.end_tools /\ i = Lit.instructions
  BY Wordings DEF Wording
<1>6. NL \in Said
  BY Wordings
<1>7. PICK x \in Said : x = a \o t
  BY OneMoreIn
<1>8. PICK y \in Said : y = x \o NL
  BY <1>6, OneMoreIn
<1>9. PICK z \in Said : z = y \o e
  BY OneMoreIn
<1>10. z \o i \in Said
  BY OneMoreIn
<1> QED BY <1>4, <1>5, <1>7, <1>8, <1>9, <1>10 DEF ToolList, texts

LEMMA BlockText ==
  ASSUME NEW s \in Said, NEW effort, NEW tools \in Seq(Said)
  PROVE  jinja_format_system_block(s, effort, tools) \in Said
<1>1. PICK o \in Said : o = Open("system")
  BY Framing
<1>2. PICK e \in Said : e = Effort(effort)
  <2>1. Effort(effort) \in Said
    BY Wordings, NoText DEF Effort, Wording
  <2> QED BY <2>1
<1>3. PICK x \in Said : x = (IF s = << >> THEN << >> ELSE s \o NL)
  <2>1. s \o NL \in Said
    BY Wordings, OneMoreIn
  <2> QED BY <2>1, NoText
<1>4. PICK t \in Said : t = (IF tools = << >> THEN << >> ELSE ToolList(tools) \o NL)
  <2>1. ToolList(tools) \o NL \in Said
    BY ToolListText, Wordings, OneMoreIn
  <2> QED BY <2>1, NoText
<1>5. PICK k \in Said : k = Close
  BY Framing
<1>6. PICK a \in Said : a = o \o e
  BY OneMoreIn
<1>7. PICK b \in Said : b = a \o x
  BY OneMoreIn
<1>8. PICK c \in Said : c = b \o t
  BY OneMoreIn
<1>9. c \o k \in Said
  BY OneMoreIn
<1> QED BY <1>1, <1>2, <1>3, <1>4, <1>5, <1>6, <1>7, <1>8, <1>9 DEF jinja_format_system_block

LEMMA MessagesAre ==
  /\ \A u \in UserTexts : Message("user", u, << >>) \in Messages
  /\ \A a \in Answers : Message("assistant", a, << >>) \in Messages
  /\ \A r \in ToolRounds : /\ Message("assistant", NULL, r.calls) \in Messages
                           /\ Message("tool", r.result, << >>) \in Messages
<1>1. << >> \in Said
  BY NoText
<1> QED BY <1>1, TextsAssumption DEF Message, Messages, NULL

LEMMA OneAndTwo ==
  ASSUME NEW S, NEW x \in S, NEW y \in S, NEW z \in S
  PROVE  <<x>> \o <<y, z>> = <<x, y, z>>
<1>1. PICK f, s, t : f = s \o t /\ s = <<x>> /\ t = <<y, z>>
  OBVIOUS
<1>2. /\ s \in Seq(S) /\ t \in Seq(S) /\ Len(s) = 1 /\ Len(t) = 2
      /\ s[1] = x /\ t[1] = y /\ t[2] = z
  BY <1>1
<1>3. /\ f \in Seq(S) /\ Len(f) = 3
      /\ \A i \in 1..3 : f[i] = IF i <= 1 THEN s[i] ELSE t[i - 1]
  <2>1. /\ f \in Seq(S) /\ Len(f) = Len(s) + Len(t)
        /\ \A i \in 1..Len(s) + Len(t) : f[i] = IF i <= Len(s) THEN s[i] ELSE t[i - Len(s)]
    BY <1>1, <1>2, ConcatProperties
  <2>2. PICK m, n : m = Len(s) /\ n = Len(t)
    OBVIOUS
  <2>3. m = 1 /\ n = 2 /\ m + n = 3
    BY <1>2, <2>2
  <2>4. /\ f \in Seq(S) /\ Len(f) = m + n
        /\ \A i \in 1..m + n : f[i] = IF i <= m THEN s[i] ELSE t[i - m]
    BY <2>1, <2>2, Zenon
  <2> QED BY ONLY <2>3, <2>4
<1>4. f[1] = x /\ f[2] = y /\ f[3] = z
  <2>1. 1 \in 1..3 /\ 2 \in 1..3 /\ 3 \in 1..3 /\ 2 - 1 = 1 /\ 3 - 1 = 2 /\ ~(2 <= 1) /\ ~(3 <= 1)
    OBVIOUS
  <2> QED BY <1>2, <1>3, <2>1
<1>5. PICK g : g = <<x, y, z>>
  OBVIOUS
<1>6. g \in Seq(S) /\ Len(g) = 3 /\ g[1] = x /\ g[2] = y /\ g[3] = z
  BY <1>5
<1>7. \A i \in 1..3 : f[i] = g[i]
  BY <1>4, <1>6
<1>8. f = g
  BY <1>3, <1>6, <1>7, SeqEqual
<1> QED BY <1>1, <1>5, <1>8

\* Who asked stays asked when messages are added
LEMMA UsersStay ==
  ASSUME NEW ms \in Seq(Messages), NEW more \in Seq(Messages)
  PROVE  Users(ms) \subseteq Users(ms \o more)
<1>1. ASSUME NEW i \in 1..Len(ms) PROVE i \in 1..Len(ms \o more) /\ (ms \o more)[i] = ms[i]
  OBVIOUS
<1> QED BY <1>1 DEF Users

LEMMA AppendIs ==
  ASSUME NEW ms \in Seq(Messages), NEW m \in Messages
  PROVE  Append(ms, m) = ms \o <<m>> /\ <<m>> \in Seq(Messages)
OBVIOUS

LEMMA OneMoreUser ==
  ASSUME NEW ms \in Seq(Messages), NEW m \in Messages, m.role = "user"
  PROVE  /\ Len(ms) + 1 \in Users(Append(ms, m))
         /\ Len(ms) + 1 \notin Users(ms)
<1>1. /\ Append(ms, m)[Len(ms) + 1] = m
      /\ Len(ms) + 1 \in DOMAIN Append(ms, m)
      /\ Len(ms) + 1 \notin DOMAIN ms
  OBVIOUS
<1> QED BY <1>1 DEF Users

(***************************************************************************)
(* Whatever has been said, the text is what its framings are made of.      *)
(***************************************************************************)
THEOREM AlwaysFramed == TalkSpec => []Framed
<1>1. TalkInit => Framed
  BY NoText DEF TalkInit, Framed
<1>2. Framed /\ [TalkNext]_talk => Framed'
  <2> SUFFICES ASSUME Framed, [TalkNext]_talk PROVE Framed'
    OBVIOUS
  <2>1. CASE SystemPrompt
    <3>1. PICK s \in Systems, think \in BOOLEAN :
            /\ ctrl' = [tools |-> s.tools # << >>, think |-> think]
            /\ text' = text \o jinja_format_system_block(s.text, s.effort, s.tools)
            /\ block' = Len(jinja_format_system_block(s.text, s.effort, s.tools))
      BY <2>1 DEF SystemPrompt, Log
    <3>2. PICK f \in Said : f = jinja_format_system_block(s.text, s.effort, s.tools)
      BY TextsAssumption, BlockText
    <3>3. text = << >> /\ msgs = << >> /\ msgs' = << >> /\ phase' = "idle"
      BY <2>1 DEF SystemPrompt, Framed
    <3>4. text' = f
      BY <3>1, <3>2, <3>3, NoText
    <3>5. ctrl'.think \in BOOLEAN /\ block' = Len(text')
      BY <3>1, <3>2, <3>4
    <3> QED BY <3>3, <3>4, <3>5 DEF Framed
  <2>2. CASE UserTurn
    <3>1. PICK u \in UserTexts :
            /\ text' = text \o jinja_format_turn_delta(u, ctrl.think)
            /\ msgs' = Append(msgs, Message("user", u, << >>))
      BY <2>2 DEF UserTurn, Log
    <3>2. phase = "idle" /\ phase' = "answering" /\ ctrl' = ctrl /\ block' = block
      BY <2>2 DEF UserTurn
    <3>3. ctrl.think \in BOOLEAN /\ text \in Said /\ msgs \in Seq(Messages)
            /\ ((msgs = << >> /\ block = Len(text)) \/ Users(msgs) # {})
      BY <3>2 DEF Framed
    <3>4. u \in Said
      BY TextsAssumption
    <3>5. text' \in Said
      <4>1. PICK d \in Said : d = jinja_format_turn_delta(u, ctrl.think)
        BY <3>3, <3>4, TurnText
      <4>2. text \o d \in Said
        BY <3>3, OneMoreIn
      <4> QED BY <3>1, <4>1, <4>2
    <3>6. PICK m \in Messages : m = Message("user", u, << >>)
      BY MessagesAre
    <3>7. m.role = "user" /\ msgs' = Append(msgs, m)
      BY <3>1, <3>6 DEF Message
    <3>8. msgs' \in Seq(Messages)
      BY <3>3, <3>7
    <3>9. FirstTurn' \/ TwoTurns'
      <4>1. CASE msgs = << >> /\ block = Len(text)
        <5>1. msgs' = Asked(u)
          BY <3>6, <3>7, <4>1 DEF Asked
        <5>2. text' = text \o jinja_format_turn_delta(u, ctrl'.think) /\ block' = Len(text)
          BY <3>1, <3>2, <4>1
        <5> QED BY <3>3, <5>1, <5>2 DEF FirstTurn
      <4>2. CASE Users(msgs) # {}
        <5>1. PICK i \in Users(msgs) : TRUE
          BY <4>2
        <5>2. i \in Users(msgs')
          BY <3>3, <3>7, UsersStay, AppendIs
        <5>3. Len(msgs) + 1 \in Users(msgs') /\ Len(msgs) + 1 # i
          BY <3>3, <3>7, OneMoreUser
        <5> QED BY <5>2, <5>3 DEF TwoTurns
      <4> QED BY <3>3, <4>1, <4>2
    <3> QED BY <3>2, <3>3, <3>5, <3>8, <3>9 DEF Framed
  <2>3. CASE ToolRound
    <3>1. PICK r \in ToolRounds :
            /\ echo' = Echoed(r)
            /\ text' = text \o Inject(echo', r.result)
            /\ msgs' = msgs \o <<Message("assistant", NULL, r.calls), Message("tool", r.result, << >>)>>
      BY <2>3 DEF ToolRound, Log, Echoed
    <3>2. /\ phase = "answering" /\ phase' = "answering" /\ ctrl' = ctrl /\ block' = block
          /\ msgs[Len(msgs)].role = "user"
      BY <2>3 DEF ToolRound
    <3>3. ctrl.think \in BOOLEAN /\ text \in Said /\ msgs \in Seq(Messages)
            /\ (FirstTurn \/ TwoTurns)
      BY <3>2 DEF Framed
    <3>4. text' \in Said
      <4>1. PICK d \in Said : d = Inject(Echoed(r), r.result)
        BY RoundsAre, RoundText
      <4>2. text \o d \in Said
        BY <3>3, OneMoreIn
      <4> QED BY <3>1, <4>1, <4>2
    <3>5. PICK a \in Messages, t \in Messages :
            a = Message("assistant", NULL, r.calls) /\ t = Message("tool", r.result, << >>)
      BY MessagesAre
    <3>6. <<a, t>> \in Seq(Messages) /\ msgs' = msgs \o <<a, t>>
      BY <3>1, <3>5
    <3>7. msgs' \in Seq(Messages)
      BY <3>3, <3>6
    <3>8. FirstTurn' \/ TwoTurns'
      <4>1. CASE FirstTurn
        <5>1. PICK pre \in Said, u \in UserTexts :
                /\ block = Len(pre)
                /\ \/ msgs = Asked(u) /\ text = pre \o jinja_format_turn_delta(u, ctrl.think)
                   \/ \E q \in ToolRounds : msgs = Called(u, q)
          BY <4>1 DEF FirstTurn
        <5>2. ASSUME NEW q \in ToolRounds, msgs = Called(u, q) PROVE FALSE
          <6>1. Len(msgs) = 3 /\ msgs[3].role = "tool"
            BY <5>2 DEF Called, Message
          <6> QED BY <3>2, <6>1
        <5>3. msgs = Asked(u) /\ text = pre \o jinja_format_turn_delta(u, ctrl.think)
          BY <5>1, <5>2
        <5>4. msgs' = Called(u, r)
          <6>1. PICK m \in Messages : m = Message("user", u, << >>)
            BY MessagesAre
          <6>2. <<m>> \o <<a, t>> = <<m, a, t>>
            BY OneAndTwo
          <6> QED BY <3>5, <3>6, <5>3, <6>1, <6>2 DEF Asked, Called
        <5>5. text' = (pre \o jinja_format_turn_delta(u, ctrl'.think)) \o Inject(echo', r.result)
          BY <3>1, <3>2, <5>3
        <5>6. block' = Len(pre)
          BY <3>2, <5>1
        <5> QED BY <3>1, <5>4, <5>5, <5>6 DEF FirstTurn
      <4>2. CASE TwoTurns
        <5>1. Users(msgs) \subseteq Users(msgs')
          BY <3>3, <3>6, UsersStay
        <5> QED BY <4>2, <5>1 DEF TwoTurns
      <4> QED BY <3>3, <4>1, <4>2
    <3> QED BY <3>2, <3>3, <3>4, <3>7, <3>8 DEF Framed
  <2>4. CASE Answer
    <3>1. PICK a \in Answers : msgs' = Append(msgs, Message("assistant", a, << >>))
      BY <2>4 DEF Answer
    <3>2. /\ phase = "answering" /\ phase' = "idle" /\ ctrl' = ctrl /\ text' = text
      BY <2>4 DEF Answer
    <3>3. ctrl.think \in BOOLEAN /\ text \in Said /\ msgs \in Seq(Messages)
            /\ (FirstTurn \/ TwoTurns)
      BY <3>2 DEF Framed
    <3>4. PICK m \in Messages : m = Message("assistant", a, << >>)
      BY MessagesAre
    <3>5. msgs' \in Seq(Messages) /\ Users(msgs) \subseteq Users(msgs')
      <4>1. msgs' = msgs \o <<m>> /\ <<m>> \in Seq(Messages)
        BY <3>1, <3>3, <3>4, AppendIs
      <4>2. msgs' \in Seq(Messages)
        BY <3>3, <4>1
      <4> QED BY <3>3, <4>1, <4>2, UsersStay
    <3>6. Users(msgs) # {}
      <4>1. CASE TwoTurns
        BY <4>1 DEF TwoTurns
      <4>2. CASE FirstTurn
        <5>1. PICK u \in UserTexts : msgs = Asked(u) \/ \E q \in ToolRounds : msgs = Called(u, q)
          BY <4>2 DEF FirstTurn
        <5>2. 1 \in DOMAIN msgs /\ msgs[1].role = "user"
          BY <5>1 DEF Asked, Called, Message
        <5> QED BY <5>2 DEF Users
      <4> QED BY <3>3, <4>1, <4>2
    <3> QED BY <3>2, <3>3, <3>5, <3>6 DEF Framed
  <2>5. CASE Say
    BY <2>5 DEF Say, Framed
  <2>6. CASE UNCHANGED talk
    BY <2>6 DEF talk, Framed, FirstTurn, TwoTurns
  <2> QED BY <2>1, <2>2, <2>3, <2>4, <2>5, <2>6 DEF TalkNext
<1> QED BY <1>1, <1>2, PTL DEF TalkSpec

\* Only the first turn has one message of a user in it
LEMMA OnlyFirst ==
  ASSUME Framed, phase = "answering", Turns = 1
  PROVE  FirstTurn
<1>1. FirstTurn \/ TwoTurns
  BY DEF Framed
<1>2. Turns = Cardinality(Users(msgs))
  BY DEF Turns, Users
<1>3. IsFiniteSet(Users(msgs))
  <2>1. Users(msgs) \subseteq 1..Len(msgs) /\ Len(msgs) \in Nat
    BY DEF Framed, Users
  <2>2. IsFiniteSet(1..Len(msgs))
    BY <2>1, FS_Interval
  <2> QED BY <2>1, <2>2, FS_Subset
<1>4. \E x : Users(msgs) = {x}
  BY <1>2, <1>3, FS_Singleton
<1> QED BY <1>1, <1>4 DEF TwoTurns

LEMMA FirstIsTheTemplate ==
  ASSUME Framed
  PROVE  TurnIsTheTemplate
<1> SUFFICES
      ASSUME phase = "answering", Turns = 1,
             \A i \in DOMAIN msgs : msgs[i].content = Trimmed(msgs[i].content),
             Len(msgs) > 1 => ~ctrl.think /\ ~jinja_is_tool_response(msgs[1].content),
             Len(msgs) > 1 => echo = jinja_emit_tool_calls(msgs[2].calls, FALSE)
      PROVE  Suffix(text, block + 1) = jinja_apply(msgs, << >>, TRUE, ctrl.think)
  BY DEF TurnIsTheTemplate, FirstReadsAsRendered
<1>1. ctrl.think \in BOOLEAN
  BY DEF Framed
<1>2. PICK pre \in Said, u \in UserTexts :
        /\ block = Len(pre)
        /\ \/ msgs = Asked(u) /\ text = pre \o jinja_format_turn_delta(u, ctrl.think)
           \/ \E r \in ToolRounds :
                /\ msgs = Called(u, r) /\ echo = Echoed(r)
                /\ text = (pre \o jinja_format_turn_delta(u, ctrl.think)) \o Inject(echo, r.result)
  BY OnlyFirst DEF FirstTurn
<1>3. PICK d \in Said : d = jinja_format_turn_delta(u, ctrl.think)
  BY <1>1, TextsAssumption, TurnText
<1>4. u \in Said
  BY TextsAssumption
<1>5. CASE msgs = Asked(u) /\ text = pre \o jinja_format_turn_delta(u, ctrl.think)
  <2>1. 1 \in DOMAIN msgs /\ msgs[1].content = u
    BY <1>5 DEF Asked, Message
  <2>2. Trimmed(u) = u
    BY <2>1
  <2>3. jinja_apply(msgs, << >>, TRUE, ctrl.think) = d
    BY <1>1, <1>3, <1>4, <1>5, <2>2, AskedIs DEF Asked
  <2>4. Suffix(pre \o d, Len(pre) + 1) = d
    BY Behind DEF Said
  <2> QED BY <1>2, <1>3, <1>5, <2>3, <2>4
<1>6. ASSUME NEW r \in ToolRounds, msgs = Called(u, r), echo = Echoed(r),
             text = (pre \o jinja_format_turn_delta(u, ctrl.think)) \o Inject(echo, r.result)
      PROVE  Suffix(text, block + 1) = jinja_apply(msgs, << >>, TRUE, ctrl.think)
  <2>1. /\ Len(msgs) = 3 /\ 1 \in DOMAIN msgs /\ 3 \in DOMAIN msgs
        /\ msgs[1].content = u /\ msgs[2].calls = r.calls /\ msgs[3].content = r.result
    BY <1>6 DEF Called, Message
  <2>2. Trimmed(u) = u /\ Trimmed(r.result) = r.result /\ ~jinja_is_tool_response(u)
          /\ ctrl.think = FALSE
    BY <1>1, <2>1
  <2>3. echo \in Said /\ r.result \in Said /\ jinja_emit_tool_calls(r.calls, FALSE) = echo
    <3>1. Echoed(r) \in Said /\ r.result \in Said
      BY RoundsAre
    <3>2. Len(msgs) > 1
      BY <2>1
    <3>3. echo = jinja_emit_tool_calls(msgs[2].calls, FALSE)
      BY <3>2, Zenon
    <3>4. msgs[2].calls = r.calls
      BY <2>1
    <3> QED BY <1>6, <3>1, <3>3, <3>4, Zenon
  <2>4. PICK i \in Said : i = Inject(echo, r.result)
    BY <2>3, RoundText
  <2>5. jinja_apply(msgs, << >>, TRUE, ctrl.think) = d \o i
    <3>1. PICK c, cs, q : c = echo /\ cs = r.calls /\ q = r.result
      OBVIOUS
    <3>2. msgs = <<Message("user", u, << >>), Message("assistant", NULL, cs), Message("tool", q, << >>)>>
      BY <1>6, <3>1 DEF Called
    <3>3. c \in Said /\ q \in Said /\ Trimmed(q) = q /\ jinja_emit_tool_calls(cs, FALSE) = c
      BY <2>2, <2>3, <3>1
    <3>4. jinja_apply(<<Message("user", u, << >>), Message("assistant", NULL, cs),
                        Message("tool", q, << >>)>>, << >>, TRUE, FALSE)
            = jinja_format_turn_delta(u, FALSE) \o Inject(c, q)
      BY <1>4, <2>2, <3>3, RoundIs, ZenonT(60)
    <3>5. jinja_apply(msgs, << >>, TRUE, FALSE) = jinja_format_turn_delta(u, FALSE) \o Inject(c, q)
      BY <3>2, <3>4, Zenon
    <3> QED BY <1>3, <2>2, <2>4, <3>1, <3>5
  <2>6. ThreeParts(pre, d, i)
    BY ThreePartsAre
  <2>7. PICK e \in Said : e = d \o i
    BY OneMoreIn
  <2>8. text = pre \o e
    BY <1>3, <1>6, <2>4, <2>6, <2>7 DEF ThreeParts
  <2>9. Suffix(pre \o e, Len(pre) + 1) = e
    BY Behind DEF Said
  <2> QED BY <1>2, <2>5, <2>7, <2>8, <2>9
<1> QED BY <1>2, <1>5, <1>6

(***************************************************************************)
(* What the first turn reads behind the system block is what the template  *)
(* renders, whatever the texts, the tools and their answers are.           *)
(***************************************************************************)
THEOREM TurnReadsAsRendered == TalkSpec => []TurnIsTheTemplate
<1>1. Framed => TurnIsTheTemplate
  BY FirstIsTheTemplate
<1> QED BY <1>1, AlwaysFramed, PTL

-----------------------------------------------------------------------------
(* One merge, applied everywhere.                                          *)

\* A pair that may be merged: what it makes is none of its parts
Learnt(m, S) ==
  /\ m[1] \in S /\ m[2] \in S /\ m[1] \o m[2] \in S
  /\ m = <<m[1], m[2]>>
  /\ m[1] \o m[2] # m[1] /\ m[1] \o m[2] # m[2]

\* The token x, put behind what is done
Extended(done, x, m) ==
  IF done # << >> /\ <<Last(done), x>> = m
  THEN Append(Front(done), Last(done) \o x) ELSE Append(done, x)

LEMMA ExtendedType ==
  ASSUME NEW S, NEW m, Learnt(m, S), NEW done \in Seq(S), NEW x \in S
  PROVE  Extended(done, x, m) \in Seq(S)
<1>1. CASE done # << >> /\ <<Last(done), x>> = m
  <2>1. Last(done) = m[1] /\ x = m[2]
    BY <1>1
  <2>2. Last(done) \o x \in S
    BY <2>1 DEF Learnt
  <2>3. Front(done) \in Seq(S)
    BY <1>1 DEF Front
  <2>4. PICK f, y : f = Front(done) /\ y = Last(done) \o x
    OBVIOUS
  <2>5. Append(f, y) \in Seq(S)
    BY <2>2, <2>3, <2>4
  <2> QED BY <1>1, <2>4, <2>5 DEF Extended
<1>2. CASE ~(done # << >> /\ <<Last(done), x>> = m)
  BY <1>2 DEF Extended
<1> QED BY <1>1, <1>2

\* f is what is done after each token of t
Scans(f, t, m, S) ==
  /\ f[0] = << >>
  /\ \A i \in 1..Len(t) : f[i] = Extended(f[i - 1], t[i], m)
  /\ \A i \in 0..Len(t) : f[i] \in Seq(S)
  /\ Everywhere(t, m) = f[Len(t)]

LEMMA EverywhereIs ==
  ASSUME NEW S, NEW m, Learnt(m, S), NEW t \in Seq(S)
  PROVE  \E f : Scans(f, t, m, S)
<1> DEFINE n == Len(t)
           V == Seq(S)
           F == [i \in 1..n |-> [d \in V |-> Extended(d, t[i], m)]]
           Def(g) == g = [i \in 0..n |->
                           IF i = 0 THEN << >>
                           ELSE IF g[i - 1] # << >> /\ <<Last(g[i - 1]), t[i]>> = m
                                THEN Append(Front(g[i - 1]), Last(g[i - 1]) \o t[i])
                                ELSE Append(g[i - 1], t[i])]
           h == CHOOSE g : Def(g)
<1>0. n \in Nat /\ \A i \in 1..n : t[i] \in S
  OBVIOUS
<1>1. << >> \in V /\ \A i \in 1..n, d \in V : Extended(d, t[i], m) \in V
  <2>1. ASSUME NEW i \in 1..n, NEW d \in V PROVE Extended(d, t[i], m) \in V
    BY <1>0, ExtendedType
  <2> QED BY <2>1
<1>2. F \in [1..n -> [V -> V]]
  BY <1>1
<1> HIDE DEF F
<1>3. PICK f \in [0..n -> V] : f[0] = << >> /\ \A i \in 1..n : f[i] = F[i][f[i - 1]]
  <2>1. IsDefined(n, V, << >>, F)
    BY <1>0, <1>1, <1>2, Recursion
  <2> QED BY <2>1 DEF IsDefined
<1>4. ASSUME NEW i \in 1..n PROVE f[i] = Extended(f[i - 1], t[i], m)
  <2>1. i - 1 \in 0..n
    OBVIOUS
  <2>2. f[i - 1] \in V
    BY <2>1
  <2> QED BY <1>3, <2>1, <2>2 DEF F
<1>5. Def(f)
  <2>1. \A i \in 0..n : i # 0 => i \in 1..n
    OBVIOUS
  <2>2. \A i \in 0..n : f[i] = IF i = 0 THEN << >>
                           ELSE IF f[i - 1] # << >> /\ <<Last(f[i - 1]), t[i]>> = m
                                THEN Append(Front(f[i - 1]), Last(f[i - 1]) \o t[i])
                                ELSE Append(f[i - 1], t[i])
    BY <1>3, <1>4, <2>1 DEF Extended
  <2> QED BY <2>2
<1>6. Def(h)
  <2> HIDE DEF Def
  <2> QED BY <1>5
<1>7. Everywhere(t, m) = h[n]
  BY DEF Everywhere
<1> HIDE DEF h
<1>8. h[0] = << >>
  BY <1>0, <1>6
<1>9. ASSUME NEW i \in 1..n PROVE h[i] = Extended(h[i - 1], t[i], m)
  <2>1. i \in 0..n /\ i # 0
    OBVIOUS
  <2> QED BY <1>6, <2>1 DEF Extended
<1>10. \A i \in 0..n : h[i] \in V
  <2>1. ASSUME NEW i \in 1..n, h[i - 1] \in V PROVE h[i] \in V
    <3>1. PICK d \in V : d = h[i - 1]
      BY <2>1
    <3>2. Extended(d, t[i], m) \in V
      BY <1>1
    <3> QED BY <1>9, <3>1, <3>2
  <2>2. h[0] \in V
    BY <1>1, <1>8
  <2> DEFINE T == {i \in 0..n : h[i] \in V}
  <2>3. 0 \in T
    BY <1>0, <2>2
  <2>4. \A i \in 1..n : i - 1 \in T => i \in T
    BY <2>1
  <2> HIDE DEF T
  <2>5. \A i \in 0..n : i \in T
    BY <1>0, <2>3, <2>4, UpTo
  <2> QED BY <2>5 DEF T
<1> QED BY <1>7, <1>8, <1>9, <1>10 DEF Scans

\* The pair m stands at place i
Stands(t, i, m) == i \in 1..(Len(t) - 1) /\ t[i] = m[1] /\ t[i + 1] = m[2]

Begins(d, t, n, S) == d \in Seq(S) /\ Len(d) = n /\ \A i \in 1..n : d[i] = t[i]

LEMMA ExtendedFurther ==
  ASSUME NEW S, NEW m, Learnt(m, S), NEW t \in Seq(S), NEW n \in 1..Len(t), NEW d,
         Begins(d, t, n - 1, S), ~Stands(t, n - 1, m)
  PROVE  Begins(Extended(d, t[n], m), t, n, S)
<1>0. Len(t) \in Nat /\ n \in Nat /\ t[n] \in S
  OBVIOUS
<1>1. d \in Seq(S) /\ Len(d) = n - 1 /\ \A i \in 1..n - 1 : d[i] = t[i]
  BY DEF Begins
<1>2. ~(d # << >> /\ <<Last(d), t[n]>> = m)
  <2> SUFFICES ASSUME d # << >>, <<Last(d), t[n]>> = m PROVE FALSE
    OBVIOUS
  <2>1. n - 1 \in 1..n - 1
    BY <1>0, <1>1
  <2>2. Last(d) = t[n - 1]
    BY <1>1, <2>1 DEF Last
  <2>3. m[1] = t[n - 1] /\ m[2] = t[n]
    BY <2>2
  <2>4. (n - 1) + 1 = n /\ n - 1 \in 1..(Len(t) - 1)
    BY <1>0, <2>1
  <2> QED BY <2>3, <2>4 DEF Stands
<1>3. PICK e : e = Append(d, t[n])
  OBVIOUS
<1>4. e \in Seq(S) /\ Len(e) = n /\ \A i \in 1..n : e[i] = IF i = n THEN t[n] ELSE d[i]
  BY <1>0, <1>1, <1>3
<1>5. \A i \in 1..n : e[i] = t[i]
  BY <1>0, <1>1, <1>4
<1>6. Extended(d, t[n], m) = e
  BY <1>2, <1>3 DEF Extended
<1> QED BY <1>4, <1>5, <1>6 DEF Begins

LEMMA Untouched ==
  ASSUME NEW S, NEW m, Learnt(m, S), NEW t \in Seq(S), NEW f, Scans(f, t, m, S),
         NEW n \in 0..Len(t), \A i \in 1..n - 1 : ~Stands(t, i, m)
  PROVE  Begins(f[n], t, n, S)
<1>0. Len(t) \in Nat /\ n \in Nat
  OBVIOUS
<1>1. Begins(f[0], t, 0, S)
  BY EmptySeq DEF Scans, Begins
<1>2. ASSUME NEW i \in 1..n, Begins(f[i - 1], t, i - 1, S) PROVE Begins(f[i], t, i, S)
  <2>1. i \in 1..Len(t)
    BY <1>0
  <2>2. ~Stands(t, i - 1, m)
    <3>1. CASE i - 1 \in 1..n - 1
      BY <3>1
    <3>2. CASE i - 1 \notin 1..n - 1
      <4>1. i - 1 \notin 1..(Len(t) - 1)
        BY <1>0, <3>2
      <4> QED BY <4>1 DEF Stands
    <3> QED BY <3>1, <3>2
  <2>3. PICK d : d = f[i - 1]
    OBVIOUS
  <2>4. Begins(Extended(d, t[i], m), t, i, S)
    BY <1>2, <2>1, <2>2, <2>3, ExtendedFurther
  <2>5. f[i] = Extended(d, t[i], m)
    BY <2>1, <2>3 DEF Scans
  <2> QED BY <2>4, <2>5
<1> DEFINE T == {i \in 0..n : Begins(f[i], t, i, S)}
<1>3. 0 \in T
  BY <1>0, <1>1
<1>4. \A i \in 1..n : i - 1 \in T => i \in T
  BY <1>2
<1> HIDE DEF T
<1>5. \A i \in 0..n : i \in T
  BY <1>0, <1>3, <1>4, UpTo
<1> QED BY <1>0, <1>5 DEF T

LEMMA NothingToMerge ==
  ASSUME NEW S, NEW m, Learnt(m, S), NEW t \in Seq(S), \A i \in 1..Len(t) - 1 : ~Stands(t, i, m)
  PROVE  Everywhere(t, m) = t
<1>1. PICK f : Scans(f, t, m, S)
  BY EverywhereIs
<1>2. PICK n : n = Len(t)
  OBVIOUS
<1>3. n \in 0..Len(t) /\ \A i \in 1..n - 1 : ~Stands(t, i, m)
  BY <1>2
<1>4. Begins(f[n], t, n, S)
  BY <1>1, <1>3, Untouched
<1>5. PICK e : e = f[n]
  OBVIOUS
<1>6. e = t
  BY <1>2, <1>4, <1>5, SeqEqual DEF Begins
<1> QED BY <1>1, <1>2, <1>5, <1>6 DEF Scans

LEMMA MergeAtIs ==
  ASSUME NEW S, NEW t \in Seq(S), NEW i \in 1..(Len(t) - 1), t[i] \o t[i + 1] \in S
  PROVE  /\ MergeAt(t, i) \in Seq(S) /\ Len(MergeAt(t, i)) = Len(t) - 1
         /\ \A j \in 1..(Len(t) - 1) :
              MergeAt(t, i)[j] = IF j < i THEN t[j] ELSE IF j = i THEN t[i] \o t[i + 1] ELSE t[j + 1]
<1>1. PICK n, p : n = Len(t) /\ p = t[i] \o t[i + 1]
  OBVIOUS
<1>2. n \in Nat /\ i \in 1..n - 1 /\ p \in S /\ \A j \in 1..n : t[j] \in S
  BY <1>1
<1>3. PICK a : a = SubSeq(t, 1, i - 1)
  OBVIOUS
<1>4. a \in Seq(S) /\ Len(a) = i - 1 /\ \A j \in 1..i - 1 : a[j] = t[j]
  <2>1. 1 \in Int /\ i - 1 \in Int /\ \A j \in 1..(i - 1) : t[j] \in S
    BY <1>2
  <2>2. /\ a \in Seq(S)
        /\ Len(a) = IF 1 <= i - 1 THEN (i - 1) - 1 + 1 ELSE 0
        /\ \A j \in 1..((i - 1) - 1 + 1) : a[j] = t[1 + j - 1]
    BY <1>3, <2>1, SubSeqProperties
  <2> QED BY <1>2, <2>2
<1>5. PICK c : c = Suffix(t, i + 2)
  OBVIOUS
<1>6. c \in Seq(S) /\ Len(c) = n - i - 1 /\ \A j \in 1..(n - i - 1) : c[j] = t[i + 1 + j]
  <2>1. i + 2 \in Int /\ n \in Int /\ \A j \in (i + 2)..n : t[j] \in S
    BY <1>2
  <2>2. /\ c \in Seq(S)
        /\ Len(c) = IF i + 2 <= n THEN n - (i + 2) + 1 ELSE 0
        /\ \A j \in 1..(n - (i + 2) + 1) : c[j] = t[i + 2 + j - 1]
    BY <1>1, <1>5, <2>1, SubSeqProperties DEF Suffix
  <2> QED BY <1>2, <2>2
<1>7. PICK b, q : b = <<p>> /\ q = a \o b
  OBVIOUS
<1>8. b \in Seq(S) /\ Len(b) = 1 /\ b[1] = p
  BY <1>2, <1>7
<1>9. /\ q \in Seq(S) /\ Len(q) = i
      /\ \A j \in 1..i : q[j] = IF j < i THEN t[j] ELSE p
  <2>1. /\ q \in Seq(S) /\ Len(q) = Len(a) + Len(b)
        /\ \A j \in 1..Len(a) + Len(b) : q[j] = IF j <= Len(a) THEN a[j] ELSE b[j - Len(a)]
    BY <1>4, <1>7, <1>8, ConcatProperties
  <2>2. Len(a) + Len(b) = i
    BY <1>2, <1>4, <1>8
  <2>3. ASSUME NEW j \in 1..i PROVE q[j] = IF j < i THEN t[j] ELSE p
    <3>1. q[j] = IF j <= i - 1 THEN a[j] ELSE b[j - (i - 1)]
      BY <1>4, <2>1, <2>2
    <3>2. CASE j < i
      BY <1>2, <1>4, <3>1, <3>2
    <3>3. CASE j = i
      <4>1. j - (i - 1) = 1 /\ ~(j <= i - 1)
        BY <1>2, <3>3
      <4> QED BY <1>8, <3>1, <3>3, <4>1
    <3> QED BY <1>2, <3>2, <3>3
  <2> QED BY <2>1, <2>2, <2>3
<1>10. PICK r : r = q \o c
  OBVIOUS
<1>11. /\ r \in Seq(S) /\ Len(r) = n - 1
       /\ \A j \in 1..n - 1 : r[j] = IF j <= i THEN q[j] ELSE c[j - i]
  <2>1. /\ r \in Seq(S) /\ Len(r) = Len(q) + Len(c)
        /\ \A j \in 1..Len(q) + Len(c) : r[j] = IF j <= Len(q) THEN q[j] ELSE c[j - Len(q)]
    BY <1>6, <1>9, <1>10, ConcatProperties
  <2>2. Len(q) + Len(c) = n - 1
    BY <1>2, <1>6, <1>9
  <2> QED BY <1>9, <2>1, <2>2
<1>12. ASSUME NEW j \in 1..n - 1
       PROVE  r[j] = IF j < i THEN t[j] ELSE IF j = i THEN p ELSE t[j + 1]
  <2>1. CASE j <= i
    <3>1. j \in 1..i
      BY <2>1
    <3>2. r[j] = q[j]
      BY <1>11, <2>1
    <3> QED BY <1>2, <1>9, <2>1, <3>1, <3>2
  <2>2. CASE j > i
    <3>1. j - i \in 1..(n - i - 1) /\ i + 1 + (j - i) = j + 1 /\ ~(j <= i) /\ ~(j < i) /\ j # i
      BY <1>2, <2>2
    <3>2. r[j] = c[j - i]
      BY <1>11, <3>1
    <3>3. c[j - i] = t[j + 1]
      BY <1>6, <3>1
    <3> QED BY <3>1, <3>2, <3>3
  <2> QED BY <1>2, <2>1, <2>2
<1>13. MergeAt(t, i) = r
  BY <1>1, <1>3, <1>5, <1>7, <1>10 DEF MergeAt
<1> QED BY <1>1, <1>11, <1>12, <1>13

\* A merge whose parts are not what is made stays out of the text
LEMMA StaysAbsent ==
  ASSUME NEW S, NEW t \in Seq(S), NEW i \in 1..(Len(t) - 1), t[i] \o t[i + 1] \in S,
         NEW q, t[i] \o t[i + 1] # q[1], t[i] \o t[i + 1] # q[2],
         \A j \in 1..(Len(t) - 1) : ~Stands(t, j, q)
  PROVE  \A j : ~Stands(MergeAt(t, i), j, q)
<1>1. PICK u, n : u = MergeAt(t, i) /\ n = Len(t)
  OBVIOUS
<1>2. /\ n \in Nat /\ i \in 1..n - 1 /\ Len(u) = n - 1
      /\ \A j \in 1..n - 1 :
           u[j] = IF j < i THEN t[j] ELSE IF j = i THEN t[i] \o t[i + 1] ELSE t[j + 1]
  BY <1>1, MergeAtIs
<1>3. ASSUME NEW j \in 1..n - 2, u[j] = q[1], u[j + 1] = q[2] PROVE FALSE
  <2>1. j \in 1..n - 1 /\ j + 1 \in 1..n - 1
    BY <1>2
  <2>2. CASE j = i \/ j + 1 = i
    <3>1. u[i] = t[i] \o t[i + 1]
      <4>1. i \in 1..n - 1 /\ ~(i < i)
        BY <1>2
      <4> QED BY <1>2, <4>1
    <3> QED BY <1>3, <2>2, <3>1, Zenon
  <2>3. CASE j + 1 < i
    <3>1. u[j] = t[j] /\ u[j + 1] = t[j + 1]
      BY <1>2, <2>1, <2>3
    <3> QED BY <1>1, <1>3, <2>1, <3>1 DEF Stands
  <2>4. CASE j > i
    <3>1. u[j] = t[j + 1] /\ u[j + 1] = t[(j + 1) + 1] /\ j + 1 \in 1..n - 1
      BY <1>2, <2>1, <2>4
    <3> QED BY <1>1, <1>3, <3>1 DEF Stands
  <2> QED BY <1>2, <2>2, <2>3, <2>4
<1>4. ASSUME NEW j, Stands(u, j, q) PROVE FALSE
  <2>1. j \in 1..n - 2 /\ u[j] = q[1] /\ u[j + 1] = q[2]
    BY <1>2, <1>4 DEF Stands
  <2> QED BY <1>3, <2>1
<1> QED BY <1>1, <1>4

\* The leftmost place of a merge first, then the others: the same as from
\* the left
LEMMA LeftmostFirst ==
  ASSUME NEW S, NEW m, Learnt(m, S), NEW t \in Seq(S), NEW i, Stands(t, i, m),
         \A j \in 1..i - 1 : ~Stands(t, j, m)
  PROVE  Everywhere(MergeAt(t, i), m) = Everywhere(t, m)
<1>1. PICK u, n, p : u = MergeAt(t, i) /\ n = Len(t) /\ p = m[1] \o m[2]
  OBVIOUS
<1>2. n \in Nat /\ i \in 1..n - 1 /\ t[i] = m[1] /\ t[i + 1] = m[2] /\ p \in S /\ p # m[2]
  BY <1>1 DEF Stands, Learnt
<1>3. /\ u \in Seq(S) /\ Len(u) = n - 1
      /\ \A j \in 1..n - 1 : u[j] = IF j < i THEN t[j] ELSE IF j = i THEN p ELSE t[j + 1]
  BY <1>1, <1>2, MergeAtIs
<1>4. PICK f : Scans(f, t, m, S)
  BY EverywhereIs
<1>5. PICK g : Scans(g, u, m, S)
  BY <1>3, EverywhereIs
<1>6. Begins(f[i], t, i, S)
  <2>1. i \in 0..Len(t)
    BY <1>1, <1>2
  <2> QED BY <1>4, <2>1, Untouched
<1>7. Begins(g[i], u, i, S)
  <2>1. i \in 0..Len(u)
    BY <1>2, <1>3
  <2>2. ASSUME NEW j \in 1..i - 1 PROVE ~Stands(u, j, m)
    <3>1. j \in 1..n - 1 /\ j + 1 \in 1..n - 1 /\ j < i
      BY <1>2
    <3>2. CASE j + 1 = i
      <4>1. u[j + 1] = p
        BY <1>3, <3>1, <3>2
      <4> QED BY <1>2, <4>1 DEF Stands
    <3>3. CASE j + 1 # i
      <4>1. u[j] = t[j] /\ u[j + 1] = t[j + 1]
        <5>1. j + 1 < i
          BY <1>2, <3>3
        <5> QED BY <1>3, <3>1, <5>1
      <4> QED BY <1>1, <3>1, <4>1 DEF Stands
    <3> QED BY <3>2, <3>3
  <2> QED BY <1>3, <1>5, <2>1, <2>2, Untouched
<1>8. f[i + 1] = g[i]
  <2>1. PICK d, e : d = f[i] /\ e = Front(d)
    OBVIOUS
  <2>2. d \in Seq(S) /\ Len(d) = i /\ \A j \in 1..i : d[j] = t[j]
    BY <1>6, <2>1 DEF Begins
  <2>3. d # << >> /\ Last(d) = m[1]
    BY <1>2, <2>2 DEF Last
  <2>4. i + 1 \in 1..Len(t) /\ (i + 1) - 1 = i
    BY <1>1, <1>2
  <2>5. f[i + 1] = Extended(d, t[i + 1], m)
    BY <1>4, <2>1, <2>4 DEF Scans
  <2>6. m = <<m[1], m[2]>>
    BY DEF Learnt
  <2>7. f[i + 1] = Append(e, p)
    BY <1>1, <1>2, <2>1, <2>3, <2>5, <2>6 DEF Extended
  <2>8. e \in Seq(S) /\ Len(e) = i - 1 /\ \A j \in 1..i - 1 : e[j] = t[j]
    <3>1. 1 \in Int /\ i - 1 \in Int /\ \A j \in 1..(i - 1) : d[j] \in S
      BY <1>2, <2>2
    <3>2. e = SubSeq(d, 1, i - 1)
      BY <2>1, <2>2 DEF Front
    <3>3. /\ e \in Seq(S)
          /\ Len(e) = IF 1 <= i - 1 THEN (i - 1) - 1 + 1 ELSE 0
          /\ \A j \in 1..((i - 1) - 1 + 1) : e[j] = d[1 + j - 1]
      BY <3>1, <3>2, SubSeqProperties
    <3> QED BY <1>2, <2>2, <3>3
  <2>9. PICK r : r = Append(e, p)
    OBVIOUS
  <2>10. r \in Seq(S) /\ Len(r) = i /\ \A j \in 1..i : r[j] = IF j = i THEN p ELSE e[j]
    BY <1>2, <2>8, <2>9
  <2>11. PICK s : s = g[i]
    OBVIOUS
  <2>12. s \in Seq(S) /\ Len(s) = i /\ \A j \in 1..i : s[j] = u[j]
    BY <1>7, <2>11 DEF Begins
  <2>13. ASSUME NEW j \in 1..i PROVE r[j] = s[j]
    <3>1. j \in 1..n - 1
      BY <1>2
    <3>2. CASE j = i
      BY <1>3, <2>10, <2>12, <3>1, <3>2
    <3>3. CASE j # i
      <4>1. j < i /\ j \in 1..i - 1
        BY <1>2, <3>3
      <4> QED BY <1>3, <2>8, <2>10, <2>12, <3>1, <4>1
    <3> QED BY <3>2, <3>3
  <2>14. r = s
    BY <2>10, <2>12, <2>13, SeqEqual
  <2> QED BY <2>7, <2>9, <2>11, <2>14
<1>9. ASSUME NEW k \in 1..(n - 1 - i), g[i + (k - 1)] = f[i + 1 + (k - 1)]
      PROVE  g[i + k] = f[i + 1 + k]
  <2>1. /\ i + k \in 1..Len(u) /\ (i + k) - 1 = i + (k - 1) /\ i + k \in 1..n - 1
        /\ i + 1 + k \in 1..Len(t) /\ (i + 1 + k) - 1 = i + 1 + (k - 1) /\ (i + k) + 1 = i + 1 + k
        /\ ~(i + k < i) /\ i + k # i
    BY <1>1, <1>2, <1>3
  <2>2. g[i + k] = Extended(g[i + (k - 1)], u[i + k], m)
    BY <1>5, <2>1 DEF Scans
  <2>3. f[i + 1 + k] = Extended(f[i + 1 + (k - 1)], t[i + 1 + k], m)
    BY <1>4, <2>1 DEF Scans
  <2>4. u[i + k] = t[i + 1 + k]
    BY <1>3, <2>1
  <2> QED BY <1>9, <2>2, <2>3, <2>4
<1> DEFINE T == {k \in 0..(n - 1 - i) : g[i + k] = f[i + 1 + k]}
<1>10. 0 \in T
  <2>1. i + 0 = i /\ i + 1 + 0 = i + 1 /\ 0 \in 0..(n - 1 - i)
    BY <1>2
  <2> QED BY <1>8, <2>1
<1>11. \A k \in 1..(n - 1 - i) : k - 1 \in T => k \in T
  BY <1>9
<1>12. n - 1 - i \in Nat
  BY <1>2
<1> HIDE DEF T
<1>13. \A k \in 0..(n - 1 - i) : k \in T
  BY <1>10, <1>11, <1>12, UpTo
<1>14. n - 1 - i \in T
  BY <1>12, <1>13
<1>15. i + (n - 1 - i) = n - 1 /\ i + 1 + (n - 1 - i) = n
  BY <1>2
<1>16. g[n - 1] = f[n]
  BY <1>14, <1>15 DEF T
<1> QED BY <1>1, <1>3, <1>4, <1>5, <1>16 DEF Scans

\* Merges in the order they were learnt in
Ordering(ms, S) ==
  /\ Len(ms) \in Nat /\ DOMAIN ms = 1..Len(ms)
  /\ \A i \in 1..Len(ms) : Learnt(ms[i], S)
  /\ \A i, j \in 1..Len(ms) : ms[i] = ms[j] => i = j
  /\ \A i, j \in 1..Len(ms) :
       i <= j => ms[j][1] \o ms[j][2] # ms[i][1] /\ ms[j][1] \o ms[j][2] # ms[i][2]

Ranks == /\ DOMAIN merge_rank = {merges[i] : i \in 1..Len(merges)}
         /\ \A i \in 1..Len(merges) : merge_rank[merges[i]] = i - 1

LEMMA RanksAre ==
  ASSUME NEW S, Ordering(merges, S), merge_rank = LastPlaces(merges)
  PROVE  Ranks
<1>1. DOMAIN merge_rank = {merges[i] : i \in 1..Len(merges)}
  BY DEF LastPlaces, Range, Ordering
<1>2. ASSUME NEW i \in 1..Len(merges) PROVE merge_rank[merges[i]] = i - 1
  <2>1. {j \in DOMAIN merges : merges[j] = merges[i]} = {i}
    BY DEF Ordering
  <2>2. Max({i}) = i
    BY DEF Max
  <2>3. merges[i] \in Range(merges)
    BY DEF Range, Ordering
  <2>4. merge_rank[merges[i]] = Max({j \in DOMAIN merges : merges[j] = merges[i]}) - 1
    BY <2>3 DEF LastPlaces
  <2> QED BY <2>1, <2>2, <2>4
<1> QED BY <1>1, <1>2 DEF Ranks

\* Where merge k stands, there is a pair of its rank to merge
LEMMA PlaceHasRank ==
  ASSUME NEW S, Ordering(merges, S), Ranks, NEW t, NEW k \in 1..Len(merges), NEW i,
         Stands(t, i, merges[k])
  PROVE  i \in Mergeable(t) /\ Rank(t, i) = k - 1
<1>1. i \in 1..(Len(t) - 1) /\ <<t[i], t[i + 1]>> = merges[k]
  BY DEF Stands, Ordering, Learnt
<1> QED BY <1>1 DEF Ranks, Mergeable, Rank

LEMMA PairHasPlace ==
  ASSUME NEW S, Ordering(merges, S), Ranks, NEW t, NEW i \in Mergeable(t)
  PROVE  \E k \in 1..Len(merges) : Stands(t, i, merges[k]) /\ Rank(t, i) = k - 1
<1>1. i \in 1..(Len(t) - 1) /\ <<t[i], t[i + 1]>> \in {merges[k] : k \in 1..Len(merges)}
  BY DEF Mergeable, Ranks
<1>2. PICK k \in 1..Len(merges) : <<t[i], t[i + 1]>> = merges[k]
  BY <1>1
<1>3. merges[k][1] = t[i] /\ merges[k][2] = t[i + 1]
  <2>1. PICK x, y, m : x = t[i] /\ y = t[i + 1] /\ m = merges[k]
    OBVIOUS
  <2>2. m = <<x, y>>
    BY <1>2, <2>1
  <2>3. m[1] = x /\ m[2] = y
    BY <2>2
  <2> QED BY <2>1, <2>3
<1> QED BY <1>1, <1>2, <1>3 DEF Stands, Rank, Ranks

\* The best pair is the leftmost place of the first merge that stands in t
LEMMA BestIs ==
  ASSUME NEW S, Ordering(merges, S), Ranks, NEW t, Len(t) \in Nat, Mergeable(t) # {}
  PROVE  \E k \in 1..Len(merges) :
           /\ Stands(t, Best(t), merges[k])
           /\ \A j \in 1..Best(t) - 1 : ~Stands(t, j, merges[k])
           /\ \A l \in 1..k - 1 : \A j : ~Stands(t, j, merges[l])
<1> DEFINE Least(i) == \A j \in Mergeable(t) :
                        Rank(t, i) < Rank(t, j) \/ (Rank(t, i) = Rank(t, j) /\ i <= j)
<1>0. Len(merges) \in Nat
  BY DEF Ordering
<1>1. \A i \in Mergeable(t) : Rank(t, i) \in Nat /\ i \in Nat
  <2> SUFFICES ASSUME NEW i \in Mergeable(t) PROVE Rank(t, i) \in Nat /\ i \in Nat
    OBVIOUS
  <2>1. i \in Nat
    BY DEF Mergeable
  <2> QED BY <1>0, <2>1, PairHasPlace
<1>2. PICK r \in {Rank(t, i) : i \in Mergeable(t)} : \A i \in Mergeable(t) : r <= Rank(t, i)
  <2>1. {Rank(t, i) : i \in Mergeable(t)} \subseteq Nat /\ {Rank(t, i) : i \in Mergeable(t)} # {}
    BY <1>1
  <2>2. PICK R : R = {Rank(t, i) : i \in Mergeable(t)}
    OBVIOUS
  <2>3. PICK r \in R : \A q \in R : r <= q
    BY <2>1, <2>2, LeastOf
  <2> QED BY <2>2, <2>3
<1>3. PICK i \in Mergeable(t) : Rank(t, i) = r /\ \A j \in Mergeable(t) : Rank(t, j) = r => i <= j
  <2>1. PICK P : P = {i \in Mergeable(t) : Rank(t, i) = r}
    OBVIOUS
  <2>2. P \subseteq Nat /\ P # {}
    BY <1>1, <1>2, <2>1
  <2>3. PICK i \in P : \A j \in P : i <= j
    BY <2>2, LeastOf
  <2> QED BY <2>1, <2>3
<1>4. Least(i)
  BY <1>1, <1>2, <1>3
<1>5. Best(t) \in Mergeable(t) /\ Least(Best(t))
  <2>1. Best(t) = CHOOSE b \in Mergeable(t) : Least(b)
    BY DEF Best
  <2> HIDE DEF Least
  <2> QED BY <1>4, <2>1
<1>6. PICK b : b = Best(t)
  OBVIOUS
<1>7. b \in Mergeable(t) /\ Least(b)
  BY <1>5, <1>6
<1>8. PICK k \in 1..Len(merges) : Stands(t, b, merges[k]) /\ Rank(t, b) = k - 1
  BY <1>7, PairHasPlace
<1>9. ASSUME NEW j \in 1..b - 1 PROVE ~Stands(t, j, merges[k])
  <2> SUFFICES ASSUME Stands(t, j, merges[k]) PROVE FALSE
    OBVIOUS
  <2>1. j \in Mergeable(t) /\ Rank(t, j) = k - 1
    BY PlaceHasRank
  <2> QED BY <1>0, <1>1, <1>7, <1>8, <2>1
<1>10. ASSUME NEW l \in 1..k - 1, NEW j PROVE ~Stands(t, j, merges[l])
  <2> SUFFICES ASSUME Stands(t, j, merges[l]) PROVE FALSE
    OBVIOUS
  <2>1. l \in 1..Len(merges)
    BY <1>0
  <2>2. j \in Mergeable(t) /\ Rank(t, j) = l - 1
    BY <2>1, PlaceHasRank
  <2> QED BY <1>0, <1>7, <1>8, <2>2
<1> QED BY <1>6, <1>8, <1>9, <1>10

LEMMA EverywhereType ==
  ASSUME NEW S, NEW m, Learnt(m, S), NEW t \in Seq(S)
  PROVE  Everywhere(t, m) \in Seq(S)
<1>1. PICK f : Scans(f, t, m, S)
  BY EverywhereIs
<1>2. Len(t) \in 0..Len(t)
  OBVIOUS
<1> QED BY <1>1, <1>2 DEF Scans

\* h is what the tokens t have become after each of the merges
Trains(h, t, S) ==
  /\ h[0] = t
  /\ \A k \in 1..Len(merges) : h[k] = Everywhere(h[k - 1], merges[k])
  /\ \A k \in 0..Len(merges) : h[k] \in Seq(S)
  /\ Trained(t) = h[Len(merges)]

LEMMA TrainedIs ==
  ASSUME NEW S, Ordering(merges, S), NEW t \in Seq(S)
  PROVE  \E h : Trains(h, t, S)
<1> DEFINE n == Len(merges)
           V == Seq(S)
           F == [k \in 1..n |-> [d \in V |-> Everywhere(d, merges[k])]]
           Def(g) == g = [k \in 0..n |-> IF k = 0 THEN t ELSE Everywhere(g[k - 1], merges[k])]
           h == CHOOSE g : Def(g)
<1>0. n \in Nat
  BY DEF Ordering
<1>1. \A k \in 1..n, d \in V : Everywhere(d, merges[k]) \in V
  <2> SUFFICES ASSUME NEW k \in 1..n, NEW d \in V PROVE Everywhere(d, merges[k]) \in V
    OBVIOUS
  <2>1. Learnt(merges[k], S)
    BY DEF Ordering
  <2> QED BY <2>1, EverywhereType
<1>2. F \in [1..n -> [V -> V]]
  BY <1>1
<1> HIDE DEF F
<1>3. PICK f \in [0..n -> V] : f[0] = t /\ \A k \in 1..n : f[k] = F[k][f[k - 1]]
  <2>1. IsDefined(n, V, t, F)
    BY <1>0, <1>2, Recursion
  <2> QED BY <2>1 DEF IsDefined
<1>4. ASSUME NEW k \in 1..n PROVE f[k] = Everywhere(f[k - 1], merges[k])
  <2>1. k - 1 \in 0..n
    BY <1>0
  <2>2. f[k - 1] \in V
    BY <2>1
  <2> QED BY <1>3, <2>1, <2>2 DEF F
<1>5. Def(f)
  <2>1. \A k \in 0..n : k # 0 => k \in 1..n
    BY <1>0
  <2>2. \A k \in 0..n : f[k] = IF k = 0 THEN t ELSE Everywhere(f[k - 1], merges[k])
    BY <1>3, <1>4, <2>1
  <2> QED BY <2>2
<1>6. Def(h)
  <2> HIDE DEF Def
  <2> QED BY <1>5
<1>7. Trained(t) = h[n]
  BY DEF Trained
<1> HIDE DEF h
<1>8. h[0] = t
  BY <1>0, <1>6
<1>9. ASSUME NEW k \in 1..n PROVE h[k] = Everywhere(h[k - 1], merges[k])
  <2>1. k \in 0..n /\ k # 0
    BY <1>0
  <2> QED BY <1>6, <2>1
<1>10. \A k \in 0..n : h[k] \in V
  <2>1. ASSUME NEW k \in 1..n, h[k - 1] \in V PROVE h[k] \in V
    <3>1. PICK d \in V : d = h[k - 1]
      BY <2>1
    <3>2. Everywhere(d, merges[k]) \in V
      BY <1>1
    <3> QED BY <1>9, <3>1, <3>2
  <2>2. h[0] \in V
    BY <1>8
  <2> DEFINE T == {k \in 0..n : h[k] \in V}
  <2>3. 0 \in T
    BY <1>0, <2>2
  <2>4. \A k \in 1..n : k - 1 \in T => k \in T
    BY <2>1
  <2> HIDE DEF T
  <2>5. \A k \in 0..n : k \in T
    BY <1>0, <2>3, <2>4, UpTo
  <2> QED BY <2>5 DEF T
<1> QED BY <1>7, <1>8, <1>9, <1>10 DEF Trains

\* None of the merges before k stands in t
AllBefore(t, k) == \A l \in 1..k - 1 : \A j : ~Stands(t, j, merges[l])

\* The tokens now are on their way from those before merge k to those after it
Underway(h, now, k) ==
  AllBefore(now, k) /\ Everywhere(now, merges[k]) = h[k]

LEMMA NothingBetween ==
  ASSUME NEW S, Ordering(merges, S), NEW t, NEW h, Trains(h, t, S), NEW now \in Seq(S),
         NEW k \in 1..Len(merges), NEW j \in k..Len(merges), Underway(h, now, k), AllBefore(now, j)
  PROVE  Underway(h, now, j)
<1>0. k \in Nat /\ j \in Nat /\ Len(merges) \in Nat /\ j - k \in Nat
  BY DEF Ordering
<1>1. ASSUME NEW d \in 1..(j - k), Everywhere(now, merges[k + (d - 1)]) = h[k + (d - 1)]
      PROVE  Everywhere(now, merges[k + d]) = h[k + d]
  <2>1. /\ k + (d - 1) \in 1..j - 1 /\ k + (d - 1) \in 1..Len(merges) /\ k + d \in 1..Len(merges)
        /\ (k + d) - 1 = k + (d - 1)
    BY <1>0
  <2>2. \A i \in 1..Len(now) - 1 : ~Stands(now, i, merges[k + (d - 1)])
    BY <2>1 DEF AllBefore
  <2>3. Learnt(merges[k + (d - 1)], S)
    BY <2>1 DEF Ordering
  <2>4. Everywhere(now, merges[k + (d - 1)]) = now
    BY <2>2, <2>3, NothingToMerge
  <2>5. h[k + d] = Everywhere(h[k + (d - 1)], merges[k + d])
    BY <2>1 DEF Trains
  <2> QED BY <1>1, <2>4, <2>5
<1> DEFINE T == {d \in 0..(j - k) : Everywhere(now, merges[k + d]) = h[k + d]}
<1>2. 0 \in T
  <2>1. k + 0 = k /\ 0 \in 0..(j - k)
    BY <1>0
  <2> QED BY <2>1 DEF Underway
<1>3. \A d \in 1..(j - k) : d - 1 \in T => d \in T
  BY <1>1
<1> HIDE DEF T
<1>4. \A d \in 0..(j - k) : d \in T
  BY <1>0, <1>2, <1>3, UpTo
<1>5. j - k \in T /\ k + (j - k) = j
  BY <1>0, <1>4
<1> QED BY <1>5 DEF T, Underway

\* Merging the best pair stays on the way
LEMMA OneStep ==
  ASSUME NEW S, Ordering(merges, S), Ranks, NEW t, NEW h, Trains(h, t, S), NEW now \in Seq(S),
         NEW k \in 1..Len(merges), Underway(h, now, k), Mergeable(now) # {}
  PROVE  /\ MergeAt(now, Best(now)) \in Seq(S)
         /\ Len(MergeAt(now, Best(now))) = Len(now) - 1
         /\ \E j \in 1..Len(merges) : Underway(h, MergeAt(now, Best(now)), j)
<1>0. Len(now) \in Nat /\ Len(merges) \in Nat
  BY DEF Ordering
<1>1. PICK b : b = Best(now)
  OBVIOUS
<1>2. PICK j \in 1..Len(merges) :
        /\ Stands(now, b, merges[j])
        /\ \A i \in 1..b - 1 : ~Stands(now, i, merges[j])
        /\ AllBefore(now, j)
  BY <1>0, <1>1, BestIs DEF AllBefore
<1>3. j \in k..Len(merges)
  BY <1>0, <1>2 DEF Underway, AllBefore
<1>4. Underway(h, now, j)
  BY <1>2, <1>3, NothingBetween
<1>5. Learnt(merges[j], S)
  BY DEF Ordering
<1>6. PICK p : p = merges[j][1] \o merges[j][2]
  OBVIOUS
<1>7. b \in 1..(Len(now) - 1) /\ now[b] \o now[b + 1] = p /\ p \in S
  BY <1>2, <1>5, <1>6 DEF Stands, Learnt
<1>8. PICK next : next = MergeAt(now, b)
  OBVIOUS
<1>9. next \in Seq(S) /\ Len(next) = Len(now) - 1
  BY <1>7, <1>8, MergeAtIs
<1>10. Everywhere(next, merges[j]) = h[j]
  <2>1. Everywhere(next, merges[j]) = Everywhere(now, merges[j])
    BY <1>2, <1>5, <1>8, LeftmostFirst
  <2> QED BY <1>4, <2>1 DEF Underway
<1>11. ASSUME NEW l \in 1..j - 1 PROVE \A i : ~Stands(next, i, merges[l])
  <2>1. l \in 1..Len(merges) /\ l <= j
    BY <1>0
  <2>2. p # merges[l][1] /\ p # merges[l][2]
    BY <1>6, <2>1 DEF Ordering
  <2>3. \A i \in 1..(Len(now) - 1) : ~Stands(now, i, merges[l])
    BY <1>2 DEF AllBefore
  <2>4. PICK q : q = merges[l]
    OBVIOUS
  <2> QED BY <1>7, <1>8, <2>2, <2>3, <2>4, StaysAbsent
<1>12. Underway(h, next, j)
  BY <1>10, <1>11 DEF Underway, AllBefore
<1> QED BY <1>1, <1>8, <1>9, <1>12

Stepped(now) == IF Mergeable(now) = {} THEN now ELSE MergeAt(now, Best(now))

LEMMA SteppedIs ==
  ASSUME NEW S, Ordering(merges, S), Ranks, NEW now \in Seq(S)
  PROVE  /\ Stepped(now) \in Seq(S)
         /\ Mergeable(now) # {} => Len(Stepped(now)) = Len(now) - 1
<1>1. CASE Mergeable(now) = {}
  BY <1>1 DEF Stepped
<1>2. CASE Mergeable(now) # {}
  <2>1. Len(now) \in Nat
    OBVIOUS
  <2>2. PICK b : b = Best(now)
    OBVIOUS
  <2>3. PICK k \in 1..Len(merges) : Stands(now, b, merges[k])
    BY <1>2, <2>1, <2>2, BestIs
  <2>4. Learnt(merges[k], S)
    BY DEF Ordering
  <2>5. b \in 1..(Len(now) - 1) /\ now[b] \o now[b + 1] \in S
    BY <2>3, <2>4 DEF Stands, Learnt
  <2>6. PICK next : next = MergeAt(now, b)
    OBVIOUS
  <2>7. next \in Seq(S) /\ Len(next) = Len(now) - 1
    BY <2>5, <2>6, MergeAtIs
  <2> QED BY <1>2, <2>2, <2>6, <2>7 DEF Stepped
<1> QED BY <1>1, <1>2

\* a is what the tokens t are after each merging of a pair
Steps(a, t, S) ==
  /\ a[0] = t
  /\ \A i \in 1..Len(t) : a[i] = Stepped(a[i - 1])
  /\ \A i \in 0..Len(t) : a[i] \in Seq(S)
  /\ Merged(t) = a[Len(t)]

LEMMA MergedIs ==
  ASSUME NEW S, Ordering(merges, S), Ranks, NEW t \in Seq(S)
  PROVE  \E a : Steps(a, t, S)
<1> DEFINE n == Len(t)
           V == Seq(S)
           F == [i \in 1..n |-> [d \in V |-> Stepped(d)]]
           Def(g) == g = [i \in 0..n |->
                           IF i = 0 THEN t
                           ELSE IF Mergeable(g[i - 1]) = {} THEN g[i - 1]
                                ELSE MergeAt(g[i - 1], Best(g[i - 1]))]
           h == CHOOSE g : Def(g)
<1>0. n \in Nat
  OBVIOUS
<1>1. \A d \in V : Stepped(d) \in V
  BY SteppedIs
<1>2. F \in [1..n -> [V -> V]]
  BY <1>1
<1> HIDE DEF F
<1>3. PICK f \in [0..n -> V] : f[0] = t /\ \A i \in 1..n : f[i] = F[i][f[i - 1]]
  <2>1. IsDefined(n, V, t, F)
    BY <1>0, <1>2, Recursion
  <2> QED BY <2>1 DEF IsDefined
<1>4. ASSUME NEW i \in 1..n PROVE f[i] = Stepped(f[i - 1])
  <2>1. i - 1 \in 0..n
    BY <1>0
  <2>2. f[i - 1] \in V
    BY <2>1
  <2> QED BY <1>3, <2>1, <2>2 DEF F
<1>5. Def(f)
  <2>1. \A i \in 0..n : i # 0 => i \in 1..n
    BY <1>0
  <2>2. \A i \in 0..n : f[i] = IF i = 0 THEN t
                           ELSE IF Mergeable(f[i - 1]) = {} THEN f[i - 1]
                                ELSE MergeAt(f[i - 1], Best(f[i - 1]))
    BY <1>3, <1>4, <2>1 DEF Stepped
  <2> QED BY <2>2
<1>6. Def(h)
  <2> HIDE DEF Def
  <2> QED BY <1>5
<1>7. Merged(t) = h[n]
  BY DEF Merged
<1> HIDE DEF h
<1>8. h[0] = t
  BY <1>0, <1>6
<1>9. ASSUME NEW i \in 1..n PROVE h[i] = Stepped(h[i - 1])
  <2>1. i \in 0..n /\ i # 0
    BY <1>0
  <2> QED BY <1>6, <2>1 DEF Stepped
<1>10. \A i \in 0..n : h[i] \in V
  <2>1. ASSUME NEW i \in 1..n, h[i - 1] \in V PROVE h[i] \in V
    <3>1. PICK d \in V : d = h[i - 1]
      BY <2>1
    <3>2. Stepped(d) \in V
      BY <1>1
    <3> QED BY <1>9, <3>1, <3>2
  <2>2. h[0] \in V
    BY <1>8
  <2> DEFINE T == {i \in 0..n : h[i] \in V}
  <2>3. 0 \in T
    BY <1>0, <2>2
  <2>4. \A i \in 1..n : i - 1 \in T => i \in T
    BY <2>1
  <2> HIDE DEF T
  <2>5. \A i \in 0..n : i \in T
    BY <1>0, <2>3, <2>4, UpTo
  <2> QED BY <2>5 DEF T
<1> QED BY <1>7, <1>8, <1>9, <1>10 DEF Steps

\* One pair less after each step, so none is left in the end
LEMMA NonePending ==
  ASSUME NEW S, Ordering(merges, S), Ranks, NEW t \in Seq(S), NEW a, Steps(a, t, S)
  PROVE  Mergeable(a[Len(t)]) = {}
<1>0. PICK n : n = Len(t)
  OBVIOUS
<1>1. n \in Nat
  BY <1>0
<1>2. ASSUME NEW i \in 1..n, Mergeable(a[i - 1]) = {} \/ Len(a[i - 1]) = n - (i - 1)
      PROVE  Mergeable(a[i]) = {} \/ Len(a[i]) = n - i
  <2>1. i - 1 \in 0..n
    BY <1>1
  <2>2. PICK now \in Seq(S) : now = a[i - 1]
    BY <1>0, <2>1 DEF Steps
  <2>3. a[i] = Stepped(now)
    BY <1>0, <2>2 DEF Steps
  <2>4. CASE Mergeable(now) = {}
    BY <2>3, <2>4 DEF Stepped
  <2>5. CASE Mergeable(now) # {}
    <3>1. Len(Stepped(now)) = Len(now) - 1
      BY <2>5, SteppedIs
    <3>2. Len(now) = n - (i - 1)
      BY <1>2, <2>2, <2>5
    <3>3. (n - (i - 1)) - 1 = n - i
      BY <1>1
    <3> QED BY <2>3, <3>1, <3>2, <3>3, Zenon
  <2> QED BY <2>4, <2>5
<1> DEFINE T == {i \in 0..n : Mergeable(a[i]) = {} \/ Len(a[i]) = n - i}
<1>3. 0 \in T
  <2>1. 0 \in 0..n /\ n - 0 = n
    BY <1>1
  <2>2. Len(a[0]) = n
    BY <1>0 DEF Steps
  <2> QED BY <2>1, <2>2
<1>4. \A i \in 1..n : i - 1 \in T => i \in T
  <2>1. \A i \in 1..n : i \in 0..n
    BY <1>1
  <2> QED BY <1>2, <2>1
<1> HIDE DEF T
<1>5. \A i \in 0..n : i \in T
  BY <1>1, <1>3, <1>4, UpTo
<1>6. Mergeable(a[n]) = {} \/ Len(a[n]) = 0
  <2>1. n \in T /\ n - n = 0
    BY <1>1, <1>5
  <2> QED BY <2>1 DEF T
<1>7. Len(a[n]) = 0 => Mergeable(a[n]) = {}
  BY DEF Mergeable
<1> QED BY <1>0, <1>6, <1>7

\* Greedy merging is merging in the order of training
LEMMA GreedyIsTrained ==
  ASSUME NEW S, Ordering(merges, S), Ranks, NEW t \in Seq(S)
  PROVE  Merged(t) = Trained(t)
<1>1. PICK a : Steps(a, t, S)
  BY MergedIs
<1>2. PICK h : Trains(h, t, S)
  BY TrainedIs
<1>3. PICK n, N : n = Len(t) /\ N = Len(merges)
  OBVIOUS
<1>4. n \in Nat /\ N \in Nat
  BY <1>3 DEF Ordering
<1>5. Mergeable(a[n]) = {}
  BY <1>1, <1>3, NonePending
<1>6. CASE N = 0
  <2>1. ASSUME NEW now PROVE Stepped(now) = now
    <3>1. Mergeable(now) = {}
      BY <1>3, <1>6, PairHasPlace
    <3> QED BY <3>1 DEF Stepped
  <2>2. ASSUME NEW i \in 1..n, a[i - 1] = t PROVE a[i] = t
    BY <1>1, <1>3, <2>1, <2>2 DEF Steps
  <2> DEFINE T == {i \in 0..n : a[i] = t}
  <2>3. 0 \in T
    BY <1>1, <1>4 DEF Steps
  <2>4. \A i \in 1..n : i - 1 \in T => i \in T
    BY <2>2
  <2> HIDE DEF T
  <2>5. \A i \in 0..n : i \in T
    BY <1>4, <2>3, <2>4, UpTo
  <2>6. a[n] = t
    BY <1>4, <2>5 DEF T
  <2> QED BY <1>1, <1>2, <1>3, <1>6, <2>6 DEF Steps, Trains
<1>7. CASE N # 0
  <2>1. ASSUME NEW i \in 1..n, \E k \in 1..N : Underway(h, a[i - 1], k)
        PROVE  \E k \in 1..N : Underway(h, a[i], k)
    <3>1. i - 1 \in 0..n
      BY <1>4
    <3>2. PICK now \in Seq(S) : now = a[i - 1]
      BY <1>1, <1>3, <3>1 DEF Steps
    <3>3. a[i] = Stepped(now)
      BY <1>1, <1>3, <3>2 DEF Steps
    <3>4. PICK k \in 1..N : Underway(h, now, k)
      BY <2>1, <3>2
    <3>5. CASE Mergeable(now) = {}
      BY <3>3, <3>4, <3>5 DEF Stepped
    <3>6. CASE Mergeable(now) # {}
      <4>1. \E j \in 1..N : Underway(h, MergeAt(now, Best(now)), j)
        BY <1>2, <1>3, <3>4, <3>6, OneStep
      <4> QED BY <3>3, <3>6, <4>1 DEF Stepped
    <3> QED BY <3>5, <3>6
  <2>2. \E k \in 1..N : Underway(h, a[0], k)
    <3>1. 1 \in 1..N /\ 1 - 1 = 0
      BY <1>4, <1>7
    <3>2. h[1] = Everywhere(h[0], merges[1])
      BY <1>2, <1>3, <3>1 DEF Trains
    <3>3. h[0] = t /\ a[0] = t
      BY <1>1, <1>2 DEF Trains, Steps
    <3>4. AllBefore(t, 1)
      BY DEF AllBefore
    <3> QED BY <3>1, <3>2, <3>3, <3>4 DEF Underway
  <2> DEFINE T == {i \in 0..n : \E k \in 1..N : Underway(h, a[i], k)}
  <2>3. 0 \in T
    BY <1>4, <2>2
  <2>4. \A i \in 1..n : i - 1 \in T => i \in T
    BY <2>1
  <2> HIDE DEF T
  <2>5. \A i \in 0..n : i \in T
    BY <1>4, <2>3, <2>4, UpTo
  <2>6. PICK k \in 1..N : Underway(h, a[n], k)
    BY <1>4, <2>5 DEF T
  <2>7. PICK now \in Seq(S) : now = a[n]
    BY <1>1, <1>3, <1>4 DEF Steps
  <2>8. ASSUME NEW l \in 1..N, NEW i PROVE ~Stands(now, i, merges[l])
    BY <1>3, <1>5, <2>7, PlaceHasRank
  <2>9. AllBefore(now, N)
    BY <1>4, <2>8 DEF AllBefore
  <2>10. N \in k..Len(merges) /\ N \in 1..N
    BY <1>3, <1>4
  <2>11. Underway(h, now, N)
    BY <1>2, <1>3, <2>6, <2>7, <2>9, <2>10, NothingBetween
  <2>12. Everywhere(now, merges[N]) = now
    <3>1. Learnt(merges[N], S)
      BY <1>3, <2>10 DEF Ordering
    <3>2. \A i \in 1..Len(now) - 1 : ~Stands(now, i, merges[N])
      BY <2>8, <2>10
    <3> QED BY <3>1, <3>2, NothingToMerge
  <2>13. now = h[N]
    BY <2>11, <2>12 DEF Underway
  <2> QED BY <1>1, <1>2, <1>3, <2>7, <2>13 DEF Steps, Trains
<1> QED BY <1>6, <1>7

-----------------------------------------------------------------------------
(* A model that is loaded, and what it makes of a word.                    *)

\* The tables of a loaded model
Loaded == merges \in Merges /\ Load(Tokens(merges), merges)

\* Loading is the only time the tables are written: slm_ctx and tokenizer keep
\* them as the file had them
THEOREM AlwaysLoaded == TalkSpec => []Loaded
<1>1. TalkInit => Loaded
  BY DEF TalkInit, Loaded
<1>2. Loaded /\ [TalkNext]_talk => Loaded'
  <2> SUFFICES ASSUME Loaded, [TalkNext]_talk PROVE Loaded'
    OBVIOUS
  <2>1. UNCHANGED <<tokenizer, merges>>
    BY DEF TalkNext, SystemPrompt, UserTurn, ToolRound, Answer, Say, talk
  <2>2. UNCHANGED <<vocab_strs, vocab_to_id, merge_rank, merges>>
    BY <2>1 DEF tokenizer
  <2>3. merges' = merges /\ vocab_strs' = vocab_strs /\ vocab_to_id' = vocab_to_id
          /\ merge_rank' = merge_rank
    BY <2>2
  <2> QED BY <2>3 DEF Loaded, Load, Tokens
<1> QED BY <1>1, <1>2, PTL DEF TalkSpec

LEMMA CodePoints ==
  ASSUME NEW b \in 0..255
  PROVE  byte_to_uni[b] \in 0..511
<1>1. byte_to_uni[b] = bytes_to_unicode_cp(b)
  BY DEF byte_to_uni
<1>2. CASE b \in Printable
  BY <1>1, <1>2 DEF bytes_to_unicode_cp
<1>3. CASE b \notin Printable
  <2>1. PICK A, B : A = 0..(b - 1) /\ B = (0..(b - 1)) \ Printable
    OBVIOUS
  <2>2. IsFiniteSet(A) /\ Cardinality(A) <= 255 /\ Cardinality(A) \in Nat
    <3>1. 0 \in Int /\ b - 1 \in Int
      OBVIOUS
    <3>2. /\ IsFiniteSet(0..(b - 1))
          /\ Cardinality(0..(b - 1)) = IF 0 > b - 1 THEN 0 ELSE (b - 1) - 0 + 1
      BY <3>1, FS_Interval
    <3> QED BY <2>1, <3>2
  <2>3. B \subseteq A
    BY <2>1
  <2>4. Cardinality(B) \in Nat /\ Cardinality(B) <= Cardinality(A)
    BY <2>2, <2>3, FS_Subset, FS_CardinalityType
  <2>5. byte_to_uni[b] = 256 + Cardinality(B)
    BY <1>1, <1>3, <2>1 DEF bytes_to_unicode_cp
  <2> QED BY <2>2, <2>4, <2>5
<1> QED BY <1>2, <1>3

LEMMA VisibleIs ==
  ASSUME NEW b \in 0..255
  PROVE  Visible(b) \in Str
<1>1. PICK c \in 0..511 : c = byte_to_uni[b]
  BY CodePoints
<1>2. Visible(b) = IF c < 128 THEN <<c>> ELSE <<192 + (c \div 64), 128 + (c % 64)>>
  BY <1>1 DEF Visible, utf8_encode_cp
<1>3. 64 \in Nat \ {0} /\ c \in Int
  OBVIOUS
<1>4. PICK q \in Int, r \in 0..64 - 1 : c = q * 64 + r /\ c % 64 = r /\ c \div 64 = q
  BY <1>3, DivMod
<1>5. q \in 0..7
  BY <1>4
<1>6. CASE c < 128
  <2>1. c \in 0..255
    BY <1>6
  <2> QED BY <1>2, <1>6, <2>1 DEF Str
<1>7. CASE ~(c < 128)
  <2>1. PICK x \in 0..255, y \in 0..255 : x = 192 + q /\ y = 128 + r
    <3>1. 192 + q \in 0..255 /\ 128 + r \in 0..255
      BY <1>4, <1>5
    <3> QED BY <3>1
  <2>2. Visible(b) = <<x, y>>
    BY <1>2, <1>4, <1>7, <2>1
  <2> QED BY <2>2 DEF Str
<1> QED BY <1>6, <1>7

LEMMA OrderingIs ==
  ASSUME Loaded
  PROVE  Ordering(merges, Str)
<1>1. PICK P : P = (Str \ {<< >>}) \X (Str \ {<< >>})
  OBVIOUS
<1>2. /\ merges \in Seq(P)
      /\ \A i, j \in DOMAIN merges :
           /\ merges[i] = merges[j] => i = j
           /\ i <= j => merges[j][1] \o merges[j][2] \notin {merges[i][1], merges[i][2]}
  BY <1>1, MergesAssumption DEF Loaded
<1>3. Len(merges) \in Nat /\ DOMAIN merges = 1..Len(merges)
  BY <1>2
<1>4. ASSUME NEW i \in 1..Len(merges) PROVE Learnt(merges[i], Str)
  <2>1. PICK m : m = merges[i]
    OBVIOUS
  <2>2. m \in P
    BY <1>2, <2>1
  <2>3. m[1] \in Str /\ m[2] \in Str /\ m = <<m[1], m[2]>>
    BY <1>1, <2>2
  <2>4. m[1] \o m[2] \in Str
    BY <2>3 DEF Str
  <2>5. m[1] \o m[2] \notin {m[1], m[2]}
    <3>1. i \in DOMAIN merges /\ i <= i
      BY <1>3
    <3> QED BY <1>2, <2>1, <3>1
  <2> QED BY <2>1, <2>3, <2>4, <2>5 DEF Learnt
<1>5. \A i, j \in 1..Len(merges) :
        i <= j => merges[j][1] \o merges[j][2] # merges[i][1]
                  /\ merges[j][1] \o merges[j][2] # merges[i][2]
  BY <1>2, <1>3
<1> QED BY <1>2, <1>3, <1>4, <1>5 DEF Ordering

LEMMA PiecesAre ==
  ASSUME NEW w \in Seq(0..255)
  PROVE  Pieces(w) \in Seq(Str) /\ Len(Pieces(w)) = Len(w)
<1>1. PICK p : p = Pieces(w)
  OBVIOUS
<1>2. p = [i \in 1..Len(w) |-> Visible(w[i])] /\ Len(w) \in Nat
  BY <1>1 DEF Pieces
<1>3. \A i \in 1..Len(w) : Visible(w[i]) \in Str
  <2> SUFFICES ASSUME NEW i \in 1..Len(w) PROVE Visible(w[i]) \in Str
    OBVIOUS
  <2>1. w[i] \in 0..255
    BY ElementOfSeq
  <2> QED BY <2>1, VisibleIs
<1>4. p \in [1..Len(w) -> Str]
  BY <1>2, <1>3
<1>5. p \in Seq(Str) /\ Len(p) = Len(w)
  BY <1>2, <1>4
<1> QED BY <1>1, <1>5

(***************************************************************************)
(* Merging the best pair, again and again, is applying the merges in their *)
(* order, for every table of merges in the order they were learnt in and   *)
(* every word.                                                             *)
(***************************************************************************)
THEOREM GreedyMerging == TalkSpec => []MergesAsTrained
<1>1. Loaded => MergesAsTrained
  <2> SUFFICES ASSUME Loaded, NEW w \in SeqOf(Letters, MaxLetters)
               PROVE  Merged(Pieces(w)) = Trained(Pieces(w))
    BY DEF MergesAsTrained
  <2>1. w \in Seq(0..255)
    <3>1. PICK m \in 0..MaxLetters : w \in [1..m -> Letters]
      BY DEF SeqOf
    <3>2. m \in Nat /\ Letters \subseteq 0..255
      BY PromptAssumption
    <3>3. \A i \in 1..m : w[i] \in 0..255
      BY <3>1, <3>2
    <3>4. w \in [1..m -> 0..255]
      BY <3>1, <3>3
    <3> QED BY <3>2, <3>4
  <2>2. Ranks
    BY OrderingIs, RanksAre DEF Loaded, Load
  <2>3. PICK p \in Seq(Str) : p = Pieces(w)
    BY <2>1, PiecesAre
  <2>4. Merged(p) = Trained(p)
    BY <2>2, OrderingIs, GreedyIsTrained
  <2> QED BY <2>3, <2>4
<1> QED BY <1>1, AlwaysLoaded, PTL

-----------------------------------------------------------------------------
(* Texts that are read from a place to the end.                            *)

\* What holds at each place as soon as it holds at all later ones
LEMMA FromTheEnd ==
  ASSUME NEW n \in Nat, NEW S, \A p \in 1..n : (\A q \in p + 1..n : q \in S) => p \in S
  PROVE  \A p \in 1..n : p \in S
<1> SUFFICES ASSUME {p \in 1..n : p \notin S} # {} PROVE FALSE
  OBVIOUS
<1> DEFINE Bad == {k \in 0..n : n - k \in 1..n /\ n - k \notin S}
<1>1. Bad \subseteq Nat /\ Bad # {}
  <2>1. PICK p \in 1..n : p \notin S
    OBVIOUS
  <2>2. n - p \in 0..n /\ n - (n - p) = p
    OBVIOUS
  <2> QED BY <2>1, <2>2
<1>2. \A k \in Bad : k \in 0..n /\ n - k \in 1..n /\ n - k \notin S
  OBVIOUS
<1>3. \A k \in 0..n : n - k \in 1..n /\ n - k \notin S => k \in Bad
  OBVIOUS
<1> HIDE DEF Bad
<1>4. PICK m \in Bad : \A k \in Bad : m <= k
  BY <1>1, LeastOf
<1>5. m \in 0..n /\ n - m \in 1..n /\ n - m \notin S
  BY <1>2
<1>6. ASSUME NEW q \in (n - m) + 1..n PROVE q \in S
  <2>1. n - q \in 0..n /\ n - (n - q) = q /\ n - q < m /\ q \in 1..n
    BY <1>5
  <2>2. ~(m <= n - q)
    BY <1>5, <2>1
  <2> QED BY <1>3, <1>4, <2>1, <2>2
<1> QED BY <1>5, <1>6

\* What G makes at a place, out of what there is at later ones
Ahead(G, n, V) ==
  /\ G \in [1..n -> [[1..n -> V] -> V]]
  /\ \A p \in 1..n : \A g, h \in [1..n -> V] :
       (\A q \in p + 1..n : g[q] = h[q]) => G[p][g] = G[p][h]

\* A function may be defined by its values at later places
LEMMA Backwards ==
  ASSUME NEW n \in Nat, NEW V, NEW v \in V, NEW G, Ahead(G, n, V)
  PROVE  \E f \in [1..n -> V] : \A p \in 1..n : f[p] = G[p][f]
<1> DEFINE Upto(m, f) == \A p \in (n - m) + 1..n : f[p] = G[p][f]
           S == {m \in 0..n : \E f \in [1..n -> V] : Upto(m, f)}
<1>1. 0 \in S
  <2> DEFINE f == [p \in 1..n |-> v]
  <2>1. f \in [1..n -> V] /\ 0 \in 0..n
    OBVIOUS
  <2>2. Upto(0, f)
    OBVIOUS
  <2> HIDE DEF f, Upto
  <2> QED BY <2>1, <2>2
<1>2. ASSUME NEW i \in 1..n, i - 1 \in S PROVE i \in S
  <2>1. PICK f \in [1..n -> V] : Upto(i - 1, f)
    BY <1>2
  <2>2. PICK at \in 1..n : at = (n - i) + 1
    OBVIOUS
  <2>3. G[at][f] \in V
    BY DEF Ahead
  <2>4. PICK g \in [1..n -> V] : g = [f EXCEPT ![at] = G[at][f]]
    BY <2>3
  <2>5. \A q \in 1..n : g[q] = IF q = at THEN G[at][f] ELSE f[q]
    BY <2>4
  <2>6. ASSUME NEW p \in at..n PROVE G[p][g] = G[p][f]
    <3>1. p \in 1..n /\ \A q \in p + 1..n : q \in 1..n /\ q # at
      OBVIOUS
    <3>2. \A q \in p + 1..n : g[q] = f[q]
      BY <2>5, <3>1
    <3> QED BY <3>1, <3>2 DEF Ahead
  <2>7. ASSUME NEW p \in at..n PROVE g[p] = G[p][g]
    <3>1. p \in 1..n
      OBVIOUS
    <3>2. CASE p = at
      BY <2>5, <2>6, <3>2
    <3>3. CASE p # at
      <4>1. p \in (n - (i - 1)) + 1..n
        BY <2>2, <3>3
      <4> QED BY <2>1, <2>5, <2>6, <3>1, <3>3, <4>1
    <3> QED BY <3>2, <3>3
  <2>8. Upto(i, g) /\ i \in 0..n
    BY <2>2, <2>7
  <2> HIDE DEF Upto
  <2> QED BY <2>8
<1>3. \A m \in S : \E f \in [1..n -> V] : Upto(m, f)
  OBVIOUS
<1> HIDE DEF S
<1>4. \A i \in 0..n : i \in S
  BY <1>1, <1>2, UpTo
<1>5. n \in S /\ (n - n) + 1 = 1
  BY <1>4
<1> QED BY <1>3, <1>5

\* A part of a text
LEMMA SliceIs ==
  ASSUME NEW S, NEW s \in Seq(S), NEW p \in 1..Len(s) + 1, NEW q \in p - 1..Len(s)
  PROVE  /\ SubSeq(s, p, q) \in Seq(S)
         /\ Len(SubSeq(s, p, q)) = (q - p) + 1
         /\ \A i \in 1..(q - p) + 1 : SubSeq(s, p, q)[i] = s[(p + i) - 1]
<1>0. Len(s) \in Nat
  OBVIOUS
<1>1. p \in Int /\ q \in Int /\ \A i \in p..q : i \in 1..Len(s)
  BY <1>0
<1>2. \A i \in p..q : s[i] \in S
  BY <1>1, ElementOfSeq
<1>3. /\ SubSeq(s, p, q) \in Seq(S)
      /\ Len(SubSeq(s, p, q)) = IF p <= q THEN q - p + 1 ELSE 0
      /\ \A i \in 1..(q - p + 1) : SubSeq(s, p, q)[i] = s[p + i - 1]
  BY <1>1, <1>2, SubSeqProperties
<1>4. (IF p <= q THEN q - p + 1 ELSE 0) = (q - p) + 1
  BY <1>1
<1> QED BY <1>1, <1>3, <1>4

LEMMA SuffixIs ==
  ASSUME NEW S, NEW s \in Seq(S), NEW p \in 1..Len(s) + 1
  PROVE  /\ Suffix(s, p) \in Seq(S)
         /\ Len(Suffix(s, p)) = (Len(s) - p) + 1
         /\ \A i \in 1..(Len(s) - p) + 1 : Suffix(s, p)[i] = s[(p + i) - 1]
<1>0. Len(s) \in Nat
  OBVIOUS
<1>1. Len(s) \in p - 1..Len(s)
  BY <1>0
<1> QED BY <1>1, SliceIs DEF Suffix

\* What follows a part and the part make what the part begins
LEMMA PartsMeet ==
  ASSUME NEW S, NEW s \in Seq(S), NEW p \in 1..Len(s) + 1, NEW q \in p - 1..Len(s)
  PROVE  SubSeq(s, p, q) \o Suffix(s, q + 1) = Suffix(s, p)
<1>0. PICK n \in Nat : n = Len(s)
  OBVIOUS
<1>1. q + 1 \in 1..n + 1
  BY <1>0
<1>2. PICK a, b, c : a = SubSeq(s, p, q) /\ b = Suffix(s, q + 1) /\ c = Suffix(s, p)
  OBVIOUS
<1>3. /\ a \in Seq(S) /\ Len(a) = (q - p) + 1
      /\ \A i \in 1..(q - p) + 1 : a[i] = s[(p + i) - 1]
  BY <1>2, SliceIs
<1>4. /\ b \in Seq(S) /\ Len(b) = (n - (q + 1)) + 1
      /\ \A i \in 1..(n - (q + 1)) + 1 : b[i] = s[((q + 1) + i) - 1]
  BY <1>0, <1>1, <1>2, SuffixIs
<1>5. /\ c \in Seq(S) /\ Len(c) = (n - p) + 1
      /\ \A i \in 1..(n - p) + 1 : c[i] = s[(p + i) - 1]
  BY <1>0, <1>2, SuffixIs
<1>6. PICK d : d = a \o b
  OBVIOUS
<1>7. /\ d \in Seq(S) /\ Len(d) = Len(a) + Len(b)
      /\ \A i \in 1..Len(a) + Len(b) : d[i] = IF i <= Len(a) THEN a[i] ELSE b[i - Len(a)]
  BY <1>3, <1>4, <1>6, ConcatProperties
<1>8. Len(d) = Len(c)
  BY <1>0, <1>3, <1>4, <1>5, <1>7
<1>9. ASSUME NEW i \in 1..Len(c) PROVE d[i] = c[i]
  <2>1. i \in 1..(n - p) + 1 /\ c[i] = s[(p + i) - 1] /\ i \in 1..Len(a) + Len(b)
    BY <1>0, <1>3, <1>4, <1>5
  <2>2. CASE i <= Len(a)
    <3>1. i \in 1..(q - p) + 1
      BY <1>3, <2>1, <2>2
    <3> QED BY <1>3, <1>7, <2>1, <2>2, <3>1
  <2>3. CASE ~(i <= Len(a))
    <3>1. PICK k \in 1..(n - (q + 1)) + 1 : k = i - Len(a)
      <4>1. i \in 1..(n - p) + 1 /\ i > (q - p) + 1 /\ Len(a) = (q - p) + 1
        BY <1>0, <1>3, <2>1, <2>3
      <4>2. i - ((q - p) + 1) \in 1..(n - (q + 1)) + 1
        BY <1>0, <4>1
      <4> QED BY <4>1, <4>2
    <3>2. ((q + 1) + k) - 1 = (p + i) - 1
      BY <1>3, <3>1, <2>1
    <3>3. d[i] = b[k]
      BY <1>7, <2>1, <2>3, <3>1
    <3> QED BY <1>4, <2>1, <3>1, <3>2, <3>3
  <2> QED BY <2>2, <2>3
<1>10. d = c
  BY <1>5, <1>7, <1>8, <1>9, SeqEqual
<1> QED BY <1>2, <1>6, <1>10

\* Parts of two texts put together, in the second one
LEMMA SliceBehind ==
  ASSUME NEW S, NEW s \in Seq(S), NEW t \in Seq(S), NEW p \in 1..Len(t) + 1, NEW q \in p - 1..Len(t)
  PROVE  SubSeq(s \o t, Len(s) + p, Len(s) + q) = SubSeq(t, p, q)
<1>a. Len(s) \in Nat /\ Len(t) \in Nat
  OBVIOUS
<1>0. PICK m, n, w : m = Len(s) /\ n = Len(t) /\ w = s \o t /\ m \in Nat /\ n \in Nat
  BY <1>a
<1>1. /\ w \in Seq(S) /\ Len(w) = m + n
      /\ \A i \in 1..m + n : w[i] = IF i <= m THEN s[i] ELSE t[i - m]
  BY <1>0, ConcatProperties
<1>2. m + p \in 1..Len(w) + 1 /\ m + q \in (m + p) - 1..Len(w)
  BY <1>0, <1>1
<1>3. PICK a, b : a = SubSeq(w, m + p, m + q) /\ b = SubSeq(t, p, q)
  OBVIOUS
<1>4. /\ a \in Seq(S) /\ Len(a) = ((m + q) - (m + p)) + 1
      /\ \A i \in 1..((m + q) - (m + p)) + 1 : a[i] = w[((m + p) + i) - 1]
  BY <1>1, <1>2, <1>3, SliceIs
<1>5. /\ b \in Seq(S) /\ Len(b) = (q - p) + 1
      /\ \A i \in 1..(q - p) + 1 : b[i] = t[(p + i) - 1]
  BY <1>3, SliceIs
<1>6. Len(a) = Len(b)
  BY <1>0, <1>4, <1>5
<1>7. ASSUME NEW i \in 1..Len(b) PROVE a[i] = b[i]
  <2>1. i \in 1..(q - p) + 1 /\ i \in 1..((m + q) - (m + p)) + 1
    BY <1>0, <1>5
  <2>2. PICK k \in 1..n : k = (p + i) - 1
    BY <1>0, <2>1
  <2>3. ((m + p) + i) - 1 = m + k /\ m + k \in 1..m + n /\ ~(m + k <= m) /\ (m + k) - m = k
    BY <1>0, <2>1, <2>2
  <2>4. w[m + k] = t[k]
    BY <1>1, <2>3
  <2> QED BY <1>4, <1>5, <2>1, <2>2, <2>3, <2>4
<1>8. a = b
  BY <1>4, <1>5, <1>6, <1>7, SeqEqual
<1> QED BY <1>0, <1>3, <1>8

LEMMA SuffixBehind ==
  ASSUME NEW S, NEW s \in Seq(S), NEW t \in Seq(S), NEW p \in 1..Len(t) + 1
  PROVE  Suffix(s \o t, Len(s) + p) = Suffix(t, p)
<1>1. Len(t) \in Nat /\ Len(t) \in p - 1..Len(t)
  OBVIOUS
<1>2. Len(s \o t) = Len(s) + Len(t)
  BY ConcatProperties
<1>3. SubSeq(s \o t, Len(s) + p, Len(s) + Len(t)) = SubSeq(t, p, Len(t))
  BY <1>1, SliceBehind
<1> QED BY <1>2, <1>3 DEF Suffix

\* and in the first one
LEMMA SliceBefore ==
  ASSUME NEW S, NEW s \in Seq(S), NEW t \in Seq(S), NEW p \in 1..Len(s) + 1, NEW q \in p - 1..Len(s)
  PROVE  SubSeq(s \o t, p, q) = SubSeq(s, p, q)
<1>a. Len(s) \in Nat /\ Len(t) \in Nat
  OBVIOUS
<1>0. PICK m, n, w : m = Len(s) /\ n = Len(t) /\ w = s \o t /\ m \in Nat /\ n \in Nat
  BY <1>a
<1>1. /\ w \in Seq(S) /\ Len(w) = m + n
      /\ \A i \in 1..m + n : w[i] = IF i <= m THEN s[i] ELSE t[i - m]
  BY <1>0, ConcatProperties
<1>2. p \in 1..Len(w) + 1 /\ q \in p - 1..Len(w)
  BY <1>0, <1>1
<1>3. PICK a, b : a = SubSeq(w, p, q) /\ b = SubSeq(s, p, q)
  OBVIOUS
<1>4. /\ a \in Seq(S) /\ Len(a) = (q - p) + 1
      /\ \A i \in 1..(q - p) + 1 : a[i] = w[(p + i) - 1]
  BY <1>1, <1>2, <1>3, SliceIs
<1>5. /\ b \in Seq(S) /\ Len(b) = (q - p) + 1
      /\ \A i \in 1..(q - p) + 1 : b[i] = s[(p + i) - 1]
  BY <1>3, SliceIs
<1>7. ASSUME NEW i \in 1..Len(b) PROVE a[i] = b[i]
  <2>1. i \in 1..(q - p) + 1
    BY <1>5
  <2>2. PICK k \in 1..m : k = (p + i) - 1
    BY <1>0, <2>1
  <2>4. w[k] = s[k]
    BY <1>0, <1>1, <2>2
  <2> QED BY <1>4, <1>5, <2>1, <2>2, <2>4
<1>8. a = b
  BY <1>4, <1>5, <1>7, SeqEqual
<1> QED BY <1>0, <1>3, <1>8

\* From a place in the first one to the end
LEMMA SuffixAcross ==
  ASSUME NEW S, NEW s \in Seq(S), NEW t \in Seq(S), NEW p \in 1..Len(s) + 1, NEW q \in 0..Len(t)
  PROVE  SubSeq(s \o t, p, Len(s) + q) = Suffix(s, p) \o SubSeq(t, 1, q)
<1>a. Len(s) \in Nat /\ Len(t) \in Nat
  OBVIOUS
<1>0. PICK m, n, w : m = Len(s) /\ n = Len(t) /\ w = s \o t /\ m \in Nat /\ n \in Nat
  BY <1>a
<1>1. /\ w \in Seq(S) /\ Len(w) = m + n
      /\ \A i \in 1..m + n : w[i] = IF i <= m THEN s[i] ELSE t[i - m]
  BY <1>0, ConcatProperties
<1>2. p \in 1..Len(w) + 1 /\ m + q \in p - 1..Len(w) /\ 1 \in 1..n + 1 /\ q \in 1 - 1..n
  BY <1>0, <1>1
<1>3. PICK a, b, c, d : a = SubSeq(w, p, m + q) /\ b = Suffix(s, p) /\ c = SubSeq(t, 1, q) /\ d = b \o c
  OBVIOUS
<1>4. /\ a \in Seq(S) /\ Len(a) = ((m + q) - p) + 1
      /\ \A i \in 1..((m + q) - p) + 1 : a[i] = w[(p + i) - 1]
  BY <1>1, <1>2, <1>3, SliceIs
<1>5. /\ b \in Seq(S) /\ Len(b) = (m - p) + 1
      /\ \A i \in 1..(m - p) + 1 : b[i] = s[(p + i) - 1]
  BY <1>0, <1>3, SuffixIs
<1>6. /\ c \in Seq(S) /\ Len(c) = (q - 1) + 1
      /\ \A i \in 1..(q - 1) + 1 : c[i] = t[(1 + i) - 1]
  BY <1>0, <1>2, <1>3, SliceIs
<1>7. /\ d \in Seq(S) /\ Len(d) = Len(b) + Len(c)
      /\ \A i \in 1..Len(b) + Len(c) : d[i] = IF i <= Len(b) THEN b[i] ELSE c[i - Len(b)]
  BY <1>3, <1>5, <1>6, ConcatProperties
<1>8. Len(a) = Len(d)
  BY <1>0, <1>4, <1>5, <1>6, <1>7
<1>9. ASSUME NEW i \in 1..Len(d) PROVE a[i] = d[i]
  <2>1. i \in 1..((m + q) - p) + 1 /\ i \in 1..Len(b) + Len(c)
    BY <1>0, <1>5, <1>6, <1>7
  <2>2. PICK k \in 1..m + n : k = (p + i) - 1
    BY <1>0, <2>1
  <2>3. CASE i <= Len(b)
    <3>1. i \in 1..(m - p) + 1 /\ k <= m
      BY <1>0, <1>5, <2>1, <2>2, <2>3
    <3> QED BY <1>1, <1>4, <1>5, <1>7, <2>1, <2>2, <2>3, <3>1
  <2>4. CASE ~(i <= Len(b))
    <3>1. ~(k <= m)
      BY <1>0, <1>5, <2>1, <2>2, <2>4
    <3>a. q \in Int /\ Len(c) = q /\ (q - 1) + 1 = q /\ Len(b) \in Int /\ i \in Int
      BY <1>0, <1>2, <1>5, <1>6
    <3>b. Len(b) < i /\ i <= Len(b) + q
      BY <2>1, <2>4, <3>a
    <3>2. PICK l \in 1..(q - 1) + 1 : l = i - Len(b)
      BY <3>a, <3>b
    <3>3. (1 + l) - 1 = k - m
      BY <1>0, <1>5, <2>1, <2>2, <3>2
    <3>4. a[i] = t[k - m] /\ d[i] = c[l]
      BY <1>1, <1>4, <1>7, <2>1, <2>2, <2>4, <3>1, <3>2
    <3> QED BY <1>6, <3>2, <3>3, <3>4
  <2> QED BY <2>3, <2>4
<1>10. a = d
  BY <1>4, <1>7, <1>8, <1>9, SeqEqual
<1> QED BY <1>0, <1>3, <1>10

-----------------------------------------------------------------------------
(* Bytes as visible characters, and back.                                  *)

LEMMA BytesBelow ==
  ASSUME NEW b \in 0..255
  PROVE  IsFiniteSet((0..(b - 1)) \ Printable) /\ Cardinality((0..(b - 1)) \ Printable) \in Nat
<1>1. IsFiniteSet(0..(b - 1))
  BY FS_Interval
<1> QED BY <1>1, FS_Subset, FS_CardinalityType

LEMMA CodePointIs ==
  ASSUME NEW b \in 0..255
  PROVE  byte_to_uni[b] = IF b \in Printable THEN b ELSE 256 + Cardinality((0..(b - 1)) \ Printable)
BY DEF byte_to_uni, bytes_to_unicode_cp

\* The more bytes without a character are below, the higher is the character
LEMMA Higher ==
  ASSUME NEW b \in 0..255, NEW c \in 0..255, b < c, b \notin Printable, c \notin Printable
  PROVE  byte_to_uni[b] # byte_to_uni[c]
<1>1. PICK B, C : B = (0..(b - 1)) \ Printable /\ C = (0..(c - 1)) \ Printable
  OBVIOUS
<1>2. /\ IsFiniteSet(B) /\ Cardinality(B) \in Nat
      /\ IsFiniteSet(C) /\ Cardinality(C) \in Nat
  BY <1>1, BytesBelow
<1>3. B \subseteq C /\ b \in C /\ b \notin B
  BY <1>1
<1>4. B # C
  BY <1>3
<1>5. Cardinality(B) < Cardinality(C)
  <2>1. B \in SUBSET C
    BY <1>3
  <2>2. Cardinality(B) <= Cardinality(C) /\ Cardinality(B) # Cardinality(C)
    BY <1>2, <1>4, <2>1, FS_Subset
  <2> QED BY <1>2, <2>2
<1>6. byte_to_uni[b] = 256 + Cardinality(B) /\ byte_to_uni[c] = 256 + Cardinality(C)
  BY <1>1, CodePointIs
<1> QED BY <1>2, <1>5, <1>6

LEMMA LettersDiffer ==
  ASSUME NEW b \in 0..255, NEW c \in 0..255, byte_to_uni[b] = byte_to_uni[c]
  PROVE  b = c
<1>0. ASSUME NEW x \in 0..255
      PROVE  /\ x \in Printable => byte_to_uni[x] = x
             /\ x \notin Printable => byte_to_uni[x] \notin 0..255
  <2>1. PICK n \in Nat : n = Cardinality((0..(x - 1)) \ Printable)
    BY BytesBelow
  <2>2. byte_to_uni[x] = IF x \in Printable THEN x ELSE 256 + n
    BY <2>1, CodePointIs
  <2> QED BY <2>2
<1>1. CASE b \in Printable /\ c \in Printable
  BY <1>0, <1>1
<1>2. CASE b \in Printable /\ c \notin Printable
  BY <1>0, <1>2
<1>3. CASE b \notin Printable /\ c \in Printable
  BY <1>0, <1>3
<1>4. CASE b \notin Printable /\ c \notin Printable
  <2>1. ~(b < c) /\ ~(c < b)
    BY <1>4, Higher
  <2> QED BY <2>1
<1> QED BY <1>1, <1>2, <1>3, <1>4

LEMMA ByteAgain ==
  ASSUME NEW b \in 0..255
  PROVE  byte_to_uni[b] \in DOMAIN uni_to_byte /\ uni_to_byte[byte_to_uni[b]] = b
<1>1. PICK c : c = byte_to_uni[b]
  OBVIOUS
<1>2. c \in {byte_to_uni[x] : x \in 0..255}
  BY <1>1
<1>3. {x \in 0..255 : byte_to_uni[x] = c} = {b}
  BY <1>1, LettersDiffer
<1>4. uni_to_byte[c] = Max({b})
  BY <1>2, <1>3 DEF uni_to_byte
<1>5. Max({b}) = b
  BY DEF Max
<1>6. c \in DOMAIN uni_to_byte
  BY <1>2 DEF uni_to_byte
<1> QED BY <1>1, <1>4, <1>5, <1>6

StartsWith(s, x) == Len(x) <= Len(s) /\ \A i \in 1..Len(x) : s[i] = x[i]

\* How a byte's character is written
LEMMA WrittenAs ==
  ASSUME NEW b \in 0..255
  PROVE  \/ \E c \in 0..127 : byte_to_uni[b] = c /\ Visible(b) = <<c>>
         \/ \E q \in 0..7, r \in 0..63 :
              byte_to_uni[b] = q * 64 + r /\ Visible(b) = <<192 + q, 128 + r>>
<1>1. PICK c \in 0..511 : c = byte_to_uni[b]
  BY CodePoints
<1>2. Visible(b) = IF c < 128 THEN <<c>> ELSE <<192 + (c \div 64), 128 + (c % 64)>>
  BY <1>1 DEF Visible, utf8_encode_cp
<1>3. CASE c < 128
  BY <1>1, <1>2, <1>3
<1>4. CASE ~(c < 128)
  <2>1. 64 \in Nat \ {0} /\ c \in Int
    OBVIOUS
  <2>2. PICK q \in Int, r \in 0..64 - 1 : c = q * 64 + r /\ c % 64 = r /\ c \div 64 = q
    BY <2>1, DivMod
  <2>3. q \in 0..7 /\ r \in 0..63
    BY <2>2
  <2> QED BY <1>1, <1>2, <1>4, <2>2, <2>3
<1> QED BY <1>3, <1>4

LEMMA OneByte ==
  ASSUME NEW s \in Str, NEW c \in 0..127, Len(s) >= 1, s[1] = c
  PROVE  utf8_decode_one(s) = [cp |-> c, adv |-> 1]
<1> DEFINE Def(g) == g = [i \in 1..1 |-> IF i = 1 THEN c % 128 ELSE g[i - 1] * 64 + (s[i] % 64)]
           h == CHOOSE g : Def(g)
<1>0. c \div 32 # 6 /\ c \div 16 # 14 /\ c \div 8 # 30 /\ c < 128 /\ c % 128 = c
  OBVIOUS
<1>1. Width(s[1]) = 1 /\ LeadBits[1] = 128 /\ c % 128 = c
  BY <1>0 DEF Width, LeadBits
<1>2. Def([i \in 1..1 |-> c % 128])
  OBVIOUS
<1>3. Def(h)
  <2> HIDE DEF Def
  <2> QED BY <1>2
<1>4. h[1] = c
  BY <1>1, <1>3
<1>5. utf8_decode_one(s) = [cp |-> h[1], adv |-> 1]
  <2>1. ~(1 = 0 \/ 1 > Len(s))
    BY DEF Str
  <2> QED BY <1>1, <2>1 DEF utf8_decode_one
<1> QED BY <1>4, <1>5

LEMMA TwoBytes ==
  ASSUME NEW s \in Str, NEW q \in 0..7, NEW r \in 0..63,
         Len(s) >= 2, s[1] = 192 + q, s[2] = 128 + r
  PROVE  utf8_decode_one(s) = [cp |-> q * 64 + r, adv |-> 2]
<1> DEFINE Def(g) == g = [i \in 1..2 |-> IF i = 1 THEN s[1] % 32 ELSE g[i - 1] * 64 + (s[i] % 64)]
           h == CHOOSE g : Def(g)
<1>0. s[1] \div 32 = 6 /\ s[1] \div 16 # 14 /\ s[1] \div 8 # 30 /\ ~(s[1] < 128)
        /\ s[1] % 32 = q /\ s[2] % 64 = r
  OBVIOUS
<1>1. Width(s[1]) = 2 /\ LeadBits[2] = 32
  BY <1>0 DEF Width, LeadBits
<1>2. \E g : Def(g)
  <2> DEFINE f == [i \in 1..2 |-> IF i = 1 THEN s[1] % 32 ELSE (s[1] % 32) * 64 + (s[2] % 64)]
  <2>1. \A i \in 1..2 : f[i] = IF i = 1 THEN s[1] % 32 ELSE f[i - 1] * 64 + (s[i] % 64)
    OBVIOUS
  <2>2. Def(f)
    BY <2>1
  <2> HIDE DEF f, Def
  <2> QED BY <2>2
<1>3. Def(h)
  <2> HIDE DEF Def
  <2> QED BY <1>2
<1>4. h[1] = s[1] % 32 /\ h[2] = h[1] * 64 + (s[2] % 64)
  <2>1. 1 \in 1..2 /\ 2 \in 1..2 /\ 2 # 1 /\ 2 - 1 = 1
    OBVIOUS
  <2> HIDE DEF h
  <2> QED BY <1>3, <2>1
<1>5. utf8_decode_one(s) = [cp |-> h[2], adv |-> 2]
  <2>1. ~(2 = 0 \/ 2 > Len(s))
    BY DEF Str
  <2>2. PICK n : n = Width(s[1])
    OBVIOUS
  <2>3. n = 2 /\ LeadBits[n] = 32
    BY <1>1, <2>2
  <2> DEFINE k == CHOOSE g : g = [i \in 1..n |-> IF i = 1 THEN s[1] % LeadBits[n]
                                                ELSE g[i - 1] * 64 + (s[i] % 64)]
  <2>4. utf8_decode_one(s) = IF n = 0 \/ n > Len(s) THEN [cp |-> 65533, adv |-> 1]
                             ELSE [cp |-> k[n], adv |-> n]
    BY <2>2 DEF utf8_decode_one
  <2>5. k = h
    BY <2>3
  <2> HIDE DEF k, h
  <2> QED BY <2>1, <2>3, <2>4, <2>5
<1> QED BY <1>0, <1>4, <1>5

LEMMA DecodesTo ==
  ASSUME NEW b \in 0..255, NEW s \in Str, StartsWith(s, Visible(b))
  PROVE  utf8_decode_one(s) = [cp |-> byte_to_uni[b], adv |-> Len(Visible(b))]
<1>1. ASSUME NEW c \in 0..127, byte_to_uni[b] = c, Visible(b) = <<c>>
      PROVE  utf8_decode_one(s) = [cp |-> byte_to_uni[b], adv |-> Len(Visible(b))]
  <2>1. Len(Visible(b)) = 1 /\ Len(s) >= 1 /\ s[1] = c
    BY <1>1 DEF StartsWith, Str
  <2>2. utf8_decode_one(s) = [cp |-> c, adv |-> 1]
    BY <2>1, OneByte
  <2>3. byte_to_uni[b] = c
    BY <1>1
  <2> QED BY <2>1, <2>2, <2>3
<1>2. ASSUME NEW q \in 0..7, NEW r \in 0..63, byte_to_uni[b] = q * 64 + r,
             Visible(b) = <<192 + q, 128 + r>>
      PROVE  utf8_decode_one(s) = [cp |-> byte_to_uni[b], adv |-> Len(Visible(b))]
  <2>1. Len(Visible(b)) = 2 /\ Len(s) >= 2 /\ s[1] = 192 + q /\ s[2] = 128 + r
    BY <1>2 DEF StartsWith, Str
  <2> QED BY <1>2, <2>1, TwoBytes
<1> QED BY <1>1, <1>2, WrittenAs

\* Reading on never leaves the text
LEMMA Advances ==
  ASSUME NEW s \in Str, s # << >>
  PROVE  utf8_decode_one(s).adv \in 1..Len(s)
<1>1. Len(s) \in Nat \ {0}
  BY DEF Str
<1>2. PICK n : n = Width(s[1])
  OBVIOUS
<1>3. n \in 0..4
  BY <1>2 DEF Width
<1>4. utf8_decode_one(s).adv = IF n = 0 \/ n > Len(s) THEN 1 ELSE n
  BY <1>2 DEF utf8_decode_one
<1> QED BY <1>1, <1>3, <1>4

\* The character at place p: how long it is, and what goes out for it
Adv(s, p) == utf8_decode_one(Suffix(s, p)).adv
Out(s, p) ==
  IF utf8_decode_one(Suffix(s, p)).cp \in DOMAIN uni_to_byte
  THEN <<uni_to_byte[utf8_decode_one(Suffix(s, p)).cp]>>
  ELSE SubSeq(s, p, p + utf8_decode_one(Suffix(s, p)).adv - 1)

\* f is what goes out from each place of s on
Decodes(f, s) ==
  /\ f \in [1..Len(s) + 1 -> Str]
  /\ f[Len(s) + 1] = << >>
  /\ \A p \in 1..Len(s) : f[p] = Out(s, p) \o f[p + Adv(s, p)]
  /\ BytesOf(s) = f[1]

LEMMA OutIs ==
  ASSUME NEW s \in Str, NEW p \in 1..Len(s)
  PROVE  Adv(s, p) \in 1..(Len(s) - p) + 1 /\ Out(s, p) \in Str
<1>0. Len(s) \in Nat
  BY DEF Str
<1>1. PICK t, c : t = Suffix(s, p) /\ c = utf8_decode_one(t)
  OBVIOUS
<1>2. t \in Str /\ Len(t) = (Len(s) - p) + 1
  <2>1. s \in Seq(0..255) /\ p \in 1..Len(s) + 1
    BY <1>0 DEF Str
  <2>2. Suffix(s, p) \in Seq(0..255) /\ Len(Suffix(s, p)) = (Len(s) - p) + 1
    BY <2>1, SuffixIs
  <2> QED BY <1>1, <2>2 DEF Str
<1>3. t # << >>
  <2>1. Len(t) # 0
    BY <1>0, <1>2
  <2> QED BY <2>1
<1>4. c.adv \in 1..(Len(s) - p) + 1
  BY <1>1, <1>2, <1>3, Advances
<1>5. Adv(s, p) = c.adv
  BY <1>1 DEF Adv
<1>6. CASE c.cp \in DOMAIN uni_to_byte
  <2>1. PICK b \in 0..255 : c.cp = byte_to_uni[b]
    BY <1>6 DEF uni_to_byte
  <2>2. uni_to_byte[c.cp] = b
    BY <2>1, ByteAgain
  <2>3. Out(s, p) = <<b>>
    BY <1>1, <1>6, <2>2 DEF Out
  <2>4. <<b>> \in Str
    BY DEF Str
  <2> QED BY <1>4, <1>5, <2>3, <2>4
<1>7. CASE c.cp \notin DOMAIN uni_to_byte
  <2>1. Out(s, p) = SubSeq(s, p, p + c.adv - 1)
    BY <1>1, <1>7 DEF Out
  <2>2. p \in 1..Len(s) + 1 /\ p + c.adv - 1 \in p - 1..Len(s)
    BY <1>0, <1>4
  <2>3. SubSeq(s, p, p + c.adv - 1) \in Str
    BY <2>2, SliceIs DEF Str
  <2> QED BY <1>4, <1>5, <2>1, <2>3
<1> QED BY <1>6, <1>7

LEMMA DecodesIs ==
  ASSUME NEW s \in Str
  PROVE  \E f : Decodes(f, s)
<1> DEFINE m == Len(s)
           n == m + 1
           V == [1..n -> Str]
           G == [p \in 1..n |-> [g \in V |-> IF p > m THEN << >> ELSE Out(s, p) \o g[p + Adv(s, p)]]]
           Def(f) == f = [p \in 1..n |->
                           IF p > m THEN << >>
                           ELSE (IF utf8_decode_one(Suffix(s, p)).cp \in DOMAIN uni_to_byte
                                 THEN <<uni_to_byte[utf8_decode_one(Suffix(s, p)).cp]>>
                                 ELSE SubSeq(s, p, p + utf8_decode_one(Suffix(s, p)).adv - 1))
                                \o f[p + utf8_decode_one(Suffix(s, p)).adv]]
           h == CHOOSE f : Def(f)
<1>0. m \in Nat /\ n \in Nat /\ << >> \in Str
  BY DEF Str
<1>1. ASSUME NEW p \in 1..n, ~(p > m)
      PROVE  p \in 1..m /\ p + Adv(s, p) \in p + 1..n /\ p + Adv(s, p) \in 1..n /\ Out(s, p) \in Str
  <2>1. p \in 1..m
    BY <1>0, <1>1
  <2>2. Adv(s, p) \in 1..(m - p) + 1 /\ Out(s, p) \in Str
    BY <2>1, OutIs
  <2> QED BY <1>0, <2>1, <2>2
<1>2. ASSUME NEW p \in 1..n, NEW g \in V
      PROVE  (IF p > m THEN << >> ELSE Out(s, p) \o g[p + Adv(s, p)]) \in Str
  <2>1. CASE p > m
    BY <1>0, <2>1
  <2>2. CASE ~(p > m)
    <3>1. Out(s, p) \in Str /\ g[p + Adv(s, p)] \in Str
      BY <1>1, <2>2
    <3>2. Out(s, p) \o g[p + Adv(s, p)] \in Str
      BY <3>1 DEF Str
    <3> QED BY <2>2, <3>2
  <2> QED BY <2>1, <2>2
<1>3. Ahead(G, n, Str)
  <2>1. G \in [1..n -> [V -> Str]]
    BY <1>2
  <2>2. ASSUME NEW p \in 1..n, NEW g \in V, NEW k \in V, \A q \in p + 1..n : g[q] = k[q]
        PROVE  G[p][g] = G[p][k]
    BY <1>1, <2>2
  <2> QED BY <2>1, <2>2 DEF Ahead
<1>4. PICK f \in V : \A p \in 1..n : f[p] = G[p][f]
  <2> HIDE DEF G, n
  <2>1. PICK v \in Str : v = << >>
    BY <1>0
  <2>2. n \in Nat
    BY <1>0
  <2>3. \E f \in [1..n -> Str] : \A p \in 1..n : f[p] = G[p][f]
    BY <1>3, <2>2, Backwards
  <2> QED BY <2>3
<1>5. \A p \in 1..n : f[p] = IF p > m THEN << >> ELSE Out(s, p) \o f[p + Adv(s, p)]
  BY <1>4
<1>6. Def(f)
  <2> HIDE DEF m, n, G
  <2>1. f = [p \in 1..n |-> f[p]]
    BY <1>4
  <2>2. \A p \in 1..n : f[p] = IF p > m THEN << >>
                           ELSE (IF utf8_decode_one(Suffix(s, p)).cp \in DOMAIN uni_to_byte
                                 THEN <<uni_to_byte[utf8_decode_one(Suffix(s, p)).cp]>>
                                 ELSE SubSeq(s, p, p + utf8_decode_one(Suffix(s, p)).adv - 1))
                                \o f[p + utf8_decode_one(Suffix(s, p)).adv]
    BY <1>5 DEF Out, Adv
  <2> QED BY <2>1, <2>2
<1>7. Def(h)
  <2> HIDE DEF Def
  <2> QED BY <1>6
<1>8. BytesOf(s) = h[1]
  BY DEF BytesOf
<1> HIDE DEF h, G
<1>9. \A p \in 1..n : h[p] = IF p > m THEN << >> ELSE Out(s, p) \o h[p + Adv(s, p)]
  BY <1>7 DEF Out, Adv
<1>10. ASSUME NEW p \in 1..n, \A q \in p + 1..n : h[q] \in Str PROVE h[p] \in Str
  <2>1. CASE p > m
    BY <1>0, <1>9, <2>1
  <2>2. CASE ~(p > m)
    <3>1. Out(s, p) \in Str /\ h[p + Adv(s, p)] \in Str
      BY <1>1, <1>10, <2>2
    <3>2. Out(s, p) \o h[p + Adv(s, p)] \in Str
      BY <3>1 DEF Str
    <3> QED BY <1>9, <2>2, <3>2
  <2> QED BY <2>1, <2>2
<1>11. \A p \in 1..n : h[p] \in Str
  <2> DEFINE S == {p \in 1..n : h[p] \in Str}
  <2>1. \A p \in 1..n : (\A q \in p + 1..n : q \in S) => p \in S
    BY <1>10
  <2> HIDE DEF S, n
  <2>2. \A p \in 1..n : p \in S
    BY <1>0, <2>1, FromTheEnd
  <2> QED BY <2>2 DEF S
<1>12. h \in [1..n -> Str]
  <2>1. h = [p \in 1..n |-> h[p]]
    BY <1>7
  <2> HIDE DEF n
  <2> QED BY <1>11, <2>1
<1>13. h[n] = << >> /\ \A p \in 1..m : h[p] = Out(s, p) \o h[p + Adv(s, p)]
  <2>1. n \in 1..n /\ n > m /\ \A p \in 1..m : p \in 1..n /\ ~(p > m)
    BY <1>0
  <2> HIDE DEF n, m
  <2> QED BY <1>9, <2>1
<1> QED BY <1>8, <1>12, <1>13 DEF Decodes

LEMMA BytesType ==
  ASSUME NEW s \in Str
  PROVE  BytesOf(s) \in Str
<1>1. PICK f : Decodes(f, s)
  BY DecodesIs
<1>2. 1 \in 1..Len(s) + 1
  BY DEF Str
<1> QED BY <1>1, <1>2 DEF Decodes

\* Reading a text that stands behind another one
LEMMA OutBehind ==
  ASSUME NEW x \in Str, NEW s \in Str, NEW p \in 1..Len(s)
  PROVE  Adv(x \o s, Len(x) + p) = Adv(s, p) /\ Out(x \o s, Len(x) + p) = Out(s, p)
<1>0. Len(s) \in Nat /\ Len(x) \in Nat /\ s \in Seq(0..255) /\ x \in Seq(0..255)
  BY DEF Str
<1>1. PICK t, m, c : t = x \o s /\ m = Len(x) /\ c = utf8_decode_one(Suffix(s, p))
  OBVIOUS
<1>2. Suffix(t, m + p) = Suffix(s, p)
  <2>1. p \in 1..Len(s) + 1
    BY <1>0
  <2> QED BY <1>0, <1>1, <2>1, SuffixBehind
<1>3. c.adv \in 1..(Len(s) - p) + 1
  BY <1>1, OutIs DEF Adv
<1>4. SubSeq(t, m + p, m + p + c.adv - 1) = SubSeq(s, p, p + c.adv - 1)
  <2>1. PICK q : q = p + c.adv - 1
    OBVIOUS
  <2>a. PICK k \in 1..(Len(s) - p) + 1 : k = c.adv
    BY <1>3
  <2>b. PICK l \in Nat : l = Len(s)
    BY <1>0
  <2>c. q = (p + k) - 1 /\ k \in Int /\ p \in 1..l /\ 1 <= k /\ k <= (l - p) + 1
    BY <2>1, <2>a, <2>b
  <2>d. m + p + c.adv - 1 = m + q
    <3>1. m \in Nat /\ m + p + k - 1 = m + q
      BY <1>0, <1>1, <2>c
    <3> QED BY <2>a, <3>1
  <2>2. q \in p - 1..Len(s) /\ p \in 1..Len(s) + 1 /\ m + p + c.adv - 1 = m + q
    <3>1. q \in p - 1..l /\ p \in 1..l + 1
      BY <2>c
    <3> QED BY <2>b, <2>d, <3>1
  <2>3. SubSeq(x \o s, Len(x) + p, Len(x) + q) = SubSeq(s, p, q)
    BY <1>0, <2>2, SliceBehind
  <2> QED BY <1>1, <2>1, <2>2, <2>3
<1>5. Adv(t, m + p) = Adv(s, p)
  BY <1>2 DEF Adv
<1>6. Out(t, m + p) = Out(s, p)
  BY <1>1, <1>2, <1>4 DEF Out
<1> QED BY <1>1, <1>5, <1>6

LEMMA WrittenType ==
  ASSUME NEW b \in 0..255
  PROVE  Visible(b) \in Str /\ Len(Visible(b)) \in {1, 2}
<1>1. Len(Visible(b)) \in {1, 2}
  <2>1. \A c, d : Len(<<c>>) = 1 /\ Len(<<c, d>>) = 2
    OBVIOUS
  <2> QED BY <2>1, WrittenAs
<1> QED BY <1>1, VisibleIs

\* The byte whose character is first comes out first
LEMMA ByteFirst ==
  ASSUME NEW b \in 0..255, NEW s \in Str
  PROVE  BytesOf(Visible(b) \o s) = <<b>> \o BytesOf(s)
<1>1. PICK x \in Str, m \in 1..2 : x = Visible(b) /\ m = Len(x)
  <2>1. Len(Visible(b)) \in 1..2 /\ Visible(b) \in Str
    BY WrittenType
  <2> QED BY <2>1
<1>2. PICK t, n : t = x \o s /\ n = Len(s)
  OBVIOUS
<1>0. n \in Nat /\ x \in Seq(0..255) /\ s \in Seq(0..255)
  BY <1>2 DEF Str
<1>3. /\ t \in Str /\ Len(t) = m + n
      /\ \A i \in 1..m : t[i] = x[i]
  <2>1. /\ t \in Seq(0..255) /\ Len(t) = Len(x) + Len(s)
        /\ \A i \in 1..Len(x) + Len(s) : t[i] = IF i <= Len(x) THEN x[i] ELSE s[i - Len(x)]
    BY <1>0, <1>2, ConcatProperties
  <2> QED BY <1>0, <1>1, <1>2, <2>1 DEF Str
<1>4. PICK f : Decodes(f, s)
  BY DecodesIs
<1>5. PICK h : Decodes(h, t)
  BY <1>3, DecodesIs
<1>6. ASSUME NEW p \in 1..n + 1, \A q \in p + 1..n + 1 : h[m + q] = f[q]
      PROVE  h[m + p] = f[p]
  <2>1. CASE p = n + 1
    <3>1. m + p = Len(t) + 1
      BY <1>0, <1>3, <2>1
    <3> QED BY <1>2, <1>4, <1>5, <2>1, <3>1 DEF Decodes
  <2>2. CASE p # n + 1
    <3>1. p \in 1..n /\ m + p \in 1..Len(t)
      BY <1>0, <1>3, <2>2
    <3>2. Adv(t, m + p) = Adv(s, p) /\ Out(t, m + p) = Out(s, p)
      BY <1>1, <1>2, <3>1, OutBehind
    <3>3. Adv(s, p) \in 1..(n - p) + 1
      BY <1>2, <3>1, OutIs
    <3>4. PICK q \in p + 1..n + 1 : q = p + Adv(s, p)
      BY <1>0, <3>1, <3>3
    <3>5. (m + p) + Adv(s, p) = m + q
      BY <1>0, <3>3, <3>4
    <3>6. h[m + p] = Out(t, m + p) \o h[(m + p) + Adv(t, m + p)]
      BY <1>5, <3>1 DEF Decodes
    <3>7. f[p] = Out(s, p) \o f[p + Adv(s, p)]
      BY <1>2, <1>4, <3>1 DEF Decodes
    <3> QED BY <1>6, <3>2, <3>4, <3>5, <3>6, <3>7
  <2> QED BY <2>1, <2>2
<1>7. h[m + 1] = f[1]
  <2> DEFINE S == {p \in 1..n + 1 : h[m + p] = f[p]}
  <2>1. \A p \in 1..n + 1 : (\A q \in p + 1..n + 1 : q \in S) => p \in S
    BY <1>6
  <2> HIDE DEF S
  <2>2. n + 1 \in Nat /\ 1 \in 1..n + 1
    BY <1>0
  <2>3. \A p \in 1..n + 1 : p \in S
    BY <2>1, <2>2, FromTheEnd
  <2> QED BY <2>2, <2>3 DEF S
<1>8. Suffix(t, 1) = t
  BY <1>3 DEF Suffix, Str
<1>9. utf8_decode_one(t) = [cp |-> byte_to_uni[b], adv |-> m]
  <2>1. StartsWith(t, x)
    BY <1>0, <1>1, <1>3 DEF StartsWith
  <2> QED BY <1>1, <1>3, <2>1, DecodesTo
<1>10. Adv(t, 1) = m
  BY <1>8, <1>9 DEF Adv
<1>11. Out(t, 1) = <<b>>
  BY <1>8, <1>9, ByteAgain DEF Out
<1>12. 1 \in 1..Len(t) /\ 1 + m = m + 1
  BY <1>0, <1>3
<1>13. h[1] = Out(t, 1) \o h[1 + Adv(t, 1)]
  BY <1>5, <1>12 DEF Decodes
<1>14. BytesOf(t) = h[1] /\ BytesOf(s) = f[1]
  BY <1>4, <1>5 DEF Decodes
<1> QED BY <1>1, <1>2, <1>7, <1>10, <1>11, <1>12, <1>13, <1>14

-----------------------------------------------------------------------------
(* What the tokens of a text stand for.                                    *)

\* A text, written in characters
Chars(w) == FlattenSeq(Pieces(w))

LEMMA PiecesAt ==
  ASSUME NEW w \in Str
  PROVE  /\ Pieces(w) \in Seq(Str) /\ Len(Pieces(w)) = Len(w)
         /\ \A i \in 1..Len(w) : Pieces(w)[i] = Visible(w[i])
<1>1. w \in Seq(0..255)
  BY DEF Str
<1>2. \A i \in 1..Len(w) : Pieces(w)[i] = Visible(w[i])
  BY <1>1 DEF Pieces
<1> QED BY <1>1, <1>2, PiecesAre

LEMMA PiecesOfTwo ==
  ASSUME NEW v \in Str, NEW w \in Str
  PROVE  Pieces(v \o w) = Pieces(v) \o Pieces(w)
<1>0. v \in Seq(0..255) /\ w \in Seq(0..255) /\ Len(v) \in Nat /\ Len(w) \in Nat
  BY DEF Str
<1>1. PICK u, m, n : u = v \o w /\ m = Len(v) /\ n = Len(w)
  OBVIOUS
<1>2. /\ u \in Str /\ Len(u) = m + n
      /\ \A i \in 1..m + n : u[i] = IF i <= m THEN v[i] ELSE w[i - m]
  <2>1. /\ u \in Seq(0..255) /\ Len(u) = Len(v) + Len(w)
        /\ \A i \in 1..Len(v) + Len(w) : u[i] = IF i <= Len(v) THEN v[i] ELSE w[i - Len(v)]
    BY <1>0, <1>1, ConcatProperties
  <2> QED BY <1>1, <2>1 DEF Str
<1>3. PICK a, b, c, d : a = Pieces(v) /\ b = Pieces(w) /\ c = Pieces(u) /\ d = a \o b
  OBVIOUS
<1>4. a \in Seq(Str) /\ Len(a) = m /\ \A i \in 1..m : a[i] = Visible(v[i])
  BY <1>1, <1>3, PiecesAt
<1>5. b \in Seq(Str) /\ Len(b) = n /\ \A i \in 1..n : b[i] = Visible(w[i])
  BY <1>1, <1>3, PiecesAt
<1>6. c \in Seq(Str) /\ Len(c) = m + n /\ \A i \in 1..m + n : c[i] = Visible(u[i])
  BY <1>2, <1>3, PiecesAt
<1>7. /\ d \in Seq(Str) /\ Len(d) = m + n
      /\ \A i \in 1..m + n : d[i] = IF i <= m THEN a[i] ELSE b[i - m]
  BY <1>3, <1>4, <1>5, ConcatProperties
<1>8. ASSUME NEW i \in 1..m + n PROVE c[i] = d[i]
  <2>1. CASE i <= m
    <3>1. i \in 1..m
      BY <1>0, <1>1, <2>1
    <3> QED BY <1>2, <1>4, <1>6, <1>7, <2>1, <3>1
  <2>2. CASE ~(i <= m)
    <3>1. i - m \in 1..n
      BY <1>0, <1>1, <2>2
    <3> QED BY <1>2, <1>5, <1>6, <1>7, <2>2, <3>1
  <2> QED BY <2>1, <2>2
<1>9. c = d
  BY <1>6, <1>7, <1>8, SeqEqual
<1> QED BY <1>1, <1>3, <1>9

LEMMA CharsType ==
  ASSUME NEW w \in Str
  PROVE  Chars(w) \in Str
BY PiecesAt, FlattenType DEF Chars, Str

LEMMA CharsOfTwo ==
  ASSUME NEW v \in Str, NEW w \in Str
  PROVE  Chars(v \o w) = Chars(v) \o Chars(w)
<1>1. PICK a, b : a = Pieces(v) /\ b = Pieces(w)
  OBVIOUS
<1>2. a \in Seq(Seq(0..255)) /\ b \in Seq(Seq(0..255))
  BY <1>1, PiecesAt DEF Str
<1>3. FlattenSeq(a \o b) = FlattenSeq(a) \o FlattenSeq(b)
  BY <1>2, FlattenConcat
<1> QED BY <1>1, <1>3, PiecesOfTwo DEF Chars

LEMMA CharsOfNone == Chars(<< >>) = << >>
<1>1. Pieces(<< >>) = << >>
  <2>1. << >> \in Str /\ Len(<< >>) = 0
    BY DEF Str
  <2>2. Pieces(<< >>) \in Seq(Str) /\ Len(Pieces(<< >>)) = 0
    BY <2>1, PiecesAt
  <2> QED BY <2>2
<1> QED BY <1>1, FlattenEmpty DEF Chars

LEMMA CharsOfOne ==
  ASSUME NEW b \in 0..255
  PROVE  Chars(<<b>>) = Visible(b)
<1>1. <<b>> \in Str /\ Len(<<b>>) = 1 /\ <<b>>[1] = b
  BY DEF Str
<1>2. PICK p : p = Pieces(<<b>>)
  OBVIOUS
<1>3. p \in Seq(Str) /\ Len(p) = 1 /\ p[1] = Visible(b)
  BY <1>1, <1>2, PiecesAt
<1>4. p = <<Visible(b)>>
  BY <1>3
<1>5. Visible(b) \in Seq(0..255)
  BY VisibleIs DEF Str
<1> QED BY <1>2, <1>4, <1>5, FlattenOne DEF Chars

LEMMA NoBytes == BytesOf(<< >>) = << >>
<1>1. << >> \in Str /\ Len(<< >>) + 1 = 1
  BY DEF Str
<1>2. PICK f : Decodes(f, << >>)
  BY <1>1, DecodesIs
<1> QED BY <1>1, <1>2 DEF Decodes

\* What is written in characters reads back
LEMMA CharsReadBack ==
  ASSUME NEW w \in Str
  PROVE  BytesOf(Chars(w)) = w
<1> DEFINE Reads(n) == \A v \in Str : Len(v) = n => BytesOf(Chars(v)) = v
           S == {n \in 0..Len(w) : Reads(n)}
<1>0. Len(w) \in Nat
  BY DEF Str
<1>1. Reads(0)
  <2> SUFFICES ASSUME NEW v \in Str, Len(v) = 0 PROVE BytesOf(Chars(v)) = v
    OBVIOUS
  <2>1. v = << >>
    BY DEF Str
  <2> QED BY <2>1, NoBytes, CharsOfNone
<1>2. ASSUME NEW n \in 1..Len(w), Reads(n - 1) PROVE Reads(n)
  <2> SUFFICES ASSUME NEW v \in Str, Len(v) = n PROVE BytesOf(Chars(v)) = v
    OBVIOUS
  <2>0. v \in Seq(0..255)
    BY DEF Str
  <2>1. PICK b, t : b \in 0..255 /\ b = v[1] /\ t = SubSeq(v, 2, n)
    <3>1. 1 \in 1..Len(v)
      OBVIOUS
    <3>2. v[1] \in 0..255
      BY <2>0, <3>1, ElementOfSeq
    <3> QED BY <3>2
  <2>2. /\ t \in Seq(0..255) /\ Len(t) = (n - 2) + 1
        /\ \A i \in 1..(n - 2) + 1 : t[i] = v[(2 + i) - 1]
    <3>1. 2 \in 1..Len(v) + 1 /\ n \in 2 - 1..Len(v)
      OBVIOUS
    <3> QED BY <2>0, <2>1, <3>1, SliceIs
  <2>3. t \in Str /\ Len(t) = n - 1
    BY <2>2 DEF Str
  <2>4. v = <<b>> \o t
    <3>1. PICK u : u = <<b>> \o t
      OBVIOUS
    <3>2. <<b>> \in Seq(0..255) /\ Len(<<b>>) = 1 /\ <<b>>[1] = b
      BY <2>1
    <3>3. /\ u \in Seq(0..255) /\ Len(u) = 1 + Len(t)
          /\ \A i \in 1..1 + Len(t) : u[i] = IF i <= 1 THEN <<b>>[i] ELSE t[i - 1]
      BY <2>2, <3>1, <3>2, ConcatProperties
    <3>4. Len(u) = n
      BY <2>3, <3>3
    <3>5. ASSUME NEW i \in 1..n PROVE u[i] = v[i]
      <4>1. CASE i = 1
        BY <2>1, <2>3, <3>2, <3>3, <4>1
      <4>2. CASE i # 1
        <5>1. PICK k \in 1..(n - 2) + 1 : k = i - 1
          BY <4>2
        <5>2. (2 + k) - 1 = i /\ ~(i <= 1)
          BY <4>2, <5>1
        <5> QED BY <2>2, <2>3, <3>3, <5>1, <5>2
      <4> QED BY <4>1, <4>2
    <3> QED BY <2>0, <3>1, <3>3, <3>4, <3>5, SeqEqual
  <2>5. BytesOf(Chars(t)) = t
    BY <1>2, <2>3
  <2>6. PICK x \in Str : x = Chars(t)
    BY <2>3, CharsType
  <2>7. Chars(v) = Visible(b) \o x
    <3>1. <<b>> \in Str
      BY <2>1 DEF Str
    <3>2. Chars(<<b>> \o t) = Chars(<<b>>) \o Chars(t)
      BY <2>3, <3>1, CharsOfTwo
    <3> QED BY <2>1, <2>4, <2>6, <3>2, CharsOfOne
  <2>8. BytesOf(Visible(b) \o x) = <<b>> \o BytesOf(x)
    BY <2>1, <2>6, ByteFirst
  <2> QED BY <2>1, <2>4, <2>5, <2>6, <2>7, <2>8
<1>3. \A n \in S : Reads(n)
  OBVIOUS
<1>4. 0 \in S /\ \A n \in 1..Len(w) : n - 1 \in S => n \in S
  <2>1. 0 \in 0..Len(w) /\ \A n \in 1..Len(w) : n \in 0..Len(w)
    BY <1>0
  <2> HIDE DEF Reads
  <2> QED BY <1>1, <1>2, <2>1
<1> HIDE DEF S, Reads
<1>5. \A n \in 0..Len(w) : n \in S
  BY <1>0, <1>4, UpTo
<1>6. Reads(Len(w))
  BY <1>0, <1>3, <1>5
<1> QED BY <1>6 DEF Reads

\* The strings that characters make
Spelt == {Chars(w) : w \in Str}

LEMMA SpeltIs ==
  ASSUME NEW x \in Spelt
  PROVE  x \in Str /\ BytesOf(x) \in Str /\ x = Chars(BytesOf(x))
<1>1. PICK w \in Str : x = Chars(w)
  BY DEF Spelt
<1> QED BY <1>1, CharsReadBack, CharsType

LEMMA SpeltTwo ==
  ASSUME NEW x \in Spelt, NEW y \in Spelt
  PROVE  x \o y \in Spelt
<1>1. PICK v \in Str, w \in Str : x = Chars(v) /\ y = Chars(w)
  BY DEF Spelt
<1>2. v \o w \in Str
  BY DEF Str
<1> QED BY <1>1, <1>2, CharsOfTwo DEF Spelt

\* A text that was cut into tokens reads as its tokens do
LEMMA SpeltTogether ==
  ASSUME NEW toks \in Seq(Spelt)
  PROVE  FlattenSeq([i \in DOMAIN toks |-> BytesOf(toks[i])]) = BytesOf(FlattenSeq(toks))
<1>1. PICK b : b = [i \in DOMAIN toks |-> BytesOf(toks[i])]
  OBVIOUS
<1>2. PICK n \in Nat : n = Len(toks) /\ DOMAIN toks = 1..n
  OBVIOUS
<1>3. \A i \in 1..n : toks[i] \in Str /\ BytesOf(toks[i]) \in Str /\ toks[i] = Chars(BytesOf(toks[i]))
  BY <1>2, ElementOfSeq, SpeltIs
<1>4. toks \in Seq(Seq(0..255))
  <2>1. toks = [i \in 1..n |-> toks[i]]
    BY <1>2
  <2>2. \A i \in 1..n : toks[i] \in Seq(0..255)
    BY <1>3 DEF Str
  <2>3. toks \in [1..n -> Seq(0..255)]
    BY <2>1, <2>2
  <2>4. \A k \in Nat : [1..k -> Seq(0..255)] \subseteq Seq(Seq(0..255))
    OBVIOUS
  <2> QED BY <1>2, <2>3, <2>4
<1>5. b \in Seq(Seq(0..255)) /\ Len(b) = n /\ \A i \in 1..n : b[i] = BytesOf(toks[i])
  <2>1. b = [i \in 1..n |-> BytesOf(toks[i])]
    BY <1>1, <1>2
  <2> QED BY <1>3, <2>1 DEF Str
<1>6. PICK f : Joined(f, toks, 0..255)
  BY <1>4, FlattenIs
<1>7. PICK g : Joined(g, b, 0..255)
  BY <1>5, FlattenIs
<1> DEFINE S == {i \in 0..n : f[i] = Chars(g[i])}
<1>8. 0 \in S
  <2>1. f[0] = << >> /\ g[0] = << >> /\ 0 \in 0..n
    BY <1>2, <1>6, <1>7 DEF Joined, Joins
  <2> QED BY <2>1, CharsOfNone
<1>9. ASSUME NEW i \in 1..n, i - 1 \in S PROVE i \in S
  <2>1. f[i - 1] = Chars(g[i - 1]) /\ i \in 0..n /\ i - 1 \in 0..n
    BY <1>2, <1>9
  <2>2. f[i] = f[i - 1] \o toks[i]
    BY <1>2, <1>6 DEF Joined, Joins
  <2>3. g[i] = g[i - 1] \o b[i]
    BY <1>5, <1>7 DEF Joined, Joins
  <2>4. g[i - 1] \in Str /\ b[i] \in Str /\ toks[i] = Chars(b[i])
    BY <1>3, <1>5, <1>7, <2>1 DEF Joined, Str
  <2>5. Chars(g[i - 1] \o b[i]) = Chars(g[i - 1]) \o Chars(b[i])
    BY <2>4, CharsOfTwo
  <2> QED BY <2>1, <2>2, <2>3, <2>4, <2>5
<1>10. \A i \in S : f[i] = Chars(g[i])
  OBVIOUS
<1> HIDE DEF S
<1>11. n \in S
  <2>1. \A i \in 0..n : i \in S
    BY <1>2, <1>8, <1>9, UpTo
  <2> QED BY <1>2, <2>1
<1>12. f[n] = FlattenSeq(toks) /\ g[n] = FlattenSeq(b) /\ g[n] \in Str
  <2>1. n \in 0..n
    BY <1>2
  <2> QED BY <1>2, <1>5, <1>6, <1>7, <2>1 DEF Joined, Str
<1> QED BY <1>1, <1>10, <1>11, <1>12, CharsReadBack

\* The markers are written as they are
LEMMA PlainChars ==
  ASSUME NEW w \in Seq(33..126)
  PROVE  w \in Str /\ Chars(w) = w
<1>1. PICK n \in Nat : n = Len(w) /\ DOMAIN w = 1..n
  OBVIOUS
<1>2. \A i \in 1..n : w[i] \in 33..126 /\ Visible(w[i]) = <<w[i]>>
  <2> SUFFICES ASSUME NEW i \in 1..n PROVE w[i] \in 33..126 /\ Visible(w[i]) = <<w[i]>>
    OBVIOUS
  <2>1. PICK c \in 33..126 : c = w[i]
    <3>1. w[i] \in 33..126
      BY <1>1, ElementOfSeq
    <3> QED BY <3>1
  <2>2. c \in 0..255 /\ c \in Printable /\ c < 128
    BY DEF Printable
  <2>3. byte_to_uni[c] = c
    BY <2>2, CodePointIs
  <2> QED BY <2>1, <2>2, <2>3 DEF Visible, utf8_encode_cp
<1>3. w \in Str
  <2>1. w = [i \in 1..n |-> w[i]]
    BY <1>1
  <2>2. \A i \in 1..n : w[i] \in 0..255
    BY <1>2
  <2> QED BY <1>1, <2>1, <2>2 DEF Str
<1>4. PICK p : p = Pieces(w)
  OBVIOUS
<1>5. p \in Seq(Str) /\ Len(p) = n /\ \A i \in 1..n : p[i] = <<w[i]>>
  BY <1>1, <1>2, <1>3, <1>4, PiecesAt
<1>6. PICK f : Joined(f, p, 0..255)
  BY <1>5, FlattenIs DEF Str
<1> DEFINE S == {i \in 0..n : Len(f[i]) = i /\ \A j \in 1..i : f[i][j] = w[j]}
<1>7. 0 \in S
  <2>1. f[0] = << >> /\ 0 \in 0..n
    BY <1>1, <1>6 DEF Joined, Joins
  <2> QED BY <2>1
<1>8. ASSUME NEW i \in 1..n, i - 1 \in S PROVE i \in S
  <2>1. i \in 0..n /\ i - 1 \in 0..n /\ i \in Nat
    BY <1>1
  <2>2. PICK a, d : a = f[i - 1] /\ d = f[i]
    OBVIOUS
  <2>3. a \in Seq(0..255) /\ Len(a) = i - 1 /\ \A j \in 1..i - 1 : a[j] = w[j]
    BY <1>5, <1>6, <1>8, <2>1, <2>2 DEF Joined
  <2>4. PICK c : c = w[i]
    OBVIOUS
  <2>5. d = a \o <<c>>
    BY <1>5, <1>6, <2>2, <2>4 DEF Joined, Joins
  <2>6. c \in 0..255
    BY <1>2, <2>4
  <2>7. <<c>> \in Seq(0..255) /\ Len(<<c>>) = 1 /\ <<c>>[1] = c
    BY <2>6
  <2>8. /\ Len(d) = (i - 1) + 1
        /\ \A j \in 1..(i - 1) + 1 : d[j] = IF j <= i - 1 THEN a[j] ELSE <<c>>[j - (i - 1)]
    BY <2>3, <2>5, <2>7, ConcatProperties
  <2>9. Len(d) = i
    BY <2>1, <2>8
  <2>10. ASSUME NEW j \in 1..i PROVE d[j] = w[j]
    <3>1. CASE j = i
      <4>1. j - (i - 1) = 1 /\ ~(j <= i - 1) /\ j \in 1..(i - 1) + 1
        BY <2>1, <3>1
      <4> QED BY <2>4, <2>7, <2>8, <3>1, <4>1
    <3>2. CASE j # i
      <4>1. j \in 1..i - 1 /\ j <= i - 1 /\ j \in 1..(i - 1) + 1
        BY <2>1, <3>2
      <4> QED BY <2>3, <2>8, <4>1
    <3> QED BY <3>1, <3>2
  <2> QED BY <2>1, <2>2, <2>9, <2>10
<1>9. \A i \in S : Len(f[i]) = i /\ \A j \in 1..i : f[i][j] = w[j]
  OBVIOUS
<1> HIDE DEF S
<1>10. n \in S
  <2>1. \A i \in 0..n : i \in S
    BY <1>1, <1>7, <1>8, UpTo
  <2> QED BY <1>1, <2>1
<1>11. PICK u : u = f[n]
  OBVIOUS
<1>12. u \in Seq(0..255) /\ u = FlattenSeq(p)
  <2>1. n \in 0..n
    BY <1>1
  <2> QED BY <1>5, <1>6, <1>11, <2>1 DEF Joined
<1>13. Len(u) = n /\ \A j \in 1..n : u[j] = w[j]
  BY <1>9, <1>10, <1>11
<1>14. u = w
  <2>1. w \in Seq(0..255)
    BY <1>3 DEF Str
  <2> QED BY <1>1, <1>12, <1>13, <2>1, SeqEqual
<1> QED BY <1>3, <1>4, <1>12, <1>14 DEF Chars

-----------------------------------------------------------------------------
(* Numbers in their order.                                                 *)

Below(S, x) == {y \in S : y < x}

\* The number with k of S below it
At(S, k) == CHOOSE x \in S : Cardinality(Below(S, x)) = k

LEMMA BelowIs ==
  ASSUME NEW S, S \subseteq Nat, IsFiniteSet(S), NEW x \in S
  PROVE  /\ IsFiniteSet(Below(S, x)) /\ Cardinality(Below(S, x)) \in Nat
         /\ Cardinality(Below(S, x)) < Cardinality(S)
         /\ \A z \in S : x < z => Cardinality(Below(S, x)) < Cardinality(Below(S, z))
<1>1. ASSUME NEW z \in S
      PROVE  IsFiniteSet(Below(S, z)) /\ Cardinality(Below(S, z)) \in Nat
  <2>1. Below(S, z) \in SUBSET S
    BY DEF Below
  <2> QED BY <2>1, FS_Subset, FS_CardinalityType
<1>2. ASSUME NEW T, IsFiniteSet(T), Below(S, x) \subseteq T, x \in T
      PROVE  Cardinality(Below(S, x)) < Cardinality(T)
  <2>1. Below(S, x) \in SUBSET T /\ Below(S, x) # T
    <3>1. x \in Nat /\ x \notin Below(S, x)
      BY DEF Below
    <3> QED BY <1>2, <3>1
  <2>2. Cardinality(Below(S, x)) <= Cardinality(T) /\ Cardinality(Below(S, x)) # Cardinality(T)
    BY <1>2, <2>1, FS_Subset
  <2>3. Cardinality(T) \in Nat
    BY <1>2, FS_CardinalityType
  <2> QED BY <1>1, <2>2, <2>3
<1>3. Cardinality(Below(S, x)) < Cardinality(S)
  <2>1. Below(S, x) \subseteq S
    BY DEF Below
  <2> QED BY <1>2, <2>1
<1>4. ASSUME NEW z \in S, x < z PROVE Cardinality(Below(S, x)) < Cardinality(Below(S, z))
  <2>1. Below(S, x) \subseteq Below(S, z) /\ x \in Below(S, z)
    <3>1. \A y \in S : y \in Nat /\ x \in Nat /\ z \in Nat /\ (y < x => y < z)
      BY <1>4
    <3> QED BY <1>4, <3>1 DEF Below
  <2> QED BY <1>1, <1>2, <2>1
<1> QED BY <1>1, <1>3, <1>4

LEMMA SameRank ==
  ASSUME NEW S, S \subseteq Nat, IsFiniteSet(S), NEW x \in S, NEW z \in S,
         Cardinality(Below(S, x)) = Cardinality(Below(S, z))
  PROVE  x = z
<1>1. x \in Nat /\ z \in Nat
  OBVIOUS
<1>2. PICK a \in Nat, c \in Nat : a = Cardinality(Below(S, x)) /\ c = Cardinality(Below(S, z)) /\ a = c
  BY BelowIs
<1>3. ~(x < z)
  <2>1. x < z => a < c
    BY <1>2, BelowIs
  <2> QED BY <1>2, <2>1
<1>4. ~(z < x)
  <2>1. z < x => c < a
    BY <1>2, BelowIs
  <2> QED BY <1>2, <2>1
<1> QED BY <1>1, <1>3, <1>4

\* For each rank there is a number
LEMMA RankTaken ==
  ASSUME NEW S, S \subseteq Nat, IsFiniteSet(S), NEW n \in Nat, n = Cardinality(S), NEW k \in 0..n - 1
  PROVE  \E x \in S : Cardinality(Below(S, x)) = k
<1> DEFINE T == {i \in 0..n - 1 : \E x \in S : Cardinality(Below(S, x)) = i}
<1>0. n - 1 \in Nat /\ S # {}
  <2>1. n # 0
    OBVIOUS
  <2> QED BY <2>1, FS_EmptySet
<1>1. 0 \in T
  <2>1. PICK m \in S : \A y \in S : m <= y
    BY <1>0, LeastOf
  <2>2. Below(S, m) = {}
    <3>1. \A y \in S : y \in Nat /\ m \in Nat /\ ~(y < m)
      BY <2>1
    <3> QED BY <3>1 DEF Below
  <2>3. Cardinality(Below(S, m)) = 0
    BY <2>2, FS_EmptySet
  <2>4. 0 \in 0..n - 1
    BY <1>0
  <2> QED BY <2>3, <2>4
<1>2. ASSUME NEW i \in 1..n - 1, i - 1 \in T PROVE i \in T
  <2>1. PICK x \in S : Cardinality(Below(S, x)) = i - 1
    BY <1>2
  <2>2. PICK B : B = Below(S, x) \cup {x}
    OBVIOUS
  <2>3. IsFiniteSet(B) /\ Cardinality(B) = i
    <3>1. x \notin Below(S, x) /\ IsFiniteSet(Below(S, x))
      <4>1. x \in Nat /\ ~(x < x)
        OBVIOUS
      <4>2. x \notin Below(S, x)
        BY <4>1 DEF Below
      <4> QED BY <4>2, BelowIs
    <3>2. /\ IsFiniteSet(Below(S, x) \cup {x})
          /\ Cardinality(Below(S, x) \cup {x}) = Cardinality(Below(S, x)) + 1
      BY <3>1, FS_AddElement
    <3> QED BY <2>1, <2>2, <3>2
  <2>4. PICK A : A = {y \in S : x < y}
    OBVIOUS
  <2>5. A # {}
    <3>1. SUFFICES ASSUME A = {} PROVE FALSE
      OBVIOUS
    <3>2. S = B
      <4>1. \A y \in S : y \in Nat /\ x \in Nat /\ ~(x < y)
        BY <2>4, <3>1
      <4>2. \A y \in S : y < x \/ y = x
        BY <4>1
      <4> QED BY <2>2, <4>2 DEF Below
    <3> QED BY <2>3, <3>2
  <2>6. PICK z \in A : \A y \in A : z <= y
    <3>1. A \subseteq Nat
      BY <2>4
    <3> QED BY <2>5, <3>1, LeastOf
  <2>7. Below(S, z) = B
    <3>1. ASSUME NEW y \in S PROVE y < z <=> y \in B
      <4>1. y \in Nat /\ x \in Nat /\ z \in Nat /\ x < z
        BY <2>4, <2>6
      <4>2. x < y => z <= y
        BY <2>4, <2>6
      <4> QED BY <2>2, <4>1, <4>2 DEF Below
    <3>2. B \subseteq S
      BY <2>2 DEF Below
    <3> QED BY <3>1, <3>2 DEF Below
  <2>8. z \in S /\ i \in 0..n - 1
    BY <2>4, <2>6
  <2> QED BY <2>3, <2>7, <2>8
<1> HIDE DEF T
<1>3. \A i \in 0..n - 1 : i \in T
  BY <1>0, <1>1, <1>2, UpTo
<1>4. k \in T
  BY <1>3
<1> QED BY <1>4 DEF T

LEMMA OrderedAt ==
  ASSUME NEW S, S \subseteq Nat, IsFiniteSet(S)
  PROVE  /\ Len(Ordered(S)) = Cardinality(S) /\ Cardinality(S) \in Nat
         /\ Ordered(S) \in Seq(S)
         /\ \A k \in 1..Cardinality(S) : Cardinality(Below(S, Ordered(S)[k])) = k - 1
<1>1. PICK n \in Nat : n = Cardinality(S)
  BY FS_CardinalityType
<1>2. Ordered(S) = [k \in 1..n |-> At(S, k - 1)]
  BY <1>1 DEF Ordered, At, Below
<1>3. ASSUME NEW k \in 1..n
      PROVE  At(S, k - 1) \in S /\ Cardinality(Below(S, At(S, k - 1))) = k - 1
  <2>1. k - 1 \in 0..n - 1
    OBVIOUS
  <2>2. \E x \in S : Cardinality(Below(S, x)) = k - 1
    BY <1>1, <2>1, RankTaken
  <2> QED BY <2>2 DEF At
<1>4. Ordered(S) \in Seq(S) /\ Len(Ordered(S)) = n
  BY <1>2, <1>3
<1> QED BY <1>1, <1>2, <1>3, <1>4

Rising(q) == \A i, j \in 1..Len(q) : i < j => q[i] < q[j]

LEMMA OrderedIs ==
  ASSUME NEW S, S \subseteq Nat, IsFiniteSet(S)
  PROVE  /\ Ordered(S) \in Seq(S) /\ Rising(Ordered(S))
         /\ \A x \in S : \E k \in 1..Len(Ordered(S)) : Ordered(S)[k] = x
<1>1. PICK n, q : n \in Nat /\ n = Cardinality(S) /\ q = Ordered(S)
  BY OrderedAt
<1>2. /\ Len(q) = n /\ q \in Seq(S)
      /\ \A k \in 1..n : q[k] \in S /\ Cardinality(Below(S, q[k])) = k - 1
  BY <1>1, OrderedAt, ElementOfSeq
<1>3. Rising(q)
  <2> SUFFICES ASSUME NEW i \in 1..n, NEW j \in 1..n, i < j PROVE q[i] < q[j]
    BY <1>2 DEF Rising
  <2>1. PICK x \in S, z \in S : x = q[i] /\ z = q[j]
    BY <1>2
  <2>2. Cardinality(Below(S, x)) = i - 1 /\ Cardinality(Below(S, z)) = j - 1
    BY <1>2, <2>1
  <2>3. x # z
    BY <2>2
  <2>4. ~(z < x)
    <3>1. z < x => j - 1 < i - 1
      BY <2>2, BelowIs
    <3> QED BY <3>1
  <2>5. x \in Nat /\ z \in Nat
    OBVIOUS
  <2> QED BY <2>1, <2>3, <2>4, <2>5
<1>4. ASSUME NEW x \in S PROVE \E k \in 1..n : q[k] = x
  <2>1. PICK r \in Nat : r = Cardinality(Below(S, x)) /\ r < n
    BY <1>1, BelowIs
  <2>2. r + 1 \in 1..n /\ (r + 1) - 1 = r
    BY <1>1, <2>1
  <2>3. PICK z \in S : z = q[r + 1] /\ Cardinality(Below(S, z)) = r
    BY <1>2, <2>2
  <2>4. z = x
    BY <2>1, <2>3, SameRank
  <2> QED BY <2>2, <2>3, <2>4
<1> QED BY <1>1, <1>2, <1>3, <1>4

LEMMA RanksOf ==
  ASSUME NEW q \in Seq(Nat), Rising(q), NEW S, S = {q[i] : i \in 1..Len(q)}
  PROVE  /\ S \subseteq Nat /\ IsFiniteSet(S) /\ Cardinality(S) = Len(q)
         /\ \A k \in 1..Len(q) : Cardinality(Below(S, q[k])) = k - 1
<1>0. PICK n \in Nat : n = Len(q)
  OBVIOUS
<1>1. \A i \in 1..n : q[i] \in Nat
  BY <1>0, ElementOfSeq
<1>2. S \subseteq Nat /\ S = {q[i] : i \in 1..n}
  BY <1>0, <1>1
<1>3. \A i, j \in 1..n : i < j => q[i] < q[j]
  BY <1>0 DEF Rising
<1>4. ASSUME NEW k \in 1..n, k # 1
      PROVE  /\ k - 1 \in 1..n
             /\ \A y \in S : y < q[k] <=> (y < q[k - 1] \/ y = q[k - 1])
  <2>1. k - 1 \in 1..n /\ k - 1 < k
    BY <1>4
  <2>2. PICK a \in Nat, b \in Nat : a = q[k - 1] /\ b = q[k] /\ a < b
    BY <1>1, <1>3, <2>1
  <2>3. ASSUME NEW y \in S PROVE y < b <=> (y < a \/ y = a)
    <3>1. PICK i \in 1..n : y = q[i]
      BY <1>2
    <3>2. y \in Nat
      BY <1>2
    <3>3. CASE i <= k - 1
      <4>1. i < k /\ (i = k - 1 \/ i < k - 1)
        BY <3>3
      <4> QED BY <1>3, <2>1, <2>2, <3>1, <3>2, <4>1
    <3>4. CASE ~(i <= k - 1)
      <4>1. k - 1 < i /\ (k = i \/ k < i)
        BY <3>4
      <4>2. a < y /\ (b = y \/ b < y)
        BY <1>3, <2>1, <2>2, <3>1, <4>1
      <4> QED BY <2>2, <3>2, <4>2
    <3> QED BY <3>3, <3>4
  <2> QED BY <2>1, <2>2, <2>3
<1>5. IsFiniteSet(S)
  <2>1. CASE n = 0
    <3>1. S = {}
      BY <1>2, <2>1
    <3> QED BY <3>1, FS_EmptySet
  <2>2. CASE n # 0
    <3>1. n \in 1..n /\ q[n] \in Nat
      BY <1>1, <2>2
    <3>2. \A s \in S : s <= q[n]
      <4> SUFFICES ASSUME NEW i \in 1..n PROVE q[i] <= q[n]
        BY <1>2
      <4>1. i = n \/ i < n
        OBVIOUS
      <4>2. q[i] = q[n] \/ q[i] < q[n]
        BY <1>3, <3>1, <4>1
      <4> QED BY <1>1, <3>1, <4>2
    <3>3. S \in SUBSET Nat
      BY <1>2
    <3> QED BY <3>1, <3>2, <3>3, FS_BoundedSetOfNaturals
  <2> QED BY <2>1, <2>2
<1> DEFINE T == {k \in 0..n : k # 0 => Cardinality(Below(S, q[k])) = k - 1}
<1>6. 0 \in T
  OBVIOUS
<1>7. ASSUME NEW k \in 1..n, k - 1 \in T PROVE k \in T
  <2>1. CASE k = 1
    <3>1. \A y \in S : ~(y < q[1])
      <4> SUFFICES ASSUME NEW i \in 1..n PROVE ~(q[i] < q[1])
        BY <1>2
      <4>1. 1 \in 1..n /\ (i = 1 \/ 1 < i)
        OBVIOUS
      <4>2. q[i] = q[1] \/ q[1] < q[i]
        BY <1>3, <4>1
      <4> QED BY <1>1, <4>1, <4>2
    <3>2. Below(S, q[1]) = {}
      BY <3>1 DEF Below
    <3>3. Below(S, q[k]) = {}
      BY <2>1, <3>2
    <3>4. Cardinality(Below(S, q[k])) = 0
      BY <3>3, FS_EmptySet
    <3>5. k - 1 = 0 /\ k \in 0..n
      BY <2>1
    <3> QED BY <3>4, <3>5
  <2>2. CASE k # 1
    <3>1. k - 1 \in 1..n /\ k - 1 # 0
      BY <2>2
    <3>2. Cardinality(Below(S, q[k - 1])) = (k - 1) - 1
      BY <1>7, <3>1
    <3>3. PICK x \in S : x = q[k - 1]
      BY <1>2, <3>1
    <3>4. Below(S, q[k]) = Below(S, x) \cup {x}
      BY <1>4, <2>2, <3>3 DEF Below
    <3>5. x \notin Below(S, x) /\ IsFiniteSet(Below(S, x))
      <4>1. x \in Nat /\ ~(x < x)
        BY <1>2
      <4>2. x \notin Below(S, x)
        BY <4>1 DEF Below
      <4> QED BY <1>2, <1>5, <4>2, BelowIs
    <3>6. Cardinality(Below(S, q[k])) = Cardinality(Below(S, x)) + 1
      BY <3>4, <3>5, FS_AddElement
    <3>7. Cardinality(Below(S, q[k])) = k - 1 /\ k \in 0..n
      BY <3>2, <3>3, <3>6
    <3> QED BY <3>7
  <2> QED BY <2>1, <2>2
<1>8. \A k \in T : k # 0 => Cardinality(Below(S, q[k])) = k - 1
  OBVIOUS
<1> HIDE DEF T
<1>9. \A k \in 0..n : k \in T
  BY <1>6, <1>7, UpTo
<1>10. \A k \in 1..n : Cardinality(Below(S, q[k])) = k - 1
  <2>1. \A k \in 1..n : k \in 0..n /\ k # 0
    BY <1>0
  <2> QED BY <1>8, <1>9, <2>1
<1>11. Cardinality(S) = n
  <2>1. CASE n = 0
    <3>1. S = {}
      BY <1>2, <2>1
    <3> QED BY <2>1, <3>1, FS_EmptySet
  <2>2. CASE n # 0
    <3>1. n \in 1..n
      BY <2>2
    <3>2. PICK x \in S : x = q[n]
      BY <1>2, <3>1
    <3>3. S = Below(S, x) \cup {x}
      <4>1. ASSUME NEW i \in 1..n PROVE q[i] < x \/ q[i] = x
        <5>1. i = n \/ i < n
          OBVIOUS
        <5> QED BY <1>3, <3>1, <3>2, <5>1
      <4>2. \A y \in S : y < x \/ y = x
        BY <1>2, <4>1
      <4> QED BY <4>2 DEF Below
    <3>4. x \notin Below(S, x) /\ IsFiniteSet(Below(S, x))
      <4>1. x \in Nat /\ ~(x < x)
        BY <1>2
      <4>2. x \notin Below(S, x)
        BY <4>1 DEF Below
      <4> QED BY <1>2, <1>5, <4>2, BelowIs
    <3>5. PICK B : B = Below(S, x)
      OBVIOUS
    <3>6. Cardinality(B \cup {x}) = Cardinality(B) + 1
      BY <3>4, <3>5, FS_AddElement
    <3>7. Cardinality(B) = n - 1
      BY <1>10, <3>1, <3>2, <3>5
    <3>8. S = B \cup {x}
      BY <3>3, <3>5
    <3>9. Cardinality(S) = Cardinality(B \cup {x})
      BY <3>8
    <3>10. (n - 1) + 1 = n
      BY <1>0
    <3> QED BY <3>6, <3>7, <3>9, <3>10
  <2> QED BY <2>1, <2>2
<1> QED BY <1>0, <1>2, <1>5, <1>10, <1>11

\* There is one way to put numbers in their order
LEMMA OrderedOnly ==
  ASSUME NEW q \in Seq(Nat), Rising(q), NEW S, S = {q[i] : i \in 1..Len(q)}
  PROVE  Ordered(S) = q
<1>0. PICK n \in Nat : n = Len(q)
  OBVIOUS
<1>1. /\ S \subseteq Nat /\ IsFiniteSet(S) /\ Cardinality(S) = n
      /\ \A k \in 1..n : Cardinality(Below(S, q[k])) = k - 1
  BY <1>0, RanksOf
<1>2. PICK o : o = Ordered(S)
  OBVIOUS
<1>3. /\ Len(o) = n /\ o \in Seq(S)
      /\ \A k \in 1..n : Cardinality(Below(S, o[k])) = k - 1
  BY <1>1, <1>2, OrderedAt
<1>4. ASSUME NEW k \in 1..n PROVE o[k] = q[k]
  <2>1. PICK x \in S, z \in S : x = o[k] /\ z = q[k]
    <3>1. o[k] \in S
      BY <1>3, ElementOfSeq
    <3> QED BY <1>0, <3>1
  <2>2. Cardinality(Below(S, x)) = Cardinality(Below(S, z))
    BY <1>1, <1>3, <2>1
  <2> QED BY <1>1, <2>1, <2>2, SameRank
<1>5. o \in Seq(Nat)
  <2>1. o \in [1..n -> S]
    BY <1>3
  <2>2. o \in [1..n -> Nat]
    BY <1>1, <2>1
  <2> QED BY <2>2
<1>6. o = q
  BY <1>0, <1>3, <1>4, <1>5, SeqEqual
<1> QED BY <1>2, <1>6

-----------------------------------------------------------------------------
(* The vocabulary.                                                         *)

LEMMA Greatest ==
  ASSUME NEW n \in Nat, NEW A, A \subseteq 1..n, A # {}
  PROVE  \E p \in A : \A q \in A : q <= p
<1> DEFINE B == {k \in 0..n : n - k \in A}
<1>1. B \subseteq Nat /\ B # {}
  <2>1. PICK a \in A : TRUE
    OBVIOUS
  <2>2. a \in 1..n
    OBVIOUS
  <2>3. PICK k \in 0..n : k = n - a
    BY <2>2
  <2>4. n - k = a
    BY <2>2, <2>3
  <2>5. k \in B
    BY <2>4
  <2>6. B \subseteq Nat
    OBVIOUS
  <2> QED BY <2>5, <2>6
<1>2. \A k \in B : k \in 0..n /\ n - k \in A
  OBVIOUS
<1>3. \A a \in A : n - a \in B
  <2> SUFFICES ASSUME NEW a \in A PROVE n - a \in B
    OBVIOUS
  <2>1. n - a \in 0..n /\ n - (n - a) = a
    OBVIOUS
  <2> QED BY <2>1
<1> HIDE DEF B
<1>4. PICK m \in B : \A k \in B : m <= k
  BY <1>1, LeastOf
<1>5. n - m \in A /\ m \in 0..n
  BY <1>2
<1>6. \A a \in A : n - m >= a
  <2> SUFFICES ASSUME NEW a \in A PROVE n - m >= a
    OBVIOUS
  <2>1. m <= n - a /\ a \in 1..n
    BY <1>3, <1>4
  <2> QED BY <1>5, <2>1
<1> QED BY <1>5, <1>6

LEMMA MostOf ==
  ASSUME NEW n \in Nat, NEW A, A \subseteq 1..n, A # {}
  PROVE  Max(A) \in A
<1>1. PICK p \in A : \A q \in A : q <= p
  BY Greatest
<1>2. \A q \in A : p >= q
  BY <1>1
<1> QED BY <1>2 DEF Max

LEMMA PlaceOf ==
  ASSUME NEW S, NEW s \in Seq(S), NEW i \in 1..Len(s)
  PROVE  /\ s[i] \in DOMAIN LastPlaces(s)
         /\ LastPlaces(s)[s[i]] \in 0..Len(s) - 1
         /\ s[LastPlaces(s)[s[i]] + 1] = s[i]
<1>1. PICK n, x : n \in Nat /\ n = Len(s) /\ DOMAIN s = 1..n /\ x = s[i]
  OBVIOUS
<1>2. PICK A : A = {j \in 1..n : s[j] = x}
  OBVIOUS
<1>3. x \in Range(s)
  BY <1>1 DEF Range
<1>4. LastPlaces(s)[x] = Max(A) - 1 /\ x \in DOMAIN LastPlaces(s)
  BY <1>1, <1>2, <1>3 DEF LastPlaces
<1>5. Max(A) \in A
  <2>1. A \subseteq 1..n /\ i \in A
    BY <1>1, <1>2
  <2> QED BY <1>1, <2>1, MostOf
<1>6. PICK m \in 1..n : m = Max(A) /\ s[m] = x
  BY <1>2, <1>5
<1>7. LastPlaces(s)[x] = m - 1 /\ m - 1 \in 0..n - 1 /\ (m - 1) + 1 = m
  BY <1>1, <1>4, <1>6
<1> QED BY <1>1, <1>4, <1>6, <1>7

LEMMA BytesFinite == IsFiniteSet(Bytes) /\ Bytes \subseteq Nat
<1>1. Bytes \subseteq 0..255
  BY PromptAssumption
<1>2. 0 \in Int /\ 255 \in Int
  OBVIOUS
<1>3. IsFiniteSet(0..255)
  BY <1>2, FS_Interval
<1>4. IsFiniteSet(Bytes)
  BY <1>1, <1>3, FS_Subset
<1>5. Bytes \subseteq Nat
  BY <1>1
<1> QED BY <1>4, <1>5

LEMMA ByteTokensAre ==
  /\ ByteTokens \in Seq(Str)
  /\ \A b \in Bytes : \E i \in 1..Len(ByteTokens) : ByteTokens[i] = Visible(b)
<1>1. PICK q : q = Ordered(Bytes)
  OBVIOUS
<1>2. q \in Seq(Bytes) /\ \A b \in Bytes : \E i \in 1..Len(q) : q[i] = b
  BY <1>1, BytesFinite, OrderedIs
<1>3. PICK n \in Nat : n = Len(q) /\ DOMAIN q = 1..n
  BY <1>2
<1>4. ByteTokens = [i \in 1..n |-> Visible(q[i])]
  BY <1>1, <1>3 DEF ByteTokens
<1>5. \A i \in 1..n : Visible(q[i]) \in Str
  <2> SUFFICES ASSUME NEW i \in 1..n PROVE Visible(q[i]) \in Str
    OBVIOUS
  <2>1. q[i] \in 0..255
    BY <1>2, <1>3, ElementOfSeq, PromptAssumption
  <2> QED BY <2>1, VisibleIs
<1>6. ByteTokens \in Seq(Str) /\ Len(ByteTokens) = n
  BY <1>4, <1>5
<1> QED BY <1>2, <1>3, <1>4, <1>6

LEMMA KnownIs ==
  /\ Known \in Seq(Str)
  /\ \A i \in 1..Len(Known) : Known[i] # << >> /\ Known[i] \in Seq(33..126)
<1>1. PICK n \in Nat : n = Len(Known) /\ Known = [i \in 1..n |-> Known[i]]
  BY KnownAssumption
<1>2. \A i \in 1..n : Known[i] \in Seq(33..126) \ {<< >>}
  BY <1>1, KnownAssumption, ElementOfSeq
<1>3. \A i \in 1..n : Known[i] \in Str
  BY <1>2, PlainChars
<1>4. Known \in [1..n -> Str]
  BY <1>1, <1>3
<1>5. [1..n -> Str] \subseteq Seq(Str)
  OBVIOUS
<1>6. Known \in Seq(Str)
  BY <1>4, <1>5
<1>7. \A i \in 1..Len(Known) : Known[i] # << >> /\ Known[i] \in Seq(33..126)
  BY <1>1, <1>2
<1> QED BY <1>6, <1>7

\* A merge of a loaded model
MergeIs(m) == m[1] \in Str /\ m[2] \in Str /\ m[1] # << >> /\ m[2] # << >> /\ m[1] \o m[2] \in Str

LEMMA MergesAre ==
  ASSUME Loaded
  PROVE  /\ Len(merges) \in Nat /\ DOMAIN merges = 1..Len(merges)
         /\ \A i \in 1..Len(merges) : MergeIs(merges[i])
<1>1. PICK P : P = (Str \ {<< >>}) \X (Str \ {<< >>})
  OBVIOUS
<1>2. merges \in Seq(P)
  BY <1>1, MergesAssumption DEF Loaded
<1>3. ASSUME NEW i \in 1..Len(merges) PROVE MergeIs(merges[i])
  <2>1. PICK m \in P : m = merges[i]
    BY <1>2, ElementOfSeq
  <2>2. m[1] \in Str /\ m[2] \in Str /\ m[1] # << >> /\ m[2] # << >>
    BY <1>1
  <2>3. m[1] \o m[2] \in Str
    BY <2>2 DEF Str
  <2> QED BY <2>1, <2>2, <2>3 DEF MergeIs
<1> QED BY <1>2, <1>3

LEMMA TokensAre ==
  ASSUME Loaded
  PROVE  /\ Tokens(merges) \in Seq(Str)
         /\ \A b \in Bytes : \E i \in 1..Len(Tokens(merges)) : Tokens(merges)[i] = Visible(b)
         /\ \A k \in 1..Len(merges) :
              \E i \in 1..Len(Tokens(merges)) : Tokens(merges)[i] = merges[k][1] \o merges[k][2]
         /\ \A k \in 1..Len(Known) : \E i \in 1..Len(Tokens(merges)) : Tokens(merges)[i] = Known[k]
<1>1. PICK a, b, c : a = ByteTokens /\ b = [i \in DOMAIN merges |-> merges[i][1] \o merges[i][2]] /\ c = Known
  OBVIOUS
<1>2. a \in Seq(Str) /\ \A x \in Bytes : \E i \in 1..Len(a) : a[i] = Visible(x)
  BY <1>1, ByteTokensAre
<1>3. PICK m \in Nat : m = Len(merges) /\ DOMAIN merges = 1..m
  BY MergesAre
<1>4. \A i \in 1..m : merges[i][1] \o merges[i][2] \in Str
  BY <1>3, MergesAre DEF MergeIs
<1>5. b = [i \in 1..m |-> merges[i][1] \o merges[i][2]]
  BY <1>1, <1>3
<1>6. b \in Seq(Str) /\ Len(b) = m
  BY <1>4, <1>5
<1>7. c \in Seq(Str)
  BY <1>1, KnownIs
<1>8. PICK d : d = a \o b
  OBVIOUS
<1>9. /\ d \in Seq(Str) /\ Len(d) = Len(a) + Len(b)
      /\ \A i \in 1..Len(a) + Len(b) : d[i] = IF i <= Len(a) THEN a[i] ELSE b[i - Len(a)]
  BY <1>2, <1>6, <1>8, ConcatProperties
<1>10. PICK e : e = d \o c
  OBVIOUS
<1>11. /\ e \in Seq(Str) /\ Len(e) = Len(d) + Len(c)
       /\ \A i \in 1..Len(d) + Len(c) : e[i] = IF i <= Len(d) THEN d[i] ELSE c[i - Len(d)]
  <2>1. d \in Seq(Str)
    BY <1>9
  <2> QED BY <1>7, <1>10, <2>1, ConcatProperties
<1>12. e = Tokens(merges)
  BY <1>1, <1>8, <1>10 DEF Tokens
<1>13. Len(a) \in Nat /\ Len(c) \in Nat
  BY <1>2, <1>7
<1>14. ASSUME NEW i \in 1..Len(a) PROVE i \in 1..Len(e) /\ e[i] = a[i]
  <2>1. i \in 1..Len(a) + Len(b) /\ i \in 1..Len(d) + Len(c) /\ i <= Len(a) /\ i <= Len(d)
    BY <1>6, <1>9, <1>13
  <2> QED BY <1>9, <1>11, <2>1
<1>15. ASSUME NEW k \in 1..m PROVE Len(a) + k \in 1..Len(e) /\ e[Len(a) + k] = b[k]
  <2>1. PICK i : i = Len(a) + k
    OBVIOUS
  <2>2. i \in 1..Len(a) + Len(b) /\ i \in 1..Len(d) + Len(c) /\ ~(i <= Len(a)) /\ i <= Len(d)
          /\ i - Len(a) = k
    BY <1>6, <1>9, <1>13, <2>1
  <2> QED BY <1>9, <1>11, <2>1, <2>2
<1>16. ASSUME NEW k \in 1..Len(c) PROVE Len(d) + k \in 1..Len(e) /\ e[Len(d) + k] = c[k]
  <2>0. Len(d) \in Nat
    BY <1>6, <1>9, <1>13
  <2>1. PICK i : i = Len(d) + k
    OBVIOUS
  <2>2. i \in 1..Len(d) + Len(c) /\ ~(i <= Len(d)) /\ i - Len(d) = k
    BY <1>13, <2>0, <2>1
  <2> QED BY <1>11, <2>1, <2>2
<1>17. \A x \in Bytes : \E i \in 1..Len(e) : e[i] = Visible(x)
  BY <1>2, <1>14
<1>18. \A k \in 1..m : \E i \in 1..Len(e) : e[i] = merges[k][1] \o merges[k][2]
  BY <1>5, <1>15
<1>19. \A k \in 1..Len(c) : \E i \in 1..Len(e) : e[i] = c[k]
  BY <1>16
<1> QED BY <1>1, <1>3, <1>11, <1>12, <1>17, <1>18, <1>19

\* A string with an id reads back from it
Indexed(x) ==
  /\ x \in DOMAIN vocab_to_id
  /\ vocab_to_id[x] \in Nat
  /\ tokenizer_decode_one(vocab_to_id[x]) = BytesOf(x)

LEMMA IdsRead ==
  ASSUME Loaded, NEW i \in 1..Len(Tokens(merges))
  PROVE  Indexed(Tokens(merges)[i])
<1>1. PICK s : s = Tokens(merges)
  OBVIOUS
<1>2. s \in Seq(Str) /\ vocab_strs = s /\ vocab_to_id = LastPlaces(s)
  BY <1>1, TokensAre DEF Loaded, Load
<1>3. PICK x, k : x = s[i] /\ k = LastPlaces(s)[s[i]]
  OBVIOUS
<1>4. x \in DOMAIN vocab_to_id /\ k \in 0..Len(s) - 1 /\ s[k + 1] = x
  BY <1>1, <1>2, <1>3, PlaceOf
<1>5. vocab_to_id[x] = k
  BY <1>2, <1>3
<1>6. tokenizer_decode_one(k) = BytesOf(x)
  BY <1>2, <1>4 DEF tokenizer_decode_one
<1>7. k \in Nat
  BY <1>4
<1> QED BY <1>1, <1>3, <1>4, <1>5, <1>6, <1>7 DEF Indexed

LEMMA VocabularyHas ==
  ASSUME Loaded
  PROVE  /\ \A b \in Bytes : Indexed(Visible(b))
         /\ \A k \in 1..Len(merges) : Indexed(merges[k][1] \o merges[k][2])
         /\ \A k \in 1..Len(Known) : Indexed(Known[k])
         /\ \A x \in DOMAIN vocab_to_id : Indexed(x)
<1>1. \A x \in DOMAIN vocab_to_id : \E i \in 1..Len(Tokens(merges)) : Tokens(merges)[i] = x
  <2>1. PICK s : s = Tokens(merges)
    OBVIOUS
  <2>2. DOMAIN vocab_to_id = Range(s) /\ DOMAIN s = 1..Len(s)
    BY <2>1, TokensAre DEF Loaded, Load, LastPlaces
  <2> QED BY <2>1, <2>2 DEF Range
<1> QED BY <1>1, IdsRead, TokensAre

-----------------------------------------------------------------------------
(* Texts that meet.                                                        *)

LEMMA PrefixOfTwo ==
  ASSUME NEW S, NEW x \in Seq(S), NEW y \in Seq(S)
  PROVE  IsPrefix(x, x \o y)
<1>1. Len(x) \in Nat /\ Len(x) <= Len(x \o y)
  <2>1. Len(x \o y) = Len(x) + Len(y) /\ Len(y) \in Nat /\ Len(x) \in Nat
    BY ConcatProperties
  <2> QED BY <2>1
<1>2. 1 \in 1..Len(x) + 1 /\ Len(x) \in 1 - 1..Len(x)
  BY <1>1
<1>3. SubSeq(x \o y, 1, Len(x)) = SubSeq(x, 1, Len(x))
  BY <1>2, SliceBefore
<1> QED BY <1>1, <1>3 DEF IsPrefix

LEMMA ReverseIs ==
  ASSUME NEW S, NEW s \in Seq(S)
  PROVE  /\ Reverse(s) \in Seq(S) /\ Len(Reverse(s)) = Len(s)
         /\ \A i \in 1..Len(s) : Reverse(s)[i] = s[(Len(s) - i) + 1]
<1>1. PICK n \in Nat : n = Len(s)
  OBVIOUS
<1>2. Reverse(s) = [i \in 1..n |-> s[(n - i) + 1]]
  BY <1>1 DEF Reverse
<1>3. ASSUME NEW i \in 1..n PROVE s[(n - i) + 1] \in S
  <2>1. (n - i) + 1 \in 1..Len(s)
    BY <1>1
  <2> QED BY <2>1, ElementOfSeq
<1>4. Reverse(s) \in [1..n -> S]
  BY <1>2, <1>3
<1>5. [1..n -> S] \subseteq Seq(S)
  OBVIOUS
<1> QED BY <1>1, <1>2, <1>4, <1>5

LEMMA SuffixOfTwo ==
  ASSUME NEW S, NEW x \in Seq(S), NEW y \in Seq(S)
  PROVE  IsSuffix(y, x \o y)
<1>1. PICK t : t = x \o y
  OBVIOUS
<1>2. PICK m \in Nat, k \in Nat : m = Len(x) /\ k = Len(y)
  OBVIOUS
<1>3. /\ t \in Seq(S) /\ Len(t) = m + k
      /\ \A i \in 1..m + k : t[i] = IF i <= m THEN x[i] ELSE y[i - m]
  BY <1>1, <1>2, ConcatProperties
<1>4. PICK q, r : q = Reverse(y) /\ r = Reverse(t)
  OBVIOUS
<1>5. q \in Seq(S) /\ Len(q) = k /\ \A i \in 1..k : q[i] = y[(k - i) + 1]
  BY <1>2, <1>4, ReverseIs
<1>6. r \in Seq(S) /\ Len(r) = m + k /\ \A i \in 1..m + k : r[i] = t[((m + k) - i) + 1]
  <2>1. r \in Seq(S) /\ Len(r) = Len(t) /\ \A i \in 1..Len(t) : r[i] = t[(Len(t) - i) + 1]
    BY <1>3, <1>4, ReverseIs
  <2>2. Len(t) = m + k
    BY <1>3
  <2> QED BY <2>1, <2>2
<1>7. PICK a, b : a = SubSeq(q, 1, k) /\ b = SubSeq(r, 1, k)
  OBVIOUS
<1>8. a \in Seq(S) /\ Len(a) = (k - 1) + 1 /\ \A i \in 1..(k - 1) + 1 : a[i] = q[(1 + i) - 1]
  <2>1. 1 \in 1..Len(q) + 1 /\ k \in 1 - 1..Len(q)
    BY <1>2, <1>5
  <2> QED BY <1>5, <1>7, <2>1, SliceIs
<1>9. b \in Seq(S) /\ Len(b) = (k - 1) + 1 /\ \A i \in 1..(k - 1) + 1 : b[i] = r[(1 + i) - 1]
  <2>1. 1 \in 1..Len(r) + 1 /\ k \in 1 - 1..Len(r)
    BY <1>2, <1>6
  <2> QED BY <1>6, <1>7, <2>1, SliceIs
<1>10. ASSUME NEW i \in 1..Len(a) PROVE a[i] = b[i]
  <2>1. i \in 1..k /\ i \in 1..(k - 1) + 1 /\ (1 + i) - 1 = i /\ i \in 1..m + k
    BY <1>2, <1>8
  <2>2. a[i] = y[(k - i) + 1]
    BY <1>5, <1>8, <2>1
  <2>3. b[i] = t[((m + k) - i) + 1]
    BY <1>6, <1>9, <2>1
  <2>4. PICK j : j = ((m + k) - i) + 1
    OBVIOUS
  <2>5. j \in 1..m + k /\ ~(j <= m) /\ j - m = (k - i) + 1
    BY <1>2, <2>1, <2>4
  <2>6. t[j] = y[(k - i) + 1]
    BY <1>3, <2>5
  <2> QED BY <2>2, <2>3, <2>4, <2>6
<1>11. a = b
  BY <1>8, <1>9, <1>10, SeqEqual
<1>12. k <= m + k
  BY <1>2
<1> QED BY <1>1, <1>4, <1>5, <1>6, <1>7, <1>11, <1>12 DEF IsSuffix, IsPrefix

-----------------------------------------------------------------------------
(* Words that are merged next to each other.                               *)

\* A text and its last part
LEMMA FrontAndLast ==
  ASSUME NEW S, NEW s \in Seq(S), s # << >>
  PROVE  /\ Front(s) \in Seq(S) /\ Last(s) \in S /\ s = Append(Front(s), Last(s))
         /\ Len(Front(s)) = Len(s) - 1
<1>1. PICK n \in Nat \ {0} : n = Len(s)
  BY EmptySeq
<1>2. PICK d, l : d = Front(s) /\ l = Last(s)
  OBVIOUS
<1>3. 1 \in 1..Len(s) + 1 /\ n - 1 \in 1 - 1..Len(s) /\ n \in 1..Len(s)
  BY <1>1
<1>4. d = SubSeq(s, 1, n - 1) /\ l = s[n]
  BY <1>1, <1>2 DEF Front, Last
<1>5. l \in S
  BY <1>3, <1>4, ElementOfSeq
<1>6. d \in Seq(S) /\ Len(d) = ((n - 1) - 1) + 1 /\ \A i \in 1..((n - 1) - 1) + 1 : d[i] = s[(1 + i) - 1]
  BY <1>3, <1>4, SliceIs
<1>7. PICK e : e = Append(d, l)
  OBVIOUS
<1>8. e \in Seq(S) /\ Len(e) = Len(d) + 1 /\ \A i \in 1..Len(d) : e[i] = d[i]
  BY <1>5, <1>6, <1>7, AppendProperties
<1>9. e[Len(d) + 1] = l
  BY <1>5, <1>6, <1>7, AppendProperties
<1>10. Len(d) = n - 1 /\ Len(e) = n /\ Len(d) + 1 = n
  BY <1>1, <1>6, <1>8
<1>11. ASSUME NEW i \in 1..Len(e) PROVE e[i] = s[i]
  <2>1. CASE i = n
    BY <1>4, <1>9, <1>10, <2>1
  <2>2. CASE i # n
    <3>1. i \in 1..Len(d) /\ i \in 1..((n - 1) - 1) + 1 /\ (1 + i) - 1 = i
      BY <1>1, <1>10, <2>2
    <3> QED BY <1>6, <1>8, <3>1
  <2> QED BY <2>1, <2>2
<1>12. e = s
  BY <1>1, <1>8, <1>10, <1>11, SeqEqual
<1> QED BY <1>1, <1>2, <1>5, <1>6, <1>7, <1>10, <1>12

\* What is made of two tokens is a token
Closed(V, m) == \A x, y \in V : <<x, y>> = m => x \o y \in V

\* What putting x behind d leaves as it is
Kept(e, d, x, V) == e \in Seq(V) /\ e # << >> /\ FlattenSeq(e) = FlattenSeq(d) \o x

LEMMA ExtendedKeeps ==
  ASSUME NEW S, NEW V, V \subseteq Seq(S), NEW m, Closed(V, m), NEW done \in Seq(V), NEW x \in V
  PROVE  Kept(Extended(done, x, m), done, x, V)
<1>1. Seq(V) \subseteq Seq(Seq(S))
  OBVIOUS
<1>2. CASE done # << >> /\ <<Last(done), x>> = m
  <2>2. PICK d, l : d = Front(done) /\ l = Last(done)
    OBVIOUS
  <2>3. d \in Seq(V) /\ l \in V /\ done = Append(d, l)
    BY <1>2, <2>2, FrontAndLast
  <2>5. PICK y : y = l \o x
    OBVIOUS
  <2>6. y \in V
    BY <1>2, <2>2, <2>3, <2>5 DEF Closed
  <2>7. Extended(done, x, m) = Append(d, y)
    BY <1>2, <2>2, <2>5 DEF Extended
  <2>8. d \in Seq(Seq(S)) /\ l \in Seq(S) /\ x \in Seq(S) /\ y \in Seq(S)
    BY <1>1, <2>3, <2>6
  <2>9. PICK f \in Seq(S) : f = FlattenSeq(d)
    BY <2>8, FlattenType
  <2>10. FlattenSeq(done) = f \o l /\ FlattenSeq(Append(d, y)) = f \o y
    BY <2>3, <2>8, <2>9, FlattenAppend
  <2>11. f \o y = (f \o l) \o x
    BY <2>5, <2>8, <2>9, ConcatAssociative
  <2>12. Append(d, y) \in Seq(V) /\ Append(d, y) # << >>
    BY <2>3, <2>6, AppendProperties
  <2> QED BY <2>7, <2>10, <2>11, <2>12 DEF Kept
<1>3. CASE ~(done # << >> /\ <<Last(done), x>> = m)
  <2>1. Extended(done, x, m) = Append(done, x)
    BY <1>3 DEF Extended
  <2>2. Append(done, x) \in Seq(V) /\ Append(done, x) # << >>
    BY AppendProperties
  <2>3. done \in Seq(Seq(S)) /\ x \in Seq(S)
    BY <1>1
  <2>4. FlattenSeq(Append(done, x)) = FlattenSeq(done) \o x
    BY <2>3, FlattenAppend
  <2> QED BY <2>1, <2>2, <2>4 DEF Kept
<1> QED BY <1>2, <1>3

LEMMA EverywhereKeeps ==
  ASSUME NEW A, NEW S, NEW m, Learnt(m, S), NEW V, V \subseteq S, V \subseteq Seq(A), Closed(V, m),
         NEW t \in Seq(V)
  PROVE  Everywhere(t, m) \in Seq(V) /\ FlattenSeq(Everywhere(t, m)) = FlattenSeq(t)
<1>0. Seq(V) \subseteq Seq(S) /\ Seq(V) \subseteq Seq(Seq(A))
  OBVIOUS
<1>1. PICK n \in Nat : n = Len(t)
  OBVIOUS
<1>2. PICK f : Scans(f, t, m, S)
  BY <1>0, EverywhereIs
<1>3. PICK g : Joined(g, t, A)
  BY <1>0, FlattenIs
<1> DEFINE T == {i \in 0..n : f[i] \in Seq(V) /\ FlattenSeq(f[i]) = g[i]}
<1>4. 0 \in T
  <2>1. f[0] = << >> /\ g[0] = << >> /\ 0 \in 0..n /\ << >> \in Seq(V)
    BY <1>1, <1>2, <1>3 DEF Scans, Joined, Joins
  <2> QED BY <2>1, FlattenEmpty
<1>5. ASSUME NEW i \in 1..n, i - 1 \in T PROVE i \in T
  <2>1. i \in 0..n /\ i \in 1..Len(t) /\ f[i - 1] \in Seq(V) /\ FlattenSeq(f[i - 1]) = g[i - 1]
    BY <1>1, <1>5
  <2>2. PICK x \in V : x = t[i]
    <3>1. t[i] \in V
      BY <2>1, ElementOfSeq
    <3> QED BY <3>1
  <2>3. PICK d \in Seq(V) : d = f[i - 1]
    BY <2>1
  <2>4. f[i] = Extended(d, x, m) /\ g[i] = g[i - 1] \o x
    BY <1>2, <1>3, <2>1, <2>2, <2>3 DEF Scans, Joined, Joins
  <2>5. Kept(f[i], d, x, V)
    BY <2>4, ExtendedKeeps
  <2>6. f[i] \in Seq(V) /\ FlattenSeq(f[i]) = g[i]
    BY <2>1, <2>3, <2>4, <2>5 DEF Kept
  <2> QED BY <2>1, <2>6
<1>6. \A i \in T : f[i] \in Seq(V) /\ FlattenSeq(f[i]) = g[i]
  OBVIOUS
<1> HIDE DEF T
<1>7. n \in T
  <2>1. \A i \in 0..n : i \in T
    BY <1>1, <1>4, <1>5, UpTo
  <2> QED BY <1>1, <2>1
<1>8. f[n] = Everywhere(t, m) /\ g[n] = FlattenSeq(t)
  BY <1>1, <1>2, <1>3 DEF Scans, Joined
<1> QED BY <1>6, <1>7, <1>8

BehindTwoIs(d, e, x) == Append(d \o e, x) = d \o Append(e, x)

LEMMA BehindTwo ==
  ASSUME NEW S, NEW d \in Seq(S), NEW e \in Seq(S), NEW x \in S
  PROVE  BehindTwoIs(d, e, x)
<1>1. <<x>> \in Seq(S) /\ d \o e \in Seq(S)
  BY ConcatProperties
<1>2. Append(d \o e, x) = (d \o e) \o <<x>> /\ Append(e, x) = e \o <<x>>
  BY <1>1, AppendIsConcat
<1>3. (d \o e) \o <<x>> = d \o (e \o <<x>>)
  BY <1>1, ConcatAssociative
<1> QED BY <1>2, <1>3 DEF BehindTwoIs

LEMMA FrontOfAppend ==
  ASSUME NEW S, NEW u \in Seq(S), NEW l \in S
  PROVE  Front(Append(u, l)) = u
<1>1. PICK w : w = Append(u, l)
  OBVIOUS
<1>2. w \in Seq(S) /\ w # << >> /\ Len(w) = Len(u) + 1 /\ \A i \in 1..Len(u) : w[i] = u[i]
  BY <1>1, AppendProperties
<1>3. PICK n \in Nat : n = Len(u)
  OBVIOUS
<1>4. 1 \in 1..Len(w) + 1 /\ n \in 1 - 1..Len(w) /\ Len(w) - 1 = n
  BY <1>2, <1>3
<1>5. PICK f : f = SubSeq(w, 1, n)
  OBVIOUS
<1>6. f \in Seq(S) /\ Len(f) = (n - 1) + 1 /\ \A i \in 1..(n - 1) + 1 : f[i] = w[(1 + i) - 1]
  BY <1>2, <1>4, <1>5, SliceIs
<1>7. ASSUME NEW i \in 1..Len(f) PROVE f[i] = u[i]
  <2>1. i \in 1..n /\ i \in 1..(n - 1) + 1 /\ (1 + i) - 1 = i
    BY <1>3, <1>6
  <2> QED BY <1>2, <1>3, <1>6, <2>1
<1>8. Len(f) = Len(u)
  BY <1>3, <1>6
<1>9. f = u
  BY <1>6, <1>7, <1>8, SeqEqual
<1> QED BY <1>1, <1>4, <1>5, <1>9 DEF Front

Ends(d, f, l) == d # << >> /\ f = Front(d) /\ l = Last(d)
ExtendedIs(d, x, m, f, y) == Extended(d, x, m) = Append(f, y)

LEMMA PutJoins ==
  ASSUME NEW d, NEW x, NEW m, NEW f, NEW l, Ends(d, f, l), m = <<l, x>>
  PROVE  ExtendedIs(d, x, m, f, l \o x)
BY DEF Extended, Ends, ExtendedIs

LEMMA PutAppends ==
  ASSUME NEW d, NEW x, NEW m, d # << >> => <<Last(d), x>> # m
  PROVE  Extended(d, x, m) = Append(d, x)
BY DEF Extended

\* What is put behind two texts is put behind the second, once that is begun
PutBehindIs(d, e, x, m) == Extended(d \o e, x, m) = d \o Extended(e, x, m)

LEMMA PutBehind ==
  ASSUME NEW S, NEW m, Learnt(m, S), NEW d \in Seq(S), NEW e \in Seq(S), e # << >>, NEW x \in S
  PROVE  PutBehindIs(d, e, x, m)
<1>1. PICK f, l : f = Front(e) /\ l = Last(e)
  OBVIOUS
<1>2. f \in Seq(S) /\ l \in S /\ e = Append(f, l)
  BY <1>1, FrontAndLast
<1>3. PICK w : w = d \o e
  OBVIOUS
<1>4. w \in Seq(S) /\ Last(w) = l /\ w # << >>
  <2>1. PICK i \in Nat, k \in Nat \ {0} : i = Len(d) /\ k = Len(e)
    BY EmptySeq
  <2>2. /\ w \in Seq(S) /\ Len(w) = i + k
        /\ \A j \in 1..i + k : w[j] = IF j <= i THEN d[j] ELSE e[j - i]
    BY <1>3, <2>1, ConcatProperties
  <2>3. i + k \in 1..i + k /\ ~(i + k <= i) /\ (i + k) - i = k /\ i + k # 0
    BY <2>1
  <2>4. w[i + k] = e[k]
    BY <2>2, <2>3
  <2>5. Last(w) = l
    BY <1>1, <2>1, <2>2, <2>4 DEF Last
  <2>6. w # << >>
    BY <2>2, <2>3
  <2> QED BY <2>2, <2>5, <2>6
<1>5. PICK u : u = d \o f
  OBVIOUS
<1>6. u \in Seq(S) /\ w = Append(u, l)
  <2>1. <<l>> \in Seq(S)
    BY <1>2
  <2>2. e = f \o <<l>> /\ Append(d \o f, l) = (d \o f) \o <<l>>
    BY <1>2, AppendIsConcat
  <2>3. (d \o f) \o <<l>> = d \o (f \o <<l>>)
    BY <1>2, <2>1, ConcatAssociative
  <2>4. d \o f \in Seq(S)
    BY <1>2, ConcatProperties
  <2> QED BY <1>3, <1>5, <2>2, <2>3, <2>4
<1>7. Front(w) = u
  BY <1>2, <1>6, FrontOfAppend
<1>8. w # << >> /\ Last(w) = l /\ e # << >> /\ Last(e) = l /\ Front(e) = f
  BY <1>1, <1>4
<1>9. CASE m = <<l, x>>
  <2>1. PICK y : y = l \o x
    OBVIOUS
  <2>2. y \in S
    BY <1>9, <2>1 DEF Learnt
  <2>3. Ends(w, u, l) /\ Ends(e, f, l)
    BY <1>7, <1>8 DEF Ends
  <2>4. ExtendedIs(w, x, m, u, y) /\ ExtendedIs(e, x, m, f, y)
    BY <1>9, <2>1, <2>3, PutJoins
  <2>5. BehindTwoIs(d, f, y)
    BY <1>2, <2>2, BehindTwo
  <2>6. Extended(w, x, m) = Append(u, y) /\ Extended(e, x, m) = Append(f, y)
    BY <2>4 DEF ExtendedIs
  <2>7. Append(u, y) = d \o Append(f, y)
    BY <1>5, <2>5 DEF BehindTwoIs
  <2> QED BY <1>3, <2>6, <2>7 DEF PutBehindIs
<1>10. CASE m # <<l, x>>
  <2>1. Extended(w, x, m) = Append(w, x)
    BY <1>8, <1>10, PutAppends
  <2>2. Extended(e, x, m) = Append(e, x)
    BY <1>8, <1>10, PutAppends
  <2>3. BehindTwoIs(d, e, x)
    BY BehindTwo
  <2>4. Append(w, x) = d \o Append(e, x)
    BY <1>3, <2>3 DEF BehindTwoIs
  <2> QED BY <1>3, <2>1, <2>2, <2>4 DEF PutBehindIs
<1> QED BY <1>9, <1>10

\* The merge m does not join the end of d and the beginning of y
Apart(d, y, m) == d # << >> /\ y # << >> => <<Last(d), y[1]>> # m

LEMMA SomethingPut ==
  ASSUME NEW S, NEW m, Learnt(m, S), NEW done \in Seq(S), NEW x \in S
  PROVE  Extended(done, x, m) # << >>
<1>1. CASE done # << >> /\ <<Last(done), x>> = m
  <2>1. PICK d, l : d = Front(done) /\ l = Last(done)
    OBVIOUS
  <2>2. Ends(done, d, l) /\ m = <<l, x>> /\ d \in Seq(S)
    BY <1>1, <2>1, FrontAndLast DEF Ends
  <2>3. PICK y : y = l \o x
    OBVIOUS
  <2>4. y \in S
    BY <2>2, <2>3 DEF Learnt
  <2>5. ExtendedIs(done, x, m, d, y)
    BY <2>2, <2>3, PutJoins
  <2> QED BY <2>2, <2>4, <2>5, AppendProperties DEF ExtendedIs
<1>2. CASE ~(done # << >> /\ <<Last(done), x>> = m)
  <2>1. Extended(done, x, m) = Append(done, x)
    BY <1>2, PutAppends
  <2> QED BY <2>1, AppendProperties
<1> QED BY <1>1, <1>2

LEMMA EverywhereParts ==
  ASSUME NEW S, NEW m, Learnt(m, S), NEW x \in Seq(S), NEW y \in Seq(S),
         Apart(Everywhere(x, m), y, m)
  PROVE  Everywhere(x \o y, m) = Everywhere(x, m) \o Everywhere(y, m)
<1>1. PICK t : t = x \o y
  OBVIOUS
<1>2. PICK i \in Nat, k \in Nat : i = Len(x) /\ k = Len(y)
  OBVIOUS
<1>3. /\ t \in Seq(S) /\ Len(t) = i + k
      /\ \A j \in 1..i + k : t[j] = IF j <= i THEN x[j] ELSE y[j - i]
  BY <1>1, <1>2, ConcatProperties
<1>4. PICK f : Scans(f, t, m, S)
  BY <1>3, EverywhereIs
<1>5. PICK g : Scans(g, x, m, S)
  BY EverywhereIs
<1>6. PICK h : Scans(h, y, m, S)
  BY EverywhereIs
<1> DEFINE T == {j \in 0..i : f[j] = g[j]}
<1>7. 0 \in T
  BY <1>2, <1>4, <1>5 DEF Scans
<1>8. ASSUME NEW j \in 1..i, j - 1 \in T PROVE j \in T
  <2>1. j \in 1..Len(t) /\ j \in 1..Len(x) /\ j \in 0..i /\ f[j - 1] = g[j - 1] /\ t[j] = x[j]
    BY <1>2, <1>3, <1>8
  <2>2. f[j] = Extended(f[j - 1], t[j], m) /\ g[j] = Extended(g[j - 1], x[j], m)
    BY <1>4, <1>5, <2>1 DEF Scans
  <2> QED BY <2>1, <2>2
<1>9. \A j \in T : f[j] = g[j]
  OBVIOUS
<1> HIDE DEF T
<1>10. f[i] = g[i]
  <2>1. \A j \in 0..i : j \in T
    BY <1>2, <1>7, <1>8, UpTo
  <2>2. i \in 0..i
    BY <1>2
  <2> QED BY <1>9, <2>1, <2>2
<1>11. PICK d : d = g[i]
  OBVIOUS
<1>12. d \in Seq(S) /\ d = Everywhere(x, m)
  <2>1. i \in 0..Len(x)
    BY <1>2
  <2> QED BY <1>2, <1>5, <1>11, <2>1 DEF Scans
<1> DEFINE R(j) == f[i + j] = d \o h[j] /\ (j # 0 => h[j] # << >>)
           U == {j \in 0..k : R(j)}
<1>13. R(0)
  <2>1. h[0] = << >> /\ i + 0 = i
    BY <1>2, <1>6 DEF Scans
  <2>2. d \o << >> = d
    BY <1>12, ConcatEmptySeq
  <2> QED BY <1>10, <1>11, <2>1, <2>2
<1>14. ASSUME NEW j \in 1..k, R(j - 1) PROVE R(j)
  <2>1. /\ i + j \in 1..i + k /\ ~(i + j <= i) /\ (i + j) - i = j /\ (i + j) - 1 = i + (j - 1)
        /\ j \in 1..Len(y) /\ i + j \in 1..Len(t) /\ j - 1 \in 0..Len(y) /\ j # 0
    BY <1>2, <1>3
  <2>2. PICK c \in S : c = y[j]
    <3>1. y[j] \in S
      BY <2>1, ElementOfSeq
    <3> QED BY <3>1
  <2>3. t[i + j] = c
    BY <1>3, <2>1, <2>2
  <2>4. PICK e : e = h[j - 1]
    OBVIOUS
  <2>5. e \in Seq(S)
    BY <1>6, <2>1, <2>4 DEF Scans
  <2>6. f[i + j] = Extended(f[i + (j - 1)], c, m) /\ h[j] = Extended(e, c, m)
    <3>1. f[i + j] = Extended(f[(i + j) - 1], t[i + j], m) /\ h[j] = Extended(h[j - 1], y[j], m)
      BY <1>4, <1>6, <2>1 DEF Scans
    <3> QED BY <2>1, <2>2, <2>3, <2>4, <3>1
  <2>7. f[i + (j - 1)] = d \o e
    BY <1>14, <2>4
  <2>8. h[j] # << >>
    BY <2>5, <2>6, SomethingPut
  <2>9. CASE j = 1
    <3>1. e = << >> /\ y # << >> /\ c = y[1]
      BY <1>6, <2>1, <2>2, <2>4, <2>9 DEF Scans
    <3>2. f[i + (j - 1)] = d
      BY <1>12, <2>7, <3>1, ConcatEmptySeq
    <3>3. Extended(d, c, m) = Append(d, c) /\ Extended(e, c, m) = Append(e, c)
      BY <1>12, <3>1, PutAppends DEF Apart
    <3>4. BehindTwoIs(d, e, c)
      BY <1>12, <2>5, BehindTwo
    <3>5. Append(d, c) = d \o Append(e, c)
      BY <2>7, <3>2, <3>4 DEF BehindTwoIs
    <3>6. f[i + j] = d \o h[j]
      BY <2>6, <3>2, <3>3, <3>5
    <3> QED BY <2>8, <3>6
  <2>10. CASE j # 1
    <3>1. e # << >>
      BY <1>14, <2>4, <2>10
    <3>2. PutBehindIs(d, e, c, m)
      BY <1>12, <2>5, <3>1, PutBehind
    <3>3. f[i + j] = d \o h[j]
      BY <2>6, <2>7, <3>2 DEF PutBehindIs
    <3> QED BY <2>8, <3>3
  <2> QED BY <2>9, <2>10
<1>15. \A j \in U : R(j)
  OBVIOUS
<1>16. 0 \in U /\ \A j \in 1..k : j - 1 \in U => j \in U
  <2>1. 0 \in 0..k /\ \A j \in 1..k : j \in 0..k
    BY <1>2
  <2> HIDE DEF R
  <2> QED BY <1>13, <1>14, <2>1
<1> HIDE DEF U, R
<1>17. R(k)
  <2>1. \A j \in 0..k : j \in U
    BY <1>2, <1>16, UpTo
  <2>2. k \in 0..k
    BY <1>2
  <2> QED BY <1>15, <2>1, <2>2
<1>18. f[i + k] = d \o h[k]
  BY <1>17 DEF R
<1>19. f[i + k] = Everywhere(t, m) /\ h[k] = Everywhere(y, m)
  BY <1>2, <1>3, <1>4, <1>6 DEF Scans
<1> QED BY <1>1, <1>12, <1>18, <1>19

-----------------------------------------------------------------------------
(* The first and the last token of a text.                                 *)

LEMMA FirstAndRest ==
  ASSUME NEW S, NEW s \in Seq(S), s # << >>
  PROVE  /\ s[1] \in S /\ Suffix(s, 2) \in Seq(S) /\ s = <<s[1]>> \o Suffix(s, 2)
         /\ Len(Suffix(s, 2)) = Len(s) - 1
<1>1. PICK n \in Nat \ {0} : n = Len(s)
  BY EmptySeq
<1>2. PICK x, r : x = s[1] /\ r = Suffix(s, 2)
  OBVIOUS
<1>3. 1 \in 1..Len(s) /\ 2 \in 1..Len(s) + 1
  BY <1>1
<1>4. x \in S
  BY <1>2, <1>3, ElementOfSeq
<1>5. r \in Seq(S) /\ Len(r) = (n - 2) + 1 /\ \A i \in 1..(n - 2) + 1 : r[i] = s[(2 + i) - 1]
  BY <1>1, <1>2, <1>3, SuffixIs
<1>6. PICK w : w = <<x>> \o r
  OBVIOUS
<1>7. <<x>> \in Seq(S) /\ Len(<<x>>) = 1 /\ <<x>>[1] = x
  BY <1>4
<1>8. /\ w \in Seq(S) /\ Len(w) = 1 + Len(r)
      /\ \A i \in 1..1 + Len(r) : w[i] = IF i <= 1 THEN <<x>>[i] ELSE r[i - 1]
  BY <1>5, <1>6, <1>7, ConcatProperties
<1>9. Len(w) = n /\ 1 + Len(r) = n /\ Len(r) = n - 1
  BY <1>1, <1>5, <1>8
<1>10. ASSUME NEW i \in 1..Len(s) PROVE w[i] = s[i]
  <2>1. CASE i = 1
    <3>1. 1 \in 1..1 + Len(r) /\ 1 <= 1
      BY <1>1, <1>9
    <3> QED BY <1>2, <1>7, <1>8, <2>1, <3>1
  <2>2. CASE i # 1
    <3>1. PICK k : k = i - 1
      OBVIOUS
    <3>2. k \in 1..(n - 2) + 1 /\ (2 + k) - 1 = i /\ ~(i <= 1) /\ i \in 1..1 + Len(r)
      BY <1>1, <1>9, <2>2, <3>1
    <3> QED BY <1>5, <1>8, <3>1, <3>2
  <2> QED BY <2>1, <2>2
<1>11. w = s
  BY <1>1, <1>8, <1>9, <1>10, SeqEqual
<1> QED BY <1>1, <1>2, <1>4, <1>5, <1>6, <1>9, <1>11

LEMMA SpeltFlat ==
  ASSUME NEW t \in Seq(Spelt)
  PROVE  FlattenSeq(t) \in Spelt
<1>1. PICK n \in Nat : n = Len(t)
  OBVIOUS
<1>2. Spelt \subseteq Seq(0..255) /\ << >> \in Spelt
  <2>1. << >> \in Str
    BY DEF Str
  <2> QED BY <2>1, SpeltIs, CharsOfNone DEF Str, Spelt
<1>3. PICK f : Joined(f, t, 0..255)
  <2>1. t \in Seq(Seq(0..255))
    BY <1>2
  <2> QED BY <2>1, FlattenIs
<1> DEFINE T == {i \in 0..n : f[i] \in Spelt}
<1>4. 0 \in T
  BY <1>1, <1>2, <1>3 DEF Joined, Joins
<1>5. ASSUME NEW i \in 1..n, i - 1 \in T PROVE i \in T
  <2>1. i \in 1..Len(t) /\ i \in 0..n /\ f[i - 1] \in Spelt
    BY <1>1, <1>5
  <2>2. t[i] \in Spelt
    BY <2>1, ElementOfSeq
  <2>3. f[i] = f[i - 1] \o t[i]
    BY <1>3, <2>1 DEF Joined, Joins
  <2>4. f[i] \in Spelt
    BY <2>1, <2>2, <2>3, SpeltTwo
  <2> QED BY <2>1, <2>4
<1>6. \A i \in T : f[i] \in Spelt
  OBVIOUS
<1> HIDE DEF T
<1>7. n \in T
  <2>1. \A i \in 0..n : i \in T
    BY <1>1, <1>4, <1>5, UpTo
  <2> QED BY <1>1, <2>1
<1> QED BY <1>1, <1>3, <1>6, <1>7 DEF Joined

\* A string that is not empty stands for some bytes, and those that stand for
\* a text stand together for what it says
LEMMA SpeltParts ==
  ASSUME NEW w \in Str, NEW x \in Spelt, NEW y \in Spelt, Chars(w) = x \o y
  PROVE  w = BytesOf(x) \o BytesOf(y)
<1>1. PICK u \in Str, v \in Str : u = BytesOf(x) /\ x = Chars(u) /\ v = BytesOf(y) /\ y = Chars(v)
  BY SpeltIs
<1>2. u \o v \in Str
  BY DEF Str
<1>3. Chars(u \o v) = x \o y
  BY <1>1, CharsOfTwo
<1>4. BytesOf(Chars(u \o v)) = u \o v /\ BytesOf(Chars(w)) = w
  BY <1>2, CharsReadBack
<1> QED BY <1>1, <1>3, <1>4

LEMMA SpeltSome ==
  ASSUME NEW x \in Spelt, x # << >>
  PROVE  BytesOf(x) # << >>
BY SpeltIs, CharsOfNone

LEMMA EndOfText ==
  ASSUME NEW x \in Spelt, x # << >>
  PROVE  /\ IsPrefix(Visible(BytesOf(x)[1]), x) /\ IsSuffix(Visible(Last(BytesOf(x))), x)
<1>1. PICK z \in Str : z = BytesOf(x) /\ x = Chars(z) /\ z # << >>
  BY SpeltIs, SpeltSome
<1>2. z \in Seq(0..255)
  BY DEF Str
<1>3. PICK b, r : b = z[1] /\ r = Suffix(z, 2)
  OBVIOUS
<1>4. b \in 0..255 /\ r \in Str /\ z = <<b>> \o r
  BY <1>1, <1>2, <1>3, FirstAndRest DEF Str
<1>5. PICK f, c : f = Front(z) /\ c = Last(z)
  OBVIOUS
<1>6. c \in 0..255 /\ f \in Str /\ z = Append(f, c) /\ f \in Seq(0..255)
  BY <1>1, <1>2, <1>5, FrontAndLast DEF Str
<1>7. <<b>> \in Str /\ <<c>> \in Str
  BY <1>4, <1>6 DEF Str
<1>8. z = f \o <<c>>
  BY <1>6, AppendIsConcat
<1>9. PICK p, q : p = Chars(r) /\ q = Chars(f)
  OBVIOUS
<1>10. p \in Seq(0..255) /\ q \in Seq(0..255)
  BY <1>4, <1>6, <1>9, CharsType DEF Str
<1>11. PICK vb, vc : vb = Visible(b) /\ vc = Visible(c)
  OBVIOUS
<1>12. vb \in Seq(0..255) /\ vc \in Seq(0..255)
  BY <1>4, <1>6, <1>11, VisibleIs DEF Str
<1>13. x = vb \o p
  <2>1. Chars(<<b>> \o r) = Chars(<<b>>) \o Chars(r)
    BY <1>4, <1>7, CharsOfTwo
  <2>2. Chars(<<b>>) = vb
    BY <1>4, <1>11, CharsOfOne
  <2> QED BY <1>1, <1>4, <1>9, <2>1, <2>2
<1>14. x = q \o vc
  <2>1. Chars(f \o <<c>>) = Chars(f) \o Chars(<<c>>)
    BY <1>6, <1>7, CharsOfTwo
  <2>2. Chars(<<c>>) = vc
    BY <1>6, <1>11, CharsOfOne
  <2> QED BY <1>1, <1>8, <1>9, <2>1, <2>2
<1>15. IsPrefix(vb, vb \o p)
  BY <1>10, <1>12, PrefixOfTwo
<1>16. IsSuffix(vc, q \o vc)
  BY <1>10, <1>12, SuffixOfTwo
<1> QED BY <1>1, <1>3, <1>5, <1>11, <1>13, <1>14, <1>15, <1>16

\* The last token of a text ends as the text does
LEMMA LastEnds ==
  ASSUME NEW t \in Seq(Spelt \ {<< >>}), t # << >>, NEW w \in Str, FlattenSeq(t) = Chars(w)
  PROVE  w # << >> /\ IsSuffix(Visible(Last(w)), Last(t))
<1>1. PICK f, l : f = Front(t) /\ l = Last(t)
  OBVIOUS
<1>2. f \in Seq(Spelt \ {<< >>}) /\ l \in Spelt \ {<< >>} /\ t = Append(f, l)
  BY <1>1, FrontAndLast
<1>3. f \in Seq(Spelt) /\ l \in Spelt /\ l # << >>
  BY <1>2
<1>4. PICK x \in Spelt : x = FlattenSeq(f)
  BY <1>3, SpeltFlat
<1>5. FlattenSeq(t) = x \o l
  <2>1. Spelt \subseteq Seq(0..255)
    BY SpeltIs DEF Str
  <2>2. f \in Seq(Seq(0..255)) /\ l \in Seq(0..255)
    BY <1>3, <2>1
  <2> QED BY <1>2, <1>4, <2>2, FlattenAppend
<1>6. PICK u, z : u = BytesOf(x) /\ z = BytesOf(l)
  OBVIOUS
<1>7. w = u \o z
  BY <1>3, <1>4, <1>5, <1>6, SpeltParts
<1>8. u \in Seq(0..255) /\ z \in Seq(0..255) /\ z # << >>
  BY <1>3, <1>4, <1>6, SpeltIs, SpeltSome DEF Str
<1>9. Last(w) = Last(z) /\ w # << >>
  <2>1. PICK m \in Nat, k \in Nat \ {0} : m = Len(u) /\ k = Len(z)
    BY <1>8, EmptySeq
  <2>2. Len(w) = m + k /\ \A i \in 1..m + k : w[i] = IF i <= m THEN u[i] ELSE z[i - m]
    BY <1>7, <1>8, <2>1, ConcatProperties
  <2>3. m + k \in 1..m + k /\ ~(m + k <= m) /\ (m + k) - m = k
    BY <2>1
  <2>4. w[m + k] = z[k]
    BY <2>2, <2>3
  <2> QED BY <2>1, <2>2, <2>4 DEF Last
<1>10. IsSuffix(Visible(Last(z)), l)
  BY <1>3, <1>6, EndOfText
<1> QED BY <1>1, <1>9, <1>10

\* The first one begins as the text does
LEMMA FirstBegins ==
  ASSUME NEW t \in Seq(Spelt \ {<< >>}), t # << >>, NEW w \in Str, FlattenSeq(t) = Chars(w)
  PROVE  w # << >> /\ IsPrefix(Visible(w[1]), t[1])
<1>1. PICK l, r : l = t[1] /\ r = Suffix(t, 2)
  OBVIOUS
<1>2. r \in Seq(Spelt \ {<< >>}) /\ l \in Spelt \ {<< >>} /\ t = <<l>> \o r
  BY <1>1, FirstAndRest
<1>3. r \in Seq(Spelt) /\ l \in Spelt /\ l # << >>
  BY <1>2
<1>4. PICK x \in Spelt : x = FlattenSeq(r)
  BY <1>3, SpeltFlat
<1>5. FlattenSeq(t) = l \o x
  <2>1. Spelt \subseteq Seq(0..255)
    BY SpeltIs DEF Str
  <2>2. r \in Seq(Seq(0..255)) /\ l \in Seq(0..255)
    BY <1>3, <2>1
  <2> QED BY <1>2, <1>4, <2>2, FlattenFirst
<1>6. PICK u, z : u = BytesOf(x) /\ z = BytesOf(l)
  OBVIOUS
<1>7. w = z \o u
  BY <1>3, <1>4, <1>5, <1>6, SpeltParts
<1>8. u \in Seq(0..255) /\ z \in Seq(0..255) /\ z # << >>
  BY <1>3, <1>4, <1>6, SpeltIs, SpeltSome DEF Str
<1>9. w[1] = z[1] /\ w # << >>
  <2>1. PICK m \in Nat, k \in Nat \ {0} : m = Len(u) /\ k = Len(z)
    BY <1>8, EmptySeq
  <2>2. Len(w) = k + m /\ \A i \in 1..k + m : w[i] = IF i <= k THEN z[i] ELSE u[i - k]
    BY <1>7, <1>8, <2>1, ConcatProperties
  <2>3. 1 \in 1..k + m /\ 1 <= k /\ k + m # 0
    BY <2>1
  <2> QED BY <2>2, <2>3
<1>10. IsPrefix(Visible(z[1]), l)
  BY <1>3, <1>6, EndOfText
<1> QED BY <1>1, <1>9, <1>10

-----------------------------------------------------------------------------
(* The tokens of a loaded model.                                           *)

Token == {x \in Spelt : x # << >> /\ Indexed(x)}

LEMMA TokensType == Token \subseteq Str /\ Token \subseteq Spelt \ {<< >>} /\ Token \subseteq Seq(0..255)
BY SpeltIs DEF Token, Str

LEMMA TokensClosed ==
  ASSUME Loaded, NEW k \in 1..Len(merges)
  PROVE  Closed(Token, merges[k])
<1> SUFFICES ASSUME NEW x \in Token, NEW y \in Token, <<x, y>> = merges[k] PROVE x \o y \in Token
  BY DEF Closed
<1>1. PICK z : z = x \o y
  OBVIOUS
<1>2. z = merges[k][1] \o merges[k][2]
  <2>1. merges[k][1] = x /\ merges[k][2] = y
    OBVIOUS
  <2> QED BY <1>1, <2>1
<1>3. Indexed(z)
  BY <1>2, VocabularyHas
<1>4. z \in Spelt
  BY <1>1, SpeltTwo DEF Token
<1>5. z # << >>
  <2>1. x \in Seq(0..255) /\ y \in Seq(0..255) /\ x # << >>
    BY TokensType DEF Token
  <2>2. Len(z) = Len(x) + Len(y) /\ Len(x) \in Nat \ {0} /\ Len(y) \in Nat
    BY <1>1, <2>1, EmptySeq, ConcatProperties
  <2> QED BY <2>2
<1> QED BY <1>1, <1>3, <1>4, <1>5 DEF Token

LEMMA WiderSeq ==
  ASSUME NEW A, NEW B, A \subseteq B
  PROVE  Seq(A) \subseteq Seq(B)
  OBVIOUS

LEMMA SaidStr == Said \subseteq Str
<1>1. Bytes \subseteq 0..255
  BY PromptAssumption
<1>2. Seq(Bytes) \subseteq Seq(0..255)
  BY <1>1, WiderSeq
<1> QED BY <1>2 DEF Said, Str

\* The bytes of a text, as tokens
LEMMA PiecesTokens ==
  ASSUME Loaded, NEW w \in Said
  PROVE  w \in Str /\ Pieces(w) \in Seq(Token) /\ FlattenSeq(Pieces(w)) = Chars(w)
<1>1. w \in Str
  BY SaidStr
<1>a. PICK p : p = Pieces(w)
  OBVIOUS
<1>2. PICK n \in Nat : n = Len(w)
  BY <1>1 DEF Str
<1>3. p \in Seq(Str) /\ Len(p) = n /\ \A i \in 1..n : p[i] = Visible(w[i])
  BY <1>1, <1>2, <1>a, PiecesAt
<1>4. ASSUME NEW i \in 1..n PROVE p[i] \in Token
  <2>1. w[i] \in Bytes
    BY <1>2, ElementOfSeq DEF Said
  <2>2. PICK b \in Bytes : b = w[i]
    BY <2>1
  <2>3. b \in 0..255
    BY PromptAssumption
  <2>4. <<b>> \in Str /\ Chars(<<b>>) = Visible(b)
    <3>1. <<b>> \in Str
      BY <2>3 DEF Str
    <3> QED BY <2>3, <3>1, CharsOfOne
  <2>5. Visible(b) \in Spelt
    BY <2>4 DEF Spelt
  <2>6. Visible(b) # << >>
    <3>1. PICK v : v = Visible(b)
      OBVIOUS
    <3>2. Len(v) \in {1, 2}
      BY <2>3, <3>1, WrittenType
    <3>3. v # << >>
      BY <3>2
    <3> QED BY <3>1, <3>3
  <2>7. Indexed(Visible(b))
    BY VocabularyHas
  <2> QED BY <1>3, <2>2, <2>5, <2>6, <2>7 DEF Token
<1>5. p \in Seq(Token)
  <2>1. p \in [1..n -> Token]
    BY <1>3, <1>4
  <2>2. [1..n -> Token] \subseteq Seq(Token)
    OBVIOUS
  <2> QED BY <2>1, <2>2
<1> QED BY <1>1, <1>a, <1>5 DEF Chars

-----------------------------------------------------------------------------
(* What is merged next to each other is merged.                            *)

\* The end of a line, and what a framing begins with
Markup == {Lit.im_start[1], Lit.tool_call[1]}
Meet(u, v) == u # << >> /\ v # << >> => Last(u) = 10 /\ v[1] \in Markup

\* Tokens that are written as a text is
Writes(t, w) == t \in Seq(Token) /\ FlattenSeq(t) = Chars(w)

LEMMA MeetApart ==
  ASSUME Loaded, NEW d, NEW y, NEW u \in Str, NEW v \in Str, Writes(d, u), Writes(y, v),
         Meet(u, v), NEW k \in 1..Len(merges)
  PROVE  Apart(d, y, merges[k])
<1> SUFFICES ASSUME d # << >>, y # << >>, <<Last(d), y[1]>> = merges[k] PROVE FALSE
  BY DEF Apart
<1>1. d \in Seq(Spelt \ {<< >>}) /\ y \in Seq(Spelt \ {<< >>})
  BY TokensType DEF Writes
<1>2. u # << >> /\ IsSuffix(Visible(Last(u)), Last(d))
  BY <1>1, LastEnds DEF Writes
<1>3. v # << >> /\ IsPrefix(Visible(v[1]), y[1])
  BY <1>1, FirstBegins DEF Writes
<1>4. Last(u) = 10 /\ v[1] \in Markup
  BY <1>2, <1>3 DEF Meet
<1>5. merges \in Merges /\ k \in DOMAIN merges
  BY MergesAre DEF Loaded
<1>6. ~(IsSuffix(Visible(10), merges[k][1]) /\ IsPrefix(Visible(v[1]), merges[k][2]))
  BY <1>4, <1>5, SeamAssumption DEF Markup
<1>7. merges[k][1] = Last(d) /\ merges[k][2] = y[1]
  OBVIOUS
<1> QED BY <1>2, <1>3, <1>4, <1>6, <1>7

LEMMA EverywhereWrites ==
  ASSUME Loaded, NEW t, NEW w, Writes(t, w), NEW k \in 1..Len(merges)
  PROVE  Writes(Everywhere(t, merges[k]), w)
<1>1. Learnt(merges[k], Str)
  BY OrderingIs DEF Ordering
<1>2. Closed(Token, merges[k]) /\ Token \subseteq Str /\ Token \subseteq Seq(0..255)
  BY TokensClosed, TokensType
<1>3. t \in Seq(Token)
  BY DEF Writes
<1>4. Everywhere(t, merges[k]) \in Seq(Token) /\ FlattenSeq(Everywhere(t, merges[k])) = FlattenSeq(t)
  BY <1>1, <1>2, <1>3, EverywhereKeeps
<1> QED BY <1>4 DEF Writes

LEMMA TrainedWrites ==
  ASSUME Loaded, NEW t, NEW w, Writes(t, w), NEW f, Trains(f, t, Str)
  PROVE  \A k \in 0..Len(merges) : Writes(f[k], w)
<1>0. Len(merges) \in Nat
  BY MergesAre
<1> DEFINE T == {k \in 0..Len(merges) : Writes(f[k], w)}
<1>1. 0 \in T
  BY <1>0 DEF Trains
<1>2. ASSUME NEW k \in 1..Len(merges), k - 1 \in T PROVE k \in T
  <2>1. Writes(f[k - 1], w) /\ k \in 0..Len(merges)
    BY <1>0, <1>2
  <2>2. f[k] = Everywhere(f[k - 1], merges[k])
    BY DEF Trains
  <2>3. Writes(f[k], w)
    BY <2>1, <2>2, EverywhereWrites
  <2> QED BY <2>1, <2>3
<1>3. \A k \in T : Writes(f[k], w)
  OBVIOUS
<1> HIDE DEF T
<1>4. \A k \in 0..Len(merges) : k \in T
  BY <1>0, <1>1, <1>2, UpTo
<1> QED BY <1>3, <1>4

LEMMA TrainedParts ==
  ASSUME Loaded, NEW x, NEW y, NEW u \in Str, NEW v \in Str, Writes(x, u), Writes(y, v), Meet(u, v)
  PROVE  Trained(x \o y) = Trained(x) \o Trained(y)
<1>1. Ordering(merges, Str) /\ Len(merges) \in Nat
  BY OrderingIs, MergesAre
<1>2. x \in Seq(Str) /\ y \in Seq(Str)
  BY TokensType DEF Writes
<1>3. x \o y \in Seq(Str)
  BY <1>2, ConcatProperties
<1>4. PICK f : Trains(f, x \o y, Str)
  BY <1>1, <1>3, TrainedIs
<1>5. PICK g : Trains(g, x, Str)
  BY <1>1, <1>2, TrainedIs
<1>6. PICK h : Trains(h, y, Str)
  BY <1>1, <1>2, TrainedIs
<1>7. /\ \A k \in 0..Len(merges) : Writes(g[k], u)
      /\ \A k \in 0..Len(merges) : Writes(h[k], v)
  BY <1>5, <1>6, TrainedWrites
<1> DEFINE R(k) == f[k] = g[k] \o h[k]
           T == {k \in 0..Len(merges) : R(k)}
<1>8. R(0)
  BY <1>4, <1>5, <1>6 DEF Trains
<1>9. ASSUME NEW k \in 1..Len(merges), R(k - 1) PROVE R(k)
  <2>1. k - 1 \in 0..Len(merges) /\ k \in 0..Len(merges)
    BY <1>1
  <2>2. PICK a, b : a = g[k - 1] /\ b = h[k - 1]
    OBVIOUS
  <2>3. a \in Seq(Str) /\ b \in Seq(Str) /\ Learnt(merges[k], Str)
    BY <1>1, <1>5, <1>6, <2>1, <2>2 DEF Trains, Ordering
  <2>4. g[k] = Everywhere(a, merges[k]) /\ h[k] = Everywhere(b, merges[k])
    BY <1>5, <1>6, <2>2 DEF Trains
  <2>5. f[k] = Everywhere(a \o b, merges[k])
    BY <1>4, <1>9, <2>2 DEF Trains
  <2>6. Writes(Everywhere(a, merges[k]), u) /\ Writes(b, v)
    BY <1>7, <2>1, <2>2, <2>4
  <2>7. Apart(Everywhere(a, merges[k]), b, merges[k])
    BY <2>6, MeetApart
  <2>8. Everywhere(a \o b, merges[k]) = Everywhere(a, merges[k]) \o Everywhere(b, merges[k])
    BY <2>3, <2>7, EverywhereParts
  <2> QED BY <2>4, <2>5, <2>8
<1>10. \A k \in T : R(k)
  OBVIOUS
<1>11. 0 \in T /\ \A k \in 1..Len(merges) : k - 1 \in T => k \in T
  <2>1. 0 \in 0..Len(merges) /\ \A k \in 1..Len(merges) : k \in 0..Len(merges)
    BY <1>1
  <2> HIDE DEF R
  <2> QED BY <1>8, <1>9, <2>1
<1> HIDE DEF T, R
<1>12. R(Len(merges))
  <2>1. \A k \in 0..Len(merges) : k \in T
    BY <1>1, <1>11, UpTo
  <2>2. Len(merges) \in 0..Len(merges)
    BY <1>1
  <2> QED BY <1>10, <2>1, <2>2
<1>13. f[Len(merges)] = Trained(x \o y) /\ g[Len(merges)] = Trained(x) /\ h[Len(merges)] = Trained(y)
  BY <1>4, <1>5, <1>6 DEF Trains
<1> QED BY <1>12, <1>13 DEF R

-----------------------------------------------------------------------------
(* The ids of a word.                                                      *)

LEMMA FlattenSingles ==
  ASSUME NEW S, NEW a \in Seq(S), NEW p, p = [i \in 1..Len(a) |-> <<a[i]>>]
  PROVE  FlattenSeq(p) = a
<1>1. PICK n \in Nat : n = Len(a)
  OBVIOUS
<1>2. \A i \in 1..n : a[i] \in S
  BY <1>1, ElementOfSeq
<1>3. p \in Seq(Seq(S)) /\ Len(p) = n /\ \A i \in 1..n : p[i] = <<a[i]>>
  <2>1. \A i \in 1..n : <<a[i]>> \in Seq(S)
    BY <1>2
  <2>2. p \in [1..n -> Seq(S)]
    BY <1>1, <2>1
  <2>3. [1..n -> Seq(S)] \subseteq Seq(Seq(S))
    OBVIOUS
  <2> QED BY <1>1, <2>2, <2>3
<1>4. PICK f : Joined(f, p, S)
  BY <1>3, FlattenIs
<1> DEFINE T == {i \in 0..n : Len(f[i]) = i /\ \A j \in 1..i : f[i][j] = a[j]}
<1>5. 0 \in T
  <2>1. f[0] = << >> /\ 0 \in 0..n
    BY <1>1, <1>4 DEF Joined, Joins
  <2> QED BY <2>1
<1>6. ASSUME NEW i \in 1..n, i - 1 \in T PROVE i \in T
  <2>1. i \in 0..n /\ i - 1 \in 0..n /\ i \in Nat /\ i \in 1..Len(p)
    BY <1>1, <1>3
  <2>2. PICK d, e : d = f[i - 1] /\ e = f[i]
    OBVIOUS
  <2>3. d \in Seq(S) /\ Len(d) = i - 1 /\ \A j \in 1..i - 1 : d[j] = a[j]
    BY <1>3, <1>4, <1>6, <2>1, <2>2 DEF Joined
  <2>4. PICK c \in S : c = a[i]
    BY <1>2
  <2>5. e = d \o <<c>>
    BY <1>3, <1>4, <2>1, <2>2, <2>4 DEF Joined, Joins
  <2>6. <<c>> \in Seq(S) /\ Len(<<c>>) = 1 /\ <<c>>[1] = c
    OBVIOUS
  <2>7. /\ Len(e) = (i - 1) + 1
        /\ \A j \in 1..(i - 1) + 1 : e[j] = IF j <= i - 1 THEN d[j] ELSE <<c>>[j - (i - 1)]
    BY <2>3, <2>5, <2>6, ConcatProperties
  <2>8. Len(e) = i
    BY <2>1, <2>7
  <2>9. ASSUME NEW j \in 1..i PROVE e[j] = a[j]
    <3>1. CASE j = i
      <4>1. j - (i - 1) = 1 /\ ~(j <= i - 1) /\ j \in 1..(i - 1) + 1
        BY <2>1, <3>1
      <4> QED BY <2>4, <2>6, <2>7, <3>1, <4>1
    <3>2. CASE j # i
      <4>1. j \in 1..i - 1 /\ j <= i - 1 /\ j \in 1..(i - 1) + 1
        BY <2>1, <3>2
      <4> QED BY <2>3, <2>7, <4>1
    <3> QED BY <3>1, <3>2
  <2> QED BY <2>1, <2>2, <2>8, <2>9
<1>7. \A i \in T : Len(f[i]) = i /\ \A j \in 1..i : f[i][j] = a[j]
  OBVIOUS
<1> HIDE DEF T
<1>8. n \in T
  <2>1. \A i \in 0..n : i \in T
    BY <1>1, <1>5, <1>6, UpTo
  <2> QED BY <1>1, <2>1
<1>9. PICK u : u = f[n]
  OBVIOUS
<1>10. u \in Seq(S) /\ u = FlattenSeq(p)
  <2>1. n \in 0..Len(p)
    BY <1>1, <1>3
  <2> QED BY <1>3, <1>4, <1>9, <2>1 DEF Joined
<1>11. Len(u) = n /\ \A j \in 1..n : u[j] = a[j]
  BY <1>7, <1>8, <1>9
<1>12. u = a
  BY <1>1, <1>10, <1>11, SeqEqual
<1> QED BY <1>10, <1>12

LEMMA IdsAre ==
  ASSUME Loaded, NEW t \in Seq(Token)
  PROVE  /\ Ids(t) \in Seq(Nat) /\ Len(Ids(t)) = Len(t)
         /\ \A i \in 1..Len(t) : Ids(t)[i] = vocab_to_id[t[i]]
<1>1. PICK n \in Nat : n = Len(t) /\ DOMAIN t = 1..n
  OBVIOUS
<1>2. \A i \in 1..n : t[i] \in DOMAIN vocab_to_id /\ vocab_to_id[t[i]] \in Nat
  BY <1>1, ElementOfSeq DEF Token, Indexed
<1>3. PICK a : a = [i \in 1..n |-> vocab_to_id[t[i]]]
  OBVIOUS
<1>4. a \in Seq(Nat) /\ Len(a) = n
  <2>1. a \in [1..n -> Nat]
    BY <1>2, <1>3
  <2>2. [1..n -> Nat] \subseteq Seq(Nat)
    OBVIOUS
  <2> QED BY <1>3, <2>1, <2>2
<1>5. PICK p : p = [i \in DOMAIN t |-> IF t[i] \in DOMAIN vocab_to_id THEN <<vocab_to_id[t[i]]>> ELSE << >>]
  OBVIOUS
<1>6. p = [i \in 1..Len(a) |-> <<a[i]>>]
  BY <1>1, <1>2, <1>3, <1>4, <1>5
<1>7. FlattenSeq(p) = a
  BY <1>4, <1>6, FlattenSingles
<1>8. Ids(t) = a
  BY <1>5, <1>7 DEF Ids
<1> QED BY <1>1, <1>3, <1>4, <1>8

LEMMA IdsOfTwo ==
  ASSUME Loaded, NEW x \in Seq(Token), NEW y \in Seq(Token)
  PROVE  Ids(x \o y) = Ids(x) \o Ids(y)
<1>1. PICK m \in Nat, n \in Nat : m = Len(x) /\ n = Len(y)
  OBVIOUS
<1>2. PICK z : z = x \o y
  OBVIOUS
<1>3. z \in Seq(Token) /\ Len(z) = m + n /\ \A i \in 1..m + n : z[i] = IF i <= m THEN x[i] ELSE y[i - m]
  BY <1>1, <1>2, ConcatProperties
<1>4. PICK a, b, c, d : a = Ids(x) /\ b = Ids(y) /\ c = Ids(z) /\ d = a \o b
  OBVIOUS
<1>5. a \in Seq(Nat) /\ Len(a) = m /\ \A i \in 1..m : a[i] = vocab_to_id[x[i]]
  BY <1>1, <1>4, IdsAre
<1>6. b \in Seq(Nat) /\ Len(b) = n /\ \A i \in 1..n : b[i] = vocab_to_id[y[i]]
  BY <1>1, <1>4, IdsAre
<1>7. c \in Seq(Nat) /\ Len(c) = m + n /\ \A i \in 1..m + n : c[i] = vocab_to_id[z[i]]
  <2>1. c \in Seq(Nat) /\ Len(c) = Len(z) /\ \A i \in 1..Len(z) : c[i] = vocab_to_id[z[i]]
    BY <1>3, <1>4, IdsAre
  <2>2. Len(z) = m + n
    BY <1>3
  <2> QED BY <2>1, <2>2
<1>8. d \in Seq(Nat) /\ Len(d) = m + n /\ \A i \in 1..m + n : d[i] = IF i <= m THEN a[i] ELSE b[i - m]
  BY <1>4, <1>5, <1>6, ConcatProperties
<1>9. ASSUME NEW i \in 1..Len(c) PROVE c[i] = d[i]
  <2>0. i \in 1..m + n
    BY <1>7
  <2>1. CASE i <= m
    <3>1. i \in 1..m
      BY <1>1, <2>0, <2>1
    <3>2. c[i] = vocab_to_id[z[i]] /\ z[i] = x[i]
      BY <1>3, <1>7, <2>0, <2>1
    <3>3. d[i] = a[i] /\ a[i] = vocab_to_id[x[i]]
      BY <1>5, <1>8, <2>0, <2>1, <3>1
    <3> QED BY <3>2, <3>3
  <2>2. CASE ~(i <= m)
    <3>1. i - m \in 1..n
      BY <1>1, <2>0, <2>2
    <3>2. c[i] = vocab_to_id[z[i]] /\ z[i] = y[i - m]
      BY <1>3, <1>7, <2>0, <2>2
    <3>3. d[i] = b[i - m] /\ b[i - m] = vocab_to_id[y[i - m]]
      BY <1>6, <1>8, <2>0, <2>2, <3>1
    <3> QED BY <3>2, <3>3
  <2> QED BY <2>1, <2>2
<1>10. c = d
  BY <1>7, <1>8, <1>9, SeqEqual
<1> QED BY <1>2, <1>4, <1>10

LEMMA IdsReadBack ==
  ASSUME Loaded, NEW t, NEW w \in Str, Writes(t, w)
  PROVE  Decoded(Ids(t)) = w
<1>1. t \in Seq(Token) /\ FlattenSeq(t) = Chars(w)
  BY DEF Writes
<1>2. t \in Seq(Spelt)
  BY <1>1, TokensType
<1>3. PICK n \in Nat : n = Len(t) /\ DOMAIN t = 1..n
  BY <1>1
<1>4. PICK a : a = Ids(t)
  OBVIOUS
<1>5. a \in Seq(Nat) /\ Len(a) = n /\ DOMAIN a = 1..n /\ \A i \in 1..n : a[i] = vocab_to_id[t[i]]
  BY <1>1, <1>3, <1>4, IdsAre
<1>6. \A i \in 1..n : tokenizer_decode_one(a[i]) = BytesOf(t[i])
  BY <1>1, <1>3, <1>5, ElementOfSeq DEF Token, Indexed
<1>7. [i \in DOMAIN a |-> tokenizer_decode_one(a[i])] = [i \in DOMAIN t |-> BytesOf(t[i])]
  BY <1>3, <1>5, <1>6
<1>8. Decoded(a) = BytesOf(FlattenSeq(t))
  BY <1>2, <1>7, SpeltTogether DEF Decoded
<1> QED BY <1>1, <1>4, <1>8, CharsReadBack

WordIds(w) == Ids(Merged(Pieces(w)))

LEMMA MergedWord ==
  ASSUME Loaded, NEW w \in Said
  PROVE  Merged(Pieces(w)) = Trained(Pieces(w)) /\ Writes(Merged(Pieces(w)), w)
<1>1. PICK p : p = Pieces(w)
  OBVIOUS
<1>2. p \in Seq(Str) /\ Writes(p, w)
  BY <1>1, PiecesTokens, TokensType DEF Writes
<1>3. Ordering(merges, Str) /\ Ranks
  BY OrderingIs, RanksAre DEF Loaded, Load
<1>4. Merged(p) = Trained(p)
  BY <1>2, <1>3, GreedyIsTrained
<1>5. PICK f : Trains(f, p, Str)
  BY <1>2, <1>3, TrainedIs
<1>6. Len(merges) \in 0..Len(merges)
  BY MergesAre
<1>7. Writes(f[Len(merges)], w)
  BY <1>2, <1>5, <1>6, TrainedWrites
<1>8. f[Len(merges)] = Trained(p)
  BY <1>5 DEF Trains
<1> QED BY <1>1, <1>4, <1>7, <1>8

LEMMA WordReads ==
  ASSUME Loaded, NEW w \in Said
  PROVE  WordIds(w) \in Seq(Nat) /\ Decoded(WordIds(w)) = w
<1>1. PICK t : t = Merged(Pieces(w))
  OBVIOUS
<1>2. Writes(t, w) /\ w \in Str
  BY <1>1, MergedWord, SaidStr
<1>3. Decoded(Ids(t)) = w
  BY <1>2, IdsReadBack
<1>4. Ids(t) \in Seq(Nat)
  BY <1>2, IdsAre DEF Writes
<1> QED BY <1>1, <1>3, <1>4 DEF WordIds

LEMMA WordParts ==
  ASSUME Loaded, NEW u \in Said, NEW v \in Said, Meet(u, v)
  PROVE  WordIds(u \o v) = WordIds(u) \o WordIds(v)
<1>1. PICK w : w = u \o v
  OBVIOUS
<1>2. w \in Said /\ u \in Str /\ v \in Str
  BY <1>1, SaidStr, ConcatProperties DEF Said
<1>3. PICK x, y : x = Pieces(u) /\ y = Pieces(v)
  OBVIOUS
<1>4. Writes(x, u) /\ Writes(y, v)
  BY <1>3, PiecesTokens DEF Writes
<1>5. Pieces(w) = x \o y
  BY <1>1, <1>2, <1>3, PiecesOfTwo
<1>6. Trained(x \o y) = Trained(x) \o Trained(y)
  BY <1>2, <1>4, TrainedParts
<1>7. Merged(Pieces(w)) = Trained(x \o y) /\ Merged(x) = Trained(x) /\ Merged(y) = Trained(y)
  BY <1>2, <1>3, <1>5, MergedWord
<1>8. Merged(x) \in Seq(Token) /\ Merged(y) \in Seq(Token)
  BY <1>3, MergedWord DEF Writes
<1>9. Ids(Merged(x) \o Merged(y)) = Ids(Merged(x)) \o Ids(Merged(y))
  BY <1>8, IdsOfTwo
<1>10. Merged(Pieces(w)) = Merged(x) \o Merged(y)
  BY <1>6, <1>7
<1> QED BY <1>1, <1>3, <1>9, <1>10 DEF WordIds

-----------------------------------------------------------------------------
(* Words.                                                                  *)

LEMMA AllOfIt ==
  ASSUME NEW S, NEW s \in Seq(S)
  PROVE  Suffix(s, 1) = s /\ SubSeq(s, 1, Len(s)) = s
<1>1. PICK n \in Nat : n = Len(s)
  OBVIOUS
<1>2. PICK a : a = SubSeq(s, 1, n)
  OBVIOUS
<1>3. 1 \in 1..Len(s) + 1 /\ n \in 1 - 1..Len(s)
  BY <1>1
<1>4. a \in Seq(S) /\ Len(a) = (n - 1) + 1 /\ \A i \in 1..(n - 1) + 1 : a[i] = s[(1 + i) - 1]
  BY <1>2, <1>3, SliceIs
<1>5. ASSUME NEW i \in 1..Len(a) PROVE a[i] = s[i]
  <2>1. i \in 1..(n - 1) + 1 /\ (1 + i) - 1 = i
    BY <1>1, <1>4
  <2> QED BY <1>4, <2>1
<1>6. Len(a) = Len(s)
  BY <1>1, <1>4
<1>7. a = s
  BY <1>4, <1>5, <1>6, SeqEqual
<1> QED BY <1>1, <1>2, <1>7 DEF Suffix

\* The text s, cut before place p
Cut(s, p, a, b, S) ==
  /\ a \in Seq(S) /\ b \in Seq(S) /\ s = a \o b
  /\ Len(a) = p - 1 /\ Len(b) = (Len(s) - p) + 1
  /\ \A i \in 1..p - 1 : a[i] = s[i]
  /\ \A i \in 1..(Len(s) - p) + 1 : b[i] = s[(p + i) - 1]

LEMMA CutAt ==
  ASSUME NEW S, NEW s \in Seq(S), NEW p \in 1..Len(s) + 1
  PROVE  Cut(s, p, SubSeq(s, 1, p - 1), Suffix(s, p), S)
<1>1. PICK n \in Nat : n = Len(s)
  OBVIOUS
<1>2. p \in Nat /\ p \in 1..n + 1
  BY <1>1
<1>3. 1 \in 1..Len(s) + 1 /\ p - 1 \in 1 - 1..Len(s) /\ (p - 1) + 1 = p
  BY <1>1, <1>2
<1>4. PICK a, b : a = SubSeq(s, 1, p - 1) /\ b = Suffix(s, p)
  OBVIOUS
<1>5. /\ a \in Seq(S) /\ Len(a) = ((p - 1) - 1) + 1
      /\ \A i \in 1..((p - 1) - 1) + 1 : a[i] = s[(1 + i) - 1]
  BY <1>3, <1>4, SliceIs
<1>6. Len(a) = p - 1 /\ \A i \in 1..p - 1 : a[i] = s[i]
  <2>1. Len(a) = p - 1
    BY <1>2, <1>5
  <2>2. ASSUME NEW i \in 1..p - 1 PROVE a[i] = s[i]
    <3>1. i \in 1..((p - 1) - 1) + 1 /\ (1 + i) - 1 = i
      BY <1>2
    <3> QED BY <1>5, <3>1
  <2> QED BY <2>1, <2>2
<1>7. b \in Seq(S) /\ Len(b) = (Len(s) - p) + 1 /\ \A i \in 1..(Len(s) - p) + 1 : b[i] = s[(p + i) - 1]
  BY <1>4, SuffixIs
<1>8. a \o b = s
  <2>1. SubSeq(s, 1, p - 1) \o Suffix(s, (p - 1) + 1) = Suffix(s, 1)
    BY <1>3, PartsMeet
  <2> QED BY <1>3, <1>4, <2>1, AllOfIt
<1> QED BY <1>4, <1>5, <1>6, <1>7, <1>8 DEF Cut

\* A text with no space behind its first place
Whole(w) == w # << >> /\ \A i \in 2..Len(w) : w[i] # 32

\* A text that is empty or begins with a space
Follows(v) == v # << >> => v[1] = 32

LEMMA FirstWord ==
  ASSUME NEW t \in Said, t # << >>
  PROVE  \E z \in Said, v \in Said : /\ t = z \o v /\ Whole(z) /\ Follows(v) /\ z[1] = t[1]
                                     /\ Len(v) < Len(t)
<1>0. t \in Seq(Bytes)
  BY DEF Said
<1>1. PICK n \in Nat \ {0} : n = Len(t)
  BY <1>0, EmptySeq
<1>2. PICK p \in 2..n + 1 : /\ \A i \in 2..p - 1 : t[i] # 32
                            /\ p <= n => t[p] = 32
  <2>1. PICK A : A = {i \in 2..n : t[i] = 32} \cup {n + 1}
    OBVIOUS
  <2>2. A \subseteq Nat /\ A # {}
    BY <1>1, <2>1
  <2>3. PICK p \in A : \A q \in A : p <= q
    BY <2>2, LeastOf
  <2>4. p \in 2..n + 1 /\ (p <= n => t[p] = 32)
    BY <1>1, <2>1, <2>3
  <2>5. ASSUME NEW i \in 2..p - 1 PROVE t[i] # 32
    <3>1. i \in 2..n /\ ~(p <= i)
      BY <1>1, <2>4
    <3> QED BY <2>1, <2>3, <3>1
  <2> QED BY <2>4, <2>5
<1>3. p \in Nat /\ p \in 1..Len(t) + 1
  BY <1>1
<1>4. PICK z, v : z = SubSeq(t, 1, p - 1) /\ v = Suffix(t, p)
  OBVIOUS
<1>5. /\ z \in Said /\ v \in Said /\ t = z \o v
      /\ Len(z) = p - 1 /\ Len(v) = (n - p) + 1
      /\ \A i \in 1..p - 1 : z[i] = t[i]
      /\ \A i \in 1..(n - p) + 1 : v[i] = t[(p + i) - 1]
  <2>1. Cut(t, p, z, v, Bytes)
    BY <1>0, <1>3, <1>4, CutAt
  <2> QED BY <1>1, <2>1 DEF Cut, Said
<1>6. Whole(z) /\ z[1] = t[1]
  <2>1. 1 \in 1..p - 1 /\ p - 1 # 0
    BY <1>3
  <2>2. z # << >> /\ z[1] = t[1]
    BY <1>5, <2>1
  <2>3. ASSUME NEW i \in 2..Len(z) PROVE z[i] # 32
    <3>1. i \in 2..p - 1 /\ i \in 1..p - 1
      BY <1>3, <1>5
    <3> QED BY <1>2, <1>5, <3>1
  <2> QED BY <2>2, <2>3 DEF Whole
<1>7. Follows(v)
  <2> SUFFICES ASSUME v # << >> PROVE v[1] = 32
    BY DEF Follows
  <2>1. Len(v) # 0
    BY <1>5 DEF Said
  <2>2. p <= n /\ 1 \in 1..(n - p) + 1 /\ (p + 1) - 1 = p
    BY <1>1, <1>3, <1>5, <2>1
  <2> QED BY <1>2, <1>5, <2>2
<1>8. Len(v) < Len(t)
  BY <1>1, <1>3, <1>5
<1> QED BY <1>5, <1>6, <1>7, <1>8

\* A text, parted before its last word
Parted(t, v, z) ==
  /\ t = v \o z /\ Whole(z) /\ Last(z) = Last(t)
  /\ v # << >> => z[1] = 32

LEMMA LastWord ==
  ASSUME NEW t \in Said, t # << >>
  PROVE  \E v \in Said, z \in Said : Parted(t, v, z)
<1>0. t \in Seq(Bytes)
  BY DEF Said
<1>1. PICK n \in Nat \ {0} : n = Len(t)
  BY <1>0, EmptySeq
<1>2. PICK p \in 1..n : /\ \A i \in p + 1..n : t[i] # 32
                        /\ p # 1 => t[p] = 32
  <2>1. PICK A : A = {1} \cup {i \in 1..n : t[i] = 32}
    OBVIOUS
  <2>2. A \subseteq 1..n /\ A # {}
    BY <1>1, <2>1
  <2>4. PICK p \in A : \A q \in A : q <= p
    BY <2>2, Greatest
  <2>5. p \in 1..n /\ (p # 1 => t[p] = 32)
    BY <1>1, <2>1, <2>4
  <2>6. ASSUME NEW i \in p + 1..n PROVE t[i] # 32
    <3>1. i \in 1..n /\ ~(i <= p)
      BY <1>1, <2>5
    <3> QED BY <2>1, <2>4, <3>1
  <2> QED BY <2>5, <2>6
<1>3. p \in Nat /\ p \in 1..Len(t) + 1
  BY <1>1
<1>4. PICK v, z : v = SubSeq(t, 1, p - 1) /\ z = Suffix(t, p)
  OBVIOUS
<1>5. /\ v \in Said /\ z \in Said /\ t = v \o z
      /\ Len(v) = p - 1 /\ Len(z) = (n - p) + 1
      /\ \A i \in 1..(n - p) + 1 : z[i] = t[(p + i) - 1]
  <2>1. Cut(t, p, v, z, Bytes)
    BY <1>0, <1>3, <1>4, CutAt
  <2> QED BY <1>1, <2>1 DEF Cut, Said
<1>6. Whole(z)
  <2>1. z # << >>
    BY <1>1, <1>2, <1>5
  <2>2. ASSUME NEW i \in 2..Len(z) PROVE z[i] # 32
    <3>1. i \in 1..(n - p) + 1 /\ (p + i) - 1 \in p + 1..n
      BY <1>1, <1>3, <1>5
    <3> QED BY <1>2, <1>5, <3>1
  <2> QED BY <2>1, <2>2 DEF Whole
<1>7. Last(z) = Last(t)
  <2>1. (n - p) + 1 \in 1..(n - p) + 1 /\ (p + ((n - p) + 1)) - 1 = n
    BY <1>1, <1>2
  <2>2. z[(n - p) + 1] = t[n]
    BY <1>5, <2>1
  <2> QED BY <1>1, <1>5, <2>2 DEF Last
<1>8. ASSUME v # << >> PROVE z[1] = 32
  <2>1. p # 1
    BY <1>5, <1>8 DEF Said
  <2>2. 1 \in 1..(n - p) + 1 /\ (p + 1) - 1 = p
    BY <1>1, <1>2
  <2> QED BY <1>2, <1>5, <2>1, <2>2
<1> QED BY <1>5, <1>6, <1>7, <1>8 DEF Parted

\* Where the words of a text begin
Starts(t) == {1} \cup {i \in DOMAIN t : t[i] = 32}
WordAt(t, q, k) == SubSeq(t, q[k], IF k = Len(q) THEN Len(t) ELSE q[k + 1] - 1)

\* q is these places, from the left
StartsOf(q, t) ==
  /\ q \in Seq(1..Len(t)) /\ Rising(q) /\ Len(q) \in Nat \ {0}
  /\ \A x \in 1..Len(t) : x = 1 \/ t[x] = 32 <=> \E k \in 1..Len(q) : q[k] = x

LEMMA StartsAre ==
  ASSUME NEW t \in Said, t # << >>
  PROVE  StartsOf(Ordered(Starts(t)), t)
<1>1. PICK n \in Nat \ {0} : n = Len(t) /\ DOMAIN t = 1..n
  BY EmptySeq DEF Said
<1>2. PICK A : A = Starts(t)
  OBVIOUS
<1>3. A \subseteq 1..n /\ 1 \in A /\ A \subseteq Nat /\ \A x \in 1..n : x \in A <=> x = 1 \/ t[x] = 32
  BY <1>1, <1>2 DEF Starts
<1>4. IsFiniteSet(A)
  <2>1. 1 \in Int /\ n \in Int
    BY <1>1
  <2>2. IsFiniteSet(1..n)
    BY <2>1, FS_Interval
  <2> QED BY <1>3, <2>2, FS_Subset
<1>5. PICK q : q = Ordered(A)
  OBVIOUS
<1>6. q \in Seq(A) /\ Rising(q) /\ \A x \in A : \E k \in 1..Len(q) : q[k] = x
  BY <1>3, <1>4, <1>5, OrderedIs
<1>7. \A k \in 1..Len(q) : q[k] \in A
  BY <1>6, ElementOfSeq
<1>8. q \in Seq(1..n)
  BY <1>3, <1>6, WiderSeq
<1>9. Len(q) \in Nat \ {0}
  <2>1. PICK k \in 1..Len(q) : q[k] = 1
    BY <1>3, <1>6
  <2> QED BY <1>8, <2>1
<1>10. \A x \in 1..n : x = 1 \/ t[x] = 32 <=> \E k \in 1..Len(q) : q[k] = x
  BY <1>3, <1>6, <1>7
<1> QED BY <1>1, <1>2, <1>5, <1>6, <1>8, <1>9, <1>10 DEF StartsOf

\* There is one way to write them down
LEMMA StartsOnly ==
  ASSUME NEW t \in Said, t # << >>, NEW q, StartsOf(q, t)
  PROVE  Ordered(Starts(t)) = q
<1>1. PICK n \in Nat \ {0} : n = Len(t) /\ DOMAIN t = 1..n
  BY EmptySeq DEF Said
<1>2. PICK A : A = Starts(t)
  OBVIOUS
<1>3. A \subseteq 1..n /\ \A x \in 1..n : x \in A <=> x = 1 \/ t[x] = 32
  BY <1>1, <1>2 DEF Starts
<1>4. q \in Seq(1..n) /\ Rising(q)
  BY <1>1 DEF StartsOf
<1>5. q \in Seq(Nat)
  <2>1. 1..n \subseteq Nat
    OBVIOUS
  <2> QED BY <1>4, <2>1, WiderSeq
<1>6. A = {q[i] : i \in 1..Len(q)}
  <2>1. \A i \in 1..Len(q) : q[i] \in 1..n
    BY <1>4, ElementOfSeq
  <2>2. \A x \in 1..n : x \in A <=> \E k \in 1..Len(q) : q[k] = x
    BY <1>1, <1>3 DEF StartsOf
  <2> QED BY <1>3, <2>1, <2>2
<1> QED BY <1>2, <1>4, <1>5, <1>6, OrderedOnly

\* A word ends before the next one begins
LEMMA WordEnds ==
  ASSUME NEW t, Len(t) \in Nat, NEW q, StartsOf(q, t), NEW k \in 1..Len(q)
  PROVE  /\ q[k] \in 1..Len(t)
         /\ (IF k = Len(q) THEN Len(t) ELSE q[k + 1] - 1) \in q[k]..Len(t)
<1>1. q \in Seq(1..Len(t)) /\ Rising(q) /\ Len(q) \in Nat
  BY DEF StartsOf
<1>2. q[k] \in 1..Len(t)
  BY <1>1, ElementOfSeq
<1>3. ASSUME k # Len(q) PROVE q[k + 1] - 1 \in q[k]..Len(t)
  <2>1. k + 1 \in 1..Len(q) /\ k < k + 1
    BY <1>1, <1>3
  <2>2. q[k + 1] \in 1..Len(t)
    BY <1>1, <2>1, ElementOfSeq
  <2>3. q[k] < q[k + 1]
    BY <1>1, <2>1 DEF Rising
  <2> QED BY <1>2, <2>2, <2>3
<1> QED BY <1>2, <1>3

\* ws are the words of t
WordsOf(ws, t, q) ==
  ws \in Seq(Said) /\ Len(ws) = Len(q) /\ \A k \in 1..Len(q) : ws[k] = WordAt(t, q, k)

LEMMA WordsAre ==
  ASSUME NEW t \in Said, t # << >>, NEW q, StartsOf(q, t)
  PROVE  WordsOf(Words(t), t, q)
<1>1. PICK m \in Nat : m = Len(q) /\ DOMAIN q = 1..m
  BY DEF StartsOf
<1>2. PICK ws : ws = [k \in 1..m |-> WordAt(t, q, k)]
  OBVIOUS
<1>3. Words(t) = ws
  <2>1. Ordered({1} \cup {i \in DOMAIN t : t[i] = 32}) = q
    BY StartsOnly DEF Starts
  <2> QED BY <1>1, <1>2, <2>1 DEF Words, WordAt
<1>4. ASSUME NEW k \in 1..m PROVE WordAt(t, q, k) \in Said
  <2>1. t \in Seq(Bytes) /\ Len(t) \in Nat
    BY DEF Said
  <2>2. PICK e : e = IF k = Len(q) THEN Len(t) ELSE q[k + 1] - 1
    OBVIOUS
  <2>3. q[k] \in 1..Len(t) /\ e \in q[k]..Len(t)
    BY <1>1, <2>1, <2>2, WordEnds
  <2>4. PICK p : p = q[k]
    OBVIOUS
  <2>5. p \in 1..Len(t) + 1 /\ e \in p - 1..Len(t)
    BY <2>1, <2>3, <2>4
  <2>6. SubSeq(t, p, e) \in Seq(Bytes)
    BY <2>1, <2>5, SliceIs
  <2> QED BY <2>2, <2>4, <2>6 DEF WordAt, Said
<1>5. ws \in Seq(Said)
  <2>1. ws \in [1..m -> Said]
    BY <1>2, <1>4
  <2>2. [1..m -> Said] \subseteq Seq(Said)
    OBVIOUS
  <2> QED BY <2>1, <2>2
<1> QED BY <1>1, <1>2, <1>3, <1>5 DEF WordsOf

LEMMA OneWord ==
  ASSUME NEW t \in Said, Whole(t)
  PROVE  Words(t) = <<t>>
<1>1. PICK n \in Nat \ {0} : n = Len(t)
  BY EmptySeq DEF Said, Whole
<1>2. StartsOf(<<1>>, t)
  <2>1. <<1>> \in Seq(1..n) /\ Len(<<1>>) = 1 /\ <<1>>[1] = 1 /\ 1..1 = {1}
    BY <1>1
  <2>2. Rising(<<1>>)
    BY <2>1 DEF Rising
  <2>3. \A x \in 1..n : x # 1 => t[x] # 32
    BY <1>1 DEF Whole
  <2> QED BY <1>1, <2>1, <2>2, <2>3 DEF StartsOf
<1>3. WordsOf(Words(t), t, <<1>>)
  BY <1>2, WordsAre DEF Whole
<1>4. PICK ws : ws = Words(t)
  OBVIOUS
<1>5. ws \in Seq(Said) /\ Len(ws) = 1 /\ ws[1] = WordAt(t, <<1>>, 1)
  BY <1>3, <1>4 DEF WordsOf
<1>6. ws[1] = t
  <2>1. WordAt(t, <<1>>, 1) = SubSeq(t, 1, n)
    BY <1>1 DEF WordAt
  <2> QED BY <1>1, <1>5, <2>1, AllOfIt DEF Said
<1>7. <<t>> \in Seq(Said) /\ Len(<<t>>) = 1 /\ <<t>>[1] = t
  OBVIOUS
<1>8. \A i \in 1..1 : ws[i] = <<t>>[i]
  BY <1>6, <1>7
<1>9. ws = <<t>>
  BY <1>5, <1>7, <1>8, SeqEqual
<1> QED BY <1>4, <1>9

\* The places of the second text, seen from the first
Shifted(r, m) == [k \in 1..Len(r) |-> m + r[k]]

\* Two texts one after the other, each given by its places
AfterEach(s, q, r, m) ==
  /\ Len(s) = Len(q) + Len(r)
  /\ \A k \in 1..Len(q) : s[k] = q[k]
  /\ \A k \in 1..Len(r) : s[Len(q) + k] = m + r[k]

LEMMA StartsOfTwo ==
  ASSUME NEW x \in Said, x # << >>, NEW y \in Said, y # << >>, y[1] = 32,
         NEW q, StartsOf(q, x), NEW r, StartsOf(r, y)
  PROVE  \E s : StartsOf(s, x \o y) /\ AfterEach(s, q, r, Len(x))
<1>1. PICK m \in Nat \ {0}, n \in Nat \ {0} : m = Len(x) /\ n = Len(y)
  BY EmptySeq DEF Said
<1>2. PICK z : z = x \o y
  OBVIOUS
<1>3. Len(z) = m + n /\ \A i \in 1..m + n : z[i] = IF i <= m THEN x[i] ELSE y[i - m]
  BY <1>1, <1>2, ConcatProperties DEF Said
<1>4. PICK a \in Nat \ {0}, b \in Nat \ {0} : a = Len(q) /\ b = Len(r)
  BY DEF StartsOf
<1>5. \A k \in 1..a : q[k] \in 1..m
  BY <1>1, <1>4, ElementOfSeq DEF StartsOf
<1>6. \A k \in 1..b : r[k] \in 1..n
  BY <1>1, <1>4, ElementOfSeq DEF StartsOf
<1>7. PICK s : s = [k \in 1..a + b |-> IF k <= a THEN q[k] ELSE m + r[k - a]]
  OBVIOUS
<1>8. ASSUME NEW k \in 1..a PROVE k \in 1..a + b /\ s[k] = q[k] /\ s[k] \in 1..m
  BY <1>4, <1>5, <1>7
<1>9. ASSUME NEW k \in 1..b PROVE a + k \in 1..a + b /\ s[a + k] = m + r[k] /\ s[a + k] \in m + 1..m + n
  <2>1. PICK j : j = a + k
    OBVIOUS
  <2>2. j \in 1..a + b /\ ~(j <= a) /\ j - a = k
    BY <1>4, <2>1
  <2>3. s[j] = m + r[k]
    BY <1>7, <2>2
  <2>4. r[k] \in 1..n
    BY <1>6
  <2>5. m + r[k] \in m + 1..m + n
    BY <1>1, <2>4
  <2> QED BY <2>1, <2>2, <2>3, <2>5
<1>10. ASSUME NEW k \in 1..a + b PROVE k \in 1..a \/ \E j \in 1..b : k = a + j
  <2>1. CASE k <= a
    BY <1>4, <2>1
  <2>2. CASE ~(k <= a)
    <3>1. k - a \in 1..b /\ k = a + (k - a)
      BY <1>4, <2>2
    <3> QED BY <3>1
  <2> QED BY <2>1, <2>2
<1>11. s \in Seq(1..m + n) /\ Len(s) = a + b
  <2>1. \A k \in 1..a + b : s[k] \in 1..m + n
    <3> SUFFICES ASSUME NEW k \in 1..a + b PROVE s[k] \in 1..m + n
      OBVIOUS
    <3>1. CASE k \in 1..a
      <4>1. s[k] \in 1..m
        BY <1>8, <3>1
      <4> QED BY <1>1, <4>1
    <3>2. CASE \E j \in 1..b : k = a + j
      <4>1. s[k] \in m + 1..m + n
        BY <1>9, <3>2
      <4> QED BY <1>1, <4>1
    <3> QED BY <1>10, <3>1, <3>2
  <2>2. s \in [1..a + b -> 1..m + n]
    BY <1>7, <2>1
  <2>3. a + b \in Nat /\ [1..a + b -> 1..m + n] \subseteq Seq(1..m + n)
    BY <1>4
  <2> QED BY <1>7, <2>2, <2>3
<1>12. Rising(s)
  <2> SUFFICES ASSUME NEW i \in 1..a + b, NEW j \in 1..a + b, i < j PROVE s[i] < s[j]
    BY <1>11 DEF Rising
  <2>1. CASE i \in 1..a /\ j \in 1..a
    <3>1. q[i] < q[j]
      BY <1>4, <2>1 DEF StartsOf, Rising
    <3> QED BY <1>8, <2>1, <3>1
  <2>2. CASE i \in 1..a /\ j \notin 1..a
    <3>1. PICK k \in 1..b : j = a + k
      BY <1>10, <2>2
    <3>2. s[i] \in 1..m /\ s[j] \in m + 1..m + n
      BY <1>8, <1>9, <2>2, <3>1
    <3> QED BY <1>1, <3>2
  <2>3. CASE i \notin 1..a
    <3>1. j \notin 1..a
      BY <1>4, <2>3
    <3>2. PICK k \in 1..b, l \in 1..b : i = a + k /\ j = a + l
      BY <1>10, <2>3, <3>1
    <3>3. k < l
      BY <1>4, <3>2
    <3>4. r[k] < r[l]
      BY <1>4, <3>3 DEF StartsOf, Rising
    <3>5. s[i] = m + r[k] /\ s[j] = m + r[l] /\ r[k] \in Nat /\ r[l] \in Nat
      BY <1>6, <1>9, <3>2
    <3> QED BY <1>1, <3>4, <3>5
  <2> QED BY <2>1, <2>2, <2>3
<1>13. ASSUME NEW p \in 1..m + n
       PROVE  p = 1 \/ z[p] = 32 <=> \E k \in 1..a + b : s[k] = p
  <2>1. CASE p <= m
    <3>1. p \in 1..m /\ z[p] = x[p]
      BY <1>1, <1>3, <2>1
    <3>2. p = 1 \/ x[p] = 32 <=> \E k \in 1..a : q[k] = p
      BY <1>1, <1>4, <3>1 DEF StartsOf
    <3>3. ASSUME NEW k \in 1..a + b, s[k] = p PROVE k \in 1..a
      <4> SUFFICES ASSUME k \notin 1..a PROVE FALSE
        OBVIOUS
      <4>1. PICK j \in 1..b : k = a + j
        BY <1>10
      <4>2. s[k] \in m + 1..m + n
        BY <1>9, <4>1
      <4> QED BY <1>1, <2>1, <3>3, <4>2
    <3> QED BY <1>8, <3>1, <3>2, <3>3
  <2>2. CASE ~(p <= m)
    <3>1. PICK i : i = p - m
      OBVIOUS
    <3>2. i \in 1..n /\ z[p] = y[i] /\ p # 1 /\ p = m + i
      BY <1>1, <1>3, <2>2, <3>1
    <3>3. y[i] = 32 <=> \E k \in 1..b : r[k] = i
      <4>1. i = 1 \/ y[i] = 32 <=> \E k \in 1..b : r[k] = i
        BY <1>1, <1>4, <3>2 DEF StartsOf
      <4> QED BY <4>1
    <3>4. ASSUME NEW k \in 1..a + b, s[k] = p PROVE \E j \in 1..b : r[j] = i
      <4>1. k \notin 1..a
        <5> SUFFICES ASSUME k \in 1..a PROVE FALSE
          OBVIOUS
        <5>1. s[k] \in 1..m
          BY <1>8
        <5> QED BY <1>1, <2>2, <3>4, <5>1
      <4>2. PICK j \in 1..b : k = a + j
        BY <1>10, <4>1
      <4>3. s[k] = m + r[j] /\ r[j] \in Nat
        BY <1>6, <1>9, <4>2
      <4>4. r[j] = i
        BY <1>1, <3>1, <3>4, <4>3
      <4> QED BY <4>4
    <3>5. ASSUME NEW j \in 1..b, r[j] = i PROVE \E k \in 1..a + b : s[k] = p
      BY <1>9, <3>2, <3>5
    <3> QED BY <3>2, <3>3, <3>4, <3>5
  <2> QED BY <2>1, <2>2
<1>14. StartsOf(s, z)
  <2>1. Len(s) \in Nat \ {0}
    BY <1>4, <1>11
  <2> QED BY <1>3, <1>11, <1>12, <1>13, <2>1 DEF StartsOf
<1>15. AfterEach(s, q, r, Len(x))
  BY <1>1, <1>4, <1>8, <1>9, <1>11 DEF AfterEach
<1> QED BY <1>2, <1>14, <1>15

LEMMA FirstStart ==
  ASSUME NEW t, Len(t) \in Nat \ {0}, NEW q, StartsOf(q, t)
  PROVE  q[1] = 1
<1>1. q \in Seq(1..Len(t)) /\ Rising(q) /\ Len(q) \in Nat \ {0}
  BY DEF StartsOf
<1>2. 1 \in 1..Len(t)
  OBVIOUS
<1>3. PICK k \in 1..Len(q) : q[k] = 1
  BY <1>2 DEF StartsOf
<1>4. 1 \in 1..Len(q)
  BY <1>1
<1>5. q[1] \in 1..Len(t)
  BY <1>1, <1>4, ElementOfSeq
<1>6. CASE k = 1
  BY <1>3, <1>6
<1>7. CASE k # 1
  <2>1. 1 < k
    BY <1>1, <1>7
  <2>2. q[1] < q[k]
    BY <1>1, <1>4, <2>1 DEF Rising
  <2> QED BY <1>3, <1>5, <2>2
<1> QED BY <1>6, <1>7

LEMMA WordsOfTwo ==
  ASSUME NEW x \in Said, x # << >>, NEW y \in Said, y # << >>, y[1] = 32
  PROVE  Words(x \o y) = Words(x) \o Words(y)
<1>1. PICK m \in Nat \ {0}, n \in Nat \ {0} : m = Len(x) /\ n = Len(y)
  BY EmptySeq DEF Said
<1>2. PICK z : z = x \o y
  OBVIOUS
<1>3. z \in Said /\ Len(z) = m + n /\ z # << >>
  <2>1. z \in Seq(Bytes) /\ Len(z) = m + n
    BY <1>1, <1>2, ConcatProperties DEF Said
  <2>2. m + n # 0
    BY <1>1
  <2> QED BY <2>1, <2>2 DEF Said
<1>4. PICK q, r : q = Ordered(Starts(x)) /\ r = Ordered(Starts(y))
  OBVIOUS
<1>5. StartsOf(q, x) /\ StartsOf(r, y)
  BY <1>4, StartsAre
<1>6. PICK s : StartsOf(s, z) /\ AfterEach(s, q, r, Len(x))
  BY <1>2, <1>5, StartsOfTwo
<1>7. PICK a \in Nat \ {0}, b \in Nat \ {0} : a = Len(q) /\ b = Len(r)
  BY <1>5 DEF StartsOf
<1>8. PICK u, v, w : u = Words(x) /\ v = Words(y) /\ w = Words(z)
  OBVIOUS
<1>9. WordsOf(u, x, q) /\ WordsOf(v, y, r) /\ WordsOf(w, z, s)
  BY <1>3, <1>5, <1>6, <1>8, WordsAre
<1>10. /\ Len(s) = a + b /\ \A k \in 1..a : s[k] = q[k]
       /\ \A k \in 1..b : s[a + k] = m + r[k]
  BY <1>1, <1>6, <1>7 DEF AfterEach
<1>11. /\ u \in Seq(Said) /\ Len(u) = a /\ \A k \in 1..a : u[k] = WordAt(x, q, k)
       /\ v \in Seq(Said) /\ Len(v) = b /\ \A k \in 1..b : v[k] = WordAt(y, r, k)
       /\ w \in Seq(Said) /\ Len(w) = a + b /\ \A k \in 1..a + b : w[k] = WordAt(z, s, k)
  BY <1>7, <1>9, <1>10 DEF WordsOf
<1>12. PICK d : d = u \o v
  OBVIOUS
<1>13. /\ d \in Seq(Said) /\ Len(d) = a + b
       /\ \A k \in 1..a + b : d[k] = IF k <= a THEN u[k] ELSE v[k - a]
  BY <1>11, <1>12, ConcatProperties
<1>a. x \in Seq(Bytes) /\ y \in Seq(Bytes)
  BY DEF Said
<1>14. ASSUME NEW k \in 1..a PROVE WordAt(z, s, k) = WordAt(x, q, k)
  <2>1. PICK e : e = IF k = Len(q) THEN Len(x) ELSE q[k + 1] - 1
    OBVIOUS
  <2>2. q[k] \in 1..m /\ e \in q[k]..m
    BY <1>1, <1>5, <1>7, <2>1, WordEnds
  <2>3. (IF k = Len(s) THEN Len(z) ELSE s[k + 1] - 1) = e
    <3>1. k # Len(s)
      BY <1>7, <1>10
    <3>2. CASE k = a
      <4>1. 1 \in 1..b /\ k + 1 = a + 1
        BY <1>7, <3>2
      <4>2. s[k + 1] = m + r[1] /\ r[1] = 1
        BY <1>1, <1>5, <1>10, <4>1, FirstStart
      <4>3. s[k + 1] - 1 = m
        BY <1>1, <4>2
      <4> QED BY <1>1, <1>7, <2>1, <3>1, <3>2, <4>3
    <3>3. CASE k # a
      <4>1. k + 1 \in 1..a
        BY <1>7, <3>3
      <4> QED BY <1>7, <1>10, <2>1, <3>1, <3>3, <4>1
    <3> QED BY <3>2, <3>3
  <2>4. PICK p : p = q[k]
    OBVIOUS
  <2>5. p \in 1..Len(x) + 1 /\ e \in p - 1..Len(x)
    BY <1>1, <2>2, <2>4
  <2>6. SubSeq(x \o y, p, e) = SubSeq(x, p, e)
    BY <1>a, <2>5, SliceBefore
  <2>7. WordAt(z, s, k) = SubSeq(z, p, e) /\ WordAt(x, q, k) = SubSeq(x, p, e)
    BY <1>10, <2>1, <2>3, <2>4 DEF WordAt
  <2> QED BY <1>2, <2>6, <2>7
<1>15. ASSUME NEW k \in 1..b PROVE WordAt(z, s, a + k) = WordAt(y, r, k)
  <2>1. PICK e : e = IF k = Len(r) THEN Len(y) ELSE r[k + 1] - 1
    OBVIOUS
  <2>2. r[k] \in 1..n /\ e \in r[k]..n
    BY <1>1, <1>5, <1>7, <2>1, WordEnds
  <2>3. (IF a + k = Len(s) THEN Len(z) ELSE s[(a + k) + 1] - 1) = m + e
    <3>1. CASE k = b
      BY <1>1, <1>3, <1>7, <1>10, <2>1, <3>1
    <3>2. CASE k # b
      <4>1. k + 1 \in 1..b /\ (a + k) + 1 = a + (k + 1) /\ a + k # a + b
        BY <1>7, <3>2
      <4>2. s[(a + k) + 1] = m + r[k + 1] /\ e = r[k + 1] - 1
        BY <1>7, <1>10, <2>1, <3>2, <4>1
      <4>3. r[k + 1] \in Int
        BY <1>5, <1>7, <4>1, WordEnds
      <4>4. s[(a + k) + 1] - 1 = m + e
        BY <1>1, <4>2, <4>3
      <4> QED BY <1>10, <4>1, <4>4
    <3> QED BY <3>1, <3>2
  <2>4. PICK p : p = r[k]
    OBVIOUS
  <2>5. p \in 1..Len(y) + 1 /\ e \in p - 1..Len(y)
    BY <1>1, <2>2, <2>4
  <2>6. SubSeq(x \o y, Len(x) + p, Len(x) + e) = SubSeq(y, p, e)
    BY <1>a, <2>5, SliceBehind
  <2>7. s[a + k] = m + p
    BY <1>10, <2>4
  <2>8. WordAt(z, s, a + k) = SubSeq(z, m + p, m + e) /\ WordAt(y, r, k) = SubSeq(y, p, e)
    BY <2>1, <2>3, <2>4, <2>7 DEF WordAt
  <2> QED BY <1>1, <1>2, <2>6, <2>8
<1>16. ASSUME NEW k \in 1..a + b PROVE w[k] = d[k]
  <2>1. CASE k <= a
    <3>1. k \in 1..a
      BY <1>7, <2>1
    <3> QED BY <1>11, <1>13, <1>14, <2>1, <3>1
  <2>2. CASE ~(k <= a)
    <3>1. PICK j \in 1..b : k = a + j /\ j = k - a
      <4>1. k - a \in 1..b /\ k = a + (k - a)
        BY <1>7, <2>2
      <4> QED BY <4>1
    <3>2. w[k] = WordAt(y, r, j)
      BY <1>11, <1>15, <3>1
    <3>3. d[k] = v[j]
      BY <1>13, <2>2, <3>1
    <3> QED BY <1>11, <3>2, <3>3
  <2> QED BY <2>1, <2>2
<1>17. w = d
  BY <1>11, <1>13, <1>16, SeqEqual
<1> QED BY <1>2, <1>8, <1>12, <1>17

-----------------------------------------------------------------------------
(* A text without markers.                                                 *)

Coded(ws) == [i \in DOMAIN ws |-> WordIds(ws[i])]

LEMMA CodedAre ==
  ASSUME Loaded, NEW ws \in Seq(Said)
  PROVE  /\ Coded(ws) \in Seq(Seq(Nat)) /\ Len(Coded(ws)) = Len(ws)
         /\ \A i \in 1..Len(ws) : Coded(ws)[i] = WordIds(ws[i])
<1>1. PICK n \in Nat : n = Len(ws) /\ DOMAIN ws = 1..n
  OBVIOUS
<1>2. \A i \in 1..n : WordIds(ws[i]) \in Seq(Nat)
  BY <1>1, ElementOfSeq, WordReads
<1>3. PICK c : c = [i \in 1..n |-> WordIds(ws[i])]
  OBVIOUS
<1>4. c \in Seq(Seq(Nat))
  <2>1. c \in [1..n -> Seq(Nat)]
    BY <1>2, <1>3
  <2>2. [1..n -> Seq(Nat)] \subseteq Seq(Seq(Nat))
    OBVIOUS
  <2> QED BY <2>1, <2>2
<1>5. Coded(ws) = c
  BY <1>1, <1>3 DEF Coded
<1> QED BY <1>1, <1>3, <1>4, <1>5

LEMMA CodedOfTwo ==
  ASSUME Loaded, NEW u \in Seq(Said), NEW v \in Seq(Said)
  PROVE  Coded(u \o v) = Coded(u) \o Coded(v)
<1>1. PICK m \in Nat, n \in Nat : m = Len(u) /\ n = Len(v)
  OBVIOUS
<1>2. PICK w : w = u \o v
  OBVIOUS
<1>3. w \in Seq(Said) /\ Len(w) = m + n /\ \A i \in 1..m + n : w[i] = IF i <= m THEN u[i] ELSE v[i - m]
  BY <1>1, <1>2, ConcatProperties
<1>4. PICK a, b, c : a = Coded(u) /\ b = Coded(v) /\ c = Coded(w)
  OBVIOUS
<1>5. /\ a \in Seq(Seq(Nat)) /\ Len(a) = m /\ \A i \in 1..m : a[i] = WordIds(u[i])
      /\ b \in Seq(Seq(Nat)) /\ Len(b) = n /\ \A i \in 1..n : b[i] = WordIds(v[i])
  BY <1>1, <1>4, CodedAre
<1>6. c \in Seq(Seq(Nat)) /\ Len(c) = m + n /\ \A i \in 1..m + n : c[i] = WordIds(w[i])
  <2>1. c \in Seq(Seq(Nat)) /\ Len(c) = Len(w) /\ \A i \in 1..Len(w) : c[i] = WordIds(w[i])
    BY <1>3, <1>4, CodedAre
  <2>2. Len(w) = m + n
    BY <1>3
  <2> QED BY <2>1, <2>2
<1>7. PICK d : d = a \o b
  OBVIOUS
<1>8. /\ d \in Seq(Seq(Nat)) /\ Len(d) = m + n
      /\ \A i \in 1..m + n : d[i] = IF i <= m THEN a[i] ELSE b[i - m]
  BY <1>5, <1>7, ConcatProperties
<1>9. ASSUME NEW i \in 1..Len(c) PROVE c[i] = d[i]
  <2>0. i \in 1..m + n
    BY <1>6
  <2>1. CASE i <= m
    <3>1. i \in 1..m
      BY <1>1, <2>0, <2>1
    <3>2. c[i] = WordIds(w[i]) /\ w[i] = u[i]
      BY <1>3, <1>6, <2>0, <2>1
    <3>3. d[i] = a[i] /\ a[i] = WordIds(u[i])
      BY <1>5, <1>8, <2>0, <2>1, <3>1
    <3> QED BY <3>2, <3>3
  <2>2. CASE ~(i <= m)
    <3>1. i - m \in 1..n
      BY <1>1, <2>0, <2>2
    <3>2. c[i] = WordIds(w[i]) /\ w[i] = v[i - m]
      BY <1>3, <1>6, <2>0, <2>2
    <3>3. d[i] = b[i - m] /\ b[i - m] = WordIds(v[i - m])
      BY <1>5, <1>8, <2>0, <2>2, <3>1
    <3> QED BY <3>2, <3>3
  <2> QED BY <2>1, <2>2
<1>10. c = d
  BY <1>6, <1>8, <1>9, SeqEqual
<1> QED BY <1>2, <1>4, <1>7, <1>10

LEMMA BpeIs ==
  ASSUME Loaded, NEW t \in Said
  PROVE  /\ tokenizer_encode_bpe(t) \in Seq(Nat)
         /\ t = << >> => tokenizer_encode_bpe(t) = << >>
         /\ t # << >> => tokenizer_encode_bpe(t) = FlattenSeq(Coded(Words(t)))
<1>1. CASE t = << >>
  BY <1>1 DEF tokenizer_encode_bpe
<1>2. CASE t # << >>
  <2>1. PICK ws : ws = Words(t)
    OBVIOUS
  <2>2. ws \in Seq(Said)
    BY <1>2, <2>1, StartsAre, WordsAre DEF WordsOf
  <2>3. tokenizer_encode_bpe(t) = FlattenSeq(Coded(ws))
    BY <1>2, <2>1 DEF tokenizer_encode_bpe, Coded, WordIds
  <2>4. FlattenSeq(Coded(ws)) \in Seq(Nat)
    BY <2>2, CodedAre, FlattenType
  <2> QED BY <1>2, <2>1, <2>3, <2>4
<1> QED BY <1>1, <1>2

LEMMA BpeOfWord ==
  ASSUME Loaded, NEW t \in Said, Whole(t)
  PROVE  tokenizer_encode_bpe(t) = WordIds(t)
<1>1. t # << >>
  BY DEF Whole
<1>2. Words(t) = <<t>>
  BY OneWord
<1>3. WordIds(t) \in Seq(Nat)
  BY WordReads
<1>4. Coded(<<t>>) = <<WordIds(t)>>
  BY DEF Coded
<1>5. FlattenSeq(<<WordIds(t)>>) = WordIds(t)
  BY <1>3, FlattenOne
<1> QED BY <1>1, <1>2, <1>4, <1>5, BpeIs

\* Texts that are read as ids on their own and together
BpeJoins(x, y) ==
  tokenizer_encode_bpe(x \o y) = tokenizer_encode_bpe(x) \o tokenizer_encode_bpe(y)

LEMMA BpeOfNone ==
  ASSUME Loaded, NEW x \in Said
  PROVE  BpeJoins(x, << >>) /\ BpeJoins(<< >>, x)
<1>1. PICK a \in Seq(Nat) : a = tokenizer_encode_bpe(x)
  BY BpeIs
<1>2. << >> \in Said /\ x \o << >> = x /\ << >> \o x = x
  BY NoText
<1>3. tokenizer_encode_bpe(<< >>) = << >>
  BY <1>2, BpeIs
<1>4. a \o << >> = a /\ << >> \o a = a
  BY ConcatEmptySeq
<1> QED BY <1>1, <1>2, <1>3, <1>4 DEF BpeJoins

LEMMA BpeAtSpace ==
  ASSUME Loaded, NEW x \in Said, NEW y \in Said, Follows(y)
  PROVE  BpeJoins(x, y)
<1>1. CASE x = << >> \/ y = << >>
  BY <1>1, BpeOfNone
<1>2. CASE x # << >> /\ y # << >>
  <2>1. PICK z : z = x \o y
    OBVIOUS
  <2>2. z \in Said /\ z # << >>
    <3>1. /\ z \in Seq(Bytes) /\ Len(z) = Len(x) + Len(y)
          /\ Len(x) \in Nat \ {0} /\ Len(y) \in Nat
      BY <1>2, <2>1, EmptySeq, ConcatProperties DEF Said
    <3>2. Len(z) # 0
      BY <3>1
    <3> QED BY <3>1, <3>2 DEF Said
  <2>3. Words(z) = Words(x) \o Words(y)
    BY <1>2, <2>1, WordsOfTwo DEF Follows
  <2>4. PICK u, v : u = Words(x) /\ v = Words(y)
    OBVIOUS
  <2>5. u \in Seq(Said) /\ v \in Seq(Said)
    BY <1>2, <2>4, StartsAre, WordsAre DEF WordsOf
  <2>6. PICK a, b : a = Coded(u) /\ b = Coded(v)
    OBVIOUS
  <2>7. a \in Seq(Seq(Nat)) /\ b \in Seq(Seq(Nat)) /\ Coded(u \o v) = a \o b
    BY <2>5, <2>6, CodedAre, CodedOfTwo
  <2>8. FlattenSeq(a \o b) = FlattenSeq(a) \o FlattenSeq(b)
    BY <2>7, FlattenConcat
  <2>9. /\ tokenizer_encode_bpe(z) = FlattenSeq(a \o b)
        /\ tokenizer_encode_bpe(x) = FlattenSeq(a)
        /\ tokenizer_encode_bpe(y) = FlattenSeq(b)
    BY <1>2, <2>2, <2>3, <2>4, <2>6, <2>7, BpeIs
  <2> QED BY <2>1, <2>8, <2>9 DEF BpeJoins
<1> QED BY <1>1, <1>2

\* Cut into three, and joined in two steps
LEMMA ThreeJoins ==
  ASSUME Loaded, NEW x \in Said, NEW y \in Said, NEW z \in Said,
         BpeJoins(x, y), BpeJoins(x, y \o z), BpeJoins(y, z)
  PROVE  BpeJoins(x \o y, z)
<1>1. PICK a \in Seq(Nat), b \in Seq(Nat), c \in Seq(Nat) :
        a = tokenizer_encode_bpe(x) /\ b = tokenizer_encode_bpe(y) /\ c = tokenizer_encode_bpe(z)
  BY BpeIs
<1>2. tokenizer_encode_bpe(x \o y) = a \o b /\ tokenizer_encode_bpe(y \o z) = b \o c
  BY <1>1 DEF BpeJoins
<1>3. tokenizer_encode_bpe(x \o (y \o z)) = a \o (b \o c)
  BY <1>1, <1>2 DEF BpeJoins
<1>4. x \o (y \o z) = (x \o y) \o z
  BY ConcatAssociative DEF Said
<1>5. a \o (b \o c) = (a \o b) \o c
  BY <1>1, ConcatAssociative
<1> QED BY <1>1, <1>2, <1>3, <1>4, <1>5 DEF BpeJoins

\* and the other way round
LEMMA JoinsLater ==
  ASSUME Loaded, NEW x \in Said, NEW y \in Said, NEW z \in Said,
         BpeJoins(x, y), BpeJoins(x \o y, z), BpeJoins(y, z)
  PROVE  BpeJoins(x, y \o z)
<1>1. PICK a \in Seq(Nat), b \in Seq(Nat), c \in Seq(Nat) :
        a = tokenizer_encode_bpe(x) /\ b = tokenizer_encode_bpe(y) /\ c = tokenizer_encode_bpe(z)
  BY BpeIs
<1>2. tokenizer_encode_bpe(x \o y) = a \o b /\ tokenizer_encode_bpe(y \o z) = b \o c
  BY <1>1 DEF BpeJoins
<1>3. tokenizer_encode_bpe((x \o y) \o z) = (a \o b) \o c
  BY <1>1, <1>2 DEF BpeJoins
<1>4. x \o (y \o z) = (x \o y) \o z
  BY ConcatAssociative DEF Said
<1>5. a \o (b \o c) = (a \o b) \o c
  BY <1>1, ConcatAssociative
<1> QED BY <1>1, <1>2, <1>3, <1>4, <1>5 DEF BpeJoins

\* Two words that meet at the end of a line
LEMMA WordsMeet ==
  ASSUME Loaded, NEW u \in Said, NEW v \in Said, Whole(u), Whole(v), Meet(u, v), v[1] # 32
  PROVE  BpeJoins(u, v)
<1>1. PICK z : z = u \o v
  OBVIOUS
<1>2. PICK m \in Nat \ {0}, n \in Nat \ {0} : m = Len(u) /\ n = Len(v)
  BY EmptySeq DEF Whole, Said
<1>3. z \in Said /\ Len(z) = m + n /\ \A i \in 1..m + n : z[i] = IF i <= m THEN u[i] ELSE v[i - m]
  BY <1>1, <1>2, ConcatProperties DEF Said
<1>4. Whole(z)
  <2>1. ASSUME NEW i \in 2..m + n PROVE z[i] # 32
    <3>1. CASE i <= m
      <4>1. i \in 2..m /\ i \in 1..m + n
        BY <1>2, <3>1
      <4> QED BY <1>2, <1>3, <3>1, <4>1 DEF Whole
    <3>2. CASE ~(i <= m)
      <4>1. PICK k : k = i - m
        OBVIOUS
      <4>2. k \in 1..n /\ i \in 1..m + n /\ z[i] = v[k]
        BY <1>2, <1>3, <3>2, <4>1
      <4>3. CASE k = 1
        BY <4>2, <4>3
      <4>4. CASE k # 1
        <5>1. k \in 2..n
          BY <1>2, <4>2, <4>4
        <5> QED BY <1>2, <4>2, <5>1 DEF Whole
      <4> QED BY <4>3, <4>4
    <3> QED BY <3>1, <3>2
  <2>2. z # << >>
    <3>1. Len(z) # 0
      BY <1>2, <1>3
    <3> QED BY <3>1
  <2> QED BY <1>3, <2>1, <2>2 DEF Whole
<1>5. WordIds(z) = WordIds(u) \o WordIds(v)
  BY <1>1, WordParts
<1>6. /\ tokenizer_encode_bpe(z) = WordIds(z) /\ tokenizer_encode_bpe(u) = WordIds(u)
      /\ tokenizer_encode_bpe(v) = WordIds(v)
  BY <1>3, <1>4, BpeOfWord
<1> QED BY <1>1, <1>5, <1>6 DEF BpeJoins

-----------------------------------------------------------------------------
(* Where one framing ends and the next begins.                             *)

LEMMA BpeAtSeam ==
  ASSUME Loaded, NEW x \in Said, NEW y \in Said, Meet(x, y), y # << >> => y[1] # 32
  PROVE  BpeJoins(x, y)
<1>1. CASE x = << >> \/ y = << >>
  BY <1>1, BpeOfNone
<1>2. CASE x # << >> /\ y # << >>
  <2>1. PICK x1 \in Said, u \in Said : Parted(x, x1, u)
    BY <1>2, LastWord
  <2>2. PICK v \in Said, y1 \in Said : y = v \o y1 /\ Whole(v) /\ Follows(y1) /\ v[1] = y[1]
    BY <1>2, FirstWord
  <2>3. u # << >> /\ v # << >> /\ Meet(u, v) /\ v[1] # 32
    BY <1>2, <2>1, <2>2 DEF Meet, Whole, Parted
  <2>4. BpeJoins(u, v)
    BY <2>1, <2>2, <2>3, WordsMeet DEF Parted
  <2>5. PICK w : w = u \o v
    OBVIOUS
  <2>6. w \in Said /\ w # << >> /\ w[1] = u[1]
    <3>1. PICK m \in Nat \ {0}, n \in Nat : m = Len(u) /\ n = Len(v)
      BY <2>3, EmptySeq DEF Said
    <3>2. w \in Seq(Bytes) /\ Len(w) = m + n /\ \A i \in 1..m + n : w[i] = IF i <= m THEN u[i] ELSE v[i - m]
      BY <2>5, <3>1, ConcatProperties DEF Said
    <3>3. 1 \in 1..m + n /\ 1 <= m /\ m + n # 0
      BY <3>1
    <3> QED BY <3>2, <3>3 DEF Said
  <2>7. BpeJoins(x1, u) /\ BpeJoins(x1, w)
    <3>1. CASE x1 = << >>
      <4>1. BpeJoins(<< >>, u) /\ BpeJoins(<< >>, w)
        BY <2>1, <2>6, BpeOfNone
      <4> QED BY <3>1, <4>1
    <3>2. CASE x1 # << >>
      <4>1. Follows(u) /\ Follows(w)
        BY <2>1, <2>6, <3>2 DEF Follows, Parted
      <4> QED BY <2>1, <2>6, <4>1, BpeAtSpace
    <3> QED BY <3>1, <3>2
  <2>8. BpeJoins(x, v)
    BY <2>1, <2>4, <2>5, <2>7, ThreeJoins DEF Parted
  <2>9. BpeJoins(v, y1) /\ BpeJoins(x \o v, y1)
    <3>1. x \o v \in Said
      BY OneMoreIn
    <3> QED BY <2>2, <3>1, BpeAtSpace
  <2> QED BY <2>2, <2>8, <2>9, JoinsLater
<1> QED BY <1>1, <1>2

-----------------------------------------------------------------------------
(* What was encoded reads back.                                            *)

Shown(ids) == [i \in DOMAIN ids |-> tokenizer_decode_one(ids[i])]

LEMMA DecodedOne ==
  ASSUME Loaded, NEW id
  PROVE  tokenizer_decode_one(id) \in Str
<1>1. CASE id \in 0..Len(vocab_strs) - 1
  <2>1. vocab_strs \in Seq(Str)
    BY TokensAre DEF Loaded, Load
  <2>2. id + 1 \in 1..Len(vocab_strs)
    BY <1>1, <2>1
  <2>3. vocab_strs[id + 1] \in Str
    BY <2>1, <2>2, ElementOfSeq
  <2> QED BY <1>1, <2>3, BytesType DEF tokenizer_decode_one
<1>2. CASE id \notin 0..Len(vocab_strs) - 1
  BY <1>2 DEF tokenizer_decode_one, Str
<1> QED BY <1>1, <1>2

LEMMA ShownAre ==
  ASSUME Loaded, NEW ws \in Seq(Nat)
  PROVE  /\ Shown(ws) \in Seq(Str) /\ Len(Shown(ws)) = Len(ws)
         /\ \A i \in 1..Len(ws) : Shown(ws)[i] = tokenizer_decode_one(ws[i])
<1>1. PICK n \in Nat : n = Len(ws) /\ DOMAIN ws = 1..n
  OBVIOUS
<1>2. \A i \in 1..n : tokenizer_decode_one(ws[i]) \in Str
  BY DecodedOne
<1>3. PICK c : c = [i \in 1..n |-> tokenizer_decode_one(ws[i])]
  OBVIOUS
<1>4. c \in Seq(Str)
  <2>1. c \in [1..n -> Str]
    BY <1>2, <1>3
  <2>2. [1..n -> Str] \subseteq Seq(Str)
    OBVIOUS
  <2> QED BY <2>1, <2>2
<1>5. Shown(ws) = c
  BY <1>1, <1>3 DEF Shown
<1> QED BY <1>1, <1>3, <1>4, <1>5

LEMMA ShownOfTwo ==
  ASSUME Loaded, NEW u \in Seq(Nat), NEW v \in Seq(Nat)
  PROVE  Shown(u \o v) = Shown(u) \o Shown(v)
<1>1. PICK m \in Nat, n \in Nat : m = Len(u) /\ n = Len(v)
  OBVIOUS
<1>2. PICK w : w = u \o v
  OBVIOUS
<1>3. w \in Seq(Nat) /\ Len(w) = m + n /\ \A i \in 1..m + n : w[i] = IF i <= m THEN u[i] ELSE v[i - m]
  BY <1>1, <1>2, ConcatProperties
<1>4. PICK a, b, c : a = Shown(u) /\ b = Shown(v) /\ c = Shown(w)
  OBVIOUS
<1>5. /\ a \in Seq(Str) /\ Len(a) = m /\ \A i \in 1..m : a[i] = tokenizer_decode_one(u[i])
      /\ b \in Seq(Str) /\ Len(b) = n /\ \A i \in 1..n : b[i] = tokenizer_decode_one(v[i])
  BY <1>1, <1>4, ShownAre
<1>6. c \in Seq(Str) /\ Len(c) = m + n /\ \A i \in 1..m + n : c[i] = tokenizer_decode_one(w[i])
  <2>1. c \in Seq(Str) /\ Len(c) = Len(w) /\ \A i \in 1..Len(w) : c[i] = tokenizer_decode_one(w[i])
    BY <1>3, <1>4, ShownAre
  <2>2. Len(w) = m + n
    BY <1>3
  <2> QED BY <2>1, <2>2
<1>7. PICK d : d = a \o b
  OBVIOUS
<1>8. /\ d \in Seq(Str) /\ Len(d) = m + n
      /\ \A i \in 1..m + n : d[i] = IF i <= m THEN a[i] ELSE b[i - m]
  BY <1>5, <1>7, ConcatProperties
<1>9. ASSUME NEW i \in 1..Len(c) PROVE c[i] = d[i]
  <2>0. i \in 1..m + n
    BY <1>6
  <2>1. CASE i <= m
    <3>1. i \in 1..m
      BY <1>1, <2>0, <2>1
    <3>2. c[i] = tokenizer_decode_one(w[i]) /\ w[i] = u[i]
      BY <1>3, <1>6, <2>0, <2>1
    <3>3. d[i] = a[i] /\ a[i] = tokenizer_decode_one(u[i])
      BY <1>5, <1>8, <2>0, <2>1, <3>1
    <3> QED BY <3>2, <3>3
  <2>2. CASE ~(i <= m)
    <3>1. i - m \in 1..n
      BY <1>1, <2>0, <2>2
    <3>2. c[i] = tokenizer_decode_one(w[i]) /\ w[i] = v[i - m]
      BY <1>3, <1>6, <2>0, <2>2
    <3>3. d[i] = b[i - m] /\ b[i - m] = tokenizer_decode_one(v[i - m])
      BY <1>5, <1>8, <2>0, <2>2, <3>1
    <3> QED BY <3>2, <3>3
  <2> QED BY <2>1, <2>2
<1>10. c = d
  BY <1>6, <1>8, <1>9, SeqEqual
<1> QED BY <1>2, <1>4, <1>7, <1>10

LEMMA DecodedOfTwo ==
  ASSUME Loaded, NEW a \in Seq(Nat), NEW b \in Seq(Nat)
  PROVE  Decoded(a \o b) = Decoded(a) \o Decoded(b)
<1>1. PICK x, y : x = Shown(a) /\ y = Shown(b)
  OBVIOUS
<1>2. x \in Seq(Str) /\ y \in Seq(Str)
  BY <1>1, ShownAre
<1>3. x \in Seq(Seq(0..255)) /\ y \in Seq(Seq(0..255))
  BY <1>2 DEF Str
<1>4. Shown(a \o b) = x \o y
  BY <1>1, ShownOfTwo
<1>5. FlattenSeq(x \o y) = FlattenSeq(x) \o FlattenSeq(y)
  BY <1>3, FlattenConcat
<1>6. /\ Decoded(a \o b) = FlattenSeq(Shown(a \o b))
      /\ Decoded(a) = FlattenSeq(x) /\ Decoded(b) = FlattenSeq(y)
  BY <1>1 DEF Decoded, Shown
<1> QED BY <1>4, <1>5, <1>6

LEMMA DecodedNone == Decoded(<< >>) = << >>
<1>1. PICK e : e = << >>
  OBVIOUS
<1>2. [i \in DOMAIN e |-> tokenizer_decode_one(e[i])] = << >>
  BY <1>1
<1>3. Decoded(e) = FlattenSeq(<< >>)
  BY <1>2 DEF Decoded
<1> QED BY <1>1, <1>3, FlattenEmpty

LEMMA DecodedSingle ==
  ASSUME Loaded, NEW id \in Nat
  PROVE  Decoded(<<id>>) = tokenizer_decode_one(id)
<1>1. PICK c \in Str : c = tokenizer_decode_one(id)
  BY DecodedOne
<1>2. [i \in DOMAIN <<id>> |-> tokenizer_decode_one(<<id>>[i])] = <<c>>
  BY <1>1
<1>3. FlattenSeq(<<c>>) = c
  BY FlattenOne DEF Str
<1> QED BY <1>1, <1>2, <1>3 DEF Decoded

\* Text between markers
LEMMA BpeReads ==
  ASSUME Loaded, NEW s \in Said
  PROVE  Decoded(tokenizer_encode_bpe(s)) = s
<1> DEFINE Reads(t) == Decoded(tokenizer_encode_bpe(t)) = t
           Bad == {n \in Nat : \E t \in Said : Len(t) = n /\ ~Reads(t)}
<1> SUFFICES ASSUME ~Reads(s) PROVE FALSE
  OBVIOUS
<1>1. Bad \subseteq Nat /\ Bad # {}
  <2>1. Len(s) \in Nat
    BY DEF Said
  <2> QED BY <2>1
<1>2. PICK m \in Bad : \A k \in Bad : m <= k
  <2> HIDE DEF Bad
  <2> QED BY <1>1, LeastOf
<1>3. PICK t \in Said : Len(t) = m /\ ~Reads(t)
  BY <1>2
<1>4. \A v \in Said : Len(v) < m => Reads(v)
  <2> SUFFICES ASSUME NEW v \in Said, Len(v) < m, ~Reads(v) PROVE FALSE
    OBVIOUS
  <2>1. Len(v) \in Nat
    BY DEF Said
  <2>2. Len(v) \in Bad
    BY <2>1
  <2>3. m <= Len(v) /\ m \in Nat
    BY <1>2, <2>2
  <2> HIDE DEF Reads, Bad
  <2> QED BY <2>1, <2>3
<1>5. CASE t = << >>
  BY <1>3, <1>5, BpeIs, DecodedNone
<1>6. CASE t # << >>
  <2>1. PICK z \in Said, v \in Said : t = z \o v /\ Whole(z) /\ Follows(v) /\ Len(v) < Len(t)
    BY <1>6, FirstWord
  <2>2. Reads(v)
    BY <1>3, <1>4, <2>1
  <2>3. tokenizer_encode_bpe(z) = WordIds(z)
    BY <2>1, BpeOfWord
  <2>4. Reads(z)
    BY <2>3, WordReads
  <2>5. PICK a \in Seq(Nat), b \in Seq(Nat) : a = tokenizer_encode_bpe(z) /\ b = tokenizer_encode_bpe(v)
    BY BpeIs
  <2>6. tokenizer_encode_bpe(t) = a \o b
    BY <2>1, <2>5, BpeAtSpace DEF BpeJoins
  <2>7. Decoded(a \o b) = Decoded(a) \o Decoded(b)
    BY DecodedOfTwo
  <2>8. Decoded(a) = z /\ Decoded(b) = v
    BY <2>2, <2>4, <2>5
  <2>9. Decoded(tokenizer_encode_bpe(t)) = t
    BY <2>1, <2>6, <2>7, <2>8
  <2> QED BY <1>3, <2>9
<1> QED BY <1>5, <1>6

-----------------------------------------------------------------------------
(* Markers.                                                                *)

LEMMA MinAt ==
  ASSUME NEW S, NEW x \in S, S \subseteq Nat, \A y \in S : x <= y
  PROVE  Min(S) = x
<1>1. \A y \in S : (\A z \in S : y <= z) => y = x
  BY DEF Min
<1> QED BY <1>1 DEF Min

\* Nothing from place p on is a marker
NoMark(t, p) == \A i \in p..Len(t) : Matches(t, i) = {}

\* The first marker from place p on stands at i, and is the k-th
NextMark(t, p, i, k) ==
  /\ i \in p..Len(t) /\ k \in Matches(t, i)
  /\ \A j \in p..i - 1 : Matches(t, j) = {}
  /\ \A h \in Matches(t, i) : k <= h

\* A marker m of n bytes stands at i
MarkIs(t, i, k, m, n) ==
  /\ m = Known[k] /\ n = Len(m) /\ n \in Nat \ {0} /\ k \in 1..Len(Known)
  /\ m \in Seq(33..126) /\ i + n \in i + 1..Len(t) + 1
  /\ SubSeq(t, i, (i + n) - 1) = m
  /\ vocab_to_id[m] \in Nat /\ Decoded(<<vocab_to_id[m]>>) = m

LEMMA MatchIs ==
  ASSUME Loaded, NEW t \in Said, NEW i \in 1..Len(t), NEW k \in Matches(t, i)
  PROVE  \E m, n : MarkIs(t, i, k, m, n)
<1>1. PICK m, n : m = Known[k] /\ n = Len(m)
  OBVIOUS
<1>2. k \in 1..Len(Known) /\ i + Len(m) - 1 <= Len(t) /\ SubSeq(t, i, i + Len(m) - 1) = m
  <2>1. DOMAIN Known = 1..Len(Known)
    BY KnownIs
  <2> QED BY <1>1, <2>1 DEF Matches, Specials
<1>3. m \in Seq(33..126) /\ m # << >>
  BY <1>1, <1>2, KnownIs
<1>4. n \in Nat \ {0}
  BY <1>1, <1>3, EmptySeq
<1>5. Len(t) \in Nat
  BY DEF Said
<1>6. i + n \in i + 1..Len(t) + 1 /\ i + n - 1 = (i + n) - 1
  BY <1>1, <1>2, <1>4, <1>5
<1>7. Indexed(m)
  BY <1>1, <1>2, VocabularyHas
<1>8. BytesOf(m) = m
  <2>1. m \in Str /\ Chars(m) = m
    BY <1>3, PlainChars
  <2>2. BytesOf(Chars(m)) = m
    BY <2>1, CharsReadBack
  <2> QED BY <2>1, <2>2
<1>9. vocab_to_id[m] \in Nat /\ Decoded(<<vocab_to_id[m]>>) = m
  <2>1. PICK id \in Nat : id = vocab_to_id[m]
    BY <1>7 DEF Indexed
  <2>2. Decoded(<<id>>) = tokenizer_decode_one(id)
    BY DecodedSingle
  <2>3. tokenizer_decode_one(id) = m
    BY <1>7, <1>8, <2>1 DEF Indexed
  <2> QED BY <2>1, <2>2, <2>3
<1>10. SubSeq(t, i, (i + n) - 1) = m
  BY <1>1, <1>2, <1>6
<1> QED BY <1>1, <1>2, <1>3, <1>4, <1>6, <1>9, <1>10 DEF MarkIs

LEMMA MarkOrNot ==
  ASSUME Loaded, NEW t \in Said, NEW p \in 1..Len(t) + 1
  PROVE  NoMark(t, p) \/ \E i, k : NextMark(t, p, i, k)
<1>0. Len(t) \in Nat
  BY DEF Said
<1>1. PICK A : A = {i \in p..Len(t) : Matches(t, i) # {}}
  OBVIOUS
<1>2. CASE A = {}
  BY <1>1, <1>2 DEF NoMark
<1>3. CASE A # {}
  <2>1. PICK i \in A : \A j \in A : i <= j
    <3>1. A \subseteq Nat
      BY <1>0, <1>1
    <3> QED BY <1>3, <3>1, LeastOf
  <2>2. i \in p..Len(t) /\ Matches(t, i) # {} /\ \A j \in p..i - 1 : Matches(t, j) = {}
    <3>1. i \in p..Len(t) /\ Matches(t, i) # {}
      BY <1>1, <2>1
    <3>2. ASSUME NEW j \in p..i - 1, Matches(t, j) # {} PROVE FALSE
      <4>1. j \in p..Len(t) /\ ~(i <= j)
        BY <1>0, <3>1
      <4> QED BY <1>1, <2>1, <3>2, <4>1
    <3> QED BY <3>1, <3>2
  <2>3. PICK B : B = Matches(t, i)
    OBVIOUS
  <2>4. B \subseteq Nat
    <3>1. \A k \in B : k \in DOMAIN Known
      BY <2>3 DEF Matches, Specials
    <3>2. DOMAIN Known \subseteq Nat
      BY KnownIs
    <3> QED BY <3>1, <3>2
  <2>5. PICK k \in B : \A h \in B : k <= h
    BY <2>2, <2>3, <2>4, LeastOf
  <2> QED BY <2>2, <2>3, <2>5 DEF NextMark
<1> QED BY <1>2, <1>3

LEMMA MarksAre ==
  ASSUME Loaded, NEW t \in Said, NEW p \in 1..Len(t) + 1
  PROVE  /\ NoMark(t, p) <=> {i \in p..Len(t) : Matches(t, i) # {}} = {}
         /\ \A i, k : NextMark(t, p, i, k) =>
              /\ Min({j \in p..Len(t) : Matches(t, j) # {}}) = i
              /\ Min(Matches(t, i)) = k
<1>0. Len(t) \in Nat
  BY DEF Said
<1>1. NoMark(t, p) <=> {i \in p..Len(t) : Matches(t, i) # {}} = {}
  BY DEF NoMark
<1>2. ASSUME NEW i, NEW k, NextMark(t, p, i, k)
      PROVE  /\ Min({j \in p..Len(t) : Matches(t, j) # {}}) = i
             /\ Min(Matches(t, i)) = k
  <2>1. PICK A, B : A = {j \in p..Len(t) : Matches(t, j) # {}} /\ B = Matches(t, i)
    OBVIOUS
  <2>2. A \subseteq Nat /\ i \in A /\ \A j \in A : i <= j
    <3>1. A \subseteq Nat
      BY <1>0, <2>1
    <3>2. i \in A
      BY <1>2, <2>1 DEF NextMark
    <3>3. ASSUME NEW j \in A, ~(i <= j) PROVE FALSE
      <4>1. j \in p..Len(t) /\ Matches(t, j) # {} /\ i \in Nat /\ j \in Nat
        BY <2>1, <3>1, <3>2
      <4>2. j \in p..i - 1
        BY <1>0, <3>3, <4>1
      <4> QED BY <1>2, <4>1, <4>2 DEF NextMark
    <3> QED BY <3>1, <3>2, <3>3
  <2>3. B \subseteq Nat /\ k \in B /\ \A h \in B : k <= h
    <3>1. \A h \in B : h \in DOMAIN Known
      BY <2>1 DEF Matches, Specials
    <3>2. DOMAIN Known \subseteq Nat
      BY KnownIs
    <3> QED BY <1>2, <2>1, <3>1, <3>2 DEF NextMark
  <2>4. Min(A) = i /\ Min(B) = k
    BY <2>2, <2>3, MinAt
  <2> QED BY <2>1, <2>4
<1> QED BY <1>1, <1>2

-----------------------------------------------------------------------------
(* Encoding, from a place to the end.                                      *)

EncodeStep(t, p, g) ==
  IF {i \in p..Len(t) : Matches(t, i) # {}} = {} THEN tokenizer_encode_bpe(Suffix(t, p))
  ELSE tokenizer_encode_bpe(SubSeq(t, p, Min({i \in p..Len(t) : Matches(t, i) # {}}) - 1))
       \o <<vocab_to_id[Known[Min(Matches(t, Min({i \in p..Len(t) : Matches(t, i) # {}})))]]>>
       \o g[Min({i \in p..Len(t) : Matches(t, i) # {}})
              + Len(Known[Min(Matches(t, Min({i \in p..Len(t) : Matches(t, i) # {}})))])]

\* The text from p up to a marker m at i, the marker and what follows
MarkStep(t, p, i, m, rest) ==
  tokenizer_encode_bpe(SubSeq(t, p, i - 1)) \o <<vocab_to_id[m]>> \o rest

LEMMA StepIs ==
  ASSUME Loaded, NEW t \in Said, NEW p \in 1..Len(t) + 1, NEW g
  PROVE  /\ NoMark(t, p) => EncodeStep(t, p, g) = tokenizer_encode_bpe(Suffix(t, p))
         /\ \A i, k : NextMark(t, p, i, k) =>
              EncodeStep(t, p, g) = MarkStep(t, p, i, Known[k], g[i + Len(Known[k])])
<1>1. PICK A : A = {i \in p..Len(t) : Matches(t, i) # {}}
  OBVIOUS
<1>2. NoMark(t, p) => EncodeStep(t, p, g) = tokenizer_encode_bpe(Suffix(t, p))
  BY MarksAre DEF EncodeStep
<1>3. ASSUME NEW i, NEW k, NextMark(t, p, i, k)
      PROVE  EncodeStep(t, p, g) = MarkStep(t, p, i, Known[k], g[i + Len(Known[k])])
  <2>1. Min(A) = i /\ Min(Matches(t, i)) = k
    BY <1>1, <1>3, MarksAre
  <2>2. A # {}
    BY <1>1, <1>3 DEF NextMark
  <2>3. EncodeStep(t, p, g) = tokenizer_encode_bpe(SubSeq(t, p, Min(A) - 1))
                                \o <<vocab_to_id[Known[Min(Matches(t, Min(A)))]]>>
                                \o g[Min(A) + Len(Known[Min(Matches(t, Min(A)))])]
    BY <1>1, <2>2 DEF EncodeStep
  <2> QED BY <2>1, <2>3 DEF MarkStep
<1> QED BY <1>2, <1>3

LEMMA BetweenMarks ==
  ASSUME Loaded, NEW t \in Said, NEW p \in 1..Len(t) + 1, NEW i, NEW k, NextMark(t, p, i, k)
  PROVE  /\ i \in 1..Len(t) /\ i \in p..Len(t) /\ k \in Matches(t, i)
         /\ SubSeq(t, p, i - 1) \in Said
         /\ Len(SubSeq(t, p, i - 1)) = i - p
<1>0. Len(t) \in Nat /\ t \in Seq(Bytes)
  BY DEF Said
<1>1. i \in p..Len(t) /\ k \in Matches(t, i)
  BY DEF NextMark
<1>2. i \in 1..Len(t) /\ i - 1 \in p - 1..Len(t) /\ ((i - 1) - p) + 1 = i - p
  BY <1>0, <1>1
<1>3. SubSeq(t, p, i - 1) \in Seq(Bytes) /\ Len(SubSeq(t, p, i - 1)) = ((i - 1) - p) + 1
  BY <1>0, <1>2, SliceIs
<1> QED BY <1>1, <1>2, <1>3 DEF Said

LEMMA MarkStepType ==
  ASSUME Loaded, NEW t \in Said, NEW p \in 1..Len(t) + 1, NEW i, NEW k, NextMark(t, p, i, k),
         NEW r \in Seq(Nat)
  PROVE  MarkStep(t, p, i, Known[k], r) \in Seq(Nat)
<1>1. PICK a \in Seq(Nat) : a = tokenizer_encode_bpe(SubSeq(t, p, i - 1))
  BY BetweenMarks, BpeIs
<1>2. \E m, n : MarkIs(t, i, k, m, n)
  BY BetweenMarks, MatchIs
<1>3. PICK id \in Nat : id = vocab_to_id[Known[k]]
  BY <1>2 DEF MarkIs
<1>4. (a \o <<id>>) \o r \in Seq(Nat)
  OBVIOUS
<1> QED BY <1>1, <1>3, <1>4 DEF MarkStep

\* A marker takes some of the text
LEMMA MarkPasses ==
  ASSUME Loaded, NEW t \in Said, NEW p \in 1..Len(t) + 1, NEW i, NEW k, NextMark(t, p, i, k)
  PROVE  /\ i + Len(Known[k]) \in p + 1..Len(t) + 1
         /\ i + Len(Known[k]) \in 1..Len(t) + 1
         /\ i + Len(Known[k]) \in i + 1..Len(t) + 1
<1>0. Len(t) \in Nat
  BY DEF Said
<1>1. i \in p..Len(t)
  BY BetweenMarks
<1>2. PICK m, n : MarkIs(t, i, k, m, n)
  BY BetweenMarks, MatchIs
<1>3. i + n \in i + 1..Len(t) + 1 /\ n = Len(Known[k])
  BY <1>2 DEF MarkIs
<1> QED BY <1>0, <1>1, <1>3

\* f is how each rest of t is encoded
Encodes(f, t) ==
  /\ f \in [1..Len(t) + 1 -> Seq(Nat)]
  /\ tokenizer_encode(t) = f[1]
  /\ \A p \in 1..Len(t) + 1 :
       /\ NoMark(t, p) => f[p] = tokenizer_encode_bpe(Suffix(t, p))
       /\ \A i, k : NextMark(t, p, i, k) =>
            f[p] = MarkStep(t, p, i, Known[k], f[i + Len(Known[k])])

LEMMA EncodeStepType ==
  ASSUME Loaded, NEW t \in Said, NEW p \in 1..Len(t) + 1, NEW g,
         \A q \in p + 1..Len(t) + 1 : g[q] \in Seq(Nat)
  PROVE  EncodeStep(t, p, g) \in Seq(Nat)
<1>1. CASE NoMark(t, p)
  <2>1. Suffix(t, p) \in Said
    BY SuffixIs DEF Said
  <2>2. tokenizer_encode_bpe(Suffix(t, p)) \in Seq(Nat)
    BY <2>1, BpeIs
  <2> QED BY <1>1, <2>2, StepIs
<1>2. CASE \E i, k : NextMark(t, p, i, k)
  <2>1. PICK i, k : NextMark(t, p, i, k)
    BY <1>2
  <2>2. g[i + Len(Known[k])] \in Seq(Nat)
    BY <2>1, MarkPasses
  <2>3. MarkStep(t, p, i, Known[k], g[i + Len(Known[k])]) \in Seq(Nat)
    BY <2>1, <2>2, MarkStepType
  <2> QED BY <2>1, <2>3, StepIs
<1> QED BY <1>1, <1>2, MarkOrNot

LEMMA EncodesIs ==
  ASSUME Loaded, NEW t \in Said
  PROVE  \E f : Encodes(f, t)
<1> DEFINE n == Len(t) + 1
           V == [1..n -> Seq(Nat)]
           G == [p \in 1..n |-> [g \in V |-> EncodeStep(t, p, g)]]
           Def(f) == f = [pos \in 1..(Len(t) + 1) |-> EncodeStep(t, pos, f)]
           h == CHOOSE f : Def(f)
<1>0. n \in Nat /\ Len(t) \in Nat /\ << >> \in Seq(Nat)
  BY DEF Said
<1>1. Ahead(G, n, Seq(Nat))
  <2>1. ASSUME NEW p \in 1..n, NEW g \in V PROVE EncodeStep(t, p, g) \in Seq(Nat)
    <3>1. \A q \in p + 1..Len(t) + 1 : g[q] \in Seq(Nat)
      BY <1>0
    <3> QED BY <3>1, EncodeStepType
  <2>2. G \in [1..n -> [V -> Seq(Nat)]]
    BY <2>1
  <2>3. ASSUME NEW p \in 1..n, NEW g \in V, NEW k \in V, \A q \in p + 1..n : g[q] = k[q]
        PROVE  G[p][g] = G[p][k]
    <3>1. CASE NoMark(t, p)
      BY <3>1, StepIs
    <3>2. CASE \E i, j : NextMark(t, p, i, j)
      <4>1. PICK i, j : NextMark(t, p, i, j)
        BY <3>2
      <4>2. g[i + Len(Known[j])] = k[i + Len(Known[j])]
        BY <2>3, <4>1, MarkPasses
      <4>3. EncodeStep(t, p, g) = EncodeStep(t, p, k)
        BY <4>1, <4>2, StepIs
      <4> QED BY <4>3
    <3> QED BY <3>1, <3>2, MarkOrNot
  <2> QED BY <2>2, <2>3 DEF Ahead
<1>2. PICK f \in V : \A p \in 1..n : f[p] = G[p][f]
  <2> HIDE DEF G, n
  <2>1. PICK W : W = Seq(Nat)
    OBVIOUS
  <2>2. PICK v \in W : v = << >>
    BY <1>0, <2>1
  <2>3. n \in Nat /\ Ahead(G, n, W)
    BY <1>0, <1>1, <2>1
  <2>4. \E f \in [1..n -> W] : \A p \in 1..n : f[p] = G[p][f]
    BY <2>3, Backwards
  <2> QED BY <2>1, <2>4
<1>3. Def(f)
  <2>1. ASSUME NEW p \in 1..n PROVE f[p] = EncodeStep(t, p, f)
    <3>1. f[p] = G[p][f]
      BY <1>2
    <3>2. G[p][f] = EncodeStep(t, p, f)
      OBVIOUS
    <3> QED BY <3>1, <3>2
  <2>2. f = [p \in 1..n |-> f[p]]
    BY <1>2
  <2> HIDE DEF G
  <2> QED BY <2>1, <2>2
<1>4. Def(h)
  <2> HIDE DEF Def
  <2> QED BY <1>3
<1>5. tokenizer_encode(t) = h[1]
  BY DEF tokenizer_encode, EncodeStep
<1> HIDE DEF h, G
<1>6. \A p \in 1..n : h[p] = EncodeStep(t, p, h)
  BY <1>4
<1>7. \A p \in 1..n : h[p] \in Seq(Nat)
  <2> DEFINE S == {p \in 1..n : h[p] \in Seq(Nat)}
  <2>1. ASSUME NEW p \in 1..n, \A q \in p + 1..n : q \in S PROVE p \in S
    <3>1. \A q \in p + 1..Len(t) + 1 : h[q] \in Seq(Nat)
      BY <2>1
    <3>2. EncodeStep(t, p, h) \in Seq(Nat)
      BY <3>1, EncodeStepType
    <3> QED BY <1>6, <3>2
  <2> HIDE DEF S, n
  <2>2. \A p \in 1..n : p \in S
    BY <1>0, <2>1, FromTheEnd
  <2> QED BY <2>2 DEF S
<1>8. h \in [1..n -> Seq(Nat)]
  <2>1. h = [p \in 1..n |-> h[p]]
    BY <1>4
  <2> HIDE DEF n
  <2> QED BY <1>7, <2>1
<1>9. ASSUME NEW p \in 1..n
      PROVE  /\ NoMark(t, p) => h[p] = tokenizer_encode_bpe(Suffix(t, p))
             /\ \A i, k : NextMark(t, p, i, k) =>
                  h[p] = MarkStep(t, p, i, Known[k], h[i + Len(Known[k])])
  BY <1>6, StepIs
<1> QED BY <1>5, <1>8, <1>9 DEF Encodes

-----------------------------------------------------------------------------
(* An encoded text reads back.                                             *)

LEMMA MarkStepReads ==
  ASSUME Loaded, NEW t \in Said, NEW p \in 1..Len(t) + 1, NEW i, NEW k, NextMark(t, p, i, k),
         NEW r \in Seq(Nat), Decoded(r) = Suffix(t, i + Len(Known[k]))
  PROVE  Decoded(MarkStep(t, p, i, Known[k], r)) = Suffix(t, p)
<1>0. Len(t) \in Nat /\ t \in Seq(Bytes) /\ t \in Seq(0..255)
  BY SaidStr DEF Said, Str
<1>1. i \in 1..Len(t) /\ i \in p..Len(t) /\ k \in Matches(t, i)
  BY BetweenMarks
<1>2. PICK m, n : MarkIs(t, i, k, m, n)
  BY <1>1, MatchIs
<1>3. PICK j : j = i + n
  OBVIOUS
<1>4. j \in i + 1..Len(t) + 1 /\ m = Known[k] /\ n = Len(Known[k]) /\ m \in Seq(0..255)
  <2>1. m \in Str
    BY <1>2, PlainChars DEF MarkIs
  <2> QED BY <1>2, <1>3, <2>1 DEF MarkIs, Str
<1>5. PICK x, y, z : x = SubSeq(t, p, i - 1) /\ y = Suffix(t, i) /\ z = Suffix(t, j)
  OBVIOUS
<1>6. x \in Said /\ x \in Seq(0..255)
  BY <1>5, BetweenMarks, SaidStr DEF Str
<1>7. z \in Seq(0..255)
  <2>1. j \in 1..Len(t) + 1
    BY <1>0, <1>1, <1>4
  <2> QED BY <1>0, <1>5, <2>1, SuffixIs
<1>8. x \o y = Suffix(t, p)
  <2>1. i - 1 \in p - 1..Len(t) /\ (i - 1) + 1 = i
    BY <1>0, <1>1
  <2>2. SubSeq(t, p, i - 1) \o Suffix(t, (i - 1) + 1) = Suffix(t, p)
    BY <1>0, <2>1, PartsMeet
  <2> QED BY <1>5, <2>1, <2>2
<1>9. m \o z = y
  <2>1. j - 1 \in i - 1..Len(t) /\ (j - 1) + 1 = j /\ i \in 1..Len(t) + 1
    BY <1>0, <1>1, <1>4
  <2>2. SubSeq(t, i, j - 1) \o Suffix(t, (j - 1) + 1) = Suffix(t, i)
    BY <1>0, <2>1, PartsMeet
  <2>3. SubSeq(t, i, j - 1) = m
    BY <1>2, <1>3 DEF MarkIs
  <2> QED BY <1>5, <2>1, <2>2, <2>3
<1>10. PICK a \in Seq(Nat) : a = tokenizer_encode_bpe(x)
  BY <1>6, BpeIs
<1>11. PICK id \in Nat : id = vocab_to_id[m]
  BY <1>2 DEF MarkIs
<1>12. PICK b : b = <<id>>
  OBVIOUS
<1>13. b \in Seq(Nat) /\ a \o b \in Seq(Nat)
  BY <1>12
<1>14. Decoded(b) = m
  BY <1>2, <1>11, <1>12 DEF MarkIs
<1>15. Decoded(a) = x
  BY <1>6, <1>10, BpeReads
<1>16. Decoded(a \o b) = x \o m
  <2>1. Decoded(a \o b) = Decoded(a) \o Decoded(b)
    BY <1>13, DecodedOfTwo
  <2> QED BY <1>14, <1>15, <2>1
<1>17. Decoded((a \o b) \o r) = (x \o m) \o z
  <2>1. Decoded((a \o b) \o r) = Decoded(a \o b) \o Decoded(r)
    BY <1>13, DecodedOfTwo
  <2>2. Decoded(r) = z
    BY <1>3, <1>4, <1>5
  <2> QED BY <1>16, <2>1, <2>2
<1>18. (x \o m) \o z = x \o (m \o z)
  <2>1. PICK S : S = 0..255
    OBVIOUS
  <2>2. x \in Seq(S) /\ m \in Seq(S) /\ z \in Seq(S)
    BY <1>4, <1>6, <1>7, <2>1
  <2> QED BY <2>2, ConcatAssociative
<1>19. MarkStep(t, p, i, Known[k], r) = (a \o b) \o r
  <2>1. tokenizer_encode_bpe(SubSeq(t, p, i - 1)) = a
    BY <1>5, <1>10
  <2>2. <<vocab_to_id[Known[k]]>> = b
    BY <1>4, <1>11, <1>12
  <2> QED BY <2>1, <2>2 DEF MarkStep
<1> QED BY <1>8, <1>9, <1>17, <1>18, <1>19

LEMMA EncodeReads ==
  ASSUME Loaded, NEW t \in Said
  PROVE  tokenizer_encode(t) \in Seq(Nat) /\ Decoded(tokenizer_encode(t)) = t
<1>1. PICK f : Encodes(f, t)
  BY EncodesIs
<1>2. PICK n \in Nat : n = Len(t) + 1
  BY DEF Said
<1>3. f \in [1..n -> Seq(Nat)] /\ tokenizer_encode(t) = f[1]
  BY <1>1, <1>2 DEF Encodes
<1> DEFINE S == {p \in 1..n : Decoded(f[p]) = Suffix(t, p)}
<1>4. ASSUME NEW p \in 1..n, \A q \in p + 1..n : Decoded(f[q]) = Suffix(t, q)
      PROVE  Decoded(f[p]) = Suffix(t, p)
  <2>0. p \in 1..Len(t) + 1
    BY <1>2
  <2>1. CASE NoMark(t, p)
    <3>1. f[p] = tokenizer_encode_bpe(Suffix(t, p))
      BY <1>1, <2>0, <2>1 DEF Encodes
    <3>2. Suffix(t, p) \in Said
      BY <2>0, SuffixIs DEF Said
    <3> QED BY <3>1, <3>2, BpeReads
  <2>2. CASE \E i, k : NextMark(t, p, i, k)
    <3>1. PICK i, k : NextMark(t, p, i, k)
      BY <2>2
    <3>2. PICK j : j = i + Len(Known[k])
      OBVIOUS
    <3>3. j \in p + 1..n /\ j \in 1..n
      BY <1>2, <2>0, <3>1, <3>2, MarkPasses
    <3>4. f[p] = MarkStep(t, p, i, Known[k], f[j])
      BY <1>1, <2>0, <3>1, <3>2 DEF Encodes
    <3>5. f[j] \in Seq(Nat) /\ Decoded(f[j]) = Suffix(t, j)
      BY <1>3, <1>4, <3>3
    <3>6. Decoded(MarkStep(t, p, i, Known[k], f[j])) = Suffix(t, p)
      BY <2>0, <3>1, <3>2, <3>5, MarkStepReads
    <3> QED BY <3>4, <3>6
  <2> QED BY <2>0, <2>1, <2>2, MarkOrNot
<1>5. ASSUME NEW p \in 1..n, \A q \in p + 1..n : q \in S PROVE p \in S
  <2>1. \A q \in p + 1..n : Decoded(f[q]) = Suffix(t, q)
    BY <1>5
  <2> QED BY <1>4, <2>1
<1>6. \A p \in S : Decoded(f[p]) = Suffix(t, p)
  OBVIOUS
<1> HIDE DEF S
<1>7. \A p \in 1..n : p \in S
  BY <1>5, FromTheEnd
<1>8. 1 \in 1..n
  BY <1>2 DEF Said
<1>9. Decoded(f[1]) = Suffix(t, 1)
  BY <1>6, <1>7, <1>8
<1>10. Suffix(t, 1) = t
  BY AllOfIt DEF Said
<1> QED BY <1>3, <1>8, <1>9, <1>10

LEMMA EncodeNone ==
  ASSUME Loaded
  PROVE  tokenizer_encode(<< >>) = << >>
<1>1. << >> \in Said /\ Len(<< >>) + 1 = 1
  BY NoText
<1>2. PICK f : Encodes(f, << >>)
  BY <1>1, EncodesIs
<1>3. NoMark(<< >>, 1)
  BY DEF NoMark
<1>4. Suffix(<< >>, 1) = << >>
  BY <1>1, AllOfIt DEF Said
<1>5. f[1] = tokenizer_encode_bpe(<< >>)
  <2>1. 1 \in 1..Len(<< >>) + 1
    BY <1>1
  <2> QED BY <1>2, <1>3, <1>4, <2>1 DEF Encodes
<1> QED BY <1>1, <1>2, <1>5, BpeIs DEF Encodes

-----------------------------------------------------------------------------
(* The markers of two texts.                                               *)

LEMMA SpecialIs ==
  ASSUME NEW k \in Specials
  PROVE  Len(Known[k]) \in Nat \ {0} /\ Known[k] \in Seq(33..126)
<1>1. k \in 1..Len(Known)
  BY KnownIs DEF Specials
<1>2. Known[k] \in Seq(33..126) /\ Known[k] # << >>
  BY <1>1, KnownIs
<1>3. PICK m \in Seq(33..126) : m = Known[k] /\ m # << >>
  BY <1>2
<1>4. Len(m) \in Nat \ {0}
  BY <1>3, EmptySeq
<1> QED BY <1>3, <1>4

MatchAt(t, i, q, m) == q <= Len(t) /\ SubSeq(t, i, q) = m

LEMMA MatchesAre ==
  ASSUME NEW t, NEW i \in Nat, NEW k
  PROVE  k \in Matches(t, i) <=>
           k \in Specials /\ MatchAt(t, i, (i + Len(Known[k])) - 1, Known[k])
<1>1. ASSUME NEW h \in Specials PROVE i + Len(Known[h]) - 1 = (i + Len(Known[h])) - 1
  BY SpecialIs
<1> QED BY <1>1 DEF Matches, MatchAt

LEMMA MatchesBehind ==
  ASSUME NEW a \in Said, NEW b \in Said, NEW j \in 1..Len(b)
  PROVE  Matches(a \o b, Len(a) + j) = Matches(b, j)
<1>1. a \in Seq(Bytes) /\ b \in Seq(Bytes) /\ Len(a) \in Nat /\ Len(b) \in Nat
  BY DEF Said
<1>2. PICK m, n, w : m \in Nat /\ n \in Nat /\ m = Len(a) /\ n = Len(b) /\ w = a \o b
  BY <1>1
<1>3. Len(w) = m + n
  BY <1>1, <1>2, ConcatProperties
<1>4. ASSUME NEW k \in Specials
      PROVE  MatchAt(w, m + j, ((m + j) + Len(Known[k])) - 1, Known[k])
               <=> MatchAt(b, j, (j + Len(Known[k])) - 1, Known[k])
  <2>1. PICK e, q : e \in Nat \ {0} /\ e = Len(Known[k]) /\ q = (j + e) - 1
    BY SpecialIs
  <2>2. q \in Nat /\ q >= j /\ ((m + j) + e) - 1 = m + q
    <3>1. j \in Nat \ {0} /\ m \in Nat
      BY <1>1, <1>2
    <3>2. q \in Nat /\ q >= j /\ q = (j + e) - 1
      BY <2>1, <3>1
    <3>3. e \in Nat
      BY <2>1
    <3> QED BY <3>1, <3>2, <3>3
  <2>3. m + q <= Len(w) <=> q <= n
    BY <1>2, <1>3, <2>2
  <2>4. CASE q <= n
    <3>1. j \in 1..Len(b) + 1 /\ q \in j - 1..Len(b)
      BY <1>2, <2>2, <2>4
    <3>2. SubSeq(a \o b, Len(a) + j, Len(a) + q) = SubSeq(b, j, q)
      BY <1>1, <3>1, SliceBehind
    <3>3. SubSeq(w, m + j, m + q) = SubSeq(b, j, q)
      BY <1>2, <3>2
    <3> QED BY <1>2, <2>1, <2>2, <2>3, <2>4, <3>3 DEF MatchAt
  <2>5. CASE ~(q <= n)
    BY <1>2, <2>1, <2>2, <2>3, <2>5 DEF MatchAt
  <2> QED BY <2>4, <2>5
<1>5. m + j \in Nat /\ j \in Nat
  BY <1>2
<1>6. ASSUME NEW k PROVE k \in Matches(w, m + j) <=> k \in Matches(b, j)
  BY <1>4, <1>5, MatchesAre
<1>7. Matches(w, m + j) = Matches(b, j)
  <2>1. \A k : k \in Matches(w, m + j) <=> k \in Matches(b, j)
    BY <1>6
  <2>2. Matches(w, m + j) \subseteq Specials /\ Matches(b, j) \subseteq Specials
    BY DEF Matches
  <2> QED BY <2>1, <2>2
<1> QED BY <1>2, <1>7

\* A newline is in no marker
LEMMA MatchesBefore ==
  ASSUME NEW a \in Said, NEW b \in Said, b # << >> => Last(a) = 10, NEW i \in 1..Len(a)
  PROVE  Matches(a \o b, i) = Matches(a, i)
<1>1. a \in Seq(Bytes) /\ b \in Seq(Bytes) /\ Len(a) \in Nat /\ Len(b) \in Nat
  BY DEF Said
<1>2. PICK m, n, w : m \in Nat /\ n \in Nat /\ m = Len(a) /\ n = Len(b) /\ w = a \o b
  BY <1>1
<1>3. /\ w \in Seq(Bytes) /\ Len(w) = m + n
      /\ \A j \in 1..m + n : w[j] = IF j <= m THEN a[j] ELSE b[j - m]
  BY <1>1, <1>2, ConcatProperties
<1>4. ASSUME NEW k \in Specials
      PROVE  MatchAt(w, i, (i + Len(Known[k])) - 1, Known[k])
               <=> MatchAt(a, i, (i + Len(Known[k])) - 1, Known[k])
  <2>1. PICK e, q : e \in Nat \ {0} /\ e = Len(Known[k]) /\ q = (i + e) - 1
    BY SpecialIs
  <2>2. q \in Nat /\ q >= i
    BY <1>2, <2>1
  <2>3. CASE q <= m
    <3>1. i \in 1..Len(a) + 1 /\ q \in i - 1..Len(a) /\ q <= Len(w)
      BY <1>2, <1>3, <2>2, <2>3
    <3>2. SubSeq(a \o b, i, q) = SubSeq(a, i, q)
      BY <1>1, <3>1, SliceBefore
    <3> QED BY <1>2, <2>1, <2>3, <3>1, <3>2 DEF MatchAt
  <2>4. CASE ~(q <= m)
    <3>1. ~MatchAt(a, i, q, Known[k])
      BY <1>2, <2>4 DEF MatchAt
    <3>2. ASSUME MatchAt(w, i, q, Known[k]) PROVE FALSE
      <4>1. q <= m + n /\ SubSeq(w, i, q) = Known[k]
        BY <1>3, <3>2 DEF MatchAt
      <4>2. Len(b) # 0
        BY <1>2, <2>2, <2>4, <4>1
      <4>3. b # << >>
        BY <4>2
      <4>4. a[m] = 10
        BY <1>2, <4>3 DEF Last
      <4>5. i \in 1..Len(w) + 1 /\ q \in i - 1..Len(w)
        BY <1>2, <1>3, <2>2, <4>1
      <4>6. PICK s : s = SubSeq(w, i, q)
        OBVIOUS
      <4>7. \A j \in 1..(q - i) + 1 : s[j] = w[(i + j) - 1]
        BY <1>3, <4>5, <4>6, SliceIs
      <4>8. PICK j : j = (m - i) + 1
        OBVIOUS
      <4>9. j \in 1..(q - i) + 1 /\ (i + j) - 1 = m /\ j \in 1..e /\ m \in 1..m + n /\ m <= m
        BY <1>2, <2>1, <2>2, <2>4, <4>8
      <4>10. s[j] = 10
        BY <1>3, <4>4, <4>7, <4>9
      <4>11. s \in Seq(33..126) /\ Len(s) = e
        BY <2>1, <4>1, <4>6, SpecialIs
      <4>12. s[j] \in 33..126
        BY <4>9, <4>11, ElementOfSeq
      <4> QED BY <4>10, <4>12
    <3> QED BY <2>1, <3>1, <3>2
  <2> QED BY <2>3, <2>4
<1>5. i \in Nat
  BY <1>2
<1>6. ASSUME NEW k PROVE k \in Matches(w, i) <=> k \in Matches(a, i)
  BY <1>4, <1>5, MatchesAre
<1>7. Matches(w, i) = Matches(a, i)
  <2>1. \A k : k \in Matches(w, i) <=> k \in Matches(a, i)
    BY <1>6
  <2>2. Matches(w, i) \subseteq Specials /\ Matches(a, i) \subseteq Specials
    BY DEF Matches
  <2> QED BY <2>1, <2>2
<1> QED BY <1>2, <1>7

-----------------------------------------------------------------------------
(* Two texts encoded as one.                                               *)

\* w is a text a that ends a line, and b; its markers are those of the two
Combined(a, b, w) ==
  /\ a \in Said /\ b \in Said /\ w \in Said /\ w = a \o b
  /\ Len(a) \in Nat /\ Len(b) \in Nat /\ Len(w) = Len(a) + Len(b)
  /\ \A i \in 1..Len(a) : Matches(w, i) = Matches(a, i)
  /\ \A i \in 1..Len(b) : Matches(w, Len(a) + i) = Matches(b, i)

LEMMA CombinedIs ==
  ASSUME NEW a \in Said, NEW b \in Said, b # << >> => Last(a) = 10
  PROVE  Combined(a, b, a \o b)
<1>1. a \in Seq(Bytes) /\ b \in Seq(Bytes) /\ Len(a) \in Nat /\ Len(b) \in Nat
  BY DEF Said
<1>2. PICK w : w = a \o b
  OBVIOUS
<1>3. w \in Seq(Bytes) /\ Len(w) = Len(a) + Len(b)
  BY <1>1, <1>2, ConcatProperties
<1>4. \A i \in 1..Len(a) : Matches(w, i) = Matches(a, i)
  BY <1>2, MatchesBefore
<1>5. \A i \in 1..Len(b) : Matches(w, Len(a) + i) = Matches(b, i)
  BY <1>2, MatchesBehind
<1>6. w \in Said
  BY <1>3 DEF Said
<1>7. Combined(a, b, w)
  BY <1>1, <1>2, <1>3, <1>4, <1>5, <1>6 DEF Combined
<1> QED BY <1>2, <1>7

LEMMA MarksBehind ==
  ASSUME NEW a, NEW b, NEW w, Combined(a, b, w), NEW p \in 1..Len(b) + 1
  PROVE  /\ NoMark(b, p) => NoMark(w, Len(a) + p)
         /\ \A i, k : NextMark(b, p, i, k) => NextMark(w, Len(a) + p, Len(a) + i, k)
<1>1. PICK m, n : m \in Nat /\ n \in Nat /\ m = Len(a) /\ n = Len(b)
  BY DEF Combined
<1>2. Len(w) = m + n /\ \A i \in 1..n : Matches(w, m + i) = Matches(b, i)
  BY <1>1 DEF Combined
<1>3. ASSUME NoMark(b, p) PROVE NoMark(w, m + p)
  <2> SUFFICES ASSUME NEW j \in m + p..m + n PROVE Matches(w, j) = {}
    BY <1>2 DEF NoMark
  <2>1. PICK i : i = j - m
    OBVIOUS
  <2>2. i \in p..n /\ i \in 1..n /\ j = m + i
    BY <1>1, <2>1
  <2> QED BY <1>1, <1>2, <1>3, <2>2 DEF NoMark
<1>4. ASSUME NEW i, NEW k, NextMark(b, p, i, k) PROVE NextMark(w, m + p, m + i, k)
  <2>1. /\ i \in p..n /\ k \in Matches(b, i)
        /\ \A j \in p..i - 1 : Matches(b, j) = {}
        /\ \A h \in Matches(b, i) : k <= h
    BY <1>1, <1>4 DEF NextMark
  <2>2. i \in 1..n /\ m + i \in m + p..m + n
    BY <1>1, <2>1
  <2>3. Matches(w, m + i) = Matches(b, i)
    BY <1>2, <2>2
  <2>4. ASSUME NEW j \in m + p..(m + i) - 1 PROVE Matches(w, j) = {}
    <3>1. PICK l : l = j - m
      OBVIOUS
    <3>2. l \in p..i - 1 /\ l \in 1..n /\ j = m + l
      BY <1>1, <2>1, <3>1
    <3> QED BY <1>2, <2>1, <3>2
  <2> QED BY <1>2, <2>1, <2>2, <2>3, <2>4 DEF NextMark
<1> QED BY <1>1, <1>3, <1>4

LEMMA MarksBefore ==
  ASSUME NEW a, NEW b, NEW w, Combined(a, b, w), NEW p \in 1..Len(a) + 1
  PROVE  /\ NoMark(a, p) /\ NoMark(b, 1) => NoMark(w, p)
         /\ \A i, k : NextMark(a, p, i, k) => NextMark(w, p, i, k)
         /\ \A i, k : NoMark(a, p) /\ NextMark(b, 1, i, k) => NextMark(w, p, Len(a) + i, k)
<1>1. PICK m, n : m \in Nat /\ n \in Nat /\ m = Len(a) /\ n = Len(b)
  BY DEF Combined
<1>2. /\ Len(w) = m + n
      /\ \A i \in 1..m : Matches(w, i) = Matches(a, i)
      /\ \A i \in 1..n : Matches(w, m + i) = Matches(b, i)
  BY <1>1 DEF Combined
<1>3. ASSUME NoMark(a, p), NoMark(b, 1) PROVE NoMark(w, p)
  <2> SUFFICES ASSUME NEW j \in p..m + n PROVE Matches(w, j) = {}
    BY <1>2 DEF NoMark
  <2>1. CASE j <= m
    <3>1. j \in p..m /\ j \in 1..m
      BY <1>1, <2>1
    <3> QED BY <1>1, <1>2, <1>3, <3>1 DEF NoMark
  <2>2. CASE ~(j <= m)
    <3>1. PICK i : i = j - m
      OBVIOUS
    <3>2. i \in 1..n /\ j = m + i
      BY <1>1, <2>2, <3>1
    <3> QED BY <1>1, <1>2, <1>3, <3>2 DEF NoMark
  <2> QED BY <2>1, <2>2
<1>4. ASSUME NEW i, NEW k, NextMark(a, p, i, k) PROVE NextMark(w, p, i, k)
  <2>1. /\ i \in p..m /\ k \in Matches(a, i)
        /\ \A j \in p..i - 1 : Matches(a, j) = {}
        /\ \A h \in Matches(a, i) : k <= h
    BY <1>1, <1>4 DEF NextMark
  <2>2. i \in 1..m /\ i \in p..m + n /\ \A j \in p..i - 1 : j \in 1..m
    BY <1>1, <2>1
  <2>3. Matches(w, i) = Matches(a, i) /\ \A j \in p..i - 1 : Matches(w, j) = {}
    BY <1>2, <2>1, <2>2
  <2> QED BY <1>2, <2>1, <2>2, <2>3 DEF NextMark
<1>5. ASSUME NEW i, NEW k, NoMark(a, p), NextMark(b, 1, i, k) PROVE NextMark(w, p, m + i, k)
  <2>1. /\ i \in 1..n /\ k \in Matches(b, i)
        /\ \A j \in 1..i - 1 : Matches(b, j) = {}
        /\ \A h \in Matches(b, i) : k <= h
    BY <1>1, <1>5 DEF NextMark
  <2>2. m + i \in p..m + n /\ Matches(w, m + i) = Matches(b, i)
    BY <1>1, <1>2, <2>1
  <2>3. ASSUME NEW j \in p..(m + i) - 1 PROVE Matches(w, j) = {}
    <3>1. CASE j <= m
      <4>1. j \in p..m /\ j \in 1..m
        BY <1>1, <2>1, <3>1
      <4> QED BY <1>1, <1>2, <1>5, <4>1 DEF NoMark
    <3>2. CASE ~(j <= m)
      <4>1. PICK l : l = j - m
        OBVIOUS
      <4>2. l \in 1..i - 1 /\ l \in 1..n /\ j = m + l
        BY <1>1, <2>1, <3>2, <4>1
      <4> QED BY <1>2, <2>1, <4>2
    <3> QED BY <3>1, <3>2
  <2> QED BY <1>2, <2>1, <2>2, <2>3 DEF NextMark
<1> QED BY <1>1, <1>3, <1>4, <1>5

-----------------------------------------------------------------------------
(* Their steps.                                                            *)

Adds(x, y, z) == x = y \o z

LEMMA StepBehind ==
  ASSUME NEW a, NEW b, NEW w, Combined(a, b, w), NEW p \in 1..Len(b) + 1, NEW i \in p..Len(b),
         NEW m, NEW r
  PROVE  MarkStep(w, Len(a) + p, Len(a) + i, m, r) = MarkStep(b, p, i, m, r)
<1>1. a \in Seq(Bytes) /\ b \in Seq(Bytes) /\ w = a \o b /\ Len(a) \in Nat /\ Len(b) \in Nat
  BY DEF Combined, Said
<1>2. i - 1 \in p - 1..Len(b) /\ Len(a) + (i - 1) = (Len(a) + i) - 1
  BY <1>1
<1>3. SubSeq(a \o b, Len(a) + p, Len(a) + (i - 1)) = SubSeq(b, p, i - 1)
  BY <1>1, <1>2, SliceBehind
<1>4. SubSeq(w, Len(a) + p, (Len(a) + i) - 1) = SubSeq(b, p, i - 1)
  BY <1>1, <1>2, <1>3
<1> QED BY <1>4 DEF MarkStep

LEMMA StepBefore ==
  ASSUME NEW a, NEW b, NEW w, Combined(a, b, w), NEW p \in 1..Len(a) + 1, NEW i \in p..Len(a),
         NEW m, NEW r
  PROVE  MarkStep(w, p, i, m, r) = MarkStep(a, p, i, m, r)
<1>1. a \in Seq(Bytes) /\ b \in Seq(Bytes) /\ w = a \o b /\ Len(a) \in Nat /\ Len(b) \in Nat
  BY DEF Combined, Said
<1>2. i - 1 \in p - 1..Len(a)
  BY <1>1
<1>3. SubSeq(a \o b, p, i - 1) = SubSeq(a, p, i - 1)
  BY <1>1, <1>2, SliceBefore
<1> QED BY <1>1, <1>3 DEF MarkStep

\* What ends a line still does without its beginning
LEMMA RestEnds ==
  ASSUME NEW a \in Said, NEW p \in 1..Len(a) + 1, Last(a) = 10
  PROVE  /\ Suffix(a, p) \in Said
         /\ Suffix(a, p) # << >> => Last(Suffix(a, p)) = 10
<1>1. a \in Seq(Bytes) /\ Len(a) \in Nat
  BY DEF Said
<1>2. PICK s : s = Suffix(a, p)
  OBVIOUS
<1>3. PICK l : l = (Len(a) - p) + 1
  OBVIOUS
<1>4. s \in Seq(Bytes) /\ Len(s) = l /\ \A i \in 1..l : s[i] = a[(p + i) - 1]
  BY <1>1, <1>2, <1>3, SuffixIs
<1>5. ASSUME s # << >> PROVE Last(s) = 10
  <2>1. l # 0
    BY <1>4, <1>5, EmptySeq
  <2>2. l \in 1..l /\ (p + l) - 1 = Len(a)
    BY <1>1, <1>3, <2>1
  <2>3. s[l] = a[Len(a)]
    BY <1>4, <2>2
  <2> QED BY <1>4, <2>3 DEF Last
<1> QED BY <1>2, <1>4, <1>5 DEF Said

\* Four parts, however they are put together
Grouped(c, d, e, r) == ((c \o d) \o e) \o r = c \o ((d \o e) \o r)

LEMMA FourGrouped ==
  ASSUME NEW S, NEW c \in Seq(S), NEW d \in Seq(S), NEW e \in Seq(S), NEW r \in Seq(S)
  PROVE  Grouped(c, d, e, r)
<1>1. (c \o d) \o e = c \o (d \o e)
  BY ConcatAssociative
<1>2. PICK f : f = d \o e
  OBVIOUS
<1>3. f \in Seq(S)
  BY <1>2, ConcatProperties
<1>4. (c \o f) \o r = c \o (f \o r)
  BY <1>3, ConcatAssociative
<1> QED BY <1>1, <1>2, <1>4 DEF Grouped

LEMMA ThreeGrouped ==
  ASSUME NEW S, NEW a \in Seq(S), NEW e \in Seq(S), NEW r \in Seq(S), NEW u \in Seq(S)
  PROVE  (a \o e) \o (r \o u) = ((a \o e) \o r) \o u
<1>1. PICK f : f = a \o e
  OBVIOUS
<1>2. f \in Seq(S)
  BY <1>1, ConcatProperties
<1>3. (f \o r) \o u = f \o (r \o u)
  BY <1>2, ConcatAssociative
<1> QED BY <1>1, <1>3

LEMMA StepAcross ==
  ASSUME Loaded, NEW a, NEW b, NEW w, Combined(a, b, w), Last(a) = 10,
         NEW p \in 1..Len(a) + 1, NEW i \in 1..Len(b), b[1] \in Markup, b[1] # 32,
         NEW k, NextMark(b, 1, i, k), NEW r \in Seq(Nat)
  PROVE  Adds(MarkStep(w, p, Len(a) + i, Known[k], r),
              tokenizer_encode_bpe(Suffix(a, p)), MarkStep(b, 1, i, Known[k], r))
<1>1. a \in Said /\ b \in Said /\ w = a \o b /\ Len(a) \in Nat /\ Len(b) \in Nat
  BY DEF Combined
<1>2. a \in Seq(Bytes) /\ b \in Seq(Bytes)
  BY <1>1 DEF Said
<1>3. PICK x, y : x = Suffix(a, p) /\ y = SubSeq(b, 1, i - 1)
  OBVIOUS
<1>4. x \in Said /\ (x # << >> => Last(x) = 10)
  BY <1>1, <1>3, RestEnds
<1>5. 1 \in 1..Len(b) + 1 /\ i - 1 \in 1 - 1..Len(b) /\ i - 1 \in 0..Len(b)
  BY <1>1
<1>6. y \in Said /\ (y # << >> => y[1] = b[1])
  <2>1. /\ y \in Seq(Bytes) /\ Len(y) = ((i - 1) - 1) + 1
        /\ \A j \in 1..((i - 1) - 1) + 1 : y[j] = b[(1 + j) - 1]
    BY <1>2, <1>3, <1>5, SliceIs
  <2>2. ASSUME y # << >> PROVE y[1] = b[1]
    <3>1. Len(y) # 0
      BY <2>1, <2>2, EmptySeq
    <3>2. 1 \in 1..((i - 1) - 1) + 1 /\ (1 + 1) - 1 = 1
      BY <2>1, <3>1
    <3> QED BY <2>1, <3>2
  <2> QED BY <2>1, <2>2 DEF Said
<1>7. BpeJoins(x, y)
  <2>1. Meet(x, y)
    BY <1>4, <1>6 DEF Meet
  <2>2. y # << >> => y[1] # 32
    BY <1>6
  <2> QED BY <1>4, <1>6, <2>1, <2>2, BpeAtSeam
<1>8. SubSeq(w, p, (Len(a) + i) - 1) = x \o y
  <2>1. SubSeq(a \o b, p, Len(a) + (i - 1)) = Suffix(a, p) \o SubSeq(b, 1, i - 1)
    BY <1>2, <1>5, SuffixAcross
  <2>2. Len(a) + (i - 1) = (Len(a) + i) - 1
    BY <1>1
  <2> QED BY <1>1, <1>3, <2>1, <2>2
<1>9. PICK c \in Seq(Nat), d \in Seq(Nat) : c = tokenizer_encode_bpe(x) /\ d = tokenizer_encode_bpe(y)
  BY <1>4, <1>6, BpeIs
<1>10. tokenizer_encode_bpe(x \o y) = c \o d
  BY <1>7, <1>9 DEF BpeJoins
<1>11. PICK e \in Seq(Nat) : e = <<vocab_to_id[Known[k]]>>
  <2>1. \E m, n : MarkIs(b, i, k, m, n)
    BY <1>1, MatchIs DEF NextMark
  <2>2. PICK id \in Nat : id = vocab_to_id[Known[k]]
    BY <2>1 DEF MarkIs
  <2>3. <<id>> \in Seq(Nat)
    OBVIOUS
  <2> QED BY <2>2, <2>3
<1>12. MarkStep(w, p, Len(a) + i, Known[k], r) = ((c \o d) \o e) \o r
  <2>1. tokenizer_encode_bpe(SubSeq(w, p, (Len(a) + i) - 1)) = c \o d
    BY <1>8, <1>10
  <2> QED BY <1>11, <2>1 DEF MarkStep
<1>13. MarkStep(b, 1, i, Known[k], r) = (d \o e) \o r
  <2>1. tokenizer_encode_bpe(SubSeq(b, 1, i - 1)) = d
    BY <1>3, <1>9
  <2> QED BY <1>11, <2>1 DEF MarkStep
<1>14. Grouped(c, d, e, r)
  <2>1. PICK S : S = Nat
    OBVIOUS
  <2>2. c \in Seq(S) /\ d \in Seq(S) /\ e \in Seq(S) /\ r \in Seq(S)
    BY <1>9, <1>11, <2>1
  <2> QED BY <2>2, FourGrouped
<1> QED BY <1>3, <1>9, <1>12, <1>13, <1>14 DEF Grouped, Adds

LEMMA StepMore ==
  ASSUME Loaded, NEW t \in Said, NEW p \in 1..Len(t) + 1, NEW i, NEW k, NextMark(t, p, i, k),
         NEW r \in Seq(Nat), NEW u \in Seq(Nat)
  PROVE  Adds(MarkStep(t, p, i, Known[k], r \o u), MarkStep(t, p, i, Known[k], r), u)
<1>1. PICK a \in Seq(Nat) : a = tokenizer_encode_bpe(SubSeq(t, p, i - 1))
  BY BetweenMarks, BpeIs
<1>2. PICK e \in Seq(Nat) : e = <<vocab_to_id[Known[k]]>>
  <2>1. \E m, n : MarkIs(t, i, k, m, n)
    BY BetweenMarks, MatchIs
  <2>2. PICK id \in Nat : id = vocab_to_id[Known[k]]
    BY <2>1 DEF MarkIs
  <2>3. <<id>> \in Seq(Nat)
    OBVIOUS
  <2> QED BY <2>2, <2>3
<1>3. (a \o e) \o (r \o u) = ((a \o e) \o r) \o u
  <2>1. PICK S : S = Nat
    OBVIOUS
  <2>2. a \in Seq(S) /\ e \in Seq(S) /\ r \in Seq(S) /\ u \in Seq(S)
    BY <1>1, <1>2, <2>1
  <2> QED BY <2>2, ThreeGrouped
<1> QED BY <1>1, <1>2, <1>3 DEF MarkStep, Adds

\* fa, fb and fw are how a, b and both together are encoded
Encoding(a, b, w, fa, fb, fw) ==
  /\ Combined(a, b, w) /\ Last(a) = 10 /\ b[1] \in Markup /\ b[1] # 32
  /\ Encodes(fa, a) /\ Encodes(fb, b) /\ Encodes(fw, w)

LEMMA EncodedBehind ==
  ASSUME Loaded, NEW a, NEW b, NEW w, NEW fa, NEW fb, NEW fw, Encoding(a, b, w, fa, fb, fw)
  PROVE  \A p \in 1..Len(b) + 1 : fw[Len(a) + p] = fb[p]
<1>1. PICK m, n : m \in Nat /\ n \in Nat /\ m = Len(a) /\ n = Len(b) + 1
  BY DEF Encoding, Combined
<1>2. Combined(a, b, w) /\ Encodes(fb, b) /\ Encodes(fw, w) /\ b \in Said /\ w \in Said
  BY DEF Encoding, Combined
<1>3. Len(w) + 1 = m + n
  BY <1>1 DEF Encoding, Combined
<1> DEFINE S == {p \in 1..n : fw[m + p] = fb[p]}
<1>4. ASSUME NEW p \in 1..n, \A q \in p + 1..n : fw[m + q] = fb[q]
      PROVE  fw[m + p] = fb[p]
  <2>0. p \in 1..Len(b) + 1 /\ m + p \in 1..Len(w) + 1
    BY <1>1, <1>3
  <2>1. CASE NoMark(b, p)
    <3>1. NoMark(w, m + p)
      BY <1>1, <1>2, <2>0, <2>1, MarksBehind
    <3>2. fb[p] = tokenizer_encode_bpe(Suffix(b, p))
      BY <1>2, <2>0, <2>1 DEF Encodes
    <3>3. fw[m + p] = tokenizer_encode_bpe(Suffix(w, m + p))
      BY <1>2, <2>0, <3>1 DEF Encodes
    <3>4. Suffix(w, m + p) = Suffix(b, p)
      <4>1. a \in Seq(Bytes) /\ b \in Seq(Bytes) /\ w = a \o b
        BY <1>2 DEF Combined, Said
      <4> QED BY <1>1, <2>0, <4>1, SuffixBehind
    <3> QED BY <3>2, <3>3, <3>4
  <2>2. CASE \E i, k : NextMark(b, p, i, k)
    <3>1. PICK i, k : NextMark(b, p, i, k)
      BY <2>2
    <3>2. NextMark(w, m + p, m + i, k)
      BY <1>1, <1>2, <2>0, <3>1, MarksBehind
    <3>3. PICK l : l = Len(Known[k])
      OBVIOUS
    <3>4. i + l \in p + 1..n /\ i \in p..Len(b)
      BY <1>1, <1>2, <2>0, <3>1, <3>3, MarkPasses, BetweenMarks
    <3>5. l \in Nat /\ (m + i) + l = m + (i + l)
      <4>1. k \in Specials
        BY <3>1 DEF NextMark, Matches
      <4>2. l \in Nat
        BY <3>3, <4>1, SpecialIs
      <4> QED BY <1>1, <3>4, <4>2
    <3>6. fw[m + p] = MarkStep(w, m + p, m + i, Known[k], fw[(m + i) + l])
      BY <1>2, <2>0, <3>2, <3>3 DEF Encodes
    <3>7. fb[p] = MarkStep(b, p, i, Known[k], fb[i + l])
      BY <1>2, <2>0, <3>1, <3>3 DEF Encodes
    <3>8. fw[(m + i) + l] = fb[i + l]
      BY <1>4, <3>4, <3>5
    <3>9. \A r : MarkStep(w, m + p, m + i, Known[k], r) = MarkStep(b, p, i, Known[k], r)
      BY <1>1, <1>2, <2>0, <3>4, StepBehind
    <3> QED BY <3>6, <3>7, <3>8, <3>9
  <2> QED BY <1>2, <2>0, <2>1, <2>2, MarkOrNot
<1>5. ASSUME NEW p \in 1..n, \A q \in p + 1..n : q \in S PROVE p \in S
  <2>1. \A q \in p + 1..n : fw[m + q] = fb[q]
    BY <1>5
  <2> QED BY <1>4, <2>1
<1>6. \A p \in S : fw[m + p] = fb[p]
  OBVIOUS
<1> HIDE DEF S
<1>7. \A p \in 1..n : p \in S
  BY <1>1, <1>5, FromTheEnd
<1> QED BY <1>1, <1>6, <1>7

LEMMA EncodedAcross ==
  ASSUME Loaded, NEW a, NEW b, NEW w, NEW fa, NEW fb, NEW fw, Encoding(a, b, w, fa, fb, fw),
         NEW p \in 1..Len(a) + 1, NoMark(a, p)
  PROVE  Adds(fw[p], fa[p], fb[1])
<1>1. /\ Combined(a, b, w) /\ Encodes(fa, a) /\ Encodes(fb, b) /\ Encodes(fw, w)
      /\ a \in Said /\ b \in Said /\ w \in Said /\ w = a \o b
      /\ Last(a) = 10 /\ b[1] \in Markup /\ b[1] # 32
      /\ Len(a) \in Nat /\ Len(b) \in Nat /\ Len(w) = Len(a) + Len(b)
  BY DEF Encoding, Combined
<1>2. 1 \in 1..Len(b) + 1 /\ p \in 1..Len(w) + 1
  BY <1>1
<1>3. PICK x \in Said : x = Suffix(a, p) /\ (x # << >> => Last(x) = 10)
  BY <1>1, RestEnds
<1>4. fa[p] = tokenizer_encode_bpe(x)
  BY <1>1, <1>3 DEF Encodes
<1>5. CASE NoMark(b, 1)
  <2>1. NoMark(w, p)
    BY <1>1, <1>5, MarksBefore
  <2>2. fw[p] = tokenizer_encode_bpe(Suffix(w, p))
    BY <1>1, <1>2, <2>1 DEF Encodes
  <2>3. Suffix(w, p) = x \o b
    <3>1. a \in Seq(Bytes) /\ b \in Seq(Bytes) /\ Len(b) \in 0..Len(b)
      BY <1>1 DEF Said
    <3>2. SubSeq(a \o b, p, Len(a) + Len(b)) = Suffix(a, p) \o SubSeq(b, 1, Len(b))
      BY <3>1, SuffixAcross
    <3>3. SubSeq(b, 1, Len(b)) = b
      BY <3>1, AllOfIt
    <3> QED BY <1>1, <1>3, <3>2, <3>3 DEF Suffix
  <2>4. fb[1] = tokenizer_encode_bpe(b)
    <3>1. Suffix(b, 1) = b
      BY <1>1, AllOfIt DEF Said
    <3> QED BY <1>1, <1>2, <1>5, <3>1 DEF Encodes
  <2>5. BpeJoins(x, b)
    <3>1. Meet(x, b)
      BY <1>1, <1>3 DEF Meet
    <3> QED BY <1>1, <3>1, BpeAtSeam
  <2>6. fw[p] = tokenizer_encode_bpe(x \o b)
    BY <2>2, <2>3
  <2> QED BY <1>4, <2>4, <2>5, <2>6 DEF BpeJoins, Adds
<1>6. CASE \E i, k : NextMark(b, 1, i, k)
  <2>1. PICK i, k : NextMark(b, 1, i, k)
    BY <1>6
  <2>2. NextMark(w, p, Len(a) + i, k)
    BY <1>1, <2>1, MarksBefore
  <2>3. PICK l : l = Len(Known[k])
    OBVIOUS
  <2>4. i + l \in 1..Len(b) + 1 /\ i \in 1..Len(b)
    BY <1>1, <1>2, <2>1, <2>3, MarkPasses, BetweenMarks
  <2>5. (Len(a) + i) + l = Len(a) + (i + l)
    <3>1. k \in Specials
      BY <2>1 DEF NextMark, Matches
    <3>2. l \in Nat
      BY <2>3, <3>1, SpecialIs
    <3> QED BY <1>1, <2>4, <3>2
  <2>6. PICK r \in Seq(Nat) : r = fb[i + l]
    BY <1>1, <2>4 DEF Encodes
  <2>7. fw[p] = MarkStep(w, p, Len(a) + i, Known[k], fw[(Len(a) + i) + l])
    <3>1. PICK j : j = Len(a) + i
      OBVIOUS
    <3>2. NextMark(w, p, j, k)
      BY <2>2, <3>1
    <3>3. fw[p] = MarkStep(w, p, j, Known[k], fw[j + Len(Known[k])])
      BY <1>1, <1>2, <3>2 DEF Encodes
    <3> QED BY <2>3, <3>1, <3>3
  <2>8. fw[(Len(a) + i) + l] = r
    BY <2>4, <2>5, <2>6, EncodedBehind
  <2>9. fb[1] = MarkStep(b, 1, i, Known[k], r)
    BY <1>1, <1>2, <2>1, <2>3, <2>6 DEF Encodes
  <2>10. Adds(MarkStep(w, p, Len(a) + i, Known[k], r),
              tokenizer_encode_bpe(Suffix(a, p)), MarkStep(b, 1, i, Known[k], r))
    <3>1. Combined(a, b, w) /\ Last(a) = 10 /\ b[1] \in Markup /\ b[1] # 32
      BY <1>1
    <3> QED BY <2>1, <2>4, <2>6, <3>1, StepAcross
  <2> QED BY <1>3, <1>4, <2>7, <2>8, <2>9, <2>10
<1> QED BY <1>1, <1>2, <1>5, <1>6, MarkOrNot

LEMMA EncodedBefore ==
  ASSUME Loaded, NEW a, NEW b, NEW w, NEW fa, NEW fb, NEW fw, Encoding(a, b, w, fa, fb, fw)
  PROVE  \A p \in 1..Len(a) + 1 : Adds(fw[p], fa[p], fb[1])
<1>1. PICK n \in Nat : n = Len(a) + 1
  BY DEF Encoding, Combined
<1>2. /\ Combined(a, b, w) /\ Encodes(fa, a) /\ Encodes(fw, w) /\ a \in Said /\ w \in Said
      /\ Len(a) \in Nat /\ Len(b) \in Nat /\ Len(w) = Len(a) + Len(b)
  BY DEF Encoding, Combined
<1>3. PICK u \in Seq(Nat) : u = fb[1]
  <2>1. 1 \in 1..Len(b) + 1
    BY <1>2
  <2> QED BY <2>1 DEF Encoding, Encodes
<1> DEFINE S == {p \in 1..n : Adds(fw[p], fa[p], u)}
<1>4. ASSUME NEW p \in 1..n, \A q \in p + 1..n : Adds(fw[q], fa[q], u)
      PROVE  Adds(fw[p], fa[p], u)
  <2>0. p \in 1..Len(a) + 1 /\ p \in 1..Len(w) + 1
    BY <1>1, <1>2
  <2>1. CASE NoMark(a, p)
    BY <1>3, <2>0, <2>1, EncodedAcross
  <2>2. CASE \E i, k : NextMark(a, p, i, k)
    <3>1. PICK i, k : NextMark(a, p, i, k)
      BY <2>2
    <3>2. NextMark(w, p, i, k)
      BY <1>2, <2>0, <3>1, MarksBefore
    <3>3. PICK j : j = i + Len(Known[k])
      OBVIOUS
    <3>4. j \in p + 1..n /\ j \in 1..Len(a) + 1 /\ i \in p..Len(a)
      BY <1>1, <1>2, <2>0, <3>1, <3>3, MarkPasses, BetweenMarks
    <3>5. PICK r \in Seq(Nat) : r = fa[j]
      BY <1>2, <3>4 DEF Encodes
    <3>6. fw[p] = MarkStep(w, p, i, Known[k], fw[j])
      BY <1>2, <2>0, <3>2, <3>3 DEF Encodes
    <3>7. fa[p] = MarkStep(a, p, i, Known[k], r)
      BY <1>2, <2>0, <3>1, <3>3, <3>5 DEF Encodes
    <3>8. fw[j] = r \o u
      BY <1>4, <3>4, <3>5 DEF Adds
    <3>9. MarkStep(w, p, i, Known[k], r \o u) = MarkStep(a, p, i, Known[k], r \o u)
      BY <1>2, <2>0, <3>4, StepBefore
    <3>10. Adds(MarkStep(a, p, i, Known[k], r \o u), MarkStep(a, p, i, Known[k], r), u)
      BY <1>2, <1>3, <2>0, <3>1, <3>5, StepMore
    <3> QED BY <3>6, <3>7, <3>8, <3>9, <3>10
  <2> QED BY <1>2, <2>0, <2>1, <2>2, MarkOrNot
<1>5. ASSUME NEW p \in 1..n, \A q \in p + 1..n : q \in S PROVE p \in S
  <2>1. \A q \in p + 1..n : Adds(fw[q], fa[q], u)
    BY <1>5
  <2> QED BY <1>4, <2>1
<1>6. \A p \in S : Adds(fw[p], fa[p], u)
  OBVIOUS
<1> HIDE DEF S
<1>7. \A p \in 1..n : p \in S
  BY <1>1, <1>5, FromTheEnd
<1> QED BY <1>1, <1>3, <1>6, <1>7

\* A framing behind the end of a line is encoded as it is on its own
LEMMA EncodeJoins ==
  ASSUME Loaded, NEW a \in Said, NEW b \in Said, Meet(a, b), b # << >> => b[1] # 32
  PROVE  tokenizer_encode(a \o b) = tokenizer_encode(a) \o tokenizer_encode(b)
<1>1. PICK x \in Seq(Nat), y \in Seq(Nat) : x = tokenizer_encode(a) /\ y = tokenizer_encode(b)
  BY EncodeReads
<1>2. CASE a = << >>
  <2>1. x = << >> /\ << >> \o y = y /\ << >> \o b = b
    BY <1>1, <1>2, EncodeNone, ConcatEmptySeq, NoText
  <2>2. tokenizer_encode(a \o b) = y
    BY <1>1, <1>2, <2>1
  <2> QED BY <1>1, <2>1, <2>2
<1>3. CASE b = << >>
  <2>1. y = << >> /\ x \o << >> = x /\ a \o << >> = a
    BY <1>1, <1>3, EncodeNone, ConcatEmptySeq, NoText
  <2>2. tokenizer_encode(a \o b) = x
    BY <1>1, <1>3, <2>1
  <2> QED BY <1>1, <2>1, <2>2
<1>4. CASE a # << >> /\ b # << >>
  <2>1. Last(a) = 10 /\ b[1] \in Markup /\ b[1] # 32
    BY <1>4 DEF Meet
  <2>2. PICK w : w = a \o b
    OBVIOUS
  <2>3. Combined(a, b, w) /\ w \in Said
    BY <2>1, <2>2, CombinedIs DEF Combined
  <2>4. PICK fa, fb, fw : Encodes(fa, a) /\ Encodes(fb, b) /\ Encodes(fw, w)
    BY <2>3, EncodesIs
  <2>5. Encoding(a, b, w, fa, fb, fw)
    BY <2>1, <2>3, <2>4 DEF Encoding
  <2>6. 1 \in 1..Len(a) + 1
    BY <2>3 DEF Combined
  <2>7. Adds(fw[1], fa[1], fb[1])
    BY <2>5, <2>6, EncodedBefore
  <2>8. tokenizer_encode(w) = fw[1] /\ x = fa[1] /\ y = fb[1]
    BY <1>1, <2>4 DEF Encodes
  <2>9. tokenizer_encode(w) = x \o y
    BY <2>7, <2>8 DEF Adds
  <2> QED BY <1>1, <2>2, <2>9
<1> QED BY <1>2, <1>3, <1>4

LEMMA SpecialsSame ==
  ASSUME UNCHANGED tokenizer
  PROVE  Specials' = Specials
BY DEF Specials, tokenizer

\* The tables are all a text's encoding depends on
LEMMA EncodeSame ==
  ASSUME UNCHANGED tokenizer, NEW t
  PROVE  tokenizer_encode(t)' = tokenizer_encode(t)
BY DEF tokenizer, tokenizer_encode, tokenizer_encode_bpe, Ids, Merged, Best, Mergeable, Rank,
       Specials, Matches

-----------------------------------------------------------------------------
(* Framings.                                                               *)

OpensWith(d, w) == d \in Said /\ d # << >> /\ d[1] = w[1]
EndsLine(d) == d \in Said /\ d # << >> /\ Last(d) = 10

LEMMA OpensBefore ==
  ASSUME NEW d, NEW w, OpensWith(d, w), NEW c \in Said
  PROVE  OpensWith(d \o c, w)
<1>1. d \in Seq(Bytes) /\ c \in Seq(Bytes) /\ d # << >> /\ d[1] = w[1]
  BY DEF OpensWith, Said
<1>2. PICK m, n : m = Len(d) /\ n = Len(c)
  OBVIOUS
<1>3. m \in Nat \ {0} /\ n \in Nat
  BY <1>1, <1>2, EmptySeq
<1>4. PICK e : e = d \o c
  OBVIOUS
<1>5. e \in Seq(Bytes) /\ Len(e) = m + n /\ \A i \in 1..m + n : e[i] = IF i <= m THEN d[i] ELSE c[i - m]
  BY <1>1, <1>2, <1>4, ConcatProperties
<1>6. 1 \in 1..m + n /\ 1 <= m /\ m + n # 0
  BY <1>3
<1>7. e[1] = d[1] /\ Len(e) # 0
  BY <1>5, <1>6
<1>8. e # << >>
  BY <1>7
<1> QED BY <1>1, <1>4, <1>5, <1>7, <1>8 DEF OpensWith, Said

LEMMA EndsBehind ==
  ASSUME NEW d \in Said, NEW c, EndsLine(c)
  PROVE  EndsLine(d \o c)
<1>1. d \in Seq(Bytes) /\ c \in Seq(Bytes) /\ c # << >>
  BY DEF EndsLine, Said
<1>2. PICK m, n : m = Len(d) /\ n = Len(c)
  OBVIOUS
<1>3. m \in Nat /\ n \in Nat \ {0}
  BY <1>1, <1>2, EmptySeq
<1>4. c[n] = 10
  BY <1>2 DEF EndsLine, Last
<1>5. PICK e : e = d \o c
  OBVIOUS
<1>6. e \in Seq(Bytes) /\ Len(e) = m + n /\ \A i \in 1..m + n : e[i] = IF i <= m THEN d[i] ELSE c[i - m]
  BY <1>1, <1>2, <1>5, ConcatProperties
<1>7. m + n \in 1..m + n /\ ~(m + n <= m) /\ (m + n) - m = n /\ m + n # 0
  BY <1>3
<1>8. e[m + n] = 10 /\ Len(e) # 0
  BY <1>4, <1>6, <1>7
<1>9. e # << >> /\ Last(e) = 10
  BY <1>6, <1>8 DEF Last
<1> QED BY <1>5, <1>6, <1>9 DEF EndsLine, Said

LEMMA LineEnds ==
  /\ EndsLine(NL) /\ EndsLine(Close)
  /\ \A think \in BOOLEAN : EndsLine(jinja_emit_gen_prompt(think))
<1>1. PICK n : n = NL
  OBVIOUS
<1>2. EndsLine(n)
  <2>1. NL \in Said
    BY Wordings
  <2>2. NL # << >> /\ Last(NL) = 10
    BY DEF NL, Last
  <2> QED BY <1>1, <2>1, <2>2 DEF EndsLine
<1>3. n \in Said
  BY <1>2 DEF EndsLine
<1>4. EndsLine(Close)
  <2>1. Lit.im_end \in Said
    BY Wordings DEF Wording
  <2>2. EndsLine(Lit.im_end \o n)
    BY <1>2, <2>1, EndsBehind
  <2> QED BY <1>1, <2>2 DEF Close
<1>5. PICK o, t, e : o = Open("assistant") /\ t = Lit.think /\ e = Lit.end_think
  OBVIOUS
<1>6. o \in Said /\ t \in Said /\ e \in Said
  BY <1>5, Framing, Wordings DEF Wording
<1>7. PICK p : p = o \o t
  OBVIOUS
<1>8. p \in Said
  BY <1>6, <1>7, OneMoreIn
<1>9. PICK q : q = p \o n
  OBVIOUS
<1>10. EndsLine(q)
  BY <1>2, <1>8, <1>9, EndsBehind
<1>11. q \in Said
  BY <1>10 DEF EndsLine
<1>12. PICK x : x = n \o e
  OBVIOUS
<1>13. x \in Said
  BY <1>3, <1>6, <1>12, OneMoreIn
<1>14. PICK y : y = x \o n
  OBVIOUS
<1>15. y \in Said
  BY <1>3, <1>13, <1>14, OneMoreIn
<1>16. EndsLine(y \o n)
  BY <1>2, <1>15, EndsBehind
<1>17. EndsLine(q \o (y \o n))
  BY <1>11, <1>16, EndsBehind
<1>18. jinja_emit_gen_prompt(FALSE) = q \o (y \o n)
  BY <1>1, <1>5, <1>7, <1>9, <1>12, <1>14 DEF jinja_emit_gen_prompt
<1>19. jinja_emit_gen_prompt(TRUE) = q
  <2>1. jinja_emit_gen_prompt(TRUE) = q \o << >>
    BY <1>1, <1>5, <1>7, <1>9 DEF jinja_emit_gen_prompt
  <2> QED BY <1>11, <2>1, NoText
<1>20. EndsLine(jinja_emit_gen_prompt(FALSE)) /\ EndsLine(jinja_emit_gen_prompt(TRUE))
  BY <1>10, <1>17, <1>18, <1>19
<1> QED BY <1>1, <1>2, <1>4, <1>20

LEMMA OpenIs ==
  ASSUME NEW role \in {"system", "user", "assistant"}
  PROVE  OpensWith(Open(role), Lit.im_start)
<1>1. PICK i, r : i = Lit.im_start /\ r = Lit[role]
  OBVIOUS
<1>2. i \in Said /\ i # << >> /\ r \in Said /\ NL \in Said
  BY <1>1, Wordings DEF Wording
<1>3. OpensWith(i, i)
  BY <1>2 DEF OpensWith
<1>4. OpensWith(i \o r, i)
  BY <1>2, <1>3, OpensBefore
<1>5. OpensWith((i \o r) \o NL, i)
  BY <1>2, <1>4, OpensBefore
<1> QED BY <1>1, <1>5 DEF Open

\* What is appended to the log at once
FramedText(d) == EndsLine(d) /\ d[1] \in Markup

LEMMA TurnFrames ==
  ASSUME NEW u \in Said, NEW think \in BOOLEAN
  PROVE  FramedText(jinja_format_turn_delta(u, think))
<1>1. PICK o, k, g : o = Open("user") /\ k = Close /\ g = jinja_emit_gen_prompt(think)
  OBVIOUS
<1>2. OpensWith(o, Lit.im_start) /\ k \in Said /\ EndsLine(g)
  BY <1>1, OpenIs, LineEnds, Framing
<1>3. OpensWith(o \o u, Lit.im_start)
  BY <1>2, OpensBefore
<1>4. OpensWith((o \o u) \o k, Lit.im_start)
  BY <1>2, <1>3, OpensBefore
<1>5. PICK f : f = (o \o u) \o k
  OBVIOUS
<1>6. g \in Said /\ f \in Said
  BY <1>2, <1>4, <1>5 DEF EndsLine, OpensWith
<1>7. OpensWith(f \o g, Lit.im_start) /\ EndsLine(f \o g)
  BY <1>2, <1>4, <1>5, <1>6, OpensBefore, EndsBehind
<1>8. jinja_format_turn_delta(u, think) = f \o g
  BY <1>1, <1>5, DeltaIs
<1> QED BY <1>7, <1>8 DEF FramedText, OpensWith, Markup

LEMMA EchoOpens ==
  ASSUME NEW r \in ToolRounds
  PROVE  OpensWith(Echoed(r), Lit.tool_call)
<1>1. PICK f, w, e : f = Lit.tool_call /\ w = r.raw /\ e = Lit.end_tool_call
  OBVIOUS
<1>2. f \in Said /\ f # << >> /\ w \in Said /\ e \in Said
  BY <1>1, Wordings, TextsAssumption DEF Wording
<1>3. OpensWith(f, f)
  BY <1>2 DEF OpensWith
<1>4. OpensWith(f \o w, f)
  BY <1>2, <1>3, OpensBefore
<1>5. OpensWith((f \o w) \o e, f)
  BY <1>2, <1>4, OpensBefore
<1> QED BY <1>1, <1>5 DEF Echoed

LEMMA RoundFrames ==
  ASSUME NEW c \in Said, OpensWith(c, Lit.tool_call), NEW r \in Said
  PROVE  FramedText(Inject(c, r))
<1>1. PICK x, k, a, g : /\ x = c /\ k = Close /\ a = Answered(r)
                        /\ g = jinja_emit_gen_prompt(FALSE)
  OBVIOUS
<1>2. OpensWith(x, Lit.tool_call) /\ k \in Said /\ a \in Said /\ EndsLine(g)
  BY <1>1, LineEnds, Framing, AnsweredIs
<1>3. OpensWith(x \o k, Lit.tool_call)
  BY <1>2, OpensBefore
<1>4. OpensWith((x \o k) \o a, Lit.tool_call)
  BY <1>2, <1>3, OpensBefore
<1>5. PICK f : f = (x \o k) \o a
  OBVIOUS
<1>6. g \in Said /\ f \in Said
  BY <1>2, <1>4, <1>5 DEF EndsLine, OpensWith
<1>7. OpensWith(f \o g, Lit.tool_call) /\ EndsLine(f \o g)
  BY <1>2, <1>4, <1>5, <1>6, OpensBefore, EndsBehind
<1>8. Inject(c, r) = f \o g
  BY <1>1, <1>5, InjectIs
<1> QED BY <1>7, <1>8 DEF FramedText, OpensWith, Markup

LEMMA BlockFrames ==
  ASSUME NEW s \in Said, NEW effort, NEW tools \in Seq(Said)
  PROVE  FramedText(jinja_format_system_block(s, effort, tools))
<1>1. PICK o, e, x, t, k : /\ o = Open("system") /\ e = Effort(effort) /\ k = Close
                           /\ x = (IF s = << >> THEN << >> ELSE s \o NL)
                           /\ t = (IF tools = << >> THEN << >> ELSE ToolList(tools) \o NL)
  OBVIOUS
<1>2. OpensWith(o, Lit.im_start) /\ EndsLine(k)
  BY <1>1, OpenIs, LineEnds
<1>3. e \in Said
  BY <1>1, Wordings, NoText DEF Effort, Wording
<1>4. x \in Said
  <2>1. s \o NL \in Said
    BY Wordings, OneMoreIn
  <2> QED BY <1>1, <2>1, NoText
<1>5. t \in Said
  <2>1. ToolList(tools) \o NL \in Said
    BY ToolListText, Wordings, OneMoreIn
  <2> QED BY <1>1, <2>1, NoText
<1>6. OpensWith(o \o e, Lit.im_start)
  BY <1>2, <1>3, OpensBefore
<1>7. OpensWith((o \o e) \o x, Lit.im_start)
  BY <1>4, <1>6, OpensBefore
<1>8. OpensWith(((o \o e) \o x) \o t, Lit.im_start)
  BY <1>5, <1>7, OpensBefore
<1>9. PICK f : f = ((o \o e) \o x) \o t
  OBVIOUS
<1>10. f \in Said /\ k \in Said
  BY <1>2, <1>8, <1>9 DEF OpensWith, EndsLine
<1>11. OpensWith(f \o k, Lit.im_start) /\ EndsLine(f \o k)
  BY <1>2, <1>8, <1>9, <1>10, OpensBefore, EndsBehind
<1>12. jinja_format_system_block(s, effort, tools) = f \o k
  BY <1>1, <1>9 DEF jinja_format_system_block
<1> QED BY <1>11, <1>12 DEF FramedText, OpensWith, Markup

LEMMA MarkupIs == \A c \in Markup : c # 32
BY SeamAssumption DEF Markup

\* Another framing goes behind the end of a line
LEMMA FramingJoins ==
  ASSUME Loaded, NEW t \in Said, t # << >> => Last(t) = 10, NEW d, FramedText(d)
  PROVE  /\ t \o d \in Said /\ t \o d # << >> /\ Last(t \o d) = 10
         /\ tokenizer_encode(t) \o tokenizer_encode(d) = tokenizer_encode(t \o d)
<1>1. d \in Said /\ d[1] \in Markup /\ d[1] # 32
  BY MarkupIs DEF FramedText, EndsLine
<1>2. Meet(t, d)
  BY <1>1 DEF Meet
<1>3. tokenizer_encode(t \o d) = tokenizer_encode(t) \o tokenizer_encode(d)
  BY <1>1, <1>2, EncodeJoins
<1>4. EndsLine(t \o d)
  BY EndsBehind DEF FramedText
<1> QED BY <1>3, <1>4 DEF EndsLine

-----------------------------------------------------------------------------
(***************************************************************************)
(* What is framed ends a line, and so the log is the encoding of all of it *)
(* at once.                                                                *)
(***************************************************************************)

Logged ==
  /\ Loaded /\ ctrl.think \in BOOLEAN
  /\ text \in Said /\ (text # << >> => Last(text) = 10)
  /\ log = tokenizer_encode(text)

LEMMA FramingLogged ==
  ASSUME Logged, NEW d, FramedText(d), UNCHANGED <<tokenizer, merges>>, Loaded',
         log' = log \o tokenizer_encode(d), text' = text \o d
  PROVE  /\ text' \in Said /\ (text' # << >> => Last(text') = 10)
         /\ log' = tokenizer_encode(text)'
<1>1. PICK t, u : t = text /\ u = text \o d
  OBVIOUS
<1>2. /\ u \in Said /\ u # << >> /\ Last(u) = 10
      /\ tokenizer_encode(t) \o tokenizer_encode(d) = tokenizer_encode(u)
  BY <1>1, FramingJoins DEF Logged
<1>3. text' = u /\ log' = tokenizer_encode(u)
  BY <1>1, <1>2 DEF Logged
<1>4. tokenizer_encode(text)' = tokenizer_encode(u)'
  BY <1>3
<1>5. tokenizer_encode(u)' = tokenizer_encode(u)
  BY EncodeSame
<1> QED BY <1>2, <1>3, <1>4, <1>5

\* Whatever was said, asked and answered, the log is the framed text encoded
\* as a whole, and the text ends where a line ends
THEOREM AlwaysLogged == TalkSpec => []Logged
<1>1. TalkInit => Logged
  <2> SUFFICES ASSUME TalkInit PROVE Logged
    OBVIOUS
  <2>1. Loaded /\ log = << >> /\ text = << >> /\ ctrl.think \in BOOLEAN
    BY DEF TalkInit, Loaded
  <2>2. tokenizer_encode(<< >>) = << >>
    BY <2>1, EncodeNone
  <2> QED BY <2>1, <2>2, NoText DEF Logged
<1>2. Logged /\ [TalkNext]_talk => Logged'
  <2> SUFFICES ASSUME Logged, [TalkNext]_talk PROVE Logged'
    OBVIOUS
  <2>0. UNCHANGED <<tokenizer, merges>>
    BY DEF TalkNext, SystemPrompt, UserTurn, ToolRound, Answer, Say, talk
  <2>a. Loaded'
    <3>1. UNCHANGED <<vocab_strs, vocab_to_id, merge_rank, merges>>
      BY <2>0 DEF tokenizer
    <3> QED BY <3>1 DEF Loaded, Load, Logged, Tokens
  <2>1. CASE SystemPrompt
    <3>1. PICK s \in Systems, think \in BOOLEAN :
            /\ ctrl' = [tools |-> s.tools # << >>, think |-> think]
            /\ Log(jinja_format_system_block(s.text, s.effort, s.tools))
      BY <2>1 DEF SystemPrompt
    <3>2. PICK d : d = jinja_format_system_block(s.text, s.effort, s.tools)
      OBVIOUS
    <3>3. FramedText(d)
      BY <3>2, TextsAssumption, BlockFrames
    <3>4. log' = log \o tokenizer_encode(d) /\ text' = text \o d
      BY <3>1, <3>2 DEF Log
    <3>5. ctrl'.think \in BOOLEAN
      BY <3>1
    <3> QED BY <2>0, <2>a, <3>3, <3>4, <3>5, FramingLogged DEF Logged
  <2>2. CASE UserTurn
    <3>1. PICK u \in UserTexts : Log(jinja_format_turn_delta(u, ctrl.think))
      BY <2>2 DEF UserTurn
    <3>2. PICK d : d = jinja_format_turn_delta(u, ctrl.think)
      OBVIOUS
    <3>3. FramedText(d)
      BY <3>2, TextsAssumption, TurnFrames DEF Logged
    <3>4. log' = log \o tokenizer_encode(d) /\ text' = text \o d
      BY <3>1, <3>2 DEF Log
    <3>5. ctrl'.think \in BOOLEAN
      BY <2>2 DEF UserTurn, Logged
    <3> QED BY <2>0, <2>a, <3>3, <3>4, <3>5, FramingLogged DEF Logged
  <2>3. CASE ToolRound
    <3>1. PICK r \in ToolRounds : Log(Inject(Echoed(r), r.result))
      BY <2>3 DEF ToolRound, Log, Echoed
    <3>2. PICK d : d = Inject(Echoed(r), r.result)
      OBVIOUS
    <3>3. FramedText(d)
      <4>1. Echoed(r) \in Said /\ r.result \in Said /\ OpensWith(Echoed(r), Lit.tool_call)
        BY RoundsAre, EchoOpens
      <4> QED BY <3>2, <4>1, RoundFrames
    <3>4. log' = log \o tokenizer_encode(d) /\ text' = text \o d
      BY <3>1, <3>2 DEF Log
    <3>5. ctrl'.think \in BOOLEAN
      BY <2>3 DEF ToolRound, Logged
    <3> QED BY <2>0, <2>a, <3>3, <3>4, <3>5, FramingLogged DEF Logged
  <2>4. CASE Answer \/ Say \/ UNCHANGED talk
    <3>1. UNCHANGED <<tokenizer, ctrl, log, text>>
      BY <2>4 DEF Answer, Say, talk
    <3>2. PICK t : t = text
      OBVIOUS
    <3>3. tokenizer_encode(t)' = tokenizer_encode(t)
      BY <3>1, EncodeSame
    <3>4. tokenizer_encode(text)' = tokenizer_encode(t)'
      BY <3>1, <3>2
    <3> QED BY <2>a, <3>1, <3>2, <3>3, <3>4 DEF Logged
  <2> QED BY <2>1, <2>2, <2>3, <2>4 DEF TalkNext
<1> QED BY <1>1, <1>2, PTL DEF TalkSpec

\* A conversation that was encoded step by step is the conversation encoded
\* at once, and reads back
THEOREM LogIsEncoded == TalkSpec => []LogIsTheText
<1>1. Logged => LogIsTheText
  <2> SUFFICES ASSUME Logged PROVE LogIsTheText
    OBVIOUS
  <2>1. Decoded(tokenizer_encode(text)) = text
    BY EncodeReads DEF Logged
  <2> QED BY <2>1 DEF LogIsTheText, Logged
<1> QED BY <1>1, AlwaysLogged, PTL
=============================================================================
