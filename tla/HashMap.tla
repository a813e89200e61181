------------------------------- MODULE HashMap -------------------------------
(***************************************************************************)
(* struct map (maps.c): open addressing with linear probing and            *)
(* tombstones, which implements Dictionary.  The hash is any function, so  *)
(* that every collision happens.  An operation is one step; one whose      *)
(* probe never ends, for want of an empty slot, is the last one.           *)
(*                                                                         *)
(* The model's map begins with FirstCapacity slots, the code's with 16.    *)
(***************************************************************************)
EXTENDS Integers, FiniteSets, FiniteSetsExt, Functions

CONSTANTS
  Keys,
  Hashes,          \* values of the hash function
  FirstCapacity,
  MaxPuts,         \* bound: puts of a run
  MaxCapacity      \* bound: slots

Values == 1..MaxPuts
Nothing == 0

ASSUME HashMapAssumption ==
  /\ Hashes \subseteq Nat
  /\ FirstCapacity \in {4, 8, 16}
  /\ MaxPuts \in Nat /\ MaxCapacity \in Nat

VARIABLES
  hash,       \* map_hash
  table,      \* slot -> EMPTY, TOMBSTONE or a live entry; 0..capacity - 1
  count,
  puts,       \* values put so far: the next one is new
  freed,      \* given to value_free
  twice,      \* some value was freed, or put into the map, again
  removed,    \* keys removed since the table was allocated
  endless     \* a probe did not end

vars == <<hash, table, count, puts, freed, twice, removed, endless>>

EMPTY     == [state |-> "EMPTY"]
TOMBSTONE == [state |-> "TOMBSTONE"]
Entry(k, v) == [state |-> "LIVE", key |-> k, value |-> v]

NoTable == [i \in {} |-> EMPTY]
NewTable(n) == [i \in 0..(n - 1) |-> EMPTY]
Capacity(t) == Cardinality(DOMAIN t)
LiveSlots(t) == {i \in DOMAIN t : t[i].state = "LIVE"}

Init ==
  /\ hash \in [Keys -> Hashes]
  /\ table = NoTable /\ count = 0
  /\ puts = 0 /\ freed = {} /\ twice = FALSE
  /\ removed = {} /\ endless = FALSE

-----------------------------------------------------------------------------

\* The slot a probe for key k looks at in turn i
Probed(t, k, i) == (hash[k] + i) % Capacity(t)

Holds(e, k) == e.state = "LIVE" /\ e.key = k

\* mutant: a tombstone ends the probe
ProbeStopsAtTombstone(t, k) ==
  LET stops == {i \in 0..(Capacity(t) - 1) :
                  LET e == t[Probed(t, k, i)] IN e.state # "LIVE" \/ e.key = k}
  IN IF stops = {} THEN {} ELSE {Min(stops)}

\* The turn in which a probe for k ends: at k, or at an empty slot; there is
\* none if it goes round for ever
Probe(t, k) ==
  LET stops == {i \in 0..(Capacity(t) - 1) :
                  LET e == t[Probed(t, k, i)] IN e = EMPTY \/ Holds(e, k)}
  IN IF stops = {} THEN {} ELSE {Min(stops)}

\* map_get
Get(t, k) ==
  {t[Probed(t, k, i)].value : i \in {j \in Probe(t, k) : Holds(t[Probed(t, k, j)], k)}}

\* mutant: the old slots are copied as they are
GrownInPlace(t, n) == [i \in 0..(n - 1) |-> IF i \in DOMAIN t THEN t[i] ELSE EMPTY]

\* An old entry goes into the first empty slot on its way
Moved(new, e) ==
  IF e.state # "LIVE" THEN new
  ELSE LET free == Min({j \in 0..(Capacity(new) - 1) : new[Probed(new, e.key, j)] = EMPTY})
       IN [new EXCEPT ![Probed(new, e.key, free)] = e]

\* The new table of n slots when the first so many old slots have been moved
Rehashed(t, n) ==
  LET rehash[i \in 0..Capacity(t)] ==
        IF i = 0 THEN NewTable(n) ELSE Moved(rehash[i - 1], t[i - 1])
  IN rehash

\* map_grow
Grown(t, n) == Rehashed(t, n)[Capacity(t)]

\* mutant: the table may fill up
RoomWhenFull(t, c) ==
  IF t = NoTable THEN NewTable(FirstCapacity)
  ELSE IF c + 1 > Capacity(t) THEN Grown(t, Capacity(t) * 2) ELSE t

\* Before a put the table is made, or doubled at three quarters
Room(t, c) ==
  IF t = NoTable THEN NewTable(FirstCapacity)
  ELSE IF (c + 1) * 4 > Capacity(t) * 3 THEN Grown(t, Capacity(t) * 2) ELSE t

\* mutant: the new key goes to the tombstone at once
TargetFirst(t, k, i) ==
  LET tombs == {j \in 0..(Capacity(t) - 1) : t[Probed(t, k, j)] = TOMBSTONE /\ j < i}
  IN Probed(t, k, Min(tombs \union {i}))

\* Where a put whose probe ended in turn i writes: over the key it found, or
\* into the first tombstone on the way, or into the empty slot
Target(t, k, i) ==
  LET tombs == {j \in 0..(i - 1) : t[Probed(t, k, j)] = TOMBSTONE}
  IN Probed(t, k, IF Holds(t[Probed(t, k, i)], k) \/ tombs = {} THEN i ELSE Min(tombs))

GiveBack(values) ==
  /\ freed' = freed \union values
  /\ twice' = (twice \/ values \intersect freed # {})

Forever == endless' = TRUE /\ UNCHANGED <<hash, table, count, puts, freed, twice, removed>>

\* map_put of a new value
Put(k) ==
  /\ ~endless /\ puts < MaxPuts
  /\ \E t \in {Room(table, count)} :
       /\ Capacity(t) <= MaxCapacity
       /\ \/ \E i \in Probe(t, k) :
               LET found == Holds(t[Probed(t, k, i)], k) IN
               /\ table' = [t EXCEPT ![Target(t, k, i)] = Entry(k, puts + 1)]
               /\ count' = IF found THEN count ELSE count + 1
               /\ GiveBack(Get(t, k))
               /\ puts' = puts + 1
               /\ removed' = IF Capacity(t) = Capacity(table) THEN removed ELSE {}
               /\ UNCHANGED <<hash, endless>>
          \/ Probe(t, k) = {} /\ Forever

\* map_remove
RemoveKey(k) ==
  /\ ~endless /\ table # NoTable
  /\ \/ \E i \in Probe(table, k) :
          /\ Holds(table[Probed(table, k, i)], k)
          /\ GiveBack(Get(table, k))
          /\ table' = [table EXCEPT ![Probed(table, k, i)] = TOMBSTONE]
          /\ count' = count - 1
          /\ removed' = removed \union {k}
          /\ UNCHANGED <<hash, puts, endless>>
     \/ Probe(table, k) = {} /\ Forever

\* map_free; the map may be used again
Free ==
  /\ ~endless
  /\ GiveBack({table[i].value : i \in LiveSlots(table)})
  /\ table' = NoTable /\ count' = 0 /\ removed' = {}
  /\ UNCHANGED <<hash, puts, endless>>

Next == (\E k \in Keys : Put(k) \/ RemoveKey(k)) \/ Free

Spec == Init /\ [][Next]_vars

-----------------------------------------------------------------------------
(* What the code is right about                                            *)

Entries == {table[i] : i \in LiveSlots(table)}

(***************************************************************************)
(* map_get finds what was put last, whatever collided with it, was         *)
(* removed before it on its way, or was moved by growing; and count is the *)
(* number of keys.                                                         *)
(***************************************************************************)
GetsWhatWasPut ==
  /\ count = Cardinality({e.key : e \in Entries})
  /\ \A e \in Entries : Get(table, e.key) = {e.value}

(***************************************************************************)
(* A program that removes no key, as the tokenizer, never probes for ever: *)
(* an empty slot is left.                                                  *)
(***************************************************************************)
ProbesEnd ==
  removed = {} => ~endless /\ \A k \in Keys : table = NoTable \/ Probe(table, k) # {}

(***************************************************************************)
(* Every value put is in the map or freed, and none is freed twice.        *)
(***************************************************************************)
ValuesFreedOnce ==
  ~twice /\ {e.value : e \in Entries} = (1..puts) \ freed

\* The map as a dictionary
dict == [k \in {e.key : e \in Entries} |-> (CHOOSE e \in Entries : e.key = k).value]

D == INSTANCE Dictionary

(***************************************************************************)
(* The map implements a dictionary.                                        *)
(***************************************************************************)
IsDictionary == D!Spec
==============================================================================
