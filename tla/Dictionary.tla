----------------------------- MODULE Dictionary ------------------------------
(***************************************************************************)
(* What maps.c promises: a function from keys to values, where a value     *)
(* belongs to the map from the moment it is put until it is freed.         *)
(***************************************************************************)
EXTENDS Naturals, Functions

CONSTANTS Keys, Values

VARIABLES
  dict,    \* key -> value
  freed    \* values given to value_free

vars == <<dict, freed>>

TypeOK == dict \in UNION {[K -> Values] : K \in SUBSET Keys} /\ freed \subseteq Values

Init == dict = << >> /\ freed = {}

Held(k) == {dict[j] : j \in {k} \intersect DOMAIN dict}

\* The value of a key that is already there is freed for the new one
Put(k, v) ==
  /\ dict' = [j \in DOMAIN dict \union {k} |-> IF j = k THEN v ELSE dict[j]]
  /\ freed' = freed \union Held(k)

Remove(k) ==
  /\ dict' = Restrict(dict, DOMAIN dict \ {k})
  /\ freed' = freed \union Held(k)

Free ==
  /\ dict' = << >>
  /\ freed' = freed \union {dict[k] : k \in DOMAIN dict}

Next ==
  \/ \E k \in Keys, v \in Values : Put(k, v)
  \/ \E k \in Keys : Remove(k)
  \/ Free

Spec == Init /\ [][Next]_vars
==============================================================================
