--------------------------- MODULE SnapshotLists ----------------------------
(***************************************************************************)
(* How a component's snapshot holds a map: as its entries <<key, value>>   *)
(* by ascending key, which restore checks before it builds the map again.  *)
(***************************************************************************)
EXTENDS Integers, Sequences, FiniteSets, SequencesExt

(* insert and remove of a map. *)
Put(f, k, v) == [x \in DOMAIN f \cup {k} |-> IF x = k THEN v ELSE f[x]]
Drop(f, k)   == Restrict(f, DOMAIN f \ {k})

Listed(map) ==
    [n \in 1..Cardinality(DOMAIN map) |->
        LET key == CHOOSE k \in DOMAIN map : Cardinality({j \in DOMAIN map : j < k}) = n - 1
        IN  <<key, map[key]>>]

Ascending(list) == \A m, n \in 1..Len(list) : m < n => list[m][1] < list[n][1]

MapOf(list) == [key \in {list[n][1] : n \in 1..Len(list)} |->
                  (CHOOSE entry \in Range(list) : entry[1] = key)[2]]
=============================================================================
