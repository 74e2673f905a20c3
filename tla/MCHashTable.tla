------------------------------ MODULE MCHashTable ------------------------------
(* Two keys that collide in one bucket and in three, and not in five.  A    *)
(* client looks at one thing at a time: at the values of a key, at objects, *)
(* or at an iterator.                                                       *)
EXTENDS HashTable, TLC

CONSTANTS k1, k2, x

VARIABLE client

mcVars == <<client, tableVars>>

MCHashFunc   == k1 :> 1 @@ k2 :> 7
MCHashPrimes == <<1, 3, 5>>
MCCallbacks  == SUBSET {"copy", "free"}

MCInit ==
    /\ TableInit
    /\ client \in {"values", "objects", "iterator"}
    /\ client = "values" => callbacks = {"copy", "free"}
    /\ client = "iterator" => callbacks = {}

(* Only one client gives k1 different values, and only one has an iterator. *)
Given(k) == IF client = "values" /\ k = k1 THEN Value ELSE {x}

MCNext ==
    /\ UNCHANGED client
    /\ \/ \E k \in Key :
             \/ \E v \in Given(k) : population < MaxPopulation /\ TableInsert(k, v)
             \/ TableGet(k) \/ TableRemove(k)
       \/ TableRehash \/ RehashFree \/ TableInsertEnd \/ TableDeinit
       \/ client = "iterator" /\ (IterInit \/ IterNext)

MCSpec == MCInit /\ [][MCNext]_mcVars
=============================================================================
