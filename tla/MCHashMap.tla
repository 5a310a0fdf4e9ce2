----------------------------- MODULE MCHashMap -----------------------------
\* Two keys hash to the same slot, the others to its neighbours, and the
\* cluster they make wraps round to slot 0.
EXTENDS HashMap, TLC

CONSTANTS k1, k2, k3, k4

MCHash == [k \in Key |-> CASE k = k1 -> 3 [] k = k2 -> 3
                           [] k = k3 -> 4 [] k = k4 -> 1]
\* The hash of hashmap_rehash, another function than the caller's.
MCRehash == [k \in Key |-> CASE k = k1 -> 1 [] k = k2 -> 2
                             [] k = k3 -> 6 [] k = k4 -> 6]
=============================================================================
