--------------------------- MODULE MCSwissTable ---------------------------
\* Two tables, which the symmetry of a and b makes one another's mirror.
\* Groups of two slots.  Two keys start in the same group at every size, a
\* third joins them in the smallest table and leaves them in the next.
EXTENDS SwissTable, TLC

CONSTANTS a, b, k1, k2, k3

MCHash == [k \in Key |-> CASE k = k1 -> 0 [] k = k2 -> 1
                           [] k = k3 -> 4]
MCVal == [k \in Key |-> IF k = k1 THEN {1, 2} ELSE {1}]
MCSymmetry == Permutations(Table)
=============================================================================
