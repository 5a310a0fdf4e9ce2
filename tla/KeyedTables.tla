---------------------------- MODULE KeyedTables ----------------------------
(***************************************************************************)
(* What the Map class of common/map.h promises its users: finite maps that *)
(* can be copied, and moved from, after which a map may only be given a    *)
(* value again.                                                            *)
(***************************************************************************)
CONSTANTS Table, Key, Val   \* Val: the values of each key

VARIABLES maps,   \* [Table -> a map from keys to values]
          moved   \* the tables that were moved from: nothing may use them

None == << >>

With(m, k, v) == [x \in DOMAIN m \cup {k} |-> IF x = k THEN v ELSE m[x]]
Without(m, k) == [x \in DOMAIN m \ {k} |-> m[x]]

Init == maps = [t \in Table |-> None] /\ moved = {}

\* Only the map of t may change, to one of ms.
Becomes(t, ms) ==
  maps'[t] \in ms /\ maps' = [maps EXCEPT ![t] = maps'[t]]

\* What Insert, Update, Erase and Clear can make of a map m.
Results(m) ==
  {None, m} \cup {Without(m, k) : k \in Key}
    \cup UNION {{With(m, k, v) : v \in Val[k]} : k \in Key}

Call(t) == t \notin moved /\ UNCHANGED moved /\ Becomes(t, Results(maps[t]))

Reset(t) == moved' = moved \ {t} /\ Becomes(t, {None})

Copy(t, from) ==
  /\ moved' = IF from \in moved THEN moved \cup {t} ELSE moved \ {t}
  /\ Becomes(t, {maps[from]})

Move(t, from) ==
  /\ moved' = (IF from \in moved THEN moved \cup {t} ELSE moved \ {t})
                \cup {from}
  /\ maps' = [maps EXCEPT ![t] = maps[from], ![from] = None]

Next ==
  \E t \in Table :
    \/ Call(t) \/ Reset(t)
    \/ \E from \in Table : Copy(t, from) \/ Move(t, from)

Spec == Init /\ [][Next]_<<maps, moved>>
=============================================================================
