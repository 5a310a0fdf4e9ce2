---------------------------- MODULE KeyValueMap ----------------------------
(***************************************************************************)
(* What a TinySwift Dictionary and a Set promise: a finite map from keys   *)
(* to values, and a finite set, kept as the map of its elements to Present. *)
(***************************************************************************)
CONSTANTS Key, Val, NotFound, Present

VARIABLES store,  \* the keys present, each with its value
          last    \* the last call: operation, key, what was given or got

Init == store = << >> /\ last = << >>

Set(k, v) ==
  /\ store' = [x \in DOMAIN store \cup {k} |-> IF x = k THEN v ELSE store[x]]
  /\ last' = <<"set", k, v>>

Insert(k) ==
  /\ store' = [x \in DOMAIN store \cup {k} |->
                 IF x \in DOMAIN store THEN store[x] ELSE Present]
  /\ last' = <<"insert", k>>

Get(k) ==
  /\ last' = <<"get", k, IF k \in DOMAIN store THEN store[k] ELSE NotFound>>
  /\ UNCHANGED store

Contains(k) ==
  /\ last' = <<"contains", k,
               IF k \in DOMAIN store THEN Present ELSE NotFound>>
  /\ UNCHANGED store

Remove(k) ==
  /\ store' = [x \in DOMAIN store \ {k} |-> store[x]]
  /\ last' = <<"remove", k>>

Next ==
  \E k \in Key :
    \/ Get(k) \/ Contains(k) \/ Remove(k) \/ Insert(k)
    \/ \E v \in Val : Set(k, v)

Spec == Init /\ [][Next]_<<store, last>>
=============================================================================
