------------------------------- MODULE HashMap -------------------------------
(***************************************************************************)
(* The hash tables behind Dictionary and Set (runtime/tinyswift_runtime.c, *)
(* sections Generic Hash Map and Generic Hash Set): open addressing with   *)
(* linear probing and tombstones.  The two have the same code but for the  *)
(* values, which a set has none of: kind says which of them the table is.  *)
(*                                                                         *)
(* Keys are compared by eq_fn, which is equality here.  The caller passes  *)
(* the hash of the key (lower.cpp takes it from int_hash, string_hash or   *)
(* double_hash); the table computes a hash of its own, FNV over the bytes  *)
(* of the key, when it grows.  The two functions are the constants Hash    *)
(* and Rehash.  The bytes left in an empty or removed slot are never read  *)
(* and are left out; calloc does not fail.                                 *)
(***************************************************************************)
EXTENDS Integers, FiniteSets, FiniteSetsExt

CONSTANTS Key, Val,
          NotFound,  \* get found no value
          Present,   \* contains found the key
          Hash,      \* Hash[k]: the hash the caller passes for k
          Rehash,    \* Rehash[k]: the hash hashmap_rehash computes for k
          InitCap,   \* the capacity of a new table, 16 in the code
          Load,      \* HASHMAP_LOAD_FACTOR, in percent
          MaxCap     \* bound: the table is not grown beyond this capacity

ASSUME HashAssumption == Hash \in [Key -> Nat] /\ Rehash \in [Key -> Nat]
ASSUME CapAssumption ==
  /\ InitCap \in Nat \ {0} /\ MaxCap \in Nat
  /\ Load \in 1..99
ASSUME AnswerAssumption == {NotFound, Present} \cap Val = {}

VARIABLES kind,    \* "map" or "set", from the create function
          slots,   \* slots[0 .. capacity - 1]: state, key and value
          count,   \* map->count
          last     \* the last call: operation, key, what was given or got

vars == <<kind, slots, count, last>>

capacity == Cardinality(DOMAIN slots)

Vacant == [state |-> "empty"]
Tombstone == [state |-> "tombstone"]
Occupied(k, v) == [state |-> "occupied", key |-> k, value |-> v]

Holds(s, k) == s.state = "occupied" /\ s.key = k

\* What a slot may store with a key.
Values == IF kind = "map" THEN Val ELSE {Present}

TypeOK ==
  /\ kind \in {"map", "set"}
  /\ slots \in [0..(capacity - 1) ->
            {Vacant, Tombstone} \cup {Occupied(k, v) : k \in Key, v \in Values}]
  /\ count \in 0..capacity
  /\ last \in {<< >>} \cup ({"remove", "insert"} \X Key)
             \cup ({"set"} \X Key \X Val)
             \cup ({"get"} \X Key \X (Val \cup {NotFound}))
             \cup ({"contains"} \X Key \X {Present, NotFound})

Init ==
  /\ kind \in {"map", "set"}
  /\ slots = [i \in 0..(InitCap - 1) |-> Vacant]
  /\ count = 0
  /\ last = << >>

-----------------------------------------------------------------------------
\* The i-th slot that probing for hash h looks at.
Probe(table, h, i) ==
  ((h % Cardinality(DOMAIN table)) + i) % Cardinality(DOMAIN table)

\* Mutant: probing stops at a tombstone.
StopsAtTombstone(table, k) ==
  {i \in DOMAIN table :
     LET s == table[Probe(table, Hash[k], i)]
     IN  s.state # "occupied" \/ Holds(s, k)}

\* The probes at which a search for k ends: at an empty slot or at the key.
Stops(table, k) ==
  {i \in DOMAIN table :
     LET s == table[Probe(table, Hash[k], i)]
     IN  s.state = "empty" \/ Holds(s, k)}

\* The slot where the search for k ends, if it does not go all the way round.
StopSlot(table, k) == Probe(table, Hash[k], Min(Stops(table, k)))

Found(table, k) ==
  Stops(table, k) # {} /\ Holds(table[StopSlot(table, k)], k)

\* The tombstones the search for k passes before it ends.
Tombs(table, k) ==
  {i \in DOMAIN table :
     /\ table[Probe(table, Hash[k], i)].state = "tombstone"
     /\ \A j \in Stops(table, k) : i < j}

\* The slot for a key that was not found: the first tombstone passed, or the
\* empty slot where the search ended.
Target(table, k) ==
  IF Tombs(table, k) # {} THEN Probe(table, Hash[k], Min(Tombs(table, k)))
  ELSE StopSlot(table, k)

\* hashmap_rehash moves the entries, in the order of their slots, to a table
\* of twice the capacity, each to the first free slot from the hash Rehash.
Move(table, s) ==
  IF s.state # "occupied" THEN table
  ELSE LET free == {i \in DOMAIN table :
                      table[Probe(table, Rehash[s.key], i)].state # "occupied"}
       IN  [table EXCEPT ![Probe(table, Rehash[s.key], Min(free))] = s]

Rehashed ==
  LET moved[n \in 0..capacity] ==
        IF n = 0 THEN [i \in 0..(2 * capacity - 1) |-> Vacant]
        ELSE Move(moved[n - 1], slots[n - 1])
  IN  moved[capacity]

\* Mutant: the load test is off by one slot, so the table can fill up.
OverloadedWhenFull == count > capacity

Overloaded == count * 100 >= capacity * Load

\* The table for an insertion: one that is loaded grows first, whether the key
\* is new or not.
Grown == IF Overloaded THEN Rehashed ELSE slots

\* A key that was not found takes a slot.  (A search that goes all the way
\* round passes a tombstone, which takes the key.)
PutNew(table, k, v) ==
  IF Stops(table, k) = {} /\ Tombs(table, k) = {}
  THEN slots' = table /\ UNCHANGED count
  ELSE /\ slots' = [table EXCEPT ![Target(table, k)] = Occupied(k, v)]
       /\ count' = count + 1

\* __tinyswift_hashmap_set
Set(k, v) ==
  /\ kind = "map"
  /\ Overloaded => 2 * capacity <= MaxCap
  /\ IF Found(Grown, k)
     THEN /\ slots' = [Grown EXCEPT ![StopSlot(Grown, k)].value = v]
          /\ UNCHANGED count
     ELSE PutNew(Grown, k, v)
  /\ last' = <<"set", k, v>>
  /\ UNCHANGED kind

\* __tinyswift_hashset_insert: an element that is found stays as it is.
Insert(k) ==
  /\ kind = "set"
  /\ Overloaded => 2 * capacity <= MaxCap
  /\ IF Found(Grown, k) THEN slots' = Grown /\ UNCHANGED count
     ELSE PutNew(Grown, k, Present)
  /\ last' = <<"insert", k>>
  /\ UNCHANGED kind

\* __tinyswift_hashmap_get
Get(k) ==
  /\ kind = "map"
  /\ last' = <<"get", k, IF Found(slots, k) THEN slots[StopSlot(slots, k)].value
                         ELSE NotFound>>
  /\ UNCHANGED <<kind, slots, count>>

\* __tinyswift_hashmap_contains, __tinyswift_hashset_contains
Contains(k) ==
  /\ last' = <<"contains", k, IF Found(slots, k) THEN Present ELSE NotFound>>
  /\ UNCHANGED <<kind, slots, count>>

\* Mutant: a removed slot becomes empty.
RemovedIsVacant == Vacant

Removed == Tombstone

\* Mutant: the count is decremented for a key that is not there.
RemoveTwice(k) ==
  /\ slots' = IF Found(slots, k)
              THEN [slots EXCEPT ![StopSlot(slots, k)] = Removed] ELSE slots
  /\ count' = count - 1
  /\ last' = <<"remove", k>>
  /\ UNCHANGED kind

\* __tinyswift_hashmap_remove, __tinyswift_hashset_remove
Remove(k) ==
  /\ IF Found(slots, k)
     THEN /\ slots' = [slots EXCEPT ![StopSlot(slots, k)] = Removed]
          /\ count' = count - 1
     ELSE UNCHANGED <<slots, count>>
  /\ last' = <<"remove", k>>
  /\ UNCHANGED kind

Next ==
  \E k \in Key :
    \/ Get(k) \/ Contains(k) \/ Remove(k) \/ Insert(k)
    \/ \E v \in Val : Set(k, v)

Spec == Init /\ [][Next]_vars

-----------------------------------------------------------------------------
\* The pairs the table stores.
Entries == {slots[i] : i \in {j \in DOMAIN slots : slots[j].state = "occupied"}}

\* Until the table grows, every stored key is found by the probing of a caller
\* that passes its hash: no chain of removals and insertions into tombstones
\* leaves an empty slot before it or a second copy behind it.
EveryKeyIsFound ==
  capacity = InitCap =>
    \A i \in DOMAIN slots : slots[i].state = "occupied" =>
      /\ Found(slots, slots[i].key)
      /\ StopSlot(slots, slots[i].key) = i

\* The count is that of the occupied slots, across growth and the reuse of
\* tombstones, so that the load limit it is tested against leaves a slot that
\* is empty or a tombstone: set and insert never drop their key.
SlotIsLeft ==
  /\ count = Cardinality({i \in DOMAIN slots : slots[i].state = "occupied"})
  /\ \A k \in Key : Stops(Grown, k) # {} \/ Tombs(Grown, k) # {}

\* Whatever was inserted, removed and inserted again, the slots are those of
\* a table: searched keys are met, and every insertion has a slot.
TableIsSound == TypeOK /\ EveryKeyIsFound /\ SlotIsLeft

\* Until the table grows it is a map from keys to values, or a set: every get,
\* contains, set, insert and remove does what KeyValueMap says.
Store == [k \in {e.key : e \in Entries} |->
            (CHOOSE e \in Entries : e.key = k).value]

Abstract == INSTANCE KeyValueMap WITH store <- Store

IsAMap == Abstract!Init /\ [][capacity' = InitCap => Abstract!Next]_vars
===============================================================================
