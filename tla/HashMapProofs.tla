---------------------------- MODULE HashMapProofs ----------------------------
(***************************************************************************)
(* Dictionary and Set are a map and a set until their table grows, and     *)
(* never lose count of their entries, for any keys and hash functions, any *)
(* first capacity and any load limit below 100 percent.                    *)
(***************************************************************************)
EXTENDS HashMap, FiniteSetTheorems, WellFoundedInduction, TLAPS

-----------------------------------------------------------------------------
(* Numbers.                                                                 *)

LEMMA LeastExists ==
  ASSUME NEW T \in SUBSET Nat, T # {}
  PROVE  \E n \in T : \A m \in T : n <= m
  <1> DEFINE R == {pair \in Nat \X Nat : pair[1] < pair[2]}
  <1>1. IsWellFoundedOn(R, Nat)
    BY NatLessThanWellFounded DEF OpToRel
  <1> HIDE DEF R
  <1>2. PICK n \in T : \A m \in T : <<m, n>> \notin R
    BY <1>1, WFMin
  <1>3. \A m \in T : ~(m < n)
    BY <1>2 DEF R
  <1> QED BY <1>3

LEMMA MinIsLeast ==
  ASSUME NEW T \in SUBSET Nat, T # {}
  PROVE  Min(T) \in T /\ \A m \in T : Min(T) <= m
  BY LeastExists DEF Min

LEMMA WrapsOnce ==
  ASSUME NEW c \in Nat \ {0}, NEW x \in 0..(2 * c - 1)
  PROVE  x % c = IF x < c THEN x ELSE x - c
  OBVIOUS

LEMMA ModRange ==
  ASSUME NEW c \in Nat \ {0}, NEW h \in Nat
  PROVE  h % c \in 0..(c - 1)
  OBVIOUS

-----------------------------------------------------------------------------
(* Tables.                                                                  *)

\* What a slot contains.
Contents == {Vacant, Tombstone} \cup {Occupied(k, v) : k \in Key, v \in Values}

IsTable(table, c) == c \in Nat \ {0} /\ table \in [0..(c - 1) -> Contents]

Taken(table) == {i \in DOMAIN table : table[i].state = "occupied"}

\* No search for a stored key ends before it.
Reachable(table) ==
  \A k \in Key, d \in DOMAIN table :
    Holds(table[Probe(table, Hash[k], d)], k) =>
      \A j \in Stops(table, k) : d <= j

LEMMA ContentKinds ==
  ASSUME NEW s \in Contents
  PROVE  /\ s.state \in {"empty", "tombstone", "occupied"}
         /\ s.state = "occupied" =>
              /\ s.key \in Key /\ s.value \in Values
              /\ s = Occupied(s.key, s.value)
  BY DEF Contents, Vacant, Tombstone, Occupied

LEMMA OccupiedContent ==
  ASSUME NEW k \in Key, NEW v \in Values
  PROVE  /\ Occupied(k, v) \in Contents /\ Occupied(k, v).state = "occupied"
         /\ Occupied(k, v).key = k /\ Occupied(k, v).value = v
  BY DEF Contents, Occupied

LEMMA TableSize ==
  ASSUME NEW table, NEW c, IsTable(table, c)
  PROVE  /\ DOMAIN table = 0..(c - 1) /\ Cardinality(DOMAIN table) = c
         /\ Taken(table) \subseteq 0..(c - 1)
         /\ IsFiniteSet(Taken(table))
         /\ Cardinality(Taken(table)) \in 0..c
         /\ Cardinality(Taken(table)) < c =>
              \E i \in 0..(c - 1) : table[i].state # "occupied"
  <1>1. DOMAIN table = 0..(c - 1) /\ c \in Nat \ {0}
    BY DEF IsTable
  <1>2. IsFiniteSet(0..(c - 1)) /\ Cardinality(0..(c - 1)) = c
    BY <1>1, FS_Interval
  <1>3. Taken(table) \in SUBSET (0..(c - 1))
    BY <1>1 DEF Taken
  <1>4. /\ IsFiniteSet(Taken(table)) /\ Cardinality(Taken(table)) <= c
    BY <1>2, <1>3, FS_Subset
  <1>5. Cardinality(Taken(table)) \in Nat
    BY <1>4, FS_CardinalityType
  <1>6. ASSUME \A i \in 0..(c - 1) : table[i].state = "occupied"
        PROVE  Cardinality(Taken(table)) = c
    <2>1. Taken(table) = 0..(c - 1)
      BY <1>1, <1>6 DEF Taken
    <2> QED BY <1>2, <2>1
  <1> QED BY <1>1, <1>2, <1>3, <1>4, <1>5, <1>6

\* The probes for a hash visit every slot once.
LEMMA ProbesVisit ==
  ASSUME NEW table, NEW c, IsTable(table, c), NEW h \in Nat
  PROVE  /\ \A i \in 0..(c - 1) : Probe(table, h, i) \in 0..(c - 1)
         /\ \A j \in 0..(c - 1) : \E i \in 0..(c - 1) : Probe(table, h, i) = j
         /\ \A i, j \in 0..(c - 1) :
              Probe(table, h, i) = Probe(table, h, j) => i = j
  <1> DEFINE a == h % c
  <1>1. c \in Nat \ {0} /\ a \in 0..(c - 1)
    BY ModRange DEF IsTable
  <1> HIDE DEF a
  <1>2. ASSUME NEW i \in 0..(c - 1)
        PROVE  Probe(table, h, i) = IF a + i < c THEN a + i ELSE (a + i) - c
    <2> DEFINE x == a + i
    <2>1. x \in 0..(2 * c - 1)
      BY <1>1
    <2>2. Probe(table, h, i) = x % c
      BY TableSize DEF Probe, a
    <2> HIDE DEF x
    <2>3. x % c = IF x < c THEN x ELSE x - c
      BY <1>1, <2>1, WrapsOnce
    <2>4. Probe(table, h, i) = IF x < c THEN x ELSE x - c
      BY <2>2, <2>3
    <2> QED BY <2>4 DEF x
  <1>3. ASSUME NEW j \in 0..(c - 1)
        PROVE  \E i \in 0..(c - 1) : Probe(table, h, i) = j
    <2>1. CASE a <= j
      BY <1>1, <1>2, <2>1, j - a \in 0..(c - 1)
    <2>2. CASE j < a
      BY <1>1, <1>2, <2>2, j - a + c \in 0..(c - 1)
    <2> QED BY <1>1, <2>1, <2>2
  <1> QED BY <1>1, <1>2, <1>3

\* What a search for k ends at, and what it passes.
LEMMA SearchFacts ==
  ASSUME NEW table, NEW c, IsTable(table, c), NEW k \in Key
  PROVE  /\ Stops(table, k) \subseteq 0..(c - 1)
         /\ Tombs(table, k) \subseteq 0..(c - 1)
         /\ Stops(table, k) # {} =>
              /\ Min(Stops(table, k)) \in Stops(table, k)
              /\ \A j \in Stops(table, k) : Min(Stops(table, k)) <= j
              /\ StopSlot(table, k) \in 0..(c - 1)
              /\ \/ table[StopSlot(table, k)].state = "empty"
                 \/ Holds(table[StopSlot(table, k)], k)
         /\ Tombs(table, k) # {} =>
              /\ Min(Tombs(table, k)) \in Tombs(table, k)
              /\ Probe(table, Hash[k], Min(Tombs(table, k))) \in 0..(c - 1)
              /\ table[Probe(table, Hash[k], Min(Tombs(table, k)))].state = "tombstone"
              /\ \A j \in Stops(table, k) : Min(Tombs(table, k)) < j
  <1>1. DOMAIN table = 0..(c - 1) /\ Hash[k] \in Nat
    BY TableSize, HashAssumption
  <1>2. \A i \in 0..(c - 1) : Probe(table, Hash[k], i) \in 0..(c - 1)
    BY <1>1, ProbesVisit
  <1>3. /\ Stops(table, k) \subseteq 0..(c - 1) /\ Stops(table, k) \in SUBSET Nat
        /\ Tombs(table, k) \subseteq 0..(c - 1) /\ Tombs(table, k) \in SUBSET Nat
    BY <1>1 DEF Stops, Tombs
  <1>4. ASSUME Stops(table, k) # {}
        PROVE  /\ Min(Stops(table, k)) \in Stops(table, k)
               /\ \A j \in Stops(table, k) : Min(Stops(table, k)) <= j
               /\ StopSlot(table, k) \in 0..(c - 1)
               /\ \/ table[StopSlot(table, k)].state = "empty"
                  \/ Holds(table[StopSlot(table, k)], k)
    <2>1. /\ Min(Stops(table, k)) \in Stops(table, k)
          /\ \A j \in Stops(table, k) : Min(Stops(table, k)) <= j
      BY <1>3, <1>4, MinIsLeast
    <2> QED BY <1>2, <1>3, <2>1 DEF Stops, StopSlot
  <1>5. ASSUME Tombs(table, k) # {}
        PROVE  /\ Min(Tombs(table, k)) \in Tombs(table, k)
               /\ Probe(table, Hash[k], Min(Tombs(table, k))) \in 0..(c - 1)
               /\ table[Probe(table, Hash[k], Min(Tombs(table, k)))].state = "tombstone"
               /\ \A j \in Stops(table, k) : Min(Tombs(table, k)) < j
    <2>1. Min(Tombs(table, k)) \in Tombs(table, k)
      BY <1>3, <1>5, MinIsLeast
    <2> QED BY <1>2, <1>3, <2>1 DEF Tombs
  <1> QED BY <1>3, <1>4, <1>5

\* In a table whose keys are reachable a key has one slot, and is found there.
LEMMA ReachableFound ==
  ASSUME NEW table, NEW c, IsTable(table, c), Reachable(table), NEW k \in Key,
         NEW i \in 0..(c - 1), Holds(table[i], k)
  PROVE  Found(table, k) /\ StopSlot(table, k) = i
  <1>1. DOMAIN table = 0..(c - 1) /\ Hash[k] \in Nat
    BY TableSize, HashAssumption
  <1>2. PICK d \in 0..(c - 1) : Probe(table, Hash[k], d) = i
    <2>1. \A j \in 0..(c - 1) : \E n \in 0..(c - 1) : Probe(table, Hash[k], n) = j
      BY <1>1, ProbesVisit
    <2> QED BY <2>1
  <1>3. d \in Stops(table, k) /\ \A j \in Stops(table, k) : d <= j
    BY <1>1, <1>2 DEF Stops, Reachable
  <1>4. Min(Stops(table, k)) = d
    <2>1. /\ Min(Stops(table, k)) \in Stops(table, k)
          /\ Min(Stops(table, k)) <= d /\ d <= Min(Stops(table, k))
      BY <1>3, SearchFacts
    <2>2. Stops(table, k) \subseteq 0..(c - 1) /\ c \in Nat
      BY SearchFacts DEF IsTable
    <2> QED BY <2>1, <2>2
  <1>5. StopSlot(table, k) = i
    BY <1>2, <1>4 DEF StopSlot
  <1> QED BY <1>3, <1>5 DEF Found

LEMMA FoundIsStored ==
  ASSUME NEW table, NEW c, IsTable(table, c), NEW k \in Key, Found(table, k)
  PROVE  StopSlot(table, k) \in 0..(c - 1) /\ Holds(table[StopSlot(table, k)], k)
  BY SearchFacts DEF Found

\* A table with a slot to spare has one for every key.
LEMMA SlotForKey ==
  ASSUME NEW table, NEW c, IsTable(table, c), NEW k \in Key,
         Cardinality(Taken(table)) < c
  PROVE  Stops(table, k) # {} \/ Tombs(table, k) # {}
  <1>1. DOMAIN table = 0..(c - 1) /\ Hash[k] \in Nat
    BY TableSize, HashAssumption
  <1>2. PICK j \in 0..(c - 1) : table[j].state # "occupied"
    BY TableSize
  <1>3. PICK d \in 0..(c - 1) : Probe(table, Hash[k], d) = j
    <2>1. \A i \in 0..(c - 1) : \E n \in 0..(c - 1) : Probe(table, Hash[k], n) = i
      BY <1>1, ProbesVisit
    <2> QED BY <2>1
  <1>4. table[j] \in Contents
    BY DEF IsTable
  <1>5. table[j].state = "empty" \/ table[j].state = "tombstone"
    BY <1>2, <1>4, ContentKinds
  <1>6. CASE table[j].state = "empty"
    BY <1>1, <1>3, <1>6 DEF Stops
  <1>7. CASE table[j].state = "tombstone"
    BY <1>1, <1>3, <1>7 DEF Tombs
  <1> QED BY <1>5, <1>6, <1>7

-----------------------------------------------------------------------------
(* What a call does to the slots.                                           *)

\* The entry of a key that was not found goes where a search passes last.
LEMMA PutFacts ==
  ASSUME NEW table, NEW c, IsTable(table, c), NEW k \in Key, NEW v \in Values,
         ~Found(table, k), Cardinality(Taken(table)) < c
  PROVE  LET next == [table EXCEPT ![Target(table, k)] = Occupied(k, v)]
         IN  /\ Target(table, k) \in 0..(c - 1)
             /\ table[Target(table, k)].state # "occupied"
             /\ IsTable(next, c)
             /\ Cardinality(Taken(next)) = Cardinality(Taken(table)) + 1
             /\ Reachable(table) => Reachable(next)
  <1> DEFINE p == Target(table, k)
             next == [table EXCEPT ![p] = Occupied(k, v)]
  <1>1. DOMAIN table = 0..(c - 1) /\ Hash[k] \in Nat /\ c \in Nat
    BY TableSize, HashAssumption DEF IsTable
  <1>2. \E d \in 0..(c - 1) :
          /\ Probe(table, Hash[k], d) = p /\ p \in 0..(c - 1)
          /\ table[p].state # "occupied"
          /\ \A j \in Stops(table, k) : d <= j
    <2>1. CASE Tombs(table, k) # {}
      <3>1. p = Probe(table, Hash[k], Min(Tombs(table, k)))
        BY <2>1 DEF Target
      <3>2. /\ Min(Tombs(table, k)) \in 0..(c - 1)
            /\ p \in 0..(c - 1) /\ table[p].state = "tombstone"
            /\ \A j \in Stops(table, k) : Min(Tombs(table, k)) < j
        BY <2>1, <3>1, SearchFacts
      <3>3. \A j \in Stops(table, k) : j \in 0..(c - 1)
        BY SearchFacts
      <3>4. \A j \in Stops(table, k) : Min(Tombs(table, k)) <= j
        BY <1>1, <3>2, <3>3
      <3> QED BY <3>1, <3>2, <3>4
    <2>2. CASE Tombs(table, k) = {}
      <3>1. Stops(table, k) # {}
        BY <2>2, SlotForKey
      <3>2. p = StopSlot(table, k)
        BY <2>2 DEF Target
      <3>3. /\ Min(Stops(table, k)) \in 0..(c - 1)
            /\ p \in 0..(c - 1)
            /\ \A j \in Stops(table, k) : Min(Stops(table, k)) <= j
            /\ table[p].state = "empty" \/ Holds(table[p], k)
        BY <3>1, <3>2, SearchFacts
      <3>4. ~Holds(table[p], k)
        BY <3>1, <3>2 DEF Found
      <3>5. Probe(table, Hash[k], Min(Stops(table, k))) = p
        BY <3>2 DEF StopSlot
      <3> QED BY <3>3, <3>4, <3>5
    <2> QED BY <2>1, <2>2
  <1>3. PICK d \in 0..(c - 1) :
          /\ Probe(table, Hash[k], d) = p /\ p \in 0..(c - 1)
          /\ table[p].state # "occupied"
          /\ \A j \in Stops(table, k) : d <= j
    BY <1>2
  <1> HIDE DEF p
  <1>4. IsTable(next, c) /\ DOMAIN next = DOMAIN table
    BY <1>1, <1>3, OccupiedContent DEF IsTable
  <1>5. Cardinality(Taken(next)) = Cardinality(Taken(table)) + 1
    <2>1. Taken(next) = Taken(table) \cup {p} /\ p \notin Taken(table)
      BY <1>1, <1>3, <1>4, OccupiedContent DEF Taken
    <2> QED BY <2>1, TableSize, FS_AddElement
  <1>6. \A h, n : Probe(next, h, n) = Probe(table, h, n)
    BY <1>4 DEF Probe
  <1>7. ASSUME Reachable(table)
        PROVE  Reachable(next)
    <2> SUFFICES ASSUME NEW x \in Key, NEW e \in 0..(c - 1),
                        Holds(next[Probe(table, Hash[x], e)], x),
                        NEW j \in Stops(next, x)
                 PROVE  e <= j
      BY <1>1, <1>4, <1>6 DEF Reachable
    <2>1. /\ Hash[x] \in Nat
          /\ \A n \in 0..(c - 1) : Probe(table, Hash[x], n) \in 0..(c - 1)
      BY HashAssumption, ProbesVisit
    <2>2. /\ j \in 0..(c - 1)
          /\ \/ next[Probe(table, Hash[x], j)].state = "empty"
             \/ Holds(next[Probe(table, Hash[x], j)], x)
      BY <1>1, <1>4, <1>6 DEF Stops
    <2>3. CASE x = k
      <3>0. \A n, m \in 0..(c - 1) :
              Probe(table, Hash[k], n) = Probe(table, Hash[k], m) => n = m
        BY <1>1, ProbesVisit
      <3>1. \A i \in 0..(c - 1) : ~Holds(table[i], k)
        BY <1>7, ReachableFound
      <3>2. \A i \in 0..(c - 1) : Holds(next[i], k) => i = p
        BY <1>1, <3>1
      <3>3. Probe(table, Hash[k], e) = p
        BY <2>1, <2>3, <3>2
      <3>4. e = d
        BY <1>3, <3>0, <3>3
      <3>5. CASE Probe(table, Hash[k], j) = p
        <4>1. j = d
          BY <1>3, <2>2, <3>0, <3>5
        <4> QED BY <3>4, <4>1
      <3>6. CASE Probe(table, Hash[k], j) # p
        <4>1. j \in Stops(table, k)
          BY <1>1, <2>1, <2>2, <2>3, <3>6 DEF Stops
        <4> QED BY <1>3, <3>4, <4>1
      <3> QED BY <3>5, <3>6
    <2>4. CASE x # k
      <3>1. Probe(table, Hash[x], e) # p /\ Probe(table, Hash[x], j) # p
        BY <1>1, <1>3, <2>1, <2>2, <2>4, OccupiedContent DEF Holds
      <3>2. Holds(table[Probe(table, Hash[x], e)], x) /\ j \in Stops(table, x)
        BY <1>1, <2>1, <2>2, <3>1 DEF Stops
      <3> QED BY <1>1, <1>7, <3>2 DEF Reachable
    <2> QED BY <2>3, <2>4
  <1> QED BY <1>3, <1>4, <1>5, <1>7 DEF p

\* The value of a stored key is replaced.
LEMMA ReplaceFacts ==
  ASSUME NEW table, NEW c, IsTable(table, c), NEW k \in Key, NEW v \in Values,
         Found(table, k)
  PROVE  LET p == StopSlot(table, k)
             next == [table EXCEPT ![p].value = v]
         IN  /\ p \in 0..(c - 1) /\ Holds(table[p], k)
             /\ next[p] = Occupied(k, v)
             /\ \A i \in 0..(c - 1) : i # p => next[i] = table[i]
             /\ IsTable(next, c) /\ Taken(next) = Taken(table)
             /\ Reachable(table) => Reachable(next)
  <1> DEFINE p == StopSlot(table, k)
             next == [table EXCEPT ![p].value = v]
  <1>1. p \in 0..(c - 1) /\ Holds(table[p], k)
    BY FoundIsStored
  <1> HIDE DEF p
  <1>2. DOMAIN table = 0..(c - 1) /\ table[p] \in Contents
    BY <1>1, TableSize DEF IsTable
  <1>3. /\ table[p].key = k /\ table[p] = Occupied(k, table[p].value)
        /\ table[p].state = "occupied"
    BY <1>1, <1>2, ContentKinds DEF Holds
  <1>4. [table[p] EXCEPT !.value = v] = Occupied(k, v)
    BY <1>3 DEF Occupied
  <1>5. next = [table EXCEPT ![p] = Occupied(k, v)]
    BY <1>2, <1>4
  <1>6. IsTable(next, c)
    BY <1>1, <1>5, OccupiedContent DEF IsTable
  <1>7. /\ DOMAIN next = DOMAIN table
        /\ \A i \in 0..(c - 1) : /\ next[i].state = table[i].state
                                 /\ \A x : Holds(next[i], x) <=> Holds(table[i], x)
    BY <1>1, <1>2, <1>3, <1>5, OccupiedContent DEF Holds
  <1>8. Taken(next) = Taken(table)
    BY <1>2, <1>7 DEF Taken
  <1>9. Reachable(table) => Reachable(next)
    <2>1. \A h, n : Probe(next, h, n) = Probe(table, h, n)
      BY <1>7 DEF Probe
    <2>2. \A x \in Key, n \in 0..(c - 1) : Probe(table, Hash[x], n) \in 0..(c - 1)
      BY HashAssumption, ProbesVisit
    <2> HIDE DEF next
    <2>3. \A x \in Key : Stops(next, x) \subseteq Stops(table, x)
      BY <1>2, <1>7, <2>1, <2>2 DEF Stops
    <2> QED BY <1>2, <1>7, <2>1, <2>2, <2>3 DEF Reachable
  <1>10. next[p] = Occupied(k, v) /\ \A i \in 0..(c - 1) : i # p => next[i] = table[i]
    BY <1>1, <1>2, <1>5
  <1> QED BY <1>1, <1>6, <1>8, <1>9, <1>10 DEF p

\* A stored key leaves a tombstone.
LEMMA RemoveFacts ==
  ASSUME NEW table, NEW c, IsTable(table, c), NEW k \in Key, Found(table, k)
  PROVE  LET p == StopSlot(table, k)
             next == [table EXCEPT ![p] = Removed]
         IN  /\ p \in 0..(c - 1) /\ Holds(table[p], k)
             /\ IsTable(next, c)
             /\ Cardinality(Taken(next)) = Cardinality(Taken(table)) - 1
             /\ Reachable(table) => Reachable(next)
  <1> DEFINE p == StopSlot(table, k)
             next == [table EXCEPT ![p] = Removed]
  <1>1. p \in 0..(c - 1) /\ Holds(table[p], k)
    BY FoundIsStored
  <1> HIDE DEF p
  <1>2. DOMAIN table = 0..(c - 1) /\ table[p].state = "occupied"
    BY <1>1, TableSize DEF Holds
  <1>3. /\ Removed \in Contents /\ Removed.state = "tombstone"
    BY DEF Contents, Removed, Tombstone
  <1>4. IsTable(next, c) /\ DOMAIN next = DOMAIN table
    BY <1>1, <1>3 DEF IsTable
  <1>5. Cardinality(Taken(next)) = Cardinality(Taken(table)) - 1
    <2>1. Taken(next) = Taken(table) \ {p} /\ p \in Taken(table)
      BY <1>1, <1>2, <1>3, <1>4 DEF Taken
    <2> QED BY <2>1, TableSize, FS_RemoveElement
  <1>6. \A i \in 0..(c - 1) : /\ next[i].state = "empty" => table[i].state = "empty"
                             /\ \A x : Holds(next[i], x) => Holds(table[i], x)
    BY <1>1, <1>2, <1>3 DEF Holds
  <1>7. Reachable(table) => Reachable(next)
    <2>1. \A h, n : Probe(next, h, n) = Probe(table, h, n)
      BY <1>4 DEF Probe
    <2>2. \A x \in Key, n \in 0..(c - 1) : Probe(table, Hash[x], n) \in 0..(c - 1)
      BY HashAssumption, ProbesVisit
    <2>3. \A x \in Key : Stops(next, x) \subseteq Stops(table, x)
      BY <1>2, <1>4, <1>6, <2>1, <2>2 DEF Stops
    <2> QED BY <1>2, <1>4, <1>6, <2>1, <2>2, <2>3 DEF Reachable
  <1> QED BY <1>1, <1>4, <1>5, <1>7 DEF p

-----------------------------------------------------------------------------
(* Growth.  The larger table is defined by recursion over the slots of the  *)
(* old one; that there is one, and what it holds, is shown by a least       *)
(* number of slots for which it would fail.                                 *)

Fresh == [i \in 0..(2 * capacity - 1) |-> Vacant]

\* f[m] is the larger table when the first m slots have been moved.
Moves(f, n) ==
  /\ f = [m \in 0..n |-> f[m]] /\ f[0] = Fresh
  /\ \A m \in 1..n : f[m] = Move(f[m - 1], slots[m - 1])

LEMMA MovesExist ==
  ASSUME NEW n \in Nat
  PROVE  \E f : Moves(f, n)
  <1> DEFINE T == {m \in Nat : ~\E f : Moves(f, m)}
  <1> SUFFICES T = {}
    OBVIOUS
  <1> SUFFICES ASSUME T # {} PROVE FALSE
    OBVIOUS
  <1>1. PICK m \in T : \A x \in T : m <= x
    BY LeastExists
  <1>2. m # 0
    <2>1. Moves([x \in 0..0 |-> Fresh], 0)
      BY DEF Moves
    <2> QED BY <1>1, <2>1
  <1>3. m - 1 \in Nat /\ m - 1 \notin T
    BY <1>1, <1>2
  <1>4. PICK f : Moves(f, m - 1)
    BY <1>3
  <1> DEFINE g == [x \in 0..m |-> IF x = m THEN Move(f[m - 1], slots[m - 1]) ELSE f[x]]
  <1>5. Moves(g, m)
    <2>1. g = [x \in 0..m |-> g[x]] /\ g[0] = Fresh
      BY <1>2, <1>3, <1>4 DEF Moves
    <2>2. ASSUME NEW x \in 1..m
          PROVE  g[x] = Move(g[x - 1], slots[x - 1])
      <3>1. x - 1 \in 0..m /\ x - 1 # m /\ x \in 0..m
        BY <1>1
      <3>2. g[x - 1] = f[x - 1]
        BY <3>1
      <3>3. CASE x = m
        BY <3>1, <3>2, <3>3
      <3>4. CASE x # m
        <4>1. x \in 1..(m - 1)
          BY <1>1, <3>4
        <4>2. f[x] = Move(f[x - 1], slots[x - 1])
          BY <1>4, <4>1 DEF Moves
        <4> QED BY <3>1, <3>2, <3>4, <4>2
      <3> QED BY <3>3, <3>4
    <2> QED BY <2>1, <2>2 DEF Moves
  <1> QED BY <1>1, <1>5

LEMMA RehashedIsMoved ==
  ASSUME capacity \in Nat
  PROVE  \E f : Moves(f, capacity) /\ Rehashed = f[capacity]
  <1> DEFINE body(f) == [n \in 0..capacity |->
                           IF n = 0 THEN Fresh ELSE Move(f[n - 1], slots[n - 1])]
             moved == CHOOSE f : f = body(f)
  <1>1. PICK f : Moves(f, capacity)
    BY MovesExist
  <1>2. f = body(f)
    <2>1. ASSUME NEW n \in 0..capacity
          PROVE  f[n] = IF n = 0 THEN Fresh ELSE Move(f[n - 1], slots[n - 1])
      BY <1>1 DEF Moves
    <2> QED BY <1>1, <2>1 DEF Moves
  <1>3. moved = body(moved)
    BY <1>2
  <1>4. Rehashed = moved[capacity]
    BY DEF Rehashed, Fresh
  <1> HIDE DEF moved
  <1>5. Moves(moved, capacity)
    <2>1. moved = [n \in 0..capacity |-> moved[n]]
      BY <1>3
    <2>2. moved[0] = Fresh
      BY <1>3
    <2>3. ASSUME NEW m \in 1..capacity
          PROVE  moved[m] = Move(moved[m - 1], slots[m - 1])
      <3>1. m \in 0..capacity /\ m # 0
        OBVIOUS
      <3> QED BY <1>3, <3>1
    <2> QED BY <2>1, <2>2, <2>3 DEF Moves
  <1> QED BY <1>4, <1>5

\* Moving an entry to a table with room takes one more slot of it.
LEMMA MoveFacts ==
  ASSUME NEW table, NEW c, IsTable(table, c), NEW s \in Contents,
         Cardinality(Taken(table)) < c
  PROVE  /\ IsTable(Move(table, s), c)
         /\ Cardinality(Taken(Move(table, s))) =
              IF s.state = "occupied" THEN Cardinality(Taken(table)) + 1
              ELSE Cardinality(Taken(table))
  <1>1. CASE s.state # "occupied"
    BY <1>1 DEF Move
  <1>2. CASE s.state = "occupied"
    <2> DEFINE h == Rehash[s.key]
               free == {i \in DOMAIN table :
                          table[Probe(table, h, i)].state # "occupied"}
               p == Probe(table, h, Min(free))
               next == [table EXCEPT ![p] = s]
    <2>1. h \in Nat /\ DOMAIN table = 0..(c - 1)
      BY <1>2, ContentKinds, HashAssumption, TableSize
    <2>2. PICK j \in 0..(c - 1) : table[j].state # "occupied"
      BY TableSize
    <2>3. /\ \A i \in 0..(c - 1) : Probe(table, h, i) \in 0..(c - 1)
          /\ \A i \in 0..(c - 1) : \E n \in 0..(c - 1) : Probe(table, h, n) = i
      BY <2>1, ProbesVisit
    <2>4. free # {} /\ free \in SUBSET Nat /\ free \subseteq 0..(c - 1)
      <3>1. PICK n \in 0..(c - 1) : Probe(table, h, n) = j
        BY <2>3
      <3>2. n \in free
        BY <2>1, <2>2, <3>1
      <3> QED BY <2>1, <3>2
    <2>5. Min(free) \in free
      BY <2>4, MinIsLeast
    <2>6. p \in 0..(c - 1) /\ table[p].state # "occupied"
      BY <2>1, <2>3, <2>4, <2>5
    <2>7. Move(table, s) = next
      BY <1>2 DEF Move
    <2> HIDE DEF p
    <2>8. IsTable(next, c) /\ DOMAIN next = DOMAIN table
      BY <2>1, <2>6 DEF IsTable
    <2>9. Taken(next) = Taken(table) \cup {p} /\ p \notin Taken(table)
      BY <1>2, <2>1, <2>6, <2>8 DEF Taken
    <2>10. Cardinality(Taken(next)) = Cardinality(Taken(table)) + 1
      BY <2>9, TableSize, FS_AddElement
    <2> QED BY <1>2, <2>7, <2>8, <2>10
  <1> QED BY <1>1, <1>2

\* The larger table holds as many entries as the old one.
LEMMA RehashedFacts ==
  ASSUME IsTable(slots, capacity)
  PROVE  /\ IsTable(Rehashed, 2 * capacity)
         /\ Cardinality(Taken(Rehashed)) = Cardinality(Taken(slots))
  <1> DEFINE c == capacity
             First(m) == {i \in 0..(m - 1) : slots[i].state = "occupied"}
  <1>1. c \in Nat \ {0} /\ DOMAIN slots = 0..(c - 1)
        /\ \A i \in 0..(c - 1) : slots[i] \in Contents
    BY DEF IsTable
  <1>2. PICK f : Moves(f, c) /\ Rehashed = f[c]
    BY <1>1, RehashedIsMoved
  <1> HIDE DEF c
  <1> DEFINE Good(m) == /\ IsTable(f[m], 2 * c) /\ IsFiniteSet(First(m))
                        /\ Cardinality(Taken(f[m])) = Cardinality(First(m))
                        /\ Cardinality(First(m)) \in 0..m
             T == {m \in 0..c : ~Good(m)}
  <1>3. Good(0)
    <2>1. f[0] = [i \in 0..(2 * c - 1) |-> Vacant]
      BY <1>2 DEF Moves, Fresh, c
    <2>2. First(0) = {} /\ Taken(f[0]) = {}
      BY <2>1 DEF Taken, Vacant
    <2>3. 2 * c \in Nat \ {0} /\ Vacant \in Contents
      BY <1>1 DEF Contents
    <2>4. IsTable(f[0], 2 * c)
      BY <2>1, <2>3 DEF IsTable
    <2> QED BY <2>2, <2>4, FS_EmptySet
  <1>4. ASSUME NEW m \in 0..c, m # 0, Good(m - 1)
        PROVE  Good(m)
    <2> DEFINE n == m - 1
               s == slots[n]
    <2>1. n \in 0..(c - 1) /\ s \in Contents /\ f[m] = Move(f[n], s)
      <3>1. m \in 1..c /\ n \in 0..(c - 1)
        BY <1>1, <1>4
      <3> QED BY <1>1, <1>2, <3>1 DEF Moves
    <2>2. IsTable(f[n], 2 * c) /\ Cardinality(Taken(f[n])) < 2 * c
      BY <1>1, <1>4
    <2>3. /\ IsTable(f[m], 2 * c)
          /\ Cardinality(Taken(f[m])) =
               IF s.state = "occupied" THEN Cardinality(Taken(f[n])) + 1
               ELSE Cardinality(Taken(f[n]))
      BY <2>1, <2>2, MoveFacts
    <2>4. /\ s.state # "occupied" => First(m) = First(n)
          /\ s.state = "occupied" => First(m) = First(n) \cup {n}
          /\ n \notin First(n)
      BY <1>1, <2>1
    <2>5. IsFiniteSet(First(n)) /\ Cardinality(Taken(f[n])) = Cardinality(First(n))
          /\ Cardinality(First(n)) \in 0..n
      BY <1>4
    <2> HIDE DEF First
    <2>6. /\ IsFiniteSet(First(m))
          /\ Cardinality(First(m)) = IF s.state = "occupied"
                                     THEN Cardinality(First(n)) + 1
                                     ELSE Cardinality(First(n))
      BY <2>4, <2>5, FS_AddElement
    <2>7. Cardinality(First(m)) \in 0..m
      BY <1>4, <2>5, <2>6
    <2> QED BY <2>3, <2>5, <2>6, <2>7
  <1>5. T = {}
    <2> HIDE DEF Good
    <2> SUFFICES ASSUME T # {} PROVE FALSE
      OBVIOUS
    <2>1. T \in SUBSET Nat
      BY <1>1
    <2>2. PICK m \in T : \A x \in T : m <= x
      BY <2>1, LeastExists
    <2>3. m \in 0..c /\ m # 0 /\ ~Good(m)
      BY <1>3, <2>2
    <2>4. m - 1 \in 0..c /\ m - 1 \notin T
      BY <1>1, <2>2, <2>3
    <2>5. Good(m - 1)
      BY <2>4
    <2> QED BY <1>4, <2>3, <2>5
  <1>6. Good(c)
    <2> HIDE DEF Good
    <2> QED BY <1>1, <1>5
  <1>7. First(c) = Taken(slots)
    BY <1>1 DEF Taken
  <1> QED BY <1>2, <1>6, <1>7 DEF c

-----------------------------------------------------------------------------
(* The invariant.  Growth places a key by another hash than the callers     *)
(* search by, so that only a table that has not grown keeps its keys        *)
(* reachable; every table keeps count.                                      *)

IInv ==
  /\ TypeOK
  /\ IsTable(slots, capacity) /\ capacity >= InitCap
  /\ count = Cardinality(Taken(slots))
  /\ capacity = InitCap => Reachable(slots)

\* The table an insertion works on has a slot to spare.
LEMMA GrownFacts ==
  ASSUME IInv
  PROVE  \E d \in Nat :
           /\ IsTable(Grown, d) /\ d >= InitCap
           /\ Cardinality(Taken(Grown)) = count /\ count < d
           /\ d = InitCap => Grown = slots /\ Reachable(slots)
  <1> DEFINE c == capacity
  <1>1. /\ IsTable(slots, c) /\ c \in Nat \ {0} /\ c >= InitCap /\ count \in 0..c
        /\ Cardinality(Taken(slots)) = count /\ InitCap \in Nat \ {0}
        /\ Load \in 1..99
    BY CapAssumption, TableSize DEF IInv, IsTable
  <1>2. CASE Overloaded
    <2>1. Grown = Rehashed
      BY <1>2 DEF Grown
    <2>2. IsTable(Grown, 2 * c) /\ Cardinality(Taken(Grown)) = count
      BY <1>1, <2>1, RehashedFacts
    <2> HIDE DEF c
    <2>3. 2 * c \in Nat /\ 2 * c >= InitCap /\ count < 2 * c /\ 2 * c # InitCap
      BY <1>1
    <2> QED BY <2>2, <2>3
  <1>3. CASE ~Overloaded
    <2>1. Grown = slots
      BY <1>3 DEF Grown
    <2>2. ~(count * 100 >= c * Load)
      BY <1>3 DEF Overloaded
    <2>3. c = InitCap => Reachable(slots)
      BY DEF IInv
    <2> HIDE DEF c
    <2>4. count < c
      <3>1. count \in Nat /\ c \in Nat /\ Load \in 1..99
        BY <1>1
      <3>2. c * Load <= c * 99
        BY <3>1
      <3>3. c * Load \in Nat
        BY <3>1
      <3>4. count * 100 < c * 99
        BY <2>2, <3>1, <3>2, <3>3
      <3> QED BY <3>1, <3>4
    <2> QED BY <1>1, <2>1, <2>3, <2>4
  <1> QED BY <1>2, <1>3

LEMMA NewTable ==
  ASSUME IInv, NEW d, IsTable(slots', d), d >= InitCap, kind' = kind,
         count' = Cardinality(Taken(slots')), d = InitCap => Reachable(slots'),
         last' \in ({"remove", "insert"} \X Key) \cup ({"set"} \X Key \X Val)
  PROVE  IInv'
  <1>1. /\ capacity' = d /\ DOMAIN slots' = 0..(d - 1)
        /\ Cardinality(Taken(slots')) \in 0..d
    BY TableSize DEF capacity
  <1>2. IsTable(slots, capacity)'
    BY <1>1 DEF IsTable, Contents, Values
  <1>3. (slots \in [0..(capacity - 1) -> {Vacant, Tombstone} \cup
                    {Occupied(k, v) : k \in Key, v \in Values}])'
    <2>1. (slots \in [0..(capacity - 1) -> Contents])'
      BY <1>2 DEF IsTable
    <2> QED BY <2>1 DEF Contents
  <1>4. last' \in ({<< >>} \cup ({"remove", "insert"} \X Key)
             \cup ({"set"} \X Key \X Val)
             \cup ({"get"} \X Key \X (Val \cup {NotFound}))
             \cup ({"contains"} \X Key \X {Present, NotFound}))
    OBVIOUS
  <1>5. kind' \in {"map", "set"} /\ count' \in 0..capacity'
    BY <1>1 DEF IInv, TypeOK
  <1>6. TypeOK'
    BY <1>3, <1>4, <1>5 DEF TypeOK
  <1>7. (capacity >= InitCap)' /\ (capacity = InitCap => Reachable(slots))'
    BY <1>1 DEF Reachable, Stops, Probe, Holds
  <1> QED BY <1>2, <1>6, <1>7 DEF IInv, Taken

\* What PutNew leaves, in any table with a slot to spare.
LEMMA PutStep ==
  ASSUME NEW table, NEW d, IsTable(table, d), NEW k \in Key, NEW v \in Values,
         ~Found(table, k), Cardinality(Taken(table)) = count, count < d,
         PutNew(table, k, v)
  PROVE  /\ slots' = [table EXCEPT ![Target(table, k)] = Occupied(k, v)]
         /\ IsTable(slots', d) /\ count' = Cardinality(Taken(slots'))
         /\ Reachable(table) => Reachable(slots')
  <1>1. Stops(table, k) # {} \/ Tombs(table, k) # {}
    BY SlotForKey
  <1>2. /\ slots' = [table EXCEPT ![Target(table, k)] = Occupied(k, v)]
        /\ count' = count + 1
    BY <1>1 DEF PutNew
  <1> QED BY <1>2, PutFacts

LEMMA InitInvariant == Init => IInv
  <1> SUFFICES ASSUME Init PROVE IInv
    OBVIOUS
  <1>1. InitCap \in Nat \ {0} /\ slots = [i \in 0..(InitCap - 1) |-> Vacant]
    BY CapAssumption DEF Init
  <1>2. IsTable(slots, InitCap)
    BY <1>1 DEF IsTable, Contents
  <1>3. capacity = InitCap
    BY <1>2, TableSize DEF capacity
  <1>4. Taken(slots) = {} /\ \A k, i : i \in 0..(InitCap - 1) => ~Holds(slots[i], k)
    BY <1>1 DEF Taken, Vacant, Holds
  <1>5. count = Cardinality(Taken(slots)) /\ count \in 0..capacity
    BY <1>1, <1>3, <1>4, FS_EmptySet DEF Init
  <1>6. Reachable(slots)
    <2>1. \A k \in Key, n \in 0..(InitCap - 1) :
            Probe(slots, Hash[k], n) \in 0..(InitCap - 1)
      BY <1>2, HashAssumption, ProbesVisit
    <2> QED BY <1>1, <1>4, <2>1 DEF Reachable
  <1>7. TypeOK
    <2>1. last = << >> /\ kind \in {"map", "set"}
      BY DEF Init
    <2>2. slots \in [0..(capacity - 1) -> {Vacant, Tombstone} \cup
                      {Occupied(k, v) : k \in Key, v \in Values}]
      BY <1>2, <1>3 DEF IsTable, Contents
    <2> QED BY <1>5, <2>1, <2>2 DEF TypeOK
  <1> HIDE DEF capacity
  <1> QED BY <1>1, <1>2, <1>3, <1>5, <1>6, <1>7 DEF IInv

LEMMA NextInvariant == IInv /\ [Next]_vars => IInv'
  <1> SUFFICES ASSUME IInv, [Next]_vars PROVE IInv'
    OBVIOUS
  <1> DEFINE c == capacity
  <1>1. /\ IsTable(slots, c) /\ c \in Nat \ {0} /\ c >= InitCap
        /\ Cardinality(Taken(slots)) = count
        /\ c = InitCap => Reachable(slots)
    BY DEF IInv, IsTable
  <1>2. PICK d \in Nat :
          /\ IsTable(Grown, d) /\ d >= InitCap
          /\ Cardinality(Taken(Grown)) = count /\ count < d
          /\ d = InitCap => Grown = slots /\ Reachable(slots)
    BY GrownFacts
  <1> HIDE DEF c
  <1>3. ASSUME NEW k \in Key, NEW v \in Val, Set(k, v)
        PROVE  IInv'
    <2>1. v \in Values /\ kind' = kind /\ last' = <<"set", k, v>>
      BY <1>3 DEF Set, Values
    <2>2. CASE Found(Grown, k)
      <3>1. slots' = [Grown EXCEPT ![StopSlot(Grown, k)].value = v] /\ count' = count
        BY <1>3, <2>2 DEF Set
      <3>2. /\ IsTable(slots', d) /\ Taken(slots') = Taken(Grown)
            /\ Reachable(Grown) => Reachable(slots')
        BY <1>2, <2>1, <2>2, <3>1, ReplaceFacts
      <3> QED BY <1>2, <2>1, <3>1, <3>2, NewTable
    <2>3. CASE ~Found(Grown, k)
      <3>1. PutNew(Grown, k, v)
        BY <1>3, <2>3 DEF Set
      <3>2. /\ IsTable(slots', d) /\ count' = Cardinality(Taken(slots'))
            /\ Reachable(Grown) => Reachable(slots')
        BY <1>2, <2>1, <2>3, <3>1, PutStep
      <3> QED BY <1>2, <2>1, <3>2, NewTable
    <2> QED BY <2>2, <2>3
  <1>4. ASSUME NEW k \in Key, Insert(k)
        PROVE  IInv'
    <2>1. Present \in Values /\ kind' = kind /\ last' = <<"insert", k>>
      BY <1>4 DEF Insert, Values
    <2>2. CASE Found(Grown, k)
      BY <1>2, <1>4, <2>1, <2>2, NewTable DEF Insert
    <2>3. CASE ~Found(Grown, k)
      <3>1. PutNew(Grown, k, Present)
        BY <1>4, <2>3 DEF Insert
      <3>2. /\ IsTable(slots', d) /\ count' = Cardinality(Taken(slots'))
            /\ Reachable(Grown) => Reachable(slots')
        BY <1>2, <2>1, <2>3, <3>1, PutStep
      <3> QED BY <1>2, <2>1, <3>2, NewTable
    <2> QED BY <2>2, <2>3
  <1>5. ASSUME NEW k \in Key, Remove(k)
        PROVE  IInv'
    <2>1. kind' = kind /\ last' = <<"remove", k>>
      BY <1>5 DEF Remove
    <2>2. CASE Found(slots, k)
      <3>1. slots' = [slots EXCEPT ![StopSlot(slots, k)] = Removed] /\ count' = count - 1
        BY <1>5, <2>2 DEF Remove
      <3>2. /\ IsTable(slots', c)
            /\ Cardinality(Taken(slots')) = Cardinality(Taken(slots)) - 1
            /\ Reachable(slots) => Reachable(slots')
        BY <1>1, <2>2, <3>1, RemoveFacts
      <3> QED BY <1>1, <2>1, <3>1, <3>2, NewTable
    <2>3. CASE ~Found(slots, k)
      <3>1. slots' = slots /\ count' = count
        BY <1>5, <2>3 DEF Remove
      <3> QED BY <1>1, <2>1, <3>1, NewTable
    <2> QED BY <2>2, <2>3
  <1>6. ASSUME UNCHANGED <<kind, slots, count>>, TypeOK'
        PROVE  IInv'
    BY <1>6 DEF IInv, IsTable, Contents, Values, Taken, Reachable, Stops, Probe,
                Holds, capacity
  <1>7. ASSUME NEW k \in Key, Get(k)
        PROVE  IInv'
    <2>1. kind = "map" /\ UNCHANGED <<kind, slots, count>>
      BY <1>7 DEF Get
    <2>2. Found(slots, k) => slots[StopSlot(slots, k)].value \in Val
      <3> HAVE Found(slots, k)
      <3>1. /\ StopSlot(slots, k) \in 0..(c - 1)
            /\ slots[StopSlot(slots, k)].state = "occupied"
        BY <1>1, FoundIsStored DEF Holds
      <3>2. slots[StopSlot(slots, k)] \in Contents
        BY <1>1, <3>1 DEF IsTable
      <3> QED BY <2>1, <3>1, <3>2, ContentKinds DEF Values
    <2>3. last' \in {"get"} \X Key \X (Val \cup {NotFound})
      BY <1>7, <2>2 DEF Get
    <2>4. TypeOK'
      BY <2>1, <2>3 DEF IInv, TypeOK, Values, capacity
    <2> QED BY <1>6, <2>1, <2>4
  <1>8. ASSUME NEW k \in Key, Contains(k)
        PROVE  IInv'
    <2>1. UNCHANGED <<kind, slots, count>>
      BY <1>8 DEF Contains
    <2>2. last' \in {"contains"} \X Key \X {Present, NotFound}
      BY <1>8 DEF Contains
    <2>3. TypeOK'
      BY <2>1, <2>2 DEF IInv, TypeOK, Values, capacity
    <2> QED BY <1>6, <2>1, <2>3
  <1>9. CASE UNCHANGED vars
    <2>1. TypeOK'
      BY <1>9 DEF IInv, TypeOK, Values, vars, capacity
    <2> QED BY <1>6, <1>9, <2>1 DEF vars
  <1> QED BY <1>3, <1>4, <1>5, <1>7, <1>8, <1>9 DEF Next

\* The table is sound whatever the invariant says of it.
LEMMA InvariantIsSound == IInv => TableIsSound
  <1> SUFFICES ASSUME IInv PROVE TableIsSound
    OBVIOUS
  <1>1. /\ IsTable(slots, capacity) /\ DOMAIN slots = 0..(capacity - 1)
    BY TableSize DEF IInv
  <1>2. EveryKeyIsFound
    <2> SUFFICES ASSUME capacity = InitCap, NEW i \in DOMAIN slots,
                        slots[i].state = "occupied"
                 PROVE  Found(slots, slots[i].key) /\ StopSlot(slots, slots[i].key) = i
      BY DEF EveryKeyIsFound
    <2>1. slots[i] \in Contents
      BY <1>1 DEF IsTable
    <2>2. slots[i].key \in Key /\ Holds(slots[i], slots[i].key)
      BY <2>1, ContentKinds DEF Holds
    <2>3. Reachable(slots) /\ i \in 0..(capacity - 1)
      BY <1>1 DEF IInv
    <2> QED BY <1>1, <2>2, <2>3, ReachableFound
  <1>3. SlotIsLeft
    <2>1. count = Cardinality({i \in DOMAIN slots : slots[i].state = "occupied"})
      BY DEF IInv, Taken
    <2>2. PICK d \in Nat : IsTable(Grown, d) /\ Cardinality(Taken(Grown)) < d
      BY GrownFacts
    <2>3. \A k \in Key : Stops(Grown, k) # {} \/ Tombs(Grown, k) # {}
      BY <2>2, SlotForKey
    <2> QED BY <2>1, <2>3 DEF SlotIsLeft
  <1> QED BY <1>2, <1>3 DEF IInv, TableIsSound

-----------------------------------------------------------------------------
(* The map a table is, as long as its keys are reachable.                   *)

StoreOf(table) ==
  LET entries == {table[i] : i \in {j \in DOMAIN table : table[j].state = "occupied"}}
  IN  [k \in {e.key : e \in entries} |->
         (CHOOSE e \in entries : e.key = k).value]

Stored(table) == {k \in Key : \E i \in DOMAIN table : Holds(table[i], k)}

LEMMA StoreFacts ==
  ASSUME NEW table, NEW c, IsTable(table, c), Reachable(table)
  PROVE  /\ StoreOf(table) = [k \in Stored(table) |->
                                table[StopSlot(table, k)].value]
         /\ \A k \in Key : Found(table, k) <=> k \in Stored(table)
         /\ \A k \in Key, i \in 0..(c - 1) :
              Holds(table[i], k) => StopSlot(table, k) = i
  <1> DEFINE entries == {table[i] : i \in {j \in DOMAIN table :
                                            table[j].state = "occupied"}}
             value(k) == (CHOOSE e \in entries : e.key = k).value
  <1>1. DOMAIN table = 0..(c - 1) /\ \A i \in 0..(c - 1) : table[i] \in Contents
    BY TableSize DEF IsTable
  <1>2. \A k \in Key, i \in 0..(c - 1) :
          Holds(table[i], k) => Found(table, k) /\ StopSlot(table, k) = i
    BY ReachableFound
  <1>3. \A k \in Key : Found(table, k) <=> k \in Stored(table)
    <2>1. \A k \in Key : Found(table, k) =>
            StopSlot(table, k) \in 0..(c - 1) /\ Holds(table[StopSlot(table, k)], k)
      BY FoundIsStored
    <2> QED BY <1>1, <1>2, <2>1 DEF Stored
  <1>4. {e.key : e \in entries} = Stored(table)
    <2>1. ASSUME NEW e \in entries PROVE e.key \in Stored(table)
      <3>1. PICK i \in 0..(c - 1) : e = table[i] /\ e.state = "occupied"
        BY <1>1
      <3>2. e.key \in Key /\ Holds(table[i], e.key)
        BY <1>1, <3>1, ContentKinds DEF Holds
      <3> QED BY <1>1, <3>2 DEF Stored
    <2>2. ASSUME NEW k \in Stored(table) PROVE \E e \in entries : e.key = k
      BY <1>1 DEF Stored, Holds
    <2> QED BY <2>1, <2>2
  <1>5. ASSUME NEW k \in Stored(table)
        PROVE  value(k) = table[StopSlot(table, k)].value
    <2>1. PICK i \in 0..(c - 1) : Holds(table[i], k)
      BY <1>1 DEF Stored
    <2>2. k \in Key /\ StopSlot(table, k) = i
      BY <1>2, <2>1 DEF Stored
    <2>3. table[i] \in entries /\ table[i].key = k
      BY <1>1, <2>1 DEF Holds
    <2>4. ASSUME NEW e \in entries, e.key = k PROVE e = table[i]
      <3>1. PICK j \in 0..(c - 1) : e = table[j] /\ e.state = "occupied"
        BY <1>1
      <3>2. StopSlot(table, k) = j
        BY <1>2, <2>2, <2>4, <3>1 DEF Holds
      <3> QED BY <2>2, <3>1, <3>2
    <2> HIDE DEF entries
    <2> QED BY <2>2, <2>3, <2>4
  <1>6. StoreOf(table) = [k \in {e.key : e \in entries} |-> value(k)]
    BY DEF StoreOf
  <1> HIDE DEF entries, value
  <1>7. StoreOf(table) = [k \in Stored(table) |-> table[StopSlot(table, k)].value]
    BY <1>4, <1>5, <1>6
  <1> QED BY <1>2, <1>3, <1>7

Put(map, k, v) == [x \in DOMAIN map \cup {k} |-> IF x = k THEN v ELSE map[x]]
Drop(map, k) == [x \in DOMAIN map \ {k} |-> map[x]]

\* An entry put into a slot is put into the map.
LEMMA StorePut ==
  ASSUME NEW table, NEW next, NEW c, IsTable(table, c), IsTable(next, c),
         Reachable(table), Reachable(next), NEW k \in Key, NEW v \in Values,
         NEW p \in 0..(c - 1), next[p] = Occupied(k, v),
         \A i \in 0..(c - 1) : i # p => next[i] = table[i],
         \A x : Holds(table[p], x) => x = k
  PROVE  StoreOf(next) = Put(StoreOf(table), k, v)
  <1>1. DOMAIN table = 0..(c - 1) /\ DOMAIN next = 0..(c - 1)
    BY TableSize
  <1>2. next[p] = Occupied(k, v) /\ Holds(next[p], k)
        /\ \A x : Holds(next[p], x) => x = k
    BY <1>1, OccupiedContent DEF Holds
  <1>3. \A i \in 0..(c - 1) : i # p => next[i] = table[i]
    BY <1>1
  <1>4. Stored(next) = Stored(table) \cup {k}
    <2>1. ASSUME NEW x \in Key, x # k
          PROVE  x \in Stored(next) <=> x \in Stored(table)
      <3>1. \A i \in 0..(c - 1) : Holds(next[i], x) <=> Holds(table[i], x)
        BY <1>2, <1>3, <2>1
      <3> QED BY <1>1, <3>1 DEF Stored
    <2>2. k \in Stored(next)
      BY <1>1, <1>2 DEF Stored
    <2>3. Stored(next) \subseteq Key /\ Stored(table) \subseteq Key
      BY DEF Stored
    <2> QED BY <2>1, <2>2, <2>3
  <1>5. /\ StoreOf(table) = [x \in Stored(table) |-> table[StopSlot(table, x)].value]
        /\ StoreOf(next) = [x \in Stored(next) |-> next[StopSlot(next, x)].value]
    BY StoreFacts
  <1>6. next[StopSlot(next, k)].value = v
    <2>1. StopSlot(next, k) = p
      BY <1>2, StoreFacts
    <2> QED BY <1>2, <2>1, OccupiedContent
  <1>7. ASSUME NEW x \in Stored(next), x # k
        PROVE  x \in Stored(table) /\ next[StopSlot(next, x)].value = table[StopSlot(table, x)].value
    <2>1. x \in Stored(table) /\ x \in Key
      BY <1>4, <1>7 DEF Stored
    <2>2. PICK i \in 0..(c - 1) : Holds(table[i], x)
      BY <1>1, <2>1 DEF Stored
    <2>3. i # p
      BY <1>7, <2>2
    <2>4. Holds(next[i], x) /\ next[i] = table[i]
      BY <1>3, <2>2, <2>3
    <2>5. StopSlot(table, x) = i /\ StopSlot(next, x) = i
      BY <2>1, <2>2, <2>4, StoreFacts
    <2> QED BY <2>1, <2>4, <2>5
  <1>8. DOMAIN StoreOf(table) = Stored(table)
    BY <1>5
  <1>9. \A x \in Stored(next) :
          next[StopSlot(next, x)].value =
            IF x = k THEN v ELSE StoreOf(table)[x]
    BY <1>5, <1>6, <1>7
  <1> QED BY <1>4, <1>5, <1>8, <1>9 DEF Put

\* An entry removed from its slot is removed from the map.
LEMMA StoreRemove ==
  ASSUME NEW table, NEW next, NEW c, IsTable(table, c), IsTable(next, c),
         Reachable(table), Reachable(next), NEW k \in Key,
         NEW p \in 0..(c - 1), Holds(table[p], k),
         next[p] = Removed,
         \A i \in 0..(c - 1) : i # p => next[i] = table[i]
  PROVE  StoreOf(next) = Drop(StoreOf(table), k)
  <1>1. DOMAIN table = 0..(c - 1) /\ DOMAIN next = 0..(c - 1)
    BY TableSize
  <1>2. /\ \A x : ~Holds(next[p], x)
        /\ \A i \in 0..(c - 1) : i # p => next[i] = table[i]
    BY <1>1 DEF Holds, Removed, Tombstone
  <1>3. \A i \in 0..(c - 1) : Holds(table[i], k) => i = p
    <2>1. StopSlot(table, k) = p
      BY StoreFacts
    <2> QED BY <2>1, StoreFacts
  <1>4. Stored(next) = Stored(table) \ {k}
    <2>1. ASSUME NEW x \in Key, x # k
          PROVE  x \in Stored(next) <=> x \in Stored(table)
      <3>1. ~Holds(table[p], x)
        BY <2>1 DEF Holds
      <3>2. \A i \in 0..(c - 1) : Holds(next[i], x) <=> Holds(table[i], x)
        BY <1>2, <3>1
      <3> QED BY <1>1, <3>2 DEF Stored
    <2>2. k \notin Stored(next)
      BY <1>1, <1>2, <1>3 DEF Stored
    <2>3. Stored(next) \subseteq Key /\ Stored(table) \subseteq Key
      BY DEF Stored
    <2> QED BY <2>1, <2>2, <2>3
  <1>5. /\ StoreOf(table) = [x \in Stored(table) |-> table[StopSlot(table, x)].value]
        /\ StoreOf(next) = [x \in Stored(next) |-> next[StopSlot(next, x)].value]
    BY StoreFacts
  <1>6. ASSUME NEW x \in Stored(next)
        PROVE  next[StopSlot(next, x)].value = StoreOf(table)[x]
    <2>1. PICK i \in 0..(c - 1) : Holds(next[i], x)
      BY <1>1 DEF Stored
    <2>2. x \in Key /\ x \in Stored(table) /\ next[i] = table[i]
      BY <1>2, <1>4, <2>1 DEF Stored
    <2>3. StopSlot(table, x) = i /\ StopSlot(next, x) = i
      BY <2>1, <2>2, StoreFacts
    <2> QED BY <1>5, <2>2, <2>3
  <1>7. DOMAIN StoreOf(table) = Stored(table)
    BY <1>5
  <1> QED BY <1>4, <1>5, <1>6, <1>7 DEF Drop

-----------------------------------------------------------------------------
(* What every step does to the map.                                         *)

LEMMA StoreIsStoreOf == Store = StoreOf(slots)
  BY DEF Store, StoreOf, Entries

LEMMA NextStoreIsStoreOf == Store' = StoreOf(slots')
  BY DEF Store, StoreOf, Entries

\* A search finds the keys of the map, and ends at their values.
LEMMA StoreFound ==
  ASSUME NEW table, NEW c, IsTable(table, c), Reachable(table), NEW k \in Key
  PROVE  /\ Found(table, k) <=> k \in DOMAIN StoreOf(table)
         /\ Found(table, k) => StoreOf(table)[k] = table[StopSlot(table, k)].value
  BY StoreFacts

\* set: the map gets the key with its value.
LEMMA SetIsPut ==
  ASSUME NEW table, NEW c, IsTable(table, c), Reachable(table),
         Cardinality(Taken(table)) = count, count < c,
         NEW k \in Key, NEW v \in Values,
         IF Found(table, k)
         THEN slots' = [table EXCEPT ![StopSlot(table, k)].value = v]
         ELSE PutNew(table, k, v)
  PROVE  StoreOf(slots') = Put(StoreOf(table), k, v)
  <1>1. DOMAIN table = 0..(c - 1)
    BY TableSize
  <1>2. CASE Found(table, k)
    <2> DEFINE p == StopSlot(table, k)
    <2>1. slots' = [table EXCEPT ![p].value = v]
      BY <1>2
    <2>2. p \in 0..(c - 1) /\ Holds(table[p], k)
      BY <1>2, ReplaceFacts
    <2>3. IsTable(slots', c) /\ Reachable(slots')
      BY <1>2, <2>1, ReplaceFacts
    <2>4. slots'[p] = Occupied(k, v) /\ \A i \in 0..(c - 1) : i # p => slots'[i] = table[i]
      BY <1>2, <2>1, ReplaceFacts
    <2> HIDE DEF p
    <2>5. p \in 0..(c - 1) /\ \A x : Holds(table[p], x) => x = k
      BY <2>2 DEF Holds
    <2> QED BY <2>3, <2>4, <2>5, StorePut
  <1>3. CASE ~Found(table, k)
    <2> DEFINE p == Target(table, k)
    <2>1. p \in 0..(c - 1) /\ table[p].state # "occupied"
      BY <1>3, PutFacts
    <2>2. slots' = [table EXCEPT ![p] = Occupied(k, v)]
      BY <1>3, PutStep
    <2>5. IsTable(slots', c) /\ Reachable(slots')
      BY <1>3, PutStep
    <2> HIDE DEF p
    <2>3. slots'[p] = Occupied(k, v) /\ \A i \in 0..(c - 1) : i # p => slots'[i] = table[i]
      BY <1>1, <2>1, <2>2
    <2>4. \A x : Holds(table[p], x) => x = k
      BY <2>1 DEF Holds
    <2> QED BY <2>1, <2>3, <2>4, <2>5, StorePut
  <1> QED BY <1>2, <1>3

LEMMA RemoveIsDelete ==
  ASSUME NEW c, IsTable(slots, c), Reachable(slots), NEW k \in Key, Remove(k)
  PROVE  StoreOf(slots') = Drop(StoreOf(slots), k)
  <1>1. DOMAIN slots = 0..(c - 1)
    BY TableSize
  <1>2. CASE Found(slots, k)
    <2> DEFINE p == StopSlot(slots, k)
    <2>1. slots' = [slots EXCEPT ![p] = Removed]
      BY <1>2 DEF Remove
    <2>2. /\ p \in 0..(c - 1) /\ Holds(slots[p], k)
          /\ IsTable(slots', c) /\ Reachable(slots')
      BY <1>2, <2>1, RemoveFacts
    <2> HIDE DEF p
    <2>3. slots'[p] = Removed /\ \A i \in 0..(c - 1) : i # p => slots'[i] = slots[i]
      BY <1>1, <2>1, <2>2
    <2> QED BY <2>2, <2>3, StoreRemove
  <1>3. CASE ~Found(slots, k)
    <2>1. slots' = slots
      BY <1>3 DEF Remove
    <2>2. k \notin DOMAIN StoreOf(slots)
      BY <1>3, StoreFound
    <2>3. StoreOf(slots) = [x \in Stored(slots) |-> slots[StopSlot(slots, x)].value]
      BY StoreFacts
    <2> QED BY <2>1, <2>2, <2>3 DEF Drop
  <1> QED BY <1>2, <1>3

\* A step after which the table has its first capacity is a step of the map.
LEMMA StepIsAbstract ==
  ASSUME IInv, IInv', [Next]_vars
  PROVE  [capacity' = InitCap => Abstract!Next]_vars
  <1> SUFFICES ASSUME Next, capacity' = InitCap PROVE Abstract!Next
    BY DEF vars
  <1> DEFINE c == capacity
  <1>1. PICK d \in Nat :
          /\ IsTable(Grown, d) /\ d >= InitCap
          /\ Cardinality(Taken(Grown)) = count /\ count < d
          /\ d = InitCap => Grown = slots /\ Reachable(slots)
    BY GrownFacts
  <1>2. Store = StoreOf(slots) /\ Store' = StoreOf(slots')
    BY StoreIsStoreOf, NextStoreIsStoreOf
  <1>3. ASSUME NEW k \in Key, NEW v \in Values,
               IF Found(Grown, k)
               THEN slots' = [Grown EXCEPT ![StopSlot(Grown, k)].value = v]
               ELSE PutNew(Grown, k, v)
        PROVE  Store' = Put(Store, k, v)
    <2>1. IsTable(slots', d)
      <3>1. CASE Found(Grown, k)
        <4>1. IsTable([Grown EXCEPT ![StopSlot(Grown, k)].value = v], d)
          BY <1>1, <3>1, ReplaceFacts, Zenon
        <4> QED BY <1>3, <3>1, <4>1, Zenon
      <3>2. CASE ~Found(Grown, k)
        BY <1>1, <1>3, <3>2, PutStep
      <3> QED BY <3>1, <3>2
    <2>2. d = InitCap
      BY <2>1, TableSize DEF capacity
    <2> QED BY <1>1, <1>2, <1>3, <2>2, SetIsPut
  <1>4. ASSUME NEW k \in Key, NEW v \in Val, Set(k, v) PROVE Abstract!Set(k, v)
    <2>1. v \in Values /\ last' = <<"set", k, v>>
      BY <1>4 DEF Set, Values
    <2>2. Store' = Put(Store, k, v)
      BY <1>3, <1>4, <2>1 DEF Set
    <2> QED BY <2>1, <2>2 DEF Abstract!Set, Put
  <1>5. ASSUME NEW k \in Key, Insert(k) PROVE Abstract!Insert(k)
    <2>1. Present \in Values /\ last' = <<"insert", k>>
      BY <1>5 DEF Insert, Values
    <2>2. CASE Found(Grown, k)
      <3>1. slots' = Grown
        BY <1>5, <2>2 DEF Insert
      <3>2. d = InitCap
        BY <1>1, <3>1, TableSize DEF capacity
      <3>3. Grown = slots /\ IsTable(slots, d) /\ Reachable(slots)
        BY <1>1, <3>2
      <3>4. k \in DOMAIN Store /\ Store' = Store
        BY <1>2, <2>2, <3>1, <3>3, StoreFound
      <3>5. Store = [x \in Stored(slots) |-> slots[StopSlot(slots, x)].value]
        BY <1>2, <3>3, StoreFacts
      <3> QED BY <2>1, <3>4, <3>5 DEF Abstract!Insert
    <2>3. CASE ~Found(Grown, k)
      <3>1. PutNew(Grown, k, Present)
        BY <1>5, <2>3 DEF Insert
      <3>2. IsTable(slots', d)
        BY <1>1, <2>1, <2>3, <3>1, PutStep
      <3>3. d = InitCap
        BY <3>2, TableSize DEF capacity
      <3>4. k \notin DOMAIN Store
        BY <1>1, <1>2, <2>3, <3>3, StoreFound
      <3>5. Store' = Put(Store, k, Present)
        BY <1>3, <2>1, <2>3, <3>1
      <3>6. Put(Store, k, Present) = [x \in DOMAIN Store \cup {k} |->
                                 IF x \in DOMAIN Store THEN Store[x] ELSE Present]
        BY <3>4 DEF Put
      <3> QED BY <2>1, <3>5, <3>6 DEF Abstract!Insert
    <2> QED BY <2>2, <2>3
  <1>6. ASSUME UNCHANGED slots
        PROVE  /\ IsTable(slots, InitCap) /\ Reachable(slots) /\ Store' = Store
               /\ \A k \in Key : Found(slots, k) <=> k \in DOMAIN Store
               /\ \A k \in Key : Found(slots, k) => Store[k] = slots[StopSlot(slots, k)].value
    <2>1. capacity = InitCap
      BY <1>6 DEF capacity
    <2>2. IsTable(slots, InitCap) /\ Reachable(slots)
      BY <2>1 DEF IInv
    <2> QED BY <1>2, <1>6, <2>2, StoreFound
  <1>7. ASSUME NEW k \in Key, Get(k) PROVE Abstract!Get(k)
    <2>1. UNCHANGED slots
      BY <1>7 DEF Get
    <2> QED BY <1>6, <1>7, <2>1 DEF Get, Abstract!Get
  <1>8. ASSUME NEW k \in Key, Contains(k) PROVE Abstract!Contains(k)
    <2>1. UNCHANGED slots
      BY <1>8 DEF Contains
    <2> QED BY <1>6, <1>8, <2>1 DEF Contains, Abstract!Contains
  <1>9. ASSUME NEW k \in Key, Remove(k) PROVE Abstract!Remove(k)
    <2>1. capacity = InitCap
      <3>1. CASE Found(slots, k)
        <4>1. DOMAIN slots' = DOMAIN slots
          BY <1>9, <3>1 DEF Remove
        <4> QED BY <4>1 DEF capacity
      <3>2. CASE ~Found(slots, k)
        BY <1>9, <3>2 DEF Remove, capacity
      <3> QED BY <3>1, <3>2
    <2>2. IsTable(slots, InitCap) /\ Reachable(slots)
      BY <2>1 DEF IInv
    <2>3. Store' = Drop(Store, k)
      BY <1>2, <1>9, <2>2, RemoveIsDelete
    <2>4. last' = <<"remove", k>>
      BY <1>9 DEF Remove
    <2> QED BY <2>3, <2>4 DEF Abstract!Remove, Drop
  <1> QED BY <1>4, <1>5, <1>7, <1>8, <1>9 DEF Next, Abstract!Next

LEMMA InitIsAbstract == Init => Abstract!Init
  <1> SUFFICES ASSUME Init PROVE Abstract!Init
    OBVIOUS
  <1>1. Entries = {}
    BY DEF Init, Entries, Vacant
  <1>2. Store = << >>
    BY <1>1 DEF Store
  <1> QED BY <1>2 DEF Init, Abstract!Init

-----------------------------------------------------------------------------
\* The state, the key and the value of every slot are those of the create
\* function's kind, and the count is within the capacity, whatever calls follow.
THEOREM TypeCorrect == Spec => []TypeOK
  <1>1. IInv => TypeOK
    BY DEF IInv
  <1> QED BY <1>1, InitInvariant, NextInvariant, PTL DEF Spec

\* Whatever is inserted and removed: the count is that of the entries, a slot
\* is left for every insertion, and until the table grows every stored key is
\* found, at its one slot, by the probing of hashmap_get.
THEOREM TableCorrect == Spec => []TableIsSound
  BY InitInvariant, NextInvariant, InvariantIsSound, PTL DEF Spec

\* Until the table grows, every call does to the table, and answers, what it
\* would with the map of KeyValueMap.
THEOREM MapCorrect == Spec => IsAMap
  <1>1. IInv /\ IInv' /\ [Next]_vars => [capacity' = InitCap => Abstract!Next]_vars
    BY StepIsAbstract
  <1> QED BY <1>1, InitIsAbstract, InitInvariant, NextInvariant, PTL DEF Spec, IsAMap
=============================================================================
