----------------------------- MODULE SwissTable -----------------------------
(***************************************************************************)
(* The hash table under the compiler's own Map and Set                     *)
(* (common/raw_hashtable.h): open addressing over groups of slots, a byte  *)
(* of metadata for every slot, quadratic probing over the groups, growth   *)
(* by doubling, a buffer inside the object for the smallest size, and      *)
(* copying and moving of whole tables without a hash.                      *)
(*                                                                         *)
(* A slot holds Empty, Deleted or its entry.  The seven bits of tag that   *)
(* the metadata of a present slot keeps only narrow the search: every      *)
(* match is followed by a comparison of the keys.                          *)
(***************************************************************************)
EXTENDS Integers, FiniteSets, FiniteSetsExt

CONSTANTS
  Table, Key,
  Val,           \* the values tried for each key
  Hash,          \* the index bits of a key's hash
  GroupSize,     \* slots compared at once: 8 or 16 in the code
  SmallSize,     \* the slots inside the object, 0 for none
  MinAllocatedSize,
  LoadDivisor,   \* one slot in LoadDivisor stays free: 8 in the code
  MaxAlloc,      \* bound: no table grows beyond this
  Count,         \* bound: the counts of insertions reserved
  AllocSize,     \* bound: the sizes asked for by GrowToAllocSize
  HeapBlock,     \* bound: the blocks the allocator can hand out
  ClearsAnything \* FALSE leaves out Clear of a table with a deleted group

IsPowerOf2(n) ==
  n \in Nat \ {0} /\ \A d \in 2..n : n % d = 0 => d % 2 = 0

\* The sizes a table begins with.
IsFirstSize(n) == IsPowerOf2(n) /\ n % GroupSize = 0 /\ n >= LoadDivisor

ASSUME SizesAssumption ==
  /\ IsPowerOf2(GroupSize) /\ LoadDivisor \in Nat \ {0, 1}
  /\ SmallSize = 0 \/ IsFirstSize(SmallSize)
  /\ IsFirstSize(MinAllocatedSize)
  /\ \A n \in AllocSize : IsPowerOf2(n)
  /\ MaxAlloc \in Nat /\ Count \subseteq Nat

\* Allocation does not fail: there is a block for each table, and one more.
ASSUME HeapAssumption ==
  /\ HeapBlock \subseteq Nat \ {0} /\ IsFiniteSet(HeapBlock)
  /\ IsFiniteSet(Table) /\ Cardinality(Table) < Cardinality(HeapBlock)

ASSUME HashAssumption == Hash \in [Key -> Nat]

VARIABLES
  table, \* [Table -> [alloc, budget, slots, storage]]
  heap   \* the blocks allocated and not freed

vars == <<table, heap>>

Empty == [mark |-> "empty"]
Deleted == [mark |-> "deleted"]
Entry(k, v) == [mark |-> "present", key |-> k, value |-> v]

Small == 0      \* the storage inside the object
NoStorage == -1 \* the null pointer of a table moved from

Slots(n) == 0..n - 1
AllEmpty(n) == [i \in Slots(n) |-> Empty]
Size(slots) == Cardinality(DOMAIN slots)
Present(slots) == {i \in DOMAIN slots : slots[i].mark = "present"}
NonEmpty(slots) == {i \in DOMAIN slots : slots[i] # Empty}

MovedFrom(t) == table[t].alloc = 0
IsSmall(t) == table[t].alloc = SmallSize

GrowthThresholdForAllocSize(n) == n - (n \div LoadDivisor)
ComputeNextAllocSize(n) == 2 * n
-----------------------------------------------------------------------------
(***************************************************************************)
(* Probing                                                                 *)
(***************************************************************************)
GroupOf(i) == i - (i % GroupSize)
Group(g) == g..g + GroupSize - 1
EmptyIn(slots, g) == {i \in Group(g) : slots[i] = Empty}
\* Mutant: a slot in use passes for a deleted one.
NotEmptyIn(slots, g) == {i \in Group(g) : slots[i] # Empty}

DeletedIn(slots, g) == {i \in Group(g) : slots[i] = Deleted}

Home(k, size) == GroupOf(Hash[k] % size)

\* The group of the n-th probe, from 0: the step grows by a group each time.
ProbeIndex(k, size, n) ==
  (Home(k, size) + GroupSize * ((n * (n + 1)) \div 2)) % size

Probes(slots) == Slots(Size(slots) \div GroupSize)
ProbeGroup(slots, k, n) == ProbeIndex(k, Size(slots), n)

Holding(slots, k, n) ==
  {i \in Group(ProbeGroup(slots, k, n)) :
     slots[i].mark = "present" /\ slots[i].key = k}
HasEmpty(slots, k, n) == EmptyIn(slots, ProbeGroup(slots, k, n)) # {}

\* Whether the search for k ends at its n-th probe, if it comes there.
EndsAt(slots, k, n) == Holding(slots, k, n) # {} \/ HasEmpty(slots, k, n)
First(slots, Ends(_)) ==
  CHOOSE n \in Probes(slots) : Ends(n) /\ \A m \in Slots(n) : ~Ends(m)
LastProbe(slots, k) == First(slots, LAMBDA n : EndsAt(slots, k, n))

\* The slot of k, or none.  Without an end the search goes round forever.
LookupEntry(slots, k) == Holding(slots, k, LastProbe(slots, k))

InsertIntoEmpty(slots, entry) ==
  LET at == First(slots, LAMBDA n : HasEmpty(slots, entry.key, n))
      i == Min(EmptyIn(slots, ProbeGroup(slots, entry.key, at)))
  IN [slots EXCEPT ![i] = entry]

\* The entries of the slots `from`, inserted in the order of their slots.
Reinserted(slots, old, from) ==
  LET moved[i \in 0..Size(old)] ==
        IF i = 0 THEN slots
        ELSE IF i - 1 \in from THEN InsertIntoEmpty(moved[i - 1], old[i - 1])
        ELSE moved[i - 1]
  IN moved[Size(old)]
-----------------------------------------------------------------------------
(***************************************************************************)
(* Growth                                                                  *)
(***************************************************************************)
\* GrowToNextAllocSize: an entry found in the first group of its probes goes
\* to the same place of the lower or the upper half; the others are inserted
\* again.
Widened(old) ==
  LET n == Size(old)
      home == {i \in Present(old) : Home(old[i].key, n) = GroupOf(i)}
      copied == [j \in Slots(2 * n) |->
                   IF /\ j % n \in home
                      /\ Home(old[j % n].key, 2 * n) = GroupOf(j)
                   THEN old[j % n] ELSE Empty]
  IN Reinserted(copied, old, Present(old) \ home)

\* GrowToAllocSizeImpl when the size more than doubles.
Rehashed(old, n) == Reinserted(AllEmpty(n), old, Present(old))

GrownSlots(old, n) ==
  IF n = ComputeNextAllocSize(Size(old)) THEN Widened(old)
  ELSE Rehashed(old, n)

\* Allocate returns some free block.
NewBlock == Min(HeapBlock \ heap)
Freed(t) ==
  IF MovedFrom(t) \/ IsSmall(t) THEN {} ELSE {table[t].storage}

\* Mutant: the deleted slots that growing cleared still count as used.
RegrownWithDeleted(t, n, slots, spent) ==
  /\ heap' = (heap \cup {NewBlock}) \ Freed(t)
  /\ table' = [table EXCEPT ![t] =
       [alloc |-> n, slots |-> slots, storage |-> NewBlock,
        budget |-> GrowthThresholdForAllocSize(n)
                     - Cardinality(NonEmpty(table[t].slots)) - spent]]

\* The table with the slots of a new block of n slots, its own block freed.
Regrown(t, n, slots, spent) ==
  /\ heap' = (heap \cup {NewBlock}) \ Freed(t)
  /\ table' = [table EXCEPT ![t] =
       [alloc |-> n, slots |-> slots, storage |-> NewBlock,
        budget |-> GrowthThresholdForAllocSize(n)
                     - Cardinality(Present(table[t].slots)) - spent]]
-----------------------------------------------------------------------------
(***************************************************************************)
(* The calls                                                               *)
(***************************************************************************)
Stores(t, i, entry, cost) ==
  /\ table' = [table EXCEPT ![t].slots[i] = entry, ![t].budget = @ - cost]
  /\ UNCHANGED heap

\* InsertImpl, when no slot holds the key: over the first deleted slot on
\* the way if there is one, which costs nothing, or into the empty slot that
\* ended the search, or after growing.
InsertNew(t, entry) ==
  LET slots == table[t].slots
      last == LastProbe(slots, entry.key)
      group(n) == ProbeGroup(slots, entry.key, n)
      over == {n \in 0..last : DeletedIn(slots, group(n)) # {}}
      next == ComputeNextAllocSize(table[t].alloc)
  IN \/ /\ over # {}
        /\ Stores(t, Min(DeletedIn(slots, group(Min(over)))), entry, 0)
     \/ /\ over = {} /\ table[t].budget # 0
        /\ Stores(t, Min(EmptyIn(slots, group(last))), entry, 1)
     \/ /\ over = {} /\ table[t].budget = 0 /\ next <= MaxAlloc
        /\ Regrown(t, next, InsertIntoEmpty(Widened(slots), entry), 1)

\* A search without an end is the loop that TINYSWIFT_FATAL follows.
SearchEnds(t, k) ==
  {n \in Probes(table[t].slots) : EndsAt(table[t].slots, k, n)} # {}

Insert(t, k, v) ==
  /\ ~MovedFrom(t) /\ SearchEnds(t, k)
  /\ IF LookupEntry(table[t].slots, k) = {}
     THEN InsertNew(t, Entry(k, v))
     ELSE UNCHANGED vars

Update(t, k, v) ==
  /\ ~MovedFrom(t) /\ SearchEnds(t, k)
  /\ LET at == LookupEntry(table[t].slots, k)
     IN IF at = {} THEN InsertNew(t, Entry(k, v))
        ELSE Stores(t, Min(at), Entry(k, v), 0)

\* Mutant: an erased slot is always made empty.
EraseToEmpty(t, k) ==
  /\ ~MovedFrom(t) /\ SearchEnds(t, k)
  /\ LET at == LookupEntry(table[t].slots, k)
     IN IF at = {} THEN UNCHANGED vars
        ELSE Stores(t, Min(at), Empty, -1)

\* A slot whose group has an empty one ends no search before it, so it can
\* be empty too; any other stays as a mark to be passed.
Erase(t, k) ==
  /\ ~MovedFrom(t) /\ SearchEnds(t, k)
  /\ LET slots == table[t].slots
         at == LookupEntry(slots, k)
     IN IF at = {} THEN UNCHANGED vars
        ELSE \/ /\ EmptyIn(slots, GroupOf(Min(at))) # {}
                /\ Stores(t, Min(at), Empty, -1)
             \/ /\ EmptyIn(slots, GroupOf(Min(at))) = {}
                /\ Stores(t, Min(at), Deleted, 0)

\* ForEachEntry calls back for the groups with a present slot only.
GroupsSeen(slots) == {GroupOf(i) : i \in Present(slots)}
ClearedSlots(slots) ==
  [i \in DOMAIN slots |->
     IF GroupOf(i) \in GroupsSeen(slots) THEN Empty ELSE slots[i]]

Clear(t) ==
  /\ ~MovedFrom(t)
  /\ \/ ClearsAnything
     \/ \A i \in NonEmpty(table[t].slots) :
          GroupOf(i) \in GroupsSeen(table[t].slots)
  /\ table' = [table EXCEPT
                 ![t].slots = ClearedSlots(@),
                 ![t].budget = GrowthThresholdForAllocSize(table[t].alloc)]
  /\ UNCHANGED heap

GrowToAllocSizeImpl(t, n) ==
  IF n <= table[t].alloc THEN UNCHANGED vars
  ELSE /\ n <= MaxAlloc
       /\ Regrown(t, n, GrownSlots(table[t].slots, n), 0)

GrowToAllocSize(t, n) == ~MovedFrom(t) /\ GrowToAllocSizeImpl(t, n)

PowersAbove(n) == {p \in n + 1..MaxAlloc : IsPowerOf2(p)}
NextPowerOf2(n) == Min(PowersAbove(n))

\* Mutant: the slots already used are left out of the size.
SpaceForCount(t, count) == count + (count \div (LoadDivisor - 1))

SpaceForInserts(t, count) ==
  LET used == GrowthThresholdForAllocSize(table[t].alloc) - table[t].budget
      needed == used + count
  IN needed + (needed \div (LoadDivisor - 1))

GrowForInsertCount(t, count) ==
  /\ ~MovedFrom(t)
  /\ IF count < table[t].budget THEN UNCHANGED vars
     ELSE /\ PowersAbove(SpaceForInserts(t, count)) # {}
          /\ GrowToAllocSizeImpl(t, NextPowerOf2(SpaceForInserts(t, count)))
-----------------------------------------------------------------------------
(***************************************************************************)
(* Whole tables                                                            *)
(***************************************************************************)
\* SetUpStorage: where a table of this many slots lives.
StorageFor(n, held) ==
  IF n = SmallSize THEN Small ELSE Min(HeapBlock \ held)

BlocksOf(storage) == {storage} \ {Small, NoStorage}

Fresh(storage) ==
  LET n == IF SmallSize > 0 THEN SmallSize ELSE MinAllocatedSize
  IN [alloc |-> n, slots |-> AllEmpty(n), storage |-> storage,
      budget |-> GrowthThresholdForAllocSize(n)]

Gone(budget) ==
  [alloc |-> 0, slots |-> << >>, storage |-> NoStorage, budget |-> budget]

\* Destroy, then Construct.
Reset(t) ==
  LET held == heap \ Freed(t)
      storage == IF SmallSize > 0 THEN Small ELSE Min(HeapBlock \ held)
  IN /\ table' = [table EXCEPT ![t] = Fresh(storage)]
     /\ heap' = held \cup BlocksOf(storage)

\* operator=(const TableImpl&): storage of the same size is used again.
CopyAssign(t, from) ==
  LET arg == table[from]
      held == heap \ Freed(t)
      storage == IF arg.alloc = table[t].alloc THEN table[t].storage
                 ELSE StorageFor(arg.alloc, held)
  IN \/ /\ t = from \/ (MovedFrom(t) /\ MovedFrom(from))
        /\ UNCHANGED vars
     \/ /\ t # from /\ MovedFrom(from) /\ ~MovedFrom(t)
        /\ table' = [table EXCEPT ![t] = Gone(table[t].budget)]
        /\ heap' = held
     \/ /\ t # from /\ ~MovedFrom(from)
        /\ table' = [table EXCEPT ![t] = [arg EXCEPT !.storage = storage]]
        /\ heap' = held \cup BlocksOf(storage)

\* Mutant: without the defence against a move into itself.
MoveAssignBlindly(t, from) ==
  /\ table' = [table EXCEPT ![from] = Gone(table[from].budget),
                           ![t] = table[from]]
  /\ heap' = heap \ Freed(t)

\* operator=(TableImpl&&): Destroy, then MoveFrom, which takes the block or
\* moves the slots from one object into the other.  A table moved into
\* itself is destroyed, and its size is 0 by the time it would be taken.
MoveAssign(t, from) ==
  LET arg == IF t = from THEN Gone(table[t].budget) ELSE table[from]
  IN /\ table' = [table EXCEPT ![from] = Gone(arg.budget), ![t] = arg]
     /\ heap' = heap \ Freed(t)

Init ==
  \E first \in [Table -> IF SmallSize > 0 THEN {Small} ELSE HeapBlock] :
    /\ SmallSize > 0 \/ \A t, u \in Table : first[t] = first[u] => t = u
    /\ table = [t \in Table |-> Fresh(first[t])]
    /\ heap = UNION {BlocksOf(first[t]) : t \in Table}

Next ==
  \E t \in Table :
    \/ \E k \in Key :
         \/ Erase(t, k)
         \/ \E v \in Val[k] : Insert(t, k, v) \/ Update(t, k, v)
    \/ Clear(t) \/ Reset(t)
    \/ \E n \in AllocSize : GrowToAllocSize(t, n)
    \/ \E count \in Count : GrowForInsertCount(t, count)
    \/ \E from \in Table : CopyAssign(t, from) \/ MoveAssign(t, from)

Spec == Init /\ [][Next]_vars
-----------------------------------------------------------------------------
(***************************************************************************)
(* Correctness                                                             *)
(***************************************************************************)
KeysOf(slots) == {slots[i].key : i \in Present(slots)}
ValueIn(slots, k) ==
  LET i == CHOOSE i \in Present(slots) : slots[i].key = k
  IN slots[i].value

\* What a table means, found without its probing: LookupEntry has to agree.
Contents(t) ==
  [k \in KeysOf(table[t].slots) |-> ValueIn(table[t].slots, k)]

Maps == INSTANCE KeyedTables WITH
  maps <- [t \in Table |-> Contents(t)],
  moved <- {t \in Table : MovedFrom(t)}

\* Whatever order of insertions, erasures, growth, copies and moves led
\* here, each call had the effect on the maps that Map's interface states,
\* and no other table changed (map.h, raw_hashtable.h).
ImplementsMaps == Maps!Spec

\* A search for any key ends, and at the one slot that holds the key when
\* there is one: neither an erasure nor a growth cuts a key off from the
\* probes that look for it (LookupEntry, InsertImpl).
KeysAreFound ==
  \A t \in Table : ~MovedFrom(t) =>
    LET slots == table[t].slots
    IN \A k \in Key :
         /\ SearchEnds(t, k)
         /\ LookupEntry(slots, k)
              = {i \in Present(slots) : slots[i].key = k}
         /\ Cardinality(LookupEntry(slots, k)) <= 1

\* "It is always GrowthThresholdForAllocSize(alloc_size) minus the number of
\* non-empty (filled or deleted) slots" (raw_hashtable.h:115): growth_budget_
\* is kept by hand in eight places and counts what no one counts again.
BudgetIsExact ==
  \A t \in Table : ~MovedFrom(t) =>
    /\ table[t].alloc = Size(table[t].slots)
    /\ table[t].budget = GrowthThresholdForAllocSize(table[t].alloc)
                           - Cardinality(NonEmpty(table[t].slots))
    /\ table[t].budget >= 0

\* The table is one that the next call can work on: whatever was erased,
\* copied or moved before, each key is found and the room left is known.
TableIsSound == KeysAreFound /\ BudgetIsExact

\* Every block of the heap belongs to exactly one table and no table holds a
\* freed one: growing, copying and moving free the old block once, at a time
\* when nobody else points to it (Destroy, MoveFrom, operator=).
StorageIsOwned ==
  /\ heap = {table[t].storage : t \in Table} \ {Small, NoStorage}
  /\ \A t, u \in Table :
       /\ t # u /\ table[t].storage = table[u].storage
            => table[t].storage \in {Small, NoStorage}
       /\ table[t].storage = NoStorage <=> MovedFrom(t)
       /\ table[t].storage = Small => table[t].alloc = SmallSize

\* After GrowForInsertCount(count) the next count insertions do not grow the
\* table, whatever was deleted before (raw_hashtable.h, GrowForInsertCountImpl).
ReserveSuffices ==
  [][\A t \in Table : \A count \in Count :
       GrowForInsertCount(t, count) => table'[t].budget >= count]_vars
=============================================================================
