-------------------------- MODULE ArcRuntimeProofs --------------------------
(***************************************************************************)
(* Proofs about the reference counting of ArcRuntime, for any threads,     *)
(* variables and objects and any width of the count.                       *)
(***************************************************************************)
EXTENDS ArcRuntime, FiniteSetTheorems, SequenceTheorems, TLAPS

\* Beginning the activation of a deinit_fn puts its object before those it
\* interrupts, and ending it takes the object away.
LEMMA Pushed ==
  ASSUME NEW s \in Seq(Obj), NEW o \in Obj
  PROVE  /\ <<o>> \o s \in Seq(Obj)
         /\ Len(<<o>> \o s) = Len(s) + 1
         /\ (<<o>> \o s)[1] = o
         /\ \A i \in 1..Len(s) : (<<o>> \o s)[i + 1] = s[i]
  OBVIOUS

LEMMA Popped ==
  ASSUME NEW s \in Seq(Obj), s # << >>
  PROVE  /\ Len(s) \in Nat \ {0} /\ Head(s) = s[1] /\ s[1] \in Obj
         /\ Tail(s) \in Seq(Obj)
         /\ Len(Tail(s)) = Len(s) - 1
         /\ \A i \in 1..(Len(s) - 1) : Tail(s)[i] = s[i + 1]
  BY EmptySeq, HeadTailProperties

\* The count stays a 32-bit word.

LEMMA WordArithmetic ==
  /\ 0 \in Word /\ 1 \in Word
  /\ \A c \in Word : Inc(c) \in Word /\ Dec(c) \in Word
  BY WidthAssumption DEF WidthAssumption, Word, Inc, Dec

\* The initial state has the types.
LEMMA TypeInit == Init => TypeOK
<1> SUFFICES ASSUME Init PROVE TypeOK
  OBVIOUS
<1>1. << >> \in Seq(Obj)
  BY EmptySeq
<1>2. stack \in [Thread -> Seq(Obj)]
  BY <1>1 DEF Init
<1> QED
  BY <1>2, WordArithmetic DEF Init, TypeOK, Word

\* Every action keeps the types.
LEMMA TypeStep == TypeOK /\ [Next]_vars => TypeOK'
<1> SUFFICES ASSUME TypeOK, [Next]_vars PROVE TypeOK'
  OBVIOUS
<1> USE SetsAssumption, WordArithmetic DEF SetsAssumption, TypeOK, Loc, Word
<1>1. CASE UNCHANGED vars
  BY <1>1 DEF vars
<1>2. ASSUME NEW t \in Thread, NEW l \in Local, NEW o \in Obj, Alloc(t, l, o)
      PROVE  TypeOK'
  BY <1>2 DEF Alloc, FirstCount, Running
<1>3. ASSUME NEW t \in Thread, NEW o \in Obj, NEW d \in Loc,
             RetainAdd(t, o, d)
      PROVE  TypeOK'
  BY <1>3 DEF RetainAdd, Running
<1>4. ASSUME NEW t \in Thread, NEW l \in Loc, ReleaseSub(t, l)
      PROVE  TypeOK'
  BY <1>4 DEF ReleaseSub, Running
<1>5. ASSUME NEW t \in Thread, NEW l \in Local, IsUnique(t, l)
      PROVE  TypeOK'
  BY <1>5 DEF IsUnique
<1>6. ASSUME NEW t \in Thread, RetainReturn(t) PROVE TypeOK'
  BY <1>6 DEF RetainReturn
<1>7. ASSUME NEW t \in Thread, RetainAbort(t) PROVE TypeOK'
  BY <1>7 DEF RetainAbort
<1>8. ASSUME NEW t \in Thread, ReleaseReturn(t) PROVE TypeOK'
  BY <1>8 DEF ReleaseReturn
<1>9. ASSUME NEW t \in Thread, ReleaseAbort(t) PROVE TypeOK'
  BY <1>9 DEF ReleaseAbort
<1>10. ASSUME NEW t \in Thread, ReleaseLast(t) PROVE TypeOK'
  <2>1. <<arg[t]>> \o stack[t] \in Seq(Obj)
    BY <1>10, Pushed DEF ReleaseLast
  <2> QED
    BY <2>1, <1>10 DEF ReleaseLast
<1>11. ASSUME NEW t \in Thread, Free(t) PROVE TypeOK'
  <2>1. Tail(stack[t]) \in Seq(Obj)
    BY <1>11, Popped DEF Free
  <2> QED
    BY <2>1, <1>11 DEF Free
<1> QED
  BY <1>1, <1>2, <1>3, <1>4, <1>5, <1>6, <1>7, <1>8, <1>9, <1>10, <1>11
  DEF Next, Step, Return

\* Every variable keeps to its type, whatever the program calls and however
\* its threads interleave.
THEOREM TypeCorrect == Spec => []TypeOK
  BY TypeInit, TypeStep, PTL DEF Spec

-----------------------------------------------------------------------------
\* Up to 2 * MaxRef increments, wrapping round is undone step by step, and a
\* positive word is the number itself.
LEMMA Wrapping ==
  ASSUME NEW n \in 0..(2 * MaxRef)
  PROVE  /\ Inc(Wrap(n)) = Wrap(n + 1)
         /\ n > 0 => Dec(Wrap(n)) = Wrap(n - 1)
         /\ Wrap(n) = 0 <=> n = 0
         /\ Wrap(n) > 0 => Wrap(n) = n /\ n <= MaxRef
  BY WidthAssumption DEF WidthAssumption, Wrap, Inc, Dec

\* There are never more than 2 * MaxRef references: each one over MaxRef is a
\* thread that is about to abort.
LEMMA Counting ==
  ASSUME TypeOK, WidthHolds, NEW o \in Obj
  PROVE  /\ IsFiniteSet(Tokens(o))
         /\ Cardinality(Tokens(o)) \in 0..(2 * MaxRef)
<1>1. IsFiniteSet(Loc \cup Thread)
  BY SetsAssumption, FS_Union DEF SetsAssumption, Loc
<1>2. IsFiniteSet(Tokens(o))
  BY <1>1, FS_Subset DEF Tokens
<1>3. /\ IsFiniteSet(Doomed(o))
      /\ Cardinality(Doomed(o)) <= Cardinality(Thread)
  BY SetsAssumption, FS_Subset DEF SetsAssumption, Doomed
<1>4. /\ Cardinality(Tokens(o) \ Doomed(o)) =
           Cardinality(Tokens(o)) - Cardinality(Tokens(o) \cap Doomed(o))
  BY <1>2, FS_Difference
<1>5. Cardinality(Tokens(o) \cap Doomed(o)) <= Cardinality(Doomed(o))
  BY <1>3, FS_Subset
<1>6. /\ Cardinality(Tokens(o)) \in Nat /\ Cardinality(Doomed(o)) \in Nat
      /\ Cardinality(Tokens(o) \cap Doomed(o)) \in Nat
      /\ Cardinality(Thread) \in Nat
  BY <1>2, <1>3, SetsAssumption, FS_CardinalityType, FS_Subset
  DEF SetsAssumption
<1> QED
  BY <1>2, <1>3, <1>4, <1>5, <1>6, WidthAssumption
  DEF WidthHolds, WidthAssumption

\* What the count says of the references.
LEMMA CountTells ==
  ASSUME TypeOK, WidthHolds, CountIsExact, NEW o \in Obj
  PROVE  /\ refcount[o] = 0 <=> Tokens(o) = {}
         /\ refcount[o] = 1 => \E x : Tokens(o) = {x}
         /\ refcount[o] > 0 => /\ Cardinality(Tokens(o)) = refcount[o]
                               /\ refcount[o] <= MaxRef
<1> DEFINE n == Cardinality(Tokens(o))
<1>1. IsFiniteSet(Tokens(o)) /\ n \in 0..(2 * MaxRef)
  BY Counting
<1>2. refcount[o] = Wrap(n)
  BY DEF CountIsExact
<1>3. /\ Wrap(n) = 0 <=> n = 0
      /\ Wrap(n) > 0 => Wrap(n) = n /\ n <= MaxRef
  BY <1>1, Wrapping
<1>4. n = 0 <=> Tokens(o) = {}
  BY <1>1, FS_EmptySet
<1>5. n = 1 => \E x : Tokens(o) = {x}
  BY <1>1, FS_Singleton
<1> QED
  BY <1>2, <1>3, <1>4, <1>5

\* Adding a reference to a block or taking one away moves its count by one.
LEMMA CountMoves ==
  ASSUME TypeOK, WidthHolds, NEW o \in Obj, NEW x
  PROVE  /\ x \notin Tokens(o) =>
              Wrap(Cardinality(Tokens(o) \cup {x})) =
                Inc(Wrap(Cardinality(Tokens(o))))
         /\ x \in Tokens(o) =>
              Wrap(Cardinality(Tokens(o) \ {x})) =
                Dec(Wrap(Cardinality(Tokens(o))))
<1>1. /\ IsFiniteSet(Tokens(o))
      /\ Cardinality(Tokens(o)) \in 0..(2 * MaxRef)
  BY Counting
<1>2. x \notin Tokens(o) =>
        Cardinality(Tokens(o) \cup {x}) = Cardinality(Tokens(o)) + 1
  BY <1>1, FS_AddElement
<1>3. x \in Tokens(o) =>
        /\ Cardinality(Tokens(o) \ {x}) = Cardinality(Tokens(o)) - 1
        /\ Cardinality(Tokens(o)) > 0
  BY <1>1, FS_RemoveElement, FS_EmptySet
<1> QED
  BY <1>1, <1>2, <1>3, Wrapping

-----------------------------------------------------------------------------
\* What one thread can reach is not free, and what it is destroying has no
\* reference left.
LEMMA Reachable ==
  ASSUME IInv, NEW t \in Thread, NEW o \in Obj, Running(t)
  PROVE  /\ Knows(t, o) => heap[o] = "live" \/ (heap[o] = "dying" /\ InDeinit(t, o))
         /\ InDeinit(t, o) => heap[o] = "dying" /\ Tokens(o) = {}
<1>1. InDeinit(t, o) => heap[o] = "dying"
  BY Popped DEF InDeinit, IInv, DestroyedOnce, TypeOK
<1>2. ASSUME InDeinit(t, o) PROVE Tokens(o) = {}
  <2>1. \A l \in Loc : loc[l] # o
    BY <1>1, <1>2, SetsAssumption
    DEF IInv, NoDanglingReference, SetsAssumption
  <2>2. ASSUME NEW u \in Thread, pc[u] = "retained", arg[u] = o PROVE FALSE
    <3>1. InDeinit(u, o)
      BY <1>1, <1>2, <2>2 DEF IInv, RetainsHold
    <3>2. /\ 1 \in 1..Len(stack[t]) /\ stack[t][1] = o
          /\ 1 \in 1..Len(stack[u]) /\ stack[u][1] = o
      BY <1>2, <3>1, Popped DEF InDeinit, IInv, TypeOK
    <3>3. u = t
      BY <3>2 DEF IInv, DestroyedOnce
    <3> QED
      BY <2>2, <3>3 DEF Running
  <2> QED
    BY <2>1, <2>2 DEF Tokens
<1>3. Knows(t, o) => heap[o] = "live" \/ InDeinit(t, o)
  BY SetsAssumption
  DEF Knows, Reaches, IInv, NoDanglingReference, SetsAssumption, Loc
<1> QED
  BY <1>1, <1>2, <1>3

LEMMA InitInv == Init => IInv
<1> SUFFICES ASSUME Init PROVE IInv
  OBVIOUS
<1>1. TypeOK
  BY TypeInit
<1>2. \A o \in Obj : Tokens(o) = {}
  BY SetsAssumption DEF Init, Tokens, SetsAssumption, Loc
<1>3. \A o \in Obj : Wrap(Cardinality(Tokens(o))) = 0
  BY <1>2, FS_EmptySet, WidthAssumption DEF Wrap, WidthAssumption
<1>4. WidthHolds
  <2> SUFFICES ASSUME NEW o \in Obj
               PROVE  Cardinality(Tokens(o) \ Doomed(o)) <= MaxRef
    BY DEF WidthHolds
  <2>1. Tokens(o) \ Doomed(o) = {}
    BY <1>2
  <2> QED
    BY <2>1, FS_EmptySet, WidthAssumption DEF WidthAssumption
<1>5. DestroyedOnce
  BY EmptySeq DEF Init, DestroyedOnce
<1> QED
  BY <1>1, <1>2, <1>3, <1>4, <1>5, SetsAssumption
  DEF Init, IInv, CountIsExact, NoDanglingReference, UniqueIsSole,
      RetainsHold, LastHolds, SoleHolds

-----------------------------------------------------------------------------
\* Steps that leave the references, the counts and the heap alone: abort, the
\* return of a release that took no last reference, and is_unique.
LEMMA QuietStep ==
  ASSUME IInv, TypeOK',
         UNCHANGED <<refcount, heap, loc, arg, old, dest, stack>>,
         \A t \in Thread :
           pc'[t] = pc[t] \/ (pc[t] = "released" /\ pc'[t] = "idle"),
         \A t \in Thread : sole'[t] # Null =>
           \/ sole'[t] = sole[t]
           \/ /\ pc[t] = "idle" /\ Owner[sole'[t]] = t
              /\ loc[sole'[t]] # Null /\ refcount[loc[sole'[t]]] = 1
  PROVE  IInv'
<1> USE DEF IInv
<1>1. \A o \in Obj : Tokens(o)' = Tokens(o) /\ Doomed(o)' = Doomed(o)
  BY DEF Tokens, Doomed, BadRetain
<1>2. CountIsExact' /\ WidthHolds'
  BY <1>1 DEF CountIsExact, WidthHolds
<1>3. NoDanglingReference' /\ DestroyedOnce'
  BY DEF NoDanglingReference, DestroyedOnce
<1>4. RetainsHold'
  BY DEF RetainsHold, InDeinit, BadRetain
<1>5. LastHolds'
  BY <1>1 DEF LastHolds, TypeOK
<1>6. SoleHolds'
  BY DEF SoleHolds
<1>7. UniqueIsSole'
  <2> SUFFICES ASSUME NEW t \in Thread, sole'[t] # Null
               PROVE  Tokens(loc[sole[t]])' = {sole'[t]}
    BY DEF UniqueIsSole
  <2>1. PICK s \in Local : s = sole'[t]
    BY DEF TypeOK
  <2>2. PICK o \in Obj : o = loc[s]
    BY <1>6, <2>1 DEF TypeOK, SoleHolds, Loc
  <2>3. s \in Tokens(o)
    BY <2>1, <2>2 DEF Tokens, Loc
  <2>4. Tokens(o) = {s}
    <3>1. CASE s = sole[t]
      BY <2>1, <2>2, <3>1 DEF UniqueIsSole
    <3>2. CASE refcount[o] = 1
      BY <2>2, <2>3, <3>2, CountTells
    <3> QED
      BY <2>1, <2>2, <3>1, <3>2
  <2>5. Tokens(loc[sole[t]])' = Tokens(o)'
    BY <2>1, <2>2
  <2> QED
    BY <1>1, <2>1, <2>4, <2>5
<1> QED
  BY <1>2, <1>3, <1>4, <1>5, <1>6, <1>7

\* The block that malloc returns had no reference and gets its first one.
LEMMA AllocStep ==
  ASSUME IInv, TypeOK',
         NEW t \in Thread, NEW l \in Local, NEW o \in Obj, Alloc(t, l, o)
  PROVE  IInv'
<1> USE SetsAssumption DEF IInv, SetsAssumption, Loc
<1>1. Tokens(o) = {}
  BY DEF Alloc, Tokens, NoDanglingReference, RetainsHold
<1>2. Tokens(o)' = {l}
  BY <1>1 DEF Alloc, Tokens, Empty, TypeOK
<1>3. \A p \in Obj \ {o} : Tokens(p)' = Tokens(p)
  BY DEF Alloc, Tokens, Empty, TypeOK
<1>4. \A p \in Obj : Doomed(p)' = Doomed(p)
  BY DEF Alloc, Doomed, BadRetain
<1>5. Cardinality(Tokens(o)') = 1
  BY <1>2, FS_Singleton
<1>6. CountIsExact'
  BY <1>3, <1>5, WidthAssumption
  DEF Alloc, FirstCount, CountIsExact, Wrap, WidthAssumption, TypeOK
<1>7. WidthHolds'
  <2> SUFFICES ASSUME NEW p \in Obj
               PROVE  Cardinality(Tokens(p)' \ Doomed(p)') <= MaxRef
    BY DEF WidthHolds
  <2>1. CASE p = o
    <3>1. IsFiniteSet({l}) /\ Cardinality({l}) = 1
      BY FS_Singleton
    <3>2. Cardinality(Tokens(o)' \ Doomed(o)') <= 1
      BY <1>2, <3>1, FS_Subset
    <3>3. Cardinality(Tokens(o)' \ Doomed(o)') \in Nat
      BY <1>2, <3>1, FS_Subset, FS_CardinalityType
    <3> QED
      BY <2>1, <3>2, <3>3, WidthAssumption DEF WidthAssumption
  <2>2. CASE p # o
    BY <2>2, <1>3, <1>4 DEF WidthHolds
  <2> QED
    BY <2>1, <2>2
<1>8. NoDanglingReference'
  BY DEF Alloc, NoDanglingReference, TypeOK
<1>9. DestroyedOnce'
  BY DEF Alloc, DestroyedOnce, TypeOK
<1>10. RetainsHold'
  <2> SUFFICES ASSUME NEW u \in Thread, pc'[u] = "retained"
               PROVE  /\ loc'[dest'[u]] = Null
                      /\ \A v \in Thread : dest'[v] = dest'[u] => v = u
                      /\ \/ heap'[arg'[u]] = "live"
                         \/ /\ heap'[arg'[u]] = "dying"
                            /\ InDeinit(u, arg[u])' /\ BadRetain(u)'
    BY DEF RetainsHold
  <2>1. dest[u] # l /\ dest[u] \in Loc /\ arg[u] \in Obj
    BY DEF Alloc, Empty, TypeOK
  <2> QED
    BY <2>1 DEF Alloc, RetainsHold, InDeinit, BadRetain, TypeOK
<1>11. LastHolds'
  BY <1>3 DEF Alloc, LastHolds, TypeOK
<1>12. SoleHolds'
  BY DEF Alloc, SoleHolds, TypeOK
<1>13. UniqueIsSole'
  <2> SUFFICES ASSUME NEW u \in Thread, sole'[u] # Null
               PROVE  Tokens(loc[sole[u]])' = {sole'[u]}
    BY DEF UniqueIsSole
  <2>1. u # t /\ sole'[u] = sole[u] /\ sole[u] \in Local
    BY DEF Alloc, TypeOK
  <2>2. loc[sole[u]] \in Obj /\ sole[u] # l
    BY <2>1 DEF Alloc, SoleHolds, TypeOK
  <2>3. loc[sole[u]] # o /\ loc'[sole[u]] = loc[sole[u]]
    BY <2>1, <2>2 DEF Alloc, NoDanglingReference, TypeOK
  <2> QED
    BY <1>3, <2>1, <2>2, <2>3 DEF UniqueIsSole
<1> QED
  BY <1>6, <1>7, <1>8, <1>9, <1>10, <1>11, <1>12, <1>13

\* Incrementing the count of a live block adds the thread to its references;
\* the retain of an object by its own deinit_fn finds the count 0.
LEMMA RetainAddStep ==
  ASSUME IInv, TypeOK',
         NEW t \in Thread, NEW o \in Obj, NEW d \in Loc, RetainAdd(t, o, d)
  PROVE  IInv'
<1> USE SetsAssumption DEF IInv, SetsAssumption
<1>1. t \notin Tokens(o)
  BY DEF RetainAdd, Running, Tokens, Loc
<1>2. /\ Tokens(o)' = Tokens(o) \cup {t}
      /\ \A p \in Obj \ {o} : Tokens(p)' = Tokens(p)
  BY DEF RetainAdd, Running, Tokens, TypeOK
<1>3. /\ \A p \in Obj \ {o} : Doomed(p)' = Doomed(p)
      /\ BadRetain(t)' => Doomed(o)' = Doomed(o) \cup {t}
      /\ ~BadRetain(t)' => Doomed(o)' = Doomed(o)
  BY DEF RetainAdd, Running, Doomed, BadRetain, TypeOK
<1>4. CountIsExact'
  <2>1. Wrap(Cardinality(Tokens(o) \cup {t})) = Inc(refcount[o])
    BY <1>1, CountMoves DEF CountIsExact
  <2>2. refcount'[o] = Wrap(Cardinality(Tokens(o)'))
    BY <1>2, <2>1 DEF RetainAdd, TypeOK
  <2>3. \A p \in Obj \ {o} : refcount'[p] = Wrap(Cardinality(Tokens(p)'))
    BY <1>2 DEF RetainAdd, CountIsExact, TypeOK
  <2> QED
    BY <2>2, <2>3 DEF CountIsExact
<1>5. BadRetain(t)' <=> refcount[o] <= 0 \/ refcount[o] = MaxRef
  BY DEF RetainAdd, BadRetain, TypeOK
<1>6. WidthHolds'
  <2> SUFFICES Cardinality(Tokens(o)' \ Doomed(o)') <= MaxRef
    BY <1>2, <1>3 DEF WidthHolds
  <2>1. CASE BadRetain(t)'
    <3>1. Tokens(o)' \ Doomed(o)' = Tokens(o) \ Doomed(o)
      BY <1>1, <1>2, <1>3, <2>1
    <3> QED
      BY <3>1 DEF WidthHolds
  <2>2. CASE ~BadRetain(t)'
    <3>1. refcount[o] > 0 /\ refcount[o] < MaxRef
      BY <1>5, <2>2, WidthAssumption DEF TypeOK, Word, WidthAssumption
    <3>2. /\ IsFiniteSet(Tokens(o))
          /\ Cardinality(Tokens(o)) = refcount[o]
      BY <3>1, Counting, CountTells
    <3>3. /\ IsFiniteSet(Tokens(o)')
          /\ Cardinality(Tokens(o)') = refcount[o] + 1
      BY <1>1, <1>2, <3>2, FS_AddElement
    <3>4. /\ Cardinality(Tokens(o)' \ Doomed(o)') <= refcount[o] + 1
          /\ Cardinality(Tokens(o)' \ Doomed(o)') \in Nat
      BY <3>3, FS_Subset, FS_CardinalityType
    <3> QED
      BY <3>1, <3>4, WidthAssumption DEF WidthAssumption, TypeOK, Word
  <2> QED
    BY <2>1, <2>2
<1>7. NoDanglingReference' /\ DestroyedOnce'
  BY DEF RetainAdd, NoDanglingReference, DestroyedOnce
<1>8. heap[o] = "live" \/ (heap[o] = "dying" /\ InDeinit(t, o) /\ BadRetain(t)')
  <2>1. InDeinit(t, o) => refcount[o] = 0
    BY Reachable, CountTells DEF RetainAdd
  <2> QED
    BY <1>5, <2>1, Reachable DEF RetainAdd
<1>9. RetainsHold'
  <2> SUFFICES ASSUME NEW u \in Thread, pc'[u] = "retained"
               PROVE  /\ loc'[dest'[u]] = Null
                      /\ \A v \in Thread : dest'[v] = dest'[u] => v = u
                      /\ \/ heap'[arg'[u]] = "live"
                         \/ /\ heap'[arg'[u]] = "dying"
                            /\ InDeinit(u, arg[u])' /\ BadRetain(u)'
    BY DEF RetainsHold
  <2>1. CASE u = t
    BY <2>1, <1>8 DEF RetainAdd, Empty, InDeinit, TypeOK
  <2>2. CASE u # t
    BY <2>2 DEF RetainAdd, Empty, RetainsHold, InDeinit, BadRetain, TypeOK
  <2> QED
    BY <2>1, <2>2
<1>10. LastHolds'
  <2> SUFFICES ASSUME NEW u \in Thread, pc'[u] = "released", old'[u] = 1
               PROVE  /\ heap'[arg'[u]] = "live" /\ Tokens(arg[u])' = {}
                      /\ \A v \in Thread :
                           pc'[v] = "released" /\ old'[v] = 1
                             /\ arg'[v] = arg'[u] => v = u
    BY DEF LastHolds
  <2>1. /\ u # t /\ pc[u] = "released" /\ old[u] = 1 /\ arg'[u] = arg[u]
        /\ arg[u] \in Obj
    BY DEF RetainAdd, TypeOK
  <2>2. arg[u] # o
    <3>1. heap[arg[u]] = "live" /\ Tokens(arg[u]) = {}
      BY <2>1 DEF LastHolds
    <3>2. \A l \in Loc : loc[l] # arg[u]
      BY <3>1 DEF Tokens
    <3>3. ~Knows(t, arg[u])
      BY <2>1, <3>1, <3>2, Reachable DEF RetainAdd, Knows, Reaches, Loc
    <3> QED
      BY <3>3 DEF RetainAdd
  <2> QED
    BY <1>2, <2>1, <2>2 DEF RetainAdd, LastHolds, TypeOK
<1>11. SoleHolds'
  BY DEF RetainAdd, Running, SoleHolds, TypeOK
<1>12. UniqueIsSole'
  <2> SUFFICES ASSUME NEW u \in Thread, sole'[u] # Null
               PROVE  Tokens(loc[sole[u]])' = {sole'[u]}
    BY DEF UniqueIsSole
  <2>1. u # t /\ sole'[u] = sole[u] /\ sole[u] \in Local
    BY DEF RetainAdd, TypeOK
  <2>2. loc[sole[u]] \in Obj /\ Owner[sole[u]] = u /\ loc' = loc
    BY <2>1 DEF RetainAdd, SoleHolds, TypeOK, Loc
  <2>3. loc[sole[u]] # o
    <3>1. \A l \in Loc : loc[l] = loc[sole[u]] => l = sole[u]
      BY <2>1, <2>2 DEF UniqueIsSole, Tokens
    <3>2. ~InDeinit(t, loc[sole[u]])
      BY <2>1, <2>2, Reachable
      DEF RetainAdd, NoDanglingReference, Loc
    <3>3. ~Knows(t, loc[sole[u]])
      BY <2>1, <2>2, <3>1, <3>2 DEF Knows, Reaches, Loc
    <3> QED
      BY <3>3 DEF RetainAdd
  <2> QED
    BY <1>2, <2>1, <2>2, <2>3 DEF UniqueIsSole
<1> QED
  BY <1>4, <1>6, <1>7, <1>9, <1>10, <1>11, <1>12

\* The thread's claim to the block becomes that of the location it assigns.
LEMMA RetainReturnStep ==
  ASSUME IInv, TypeOK', NEW t \in Thread, RetainReturn(t)
  PROVE  IInv'
<1> USE SetsAssumption DEF IInv, SetsAssumption
<1>1. PICK d \in Loc, o \in Obj :
        /\ d = dest[t] /\ o = arg[t] /\ loc[d] = Null /\ heap[o] = "live"
        /\ pc[t] = "retained" /\ ~BadRetain(t)
        /\ loc' = [loc EXCEPT ![d] = o]
        /\ pc' = [pc EXCEPT ![t] = "idle"]
        /\ dest' = [dest EXCEPT ![t] = Null]
        /\ UNCHANGED <<refcount, heap, arg, old, stack, sole, aborted>>
  <2>1. dest[t] \in Loc /\ arg[t] \in Obj
    BY DEF RetainReturn, TypeOK
  <2>2. loc[dest[t]] = Null /\ heap[arg[t]] = "live"
    BY DEF RetainReturn, RetainsHold
  <2> QED
    BY <2>1, <2>2, Zenon DEF RetainReturn
<1>2. /\ t \in Tokens(o) /\ d \notin Tokens(o) /\ t \notin Doomed(o)
      /\ d \notin Thread
  BY <1>1 DEF Tokens, Doomed, Loc
<1>3. /\ Tokens(o)' = (Tokens(o) \ {t}) \cup {d}
      /\ \A p \in Obj \ {o} : Tokens(p)' = Tokens(p)
      /\ \A p \in Obj : Doomed(p)' = Doomed(p)
  <2>1. \A p \in Obj, m \in Loc :
          loc'[m] = p <=> IF m = d THEN p = o ELSE loc[m] = p
    BY <1>1 DEF TypeOK
  <2>2. \A p \in Obj, u \in Thread :
          pc'[u] = "retained" /\ arg'[u] = p
            <=> u # t /\ pc[u] = "retained" /\ arg[u] = p
    BY <1>1 DEF TypeOK
  <2>3. \A p \in Obj : loc[d] # p
    BY <1>1
  <2>4. \A p \in Obj : Doomed(p)' = Doomed(p)
    BY <1>1, <2>2 DEF Doomed, BadRetain
  <2>5. Tokens(o)' = (Tokens(o) \ {t}) \cup {d}
    BY <1>1, <2>1, <2>2 DEF Tokens, Loc
  <2>6. \A p \in Obj \ {o} : Tokens(p)' = Tokens(p)
    BY <1>1, <2>1, <2>2, <2>3 DEF Tokens
  <2> QED
    BY <2>4, <2>5, <2>6
<1>4. /\ IsFiniteSet(Tokens(o)) /\ IsFiniteSet(Tokens(o) \ Doomed(o))
      /\ Cardinality(Tokens(o)) \in Nat
      /\ Cardinality(Tokens(o) \ Doomed(o)) \in Nat
  BY Counting, FS_Difference, FS_CardinalityType
<1>5. Cardinality(Tokens(o)') = Cardinality(Tokens(o))
  <2>1. /\ IsFiniteSet(Tokens(o) \ {t})
        /\ Cardinality(Tokens(o) \ {t}) = Cardinality(Tokens(o)) - 1
    BY <1>2, <1>4, FS_RemoveElement
  <2>2. Cardinality((Tokens(o) \ {t}) \cup {d}) =
          Cardinality(Tokens(o) \ {t}) + 1
    BY <1>2, <2>1, FS_AddElement
  <2> QED
    BY <1>3, <1>4, <2>1, <2>2
<1>6. Cardinality(Tokens(o)' \ Doomed(o)') = Cardinality(Tokens(o) \ Doomed(o))
  <2> DEFINE G == Tokens(o) \ Doomed(o)
             H == (G \ {t}) \cup {d}
  <2>1. Tokens(o)' \ Doomed(o)' = H
    BY <1>2, <1>3 DEF Doomed
  <2>2. t \in G /\ d \notin G
    BY <1>2
  <2>3. IsFiniteSet(G \ {t}) /\ Cardinality(G \ {t}) = Cardinality(G) - 1
    BY <1>4, <2>2, FS_RemoveElement
  <2>4. Cardinality(H) = Cardinality(G \ {t}) + 1
    BY <2>2, <2>3, FS_AddElement
  <2>5. Cardinality(G) \in Nat
    BY <1>4
  <2>6. Cardinality(H) = Cardinality(G)
    BY <2>3, <2>4, <2>5
  <2> QED
    BY <2>1, <2>6, Zenon
<1>7. CountIsExact'
  <2>1. refcount'[o] = Wrap(Cardinality(Tokens(o)'))
    BY <1>1, <1>5 DEF CountIsExact
  <2>2. \A p \in Obj \ {o} : refcount'[p] = Wrap(Cardinality(Tokens(p)'))
    BY <1>1, <1>3 DEF CountIsExact
  <2> QED
    BY <2>1, <2>2 DEF CountIsExact
<1>8. WidthHolds'
  <2>1. Cardinality(Tokens(o)' \ Doomed(o)') <= MaxRef
    BY <1>6 DEF WidthHolds
  <2>2. \A p \in Obj \ {o} : Cardinality(Tokens(p)' \ Doomed(p)') <= MaxRef
    BY <1>3 DEF WidthHolds
  <2> QED
    BY <2>1, <2>2 DEF WidthHolds
<1>9. NoDanglingReference'
  BY <1>1 DEF NoDanglingReference, TypeOK
<1>10. DestroyedOnce'
  BY <1>1 DEF DestroyedOnce
<1>11. RetainsHold'
  <2> SUFFICES ASSUME NEW u \in Thread, pc'[u] = "retained"
               PROVE  /\ loc'[dest'[u]] = Null
                      /\ \A v \in Thread : dest'[v] = dest'[u] => v = u
                      /\ \/ heap'[arg'[u]] = "live"
                         \/ /\ heap'[arg'[u]] = "dying"
                            /\ InDeinit(u, arg[u])' /\ BadRetain(u)'
    BY DEF RetainsHold
  <2>1. u # t /\ pc[u] = "retained"
    BY <1>1 DEF TypeOK
  <2>2. dest[u] # d /\ dest[u] # Null /\ dest[u] \in Loc
    BY <1>1, <2>1 DEF RetainsHold, TypeOK
  <2> QED
    BY <1>1, <2>1, <2>2 DEF RetainsHold, InDeinit, BadRetain, TypeOK
<1>12. LastHolds'
  <2> SUFFICES ASSUME NEW u \in Thread, pc'[u] = "released", old'[u] = 1
               PROVE  /\ heap'[arg'[u]] = "live" /\ Tokens(arg[u])' = {}
                      /\ \A v \in Thread :
                           pc'[v] = "released" /\ old'[v] = 1
                             /\ arg'[v] = arg'[u] => v = u
    BY DEF LastHolds
  <2>1. pc[u] = "released" /\ arg[u] \in Obj
    BY <1>1 DEF TypeOK
  <2>2. arg[u] # o
    BY <1>1, <1>2, <2>1 DEF LastHolds
  <2> QED
    BY <1>1, <1>3, <2>1, <2>2 DEF LastHolds, TypeOK
<1>13. SoleHolds'
  BY <1>1 DEF SoleHolds, TypeOK
<1>14. UniqueIsSole'
  <2> SUFFICES ASSUME NEW u \in Thread, sole'[u] # Null
               PROVE  Tokens(loc[sole[u]])' = {sole'[u]}
    BY DEF UniqueIsSole
  <2>1. u # t /\ sole'[u] = sole[u] /\ sole[u] \in Local
    BY <1>1 DEF TypeOK, SoleHolds
  <2>2. loc[sole[u]] \in Obj /\ loc'[sole[u]] = loc[sole[u]]
    BY <1>1, <2>1 DEF SoleHolds, TypeOK, Loc
  <2>3. loc[sole[u]] # o
    BY <1>2, <2>1 DEF UniqueIsSole, Loc
  <2> QED
    BY <1>3, <2>1, <2>2, <2>3 DEF UniqueIsSole
<1> QED
  BY <1>7, <1>8, <1>9, <1>10, <1>11, <1>12, <1>13, <1>14

\* Giving up a reference: if the count read was 1, it was the last one.
LEMMA ReleaseSubStep ==
  ASSUME IInv, TypeOK', NEW t \in Thread, NEW l \in Loc, ReleaseSub(t, l)
  PROVE  IInv'
<1> USE SetsAssumption DEF IInv, SetsAssumption
<1>1. PICK o \in Obj :
        /\ o = loc[l] /\ heap[o] = "live" /\ pc[t] = "idle"
        /\ refcount' = [refcount EXCEPT ![o] = Dec(@)]
        /\ loc' = [loc EXCEPT ![l] = Null]
        /\ pc' = [pc EXCEPT ![t] = "released"]
        /\ arg' = [arg EXCEPT ![t] = o]
        /\ old' = [old EXCEPT ![t] = refcount[o]]
        /\ sole' = [sole EXCEPT ![t] = Null]
        /\ UNCHANGED <<heap, dest, stack, aborted>>
  <2>1. loc[l] \in Obj /\ heap[loc[l]] = "live"
    BY DEF ReleaseSub, NoDanglingReference, TypeOK
  <2> QED
    BY <2>1, Zenon DEF ReleaseSub, Running
<1>2. l \in Tokens(o) /\ l \notin Doomed(o) /\ l \notin Thread
  BY <1>1 DEF Tokens, Doomed, Loc
<1>3. /\ Tokens(o)' = Tokens(o) \ {l}
      /\ \A p \in Obj \ {o} : Tokens(p)' = Tokens(p)
  BY <1>1, <1>2 DEF Tokens, TypeOK
<1>4. \A p \in Obj : Doomed(p)' = Doomed(p)
  BY <1>1 DEF Doomed, BadRetain, TypeOK
<1>5. CountIsExact'
  <2>1. Wrap(Cardinality(Tokens(o) \ {l})) = Dec(refcount[o])
    BY <1>2, CountMoves DEF CountIsExact
  <2>2. refcount'[o] = Wrap(Cardinality(Tokens(o)'))
    BY <1>1, <1>3, <2>1 DEF TypeOK
  <2>3. \A p \in Obj \ {o} : refcount'[p] = Wrap(Cardinality(Tokens(p)'))
    BY <1>1, <1>3 DEF CountIsExact, TypeOK
  <2> QED
    BY <2>2, <2>3 DEF CountIsExact
<1>6. WidthHolds'
  <2>1. /\ IsFiniteSet(Tokens(o) \ Doomed(o))
        /\ Cardinality(Tokens(o) \ Doomed(o)) \in Nat
    BY Counting, FS_Difference, FS_CardinalityType
  <2>2. Tokens(o)' \ Doomed(o)' \subseteq Tokens(o) \ Doomed(o)
    BY <1>3, <1>4
  <2>3. /\ Cardinality(Tokens(o)' \ Doomed(o)') <=
             Cardinality(Tokens(o) \ Doomed(o))
        /\ Cardinality(Tokens(o)' \ Doomed(o)') \in Nat
    BY <2>1, <2>2, FS_Subset, FS_CardinalityType
  <2>4. Cardinality(Tokens(o)' \ Doomed(o)') <= MaxRef
    BY <2>1, <2>3, WidthAssumption DEF WidthHolds, WidthAssumption
  <2> QED
    BY <1>3, <1>4, <2>4 DEF WidthHolds
<1>7. NoDanglingReference'
  BY <1>1 DEF NoDanglingReference, TypeOK
<1>8. DestroyedOnce'
  BY <1>1 DEF DestroyedOnce
<1>9. RetainsHold'
  <2> SUFFICES ASSUME NEW u \in Thread, pc'[u] = "retained"
               PROVE  /\ loc'[dest'[u]] = Null
                      /\ \A v \in Thread : dest'[v] = dest'[u] => v = u
                      /\ \/ heap'[arg'[u]] = "live"
                         \/ /\ heap'[arg'[u]] = "dying"
                            /\ InDeinit(u, arg[u])' /\ BadRetain(u)'
    BY DEF RetainsHold
  <2>1. u # t /\ pc[u] = "retained" /\ dest[u] \in Loc
    BY <1>1 DEF TypeOK
  <2> QED
    BY <1>1, <2>1 DEF RetainsHold, InDeinit, BadRetain, TypeOK
<1>10. LastHolds'
  <2>1. \A u \in Thread : pc[u] = "released" /\ old[u] = 1 => arg[u] # o
    BY <1>2 DEF LastHolds
  <2> SUFFICES ASSUME NEW u \in Thread, pc'[u] = "released", old'[u] = 1
               PROVE  /\ heap'[arg'[u]] = "live" /\ Tokens(arg[u])' = {}
                      /\ \A v \in Thread :
                           pc'[v] = "released" /\ old'[v] = 1
                             /\ arg'[v] = arg'[u] => v = u
    BY DEF LastHolds
  <2>2. CASE u = t
    <3>1. refcount[o] = 1 /\ arg'[u] = o
      BY <1>1, <2>2 DEF TypeOK
    <3>2. Tokens(o)' = {}
      BY <1>2, <1>3, <3>1, CountTells
    <3> QED
      BY <1>1, <2>1, <2>2, <3>1, <3>2 DEF TypeOK
  <2>3. CASE u # t
    <3>1. /\ pc[u] = "released" /\ old[u] = 1 /\ arg'[u] = arg[u]
          /\ arg[u] \in Obj
      BY <1>1, <2>3 DEF TypeOK
    <3> QED
      BY <1>1, <1>3, <2>1, <2>3, <3>1 DEF LastHolds, TypeOK
  <2> QED
    BY <2>2, <2>3
<1>11. SoleHolds' /\ \A u \in Thread : sole'[u] # Null => sole[u] # l
  <2>1. ASSUME NEW u \in Thread, sole'[u] # Null
        PROVE  /\ u # t /\ sole'[u] = sole[u] /\ sole[u] \in Local
               /\ sole[u] # l
    <3>1. u # t /\ sole'[u] = sole[u] /\ sole[u] \in Local
      BY <1>1, <2>1 DEF TypeOK
    <3>2. Owner[sole[u]] = u
      BY <2>1, <3>1 DEF SoleHolds
    <3>3. l \in Obj \/ Owner[l] = t
      BY Popped DEF ReleaseSub, InDeinit, TypeOK
    <3> QED
      BY <3>1, <3>2, <3>3
  <2> QED
    BY <1>1, <2>1 DEF SoleHolds, TypeOK, Loc
<1>12. UniqueIsSole'
  <2> SUFFICES ASSUME NEW u \in Thread, sole'[u] # Null
               PROVE  Tokens(loc[sole[u]])' = {sole'[u]}
    BY DEF UniqueIsSole
  <2>1. u # t /\ sole'[u] = sole[u] /\ sole[u] \in Local /\ sole[u] # l
    BY <1>1, <1>11 DEF TypeOK
  <2>2. loc[sole[u]] \in Obj /\ loc'[sole[u]] = loc[sole[u]]
    BY <1>1, <2>1 DEF SoleHolds, TypeOK, Loc
  <2>3. loc[sole[u]] # o
    BY <1>2, <2>1 DEF UniqueIsSole
  <2> QED
    BY <1>3, <2>1, <2>2, <2>3 DEF UniqueIsSole
<1> QED
  BY <1>5, <1>6, <1>7, <1>8, <1>9, <1>10, <1>11, <1>12

\* The destruction begins of a block that nothing refers to.
LEMMA ReleaseLastStep ==
  ASSUME IInv, TypeOK', NEW t \in Thread, ReleaseLast(t)
  PROVE  IInv'
<1> USE SetsAssumption DEF IInv, SetsAssumption
<1>1. PICK o \in Obj :
        /\ o = arg[t] /\ heap[o] = "live" /\ Tokens(o) = {}
        /\ pc[t] = "released" /\ old[t] = 1
        /\ heap' = [heap EXCEPT ![o] = "dying"]
        /\ stack' = [stack EXCEPT ![t] = <<o>> \o @]
        /\ pc' = [pc EXCEPT ![t] = "idle"]
        /\ UNCHANGED <<refcount, loc, arg, old, dest, sole, aborted>>
  <2>1. arg[t] \in Obj
    BY DEF ReleaseLast, TypeOK
  <2>2. heap[arg[t]] = "live" /\ Tokens(arg[t]) = {}
    BY DEF ReleaseLast, TookLast, LastHolds
  <2> QED
    BY <2>1, <2>2, Zenon DEF ReleaseLast, TookLast
<1>2. \A p \in Obj : Tokens(p)' = Tokens(p) /\ Doomed(p)' = Doomed(p)
  BY <1>1 DEF Tokens, Doomed, BadRetain, TypeOK
<1>3. CountIsExact' /\ WidthHolds'
  BY <1>1, <1>2 DEF CountIsExact, WidthHolds
<1>4. /\ \A l \in Loc : loc[l] # o
      /\ \A u \in Thread : pc[u] = "retained" => arg[u] # o
  BY <1>1 DEF Tokens
<1>5. NoDanglingReference'
  BY <1>1, <1>4 DEF NoDanglingReference, TypeOK
<1>6. DestroyedOnce'
  <2>1. /\ Len(stack'[t]) = Len(stack[t]) + 1 /\ stack'[t][1] = o
        /\ \A i \in 1..Len(stack[t]) : stack'[t][i + 1] = stack[t][i]
        /\ \A u \in Thread \ {t} : stack'[u] = stack[u]
        /\ \A u \in Thread : Len(stack[u]) \in Nat
    BY <1>1, Pushed DEF TypeOK
  <2>2. \A u \in Thread : \A i \in 1..Len(stack[u]) : stack[u][i] # o
    BY <1>1 DEF DestroyedOnce
  <2>3. ASSUME NEW u \in Thread, NEW i \in 1..Len(stack'[u])
        PROVE  \/ u = t /\ i = 1 /\ stack'[u][i] = o
               \/ /\ u = t /\ i - 1 \in 1..Len(stack[u])
                  /\ stack'[u][i] = stack[u][i - 1]
               \/ /\ u # t /\ i \in 1..Len(stack[u])
                  /\ stack'[u][i] = stack[u][i]
    BY <2>1, <2>3
  <2>4. \A u \in Thread : \A i \in 1..Len(stack'[u]) :
          heap'[stack'[u][i]] = "dying"
    BY <1>1, <2>3 DEF DestroyedOnce, TypeOK
  <2>5. ASSUME NEW u \in Thread, NEW v \in Thread,
               NEW i \in 1..Len(stack'[u]), NEW j \in 1..Len(stack'[v]),
               stack'[u][i] = stack'[v][j]
        PROVE  u = v /\ i = j
    <3>1. CASE stack'[u][i] = o
      <4>1. u = t /\ i = 1
        BY <2>2, <2>3, <3>1
      <4>2. stack'[v][j] = o
        BY <2>5, <3>1
      <4>3. v = t /\ j = 1
        BY <2>2, <2>3, <4>2
      <4> QED
        BY <4>1, <4>3
    <3>2. CASE stack'[u][i] # o
      <4>1. \A a, b \in Thread :
              \A c \in 1..Len(stack[a]), d \in 1..Len(stack[b]) :
                stack[a][c] = stack[b][d] => a = b /\ c = d
        BY DEF DestroyedOnce
      <4> DEFINE k == IF u = t THEN i - 1 ELSE i
                 l == IF v = t THEN j - 1 ELSE j
      <4>2. k \in 1..Len(stack[u]) /\ stack'[u][i] = stack[u][k]
        BY <2>3, <3>2
      <4>3. l \in 1..Len(stack[v]) /\ stack'[v][j] = stack[v][l]
        BY <2>3, <2>5, <3>2
      <4> HIDE DEF k, l
      <4>4. stack[u][k] = stack[v][l]
        BY <2>5, <4>2, <4>3
      <4>5. u = v /\ k = l
        BY <4>1, <4>2, <4>3, <4>4
      <4> QED
        BY <4>5 DEF k, l
    <3> QED
      BY <3>1, <3>2
  <2> QED
    BY <2>4, <2>5 DEF DestroyedOnce
<1>7. RetainsHold'
  <2> SUFFICES ASSUME NEW u \in Thread, pc'[u] = "retained"
               PROVE  /\ loc'[dest'[u]] = Null
                      /\ \A v \in Thread : dest'[v] = dest'[u] => v = u
                      /\ \/ heap'[arg'[u]] = "live"
                         \/ /\ heap'[arg'[u]] = "dying"
                            /\ InDeinit(u, arg[u])' /\ BadRetain(u)'
    BY DEF RetainsHold
  <2>1. u # t /\ pc[u] = "retained" /\ arg[u] \in Obj
    BY <1>1 DEF TypeOK
  <2>2. arg[u] # o
    BY <1>4, <2>1
  <2> QED
    BY <1>1, <2>1, <2>2 DEF RetainsHold, InDeinit, BadRetain, TypeOK
<1>8. LastHolds'
  <2> SUFFICES ASSUME NEW u \in Thread, pc'[u] = "released", old'[u] = 1
               PROVE  /\ heap'[arg'[u]] = "live" /\ Tokens(arg[u])' = {}
                      /\ \A v \in Thread :
                           pc'[v] = "released" /\ old'[v] = 1
                             /\ arg'[v] = arg'[u] => v = u
    BY DEF LastHolds
  <2>1. /\ u # t /\ pc[u] = "released" /\ old[u] = 1 /\ arg[u] \in Obj
    BY <1>1 DEF TypeOK
  <2>2. arg[u] # o
    BY <1>1, <2>1 DEF LastHolds
  <2> QED
    BY <1>1, <1>2, <2>1, <2>2 DEF LastHolds, TypeOK
<1>9. SoleHolds'
  BY <1>1 DEF SoleHolds, TypeOK
<1>10. UniqueIsSole'
  <2> SUFFICES ASSUME NEW u \in Thread, sole'[u] # Null
               PROVE  Tokens(loc[sole[u]])' = {sole'[u]}
    BY DEF UniqueIsSole
  <2>1. sole' = sole /\ loc' = loc
    BY <1>1
  <2>2. loc[sole[u]] \in Obj
    BY <2>1 DEF SoleHolds, TypeOK, Loc
  <2> QED
    BY <1>2, <2>1, <2>2 DEF UniqueIsSole
<1> QED
  BY <1>3, <1>5, <1>6, <1>7, <1>8, <1>9, <1>10

\* The block freed is the innermost one the thread was destroying, and nobody
\* refers to it.
LEMMA FreeStep ==
  ASSUME IInv, TypeOK', NEW t \in Thread, Free(t)
  PROVE  IInv'
<1> USE SetsAssumption DEF IInv, SetsAssumption
<1>1. PICK o \in Obj :
        /\ o = Head(stack[t]) /\ InDeinit(t, o) /\ pc[t] = "idle"
        /\ heap[o] = "dying" /\ Tokens(o) = {}
        /\ heap' = [heap EXCEPT ![o] = "free"]
        /\ stack' = [stack EXCEPT ![t] = Tail(@)]
        /\ sole' = [sole EXCEPT ![t] = Null]
        /\ UNCHANGED <<refcount, loc, pc, arg, old, dest, aborted>>
  <2>1. Head(stack[t]) \in Obj
    BY Popped DEF Free, TypeOK
  <2>2. InDeinit(t, Head(stack[t]))
    BY DEF Free, InDeinit
  <2>3. heap[Head(stack[t])] = "dying" /\ Tokens(Head(stack[t])) = {}
    BY <2>1, <2>2, Reachable DEF Free
  <2> QED
    BY <2>1, <2>2, <2>3, Zenon DEF Free, Running
<1>2. \A p \in Obj : Tokens(p)' = Tokens(p) /\ Doomed(p)' = Doomed(p)
  BY <1>1 DEF Tokens, Doomed, BadRetain
<1>3. CountIsExact' /\ WidthHolds'
  BY <1>1, <1>2 DEF CountIsExact, WidthHolds
<1>4. NoDanglingReference'
  BY <1>1 DEF NoDanglingReference, Tokens, TypeOK
<1>5. DestroyedOnce'
  <2>1. /\ Len(stack[t]) \in Nat \ {0} /\ stack[t][1] = o
        /\ Len(stack'[t]) = Len(stack[t]) - 1
        /\ \A i \in 1..(Len(stack[t]) - 1) : stack'[t][i] = stack[t][i + 1]
        /\ \A u \in Thread \ {t} : stack'[u] = stack[u]
    BY <1>1, Popped DEF InDeinit, TypeOK
  <2>2. ASSUME NEW u \in Thread, NEW i \in 1..Len(stack'[u])
        PROVE  /\ u = t => /\ i + 1 \in 1..Len(stack[u])
                           /\ stack'[u][i] = stack[u][i + 1]
               /\ u # t => /\ i \in 1..Len(stack[u])
                           /\ stack'[u][i] = stack[u][i]
               /\ stack'[u][i] # o
    <3>1. u = t => /\ i + 1 \in 1..Len(stack[u])
                   /\ stack'[u][i] = stack[u][i + 1] /\ i + 1 # 1
      BY <2>1
    <3>2. u # t => i \in 1..Len(stack[u]) /\ stack'[u][i] = stack[u][i]
      BY <2>1
    <3>3. 1 \in 1..Len(stack[t])
      BY <2>1
    <3> QED
      BY <2>1, <3>1, <3>2, <3>3 DEF DestroyedOnce
  <2>3. \A u \in Thread : \A i \in 1..Len(stack'[u]) :
          heap'[stack'[u][i]] = "dying"
    BY <1>1, <2>2 DEF DestroyedOnce, TypeOK
  <2>4. ASSUME NEW u \in Thread, NEW v \in Thread,
               NEW i \in 1..Len(stack'[u]), NEW j \in 1..Len(stack'[v]),
               stack'[u][i] = stack'[v][j]
        PROVE  u = v /\ i = j
    <3>1. CASE u = t /\ v = t
      BY <2>2, <2>4, <3>1 DEF DestroyedOnce
    <3>2. CASE u = t /\ v # t
      BY <2>2, <2>4, <3>2 DEF DestroyedOnce
    <3>3. CASE u # t /\ v = t
      BY <2>2, <2>4, <3>3 DEF DestroyedOnce
    <3>4. CASE u # t /\ v # t
      BY <2>2, <2>4, <3>4 DEF DestroyedOnce
    <3> QED
      BY <3>1, <3>2, <3>3, <3>4
  <2> QED
    BY <2>3, <2>4 DEF DestroyedOnce
<1>6. RetainsHold'
  <2> SUFFICES ASSUME NEW u \in Thread, pc'[u] = "retained"
               PROVE  /\ loc'[dest'[u]] = Null
                      /\ \A v \in Thread : dest'[v] = dest'[u] => v = u
                      /\ \/ heap'[arg'[u]] = "live"
                         \/ /\ heap'[arg'[u]] = "dying"
                            /\ InDeinit(u, arg[u])' /\ BadRetain(u)'
    BY DEF RetainsHold
  <2>1. u # t /\ pc[u] = "retained" /\ arg[u] \in Obj
    BY <1>1 DEF TypeOK
  <2>2. arg[u] # o
    BY <1>1, <2>1 DEF Tokens
  <2> QED
    BY <1>1, <2>1, <2>2 DEF RetainsHold, InDeinit, BadRetain, TypeOK
<1>7. LastHolds'
  <2>1. \A u \in Thread : pc[u] = "released" /\ old[u] = 1 => arg[u] # o
    BY <1>1 DEF LastHolds
  <2> QED
    BY <1>1, <1>2, <2>1 DEF LastHolds, TypeOK
<1>8. SoleHolds'
  BY <1>1 DEF SoleHolds, TypeOK
<1>9. UniqueIsSole'
  <2> SUFFICES ASSUME NEW u \in Thread, sole'[u] # Null
               PROVE  Tokens(loc[sole[u]])' = {sole'[u]}
    BY DEF UniqueIsSole
  <2>1. sole'[u] = sole[u] /\ sole[u] # Null /\ loc' = loc
    BY <1>1 DEF TypeOK
  <2>2. loc[sole[u]] \in Obj
    BY <2>1 DEF SoleHolds, TypeOK, Loc
  <2> QED
    BY <1>2, <2>1, <2>2 DEF UniqueIsSole
<1> QED
  BY <1>3, <1>4, <1>5, <1>6, <1>7, <1>8, <1>9

-----------------------------------------------------------------------------
\* The invariant is inductive: one action at a time.
LEMMA StepInv == IInv /\ [Next]_vars => IInv'
<1> SUFFICES ASSUME IInv, [Next]_vars PROVE IInv'
  OBVIOUS
<1>1. TypeOK'
  BY TypeStep DEF IInv
<1> USE <1>1
<1>2. CASE UNCHANGED vars
  BY <1>2, QuietStep DEF vars
<1>3. ASSUME NEW t \in Thread, NEW l \in Local, IsUnique(t, l) PROVE IInv'
  BY <1>3, QuietStep DEF IsUnique, Unshared, Running, IInv, TypeOK
<1>4. ASSUME NEW t \in Thread, RetainAbort(t) \/ ReleaseAbort(t) PROVE IInv'
  BY <1>4, QuietStep DEF RetainAbort, ReleaseAbort
<1>5. ASSUME NEW t \in Thread, ReleaseReturn(t) PROVE IInv'
  BY <1>5, QuietStep DEF ReleaseReturn, IInv, TypeOK
<1> QED
  BY <1>2, <1>3, <1>4, <1>5, AllocStep, RetainAddStep, RetainReturnStep,
     ReleaseSubStep, ReleaseLastStep, FreeStep
  DEF Next, Step, Return

\* In every interleaving of retain and release by any number of threads, a
\* count is the number of references to its block modulo the word.
THEOREM CountCorrect == Spec => []CountIsExact
<1>1. IInv => CountIsExact
  BY DEF IInv
<1> QED
  BY InitInv, StepInv, <1>1, PTL DEF Spec

\* No reference a program can follow points to a block being destroyed or
\* freed, whatever other threads release meanwhile.
THEOREM ReferencesCorrect == Spec => []NoDanglingReference
<1>1. IInv => NoDanglingReference
  BY DEF IInv
<1> QED
  BY InitInv, StepInv, <1>1, PTL DEF Spec

\* A block is destroyed by one activation of deinit_fn, in one thread.
THEOREM DestructionCorrect == Spec => []DestroyedOnce
<1>1. IInv => DestroyedOnce
  BY DEF IInv
<1> QED
  BY InitInv, StepInv, <1>1, PTL DEF Spec

\* is_unique answers 1 only for the sole reference, and stays right until its
\* thread calls the runtime again.
THEOREM UniqueCorrect == Spec => []UniqueIsSole
<1>1. IInv => UniqueIsSole
  BY DEF IInv
<1> QED
  BY InitInv, StepInv, <1>1, PTL DEF Spec

\* retain and release only ever touch the count of a block that malloc has
\* handed out and free has not taken back.
THEOREM TouchCorrect == Spec => CountsTouchAllocatedOnly
<1>1. ASSUME IInv, [Next]_vars, NEW o \in Obj, refcount'[o] # refcount[o]
      PROVE  heap[o] # "free" \/ (heap'[o] = "live" /\ refcount'[o] = 1)
  <2>1. ASSUME NEW t \in Thread, NEW l \in Local, NEW p \in Obj, Alloc(t, l, p)
        PROVE  heap'[o] = "live" /\ refcount'[o] = 1
    BY <1>1, <2>1 DEF Alloc, FirstCount, IInv, TypeOK
  <2>2. ASSUME NEW t \in Thread, NEW p \in Obj, NEW d \in Loc,
               RetainAdd(t, p, d)
        PROVE  heap[o] # "free"
    <3>1. p = o
      BY <1>1, <2>2 DEF RetainAdd, IInv, TypeOK
    <3> QED
      BY <1>1, <2>2, <3>1, Reachable DEF RetainAdd
  <2>3. ASSUME NEW t \in Thread, NEW l \in Loc, ReleaseSub(t, l)
        PROVE  heap[o] # "free"
    <3>1. o = loc[l]
      BY <1>1, <2>3 DEF ReleaseSub, IInv, TypeOK
    <3> QED
      BY <1>1, <2>3, <3>1 DEF ReleaseSub, IInv, NoDanglingReference
  <2>4. CASE refcount' = refcount
    BY <1>1, <2>4
  <2> QED
    BY <1>1, <2>1, <2>2, <2>3, <2>4
    DEF Next, Step, Return, vars, RetainReturn, RetainAbort, ReleaseReturn,
        ReleaseAbort, ReleaseLast, Free, IsUnique
<1>2. IInv /\ [Next]_vars =>
        [\A o \in Obj : refcount'[o] # refcount[o] =>
           heap[o] # "free" \/ (heap'[o] = "live" /\ refcount'[o] = 1)]_vars
  BY <1>1
<1> QED
  BY InitInv, StepInv, <1>2, PTL DEF Spec, CountsTouchAllocatedOnly
=============================================================================
